---------------------------- MODULE VipMembership ----------------------------
(***************************************************************************)
(* Paid VIP membership of one user: purchase, claimDaily, hasActive and    *)
(* processExpiryJob of src/services/vip-membership.service.ts, with the    *)
(* expiry queue and the cached state.                                      *)
(*                                                                         *)
(* A purchase adds its period to what is left, in a transaction that the   *)
(* lock on the buyer's coin wallet puts in order with other purchases.  It *)
(* then refreshes the cache and replaces the expiry job, outside that      *)
(* order.  The unit of time is the UTC day.                                *)
(*                                                                         *)
(* The badge is computed from the list of purchases in (createdAt, id)     *)
(* order.  createdAt is given by @default(now()), by the clock of the      *)
(* server or at the start of the transaction, and not in the order of the  *)
(* lock: it puts a purchase after those committed before its transaction   *)
(* began, and on either side of those that overlap with it.                *)
(***************************************************************************)
EXTENDS JobQueue, Sequences

CONSTANTS
    Buyers,      \* purchase and claim requests in flight at once
    VipKeys,     \* idempotency keys sent by the client
    VipDays,     \* periodDays of each tier
    VipCap,      \* VIP_DURATION_CAP_DAYS
    VipEnd,      \* bound on the clock
    MaxVipAsked  \* bound on the requests

VipTiers == {"DIAMOND", "SVIP"}

ASSUME VipAssumption ==
    /\ VipKeys # {}
    /\ VipDays \in [VipTiers -> Nat \ {0}]
    /\ VipCap \in Nat
    /\ VipEnd \in Nat
    /\ MaxVipAsked \in Nat

VARIABLES
    vipNow,
    expiresAt,   \* vipSubscriptionExpiresAt; 0 before the first purchase
    vipActive,   \* vipSubscriptionActive
    purchases,   \* vip_membership_purchases, each with its debit, in order
    place,       \* the position of each purchase in (createdAt, id) order
    vipCache,    \* vipm:active: nothing, an expiry, or 0 for "null"
    vipJob,      \* job vipm-expiry-<userId>
    expiry,      \* the handler of that job: "idle" or "write"
    grants,      \* the days of vip_daily_claims, each with its credit
    buyer,       \* what each request is doing
    vipAsked     \* requests so far

vipVars == <<vipNow, expiresAt, vipActive, purchases, place, vipCache,
             vipJob, expiry, grants, buyer, vipAsked>>

NoCache == -1

Purchase == [key : VipKeys, tier : VipTiers, at : Nat, before : Nat, after : Nat]

\* seen: of a purchase, how many were committed when it began; of a claim,
\* the moment of its check.
Buyer == [pc : {"idle", "pay", "refresh", "remove", "enqueue", "today", "grant"},
          key : VipKeys, tier : VipTiers, seen : Nat, day : Nat]

\* Times, rows and requests are of the kinds the schema allows.
VipTypeOK ==
    /\ vipNow \in 0..VipEnd
    /\ expiresAt \in Nat
    /\ vipActive \in BOOLEAN
    /\ purchases \in Seq(Purchase)
    /\ place \in Seq(Nat)
    /\ vipCache \in Nat \cup {NoCache}
    /\ vipJob \in Job(Nat)
    /\ expiry \in {"idle", "write"}
    /\ grants \subseteq Nat
    /\ buyer \in [Buyers -> Buyer]
    /\ vipAsked \in 0..MaxVipAsked

IdleBuyer == [pc |-> "idle", key |-> CHOOSE k \in VipKeys : TRUE,
              tier |-> "SVIP", seen |-> 0, day |-> 0]

VipInit ==
    /\ vipNow = 0
    /\ expiresAt = 0
    /\ vipActive = FALSE
    /\ purchases = <<>>
    /\ place = <<>>
    /\ vipCache = NoCache
    /\ vipJob = NoJob
    /\ expiry = "idle"
    /\ grants = {}
    /\ buyer = [b \in Buyers |-> IdleBuyer]
    /\ vipAsked = 0

\* computeProposedExpiresAt: the period starts where the current one ends.
Proposed(current, now, days) ==
    (IF current > now THEN current ELSE now) + days

\* assertWithinCap.
WithinCap(proposed, now) == proposed <= now + VipCap

KeyUsed(k) == \E i \in 1..Len(purchases) : purchases[i].key = k

\* vipSubscriptionExpiresAt after the first n purchases.
ExpiryAfter(n) == IF n = 0 THEN 0 ELSE purchases[n].after

-----------------------------------------------------------------------------
(* resolveVipDisplayState over the first n purchases, which is what the    *)
(* primary has (n = all of them) or a replica that is behind.              *)

OfTier(tier, n) == {i \in 1..n : purchases[i].tier = tier}

\* Variant: the end of the first SVIP purchase in the list.
LastSvipEndFirst(n) ==
    LET svips == OfTier("SVIP", n)
    IN IF svips = {} THEN 0
       ELSE purchases[CHOOSE i \in svips : \A j \in svips : place[i] <= place[j]].after

\* lastSvipEnd: the end of the last SVIP purchase in the list.
LastSvipEnd(n) ==
    LET svips == OfTier("SVIP", n)
    IN IF svips = {} THEN 0
       ELSE purchases[CHOOSE i \in svips : \A j \in svips : place[j] <= place[i]].after

\* lastVisibleDiamondEnd, as far as it is after now: Diamonds whose end is on
\* or before the last SVIP end are skipped.
DiamondShows(n) ==
    \E i \in OfTier("DIAMOND", n) :
        purchases[i].after > LastSvipEnd(n) /\ vipNow < purchases[i].after

DisplayTier(n) ==
    IF vipNow < LastSvipEnd(n) THEN "SVIP"
    ELSE IF DiamondShows(n) THEN "DIAMOND"
    ELSE "none"

-----------------------------------------------------------------------------
(* The cache.                                                              *)

\* writeMembershipCache: without time left, or without a badge, the state is
\* written as "not active" (0).
CacheOf(n, m) ==
    IF ExpiryAfter(n) > vipNow /\ DisplayTier(m) # "none" THEN ExpiryAfter(n) ELSE 0

\* The state as the replica has it, and what is cached for it: the purchases
\* are read after the state, and may be more.
Cached(n) == {CacheOf(n, m) : m \in n..Len(purchases)}

WriteCache == vipCache' \in UNION {Cached(n) : n \in 0..Len(purchases)}

-----------------------------------------------------------------------------
(* purchase.                                                               *)

\* The read at the start of the transaction, which only decides which error
\* comes first.
PreRead(b, k, t) ==
    /\ buyer[b].pc = "idle"
    /\ vipAsked < MaxVipAsked /\ vipAsked' = vipAsked + 1
    /\ WithinCap(Proposed(expiresAt, vipNow, VipDays[t]), vipNow)
    /\ buyer' = [buyer EXCEPT ![b] = [IdleBuyer EXCEPT !.pc = "pay", !.key = k,
                                                       !.tier = t,
                                                       !.seen = Len(purchases)]]
    /\ UNCHANGED <<vipNow, expiresAt, vipActive, purchases, place, vipCache,
                   vipJob, expiry, grants>>

\* Variant: the state read before the wallet lock is used after it.
StackBaseStale(b) == ExpiryAfter(buyer[b].seen)

\* The read that counts comes after the debit, under the wallet lock.
StackBase(b) == expiresAt

\* The new purchase is listed at position p, after those that were committed
\* when its transaction began.
ListAt(b, p) ==
    /\ \A i \in 1..Len(purchases) : i <= buyer[b].seen => place[i] < p
    /\ place' = Append([i \in 1..Len(purchases) |->
                           IF place[i] >= p THEN place[i] + 1 ELSE place[i]], p)

Paid(k) == [IdleBuyer EXCEPT !.pc = "refresh", !.key = k]

\* The transaction from the debit on.  A key already used replays the debit
\* and finds its purchase: nothing is written.  Too few coins, or a stack
\* beyond the cap, rolls back.
Pay(b) ==
    /\ buyer[b].pc = "pay"
    /\ LET k == buyer[b].key
           t == buyer[b].tier
           proposed == Proposed(StackBase(b), vipNow, VipDays[t])
       IN \/ /\ KeyUsed(k)
             /\ buyer' = [buyer EXCEPT ![b] = Paid(k)]
             /\ UNCHANGED <<expiresAt, vipActive, purchases, place>>
          \/ /\ ~KeyUsed(k)
             /\ WithinCap(proposed, vipNow)
             /\ expiresAt' = proposed
             /\ vipActive' = TRUE
             /\ purchases' = Append(purchases,
                                    [key |-> k, tier |-> t, at |-> vipNow,
                                     before |-> expiresAt, after |-> proposed])
             /\ \E p \in 1..(Len(purchases) + 1) : ListAt(b, p)
             /\ buyer' = [buyer EXCEPT ![b] = Paid(k)]
          \/ /\ ~KeyUsed(k)
             /\ buyer' = [buyer EXCEPT ![b] = IdleBuyer]
             /\ UNCHANGED <<expiresAt, vipActive, purchases, place>>
    /\ UNCHANGED <<vipNow, vipCache, vipJob, expiry, grants, vipAsked>>

Refresh(b) ==
    /\ buyer[b].pc = "refresh"
    /\ WriteCache
    /\ buyer' = [buyer EXCEPT ![b].pc = "remove"]
    /\ UNCHANGED <<vipNow, expiresAt, vipActive, purchases, place, vipJob,
                   expiry, grants, vipAsked>>

\* removeVipMembershipExpiry fails while the job runs, and so does the
\* request; the purchase stays.  (It is called twice in a row; the second call
\* can only find what the first has left or missed.)
Remove(b) ==
    /\ buyer[b].pc = "remove"
    /\ IF JobRemovable(vipJob)
       THEN /\ vipJob' = NoJob
            /\ buyer' = [buyer EXCEPT ![b].pc = "enqueue"]
       ELSE /\ buyer' = [buyer EXCEPT ![b] = IdleBuyer]
            /\ UNCHANGED vipJob
    /\ UNCHANGED <<vipNow, expiresAt, vipActive, purchases, place, vipCache,
                   expiry, grants, vipAsked>>

\* The expiry that the request's own purchase led to.
AfterOf(k) ==
    LET i == CHOOSE j \in 1..Len(purchases) : purchases[j].key = k
    IN purchases[i].after

\* enqueueVipMembershipExpiry.
Enqueue(b) ==
    /\ buyer[b].pc = "enqueue"
    /\ vipJob' = JobAdd(vipJob, AfterOf(buyer[b].key))
    /\ buyer' = [buyer EXCEPT ![b] = IdleBuyer]
    /\ UNCHANGED <<vipNow, expiresAt, vipActive, purchases, place, vipCache,
                   expiry, grants, vipAsked>>

\* The process stops after the commit; before it, it leaves nothing behind.
BuyerCrash(b) ==
    /\ buyer[b].pc \in {"refresh", "remove", "enqueue"}
    /\ buyer' = [buyer EXCEPT ![b] = IdleBuyer]
    /\ UNCHANGED <<vipNow, expiresAt, vipActive, purchases, place, vipCache,
                   vipJob, expiry, grants, vipAsked>>

-----------------------------------------------------------------------------
(* hasActive and claimDaily.                                               *)

\* Without an entry, which may have expired at any moment, the state is read
\* and cached.
HasActive ==
    /\ WriteCache
    /\ UNCHANGED <<vipNow, expiresAt, vipActive, purchases, place, vipJob,
                   expiry, grants, buyer, vipAsked>>

\* Variant: claimDaily does not ask hasActive.
MayClaimAlways(e) == TRUE

MayClaim(e) == e > vipNow

\* claimDaily asks hasActive: the cache, or the replica when the entry is not
\* there or has expired; the badge does not matter to that answer.
DailyCheck(b) ==
    /\ buyer[b].pc = "idle"
    /\ vipAsked < MaxVipAsked /\ vipAsked' = vipAsked + 1
    /\ \/ /\ vipCache # NoCache /\ MayClaim(vipCache)
          /\ UNCHANGED vipCache
       \/ \E n \in 0..Len(purchases) : MayClaim(ExpiryAfter(n)) /\ vipCache' \in Cached(n)
    /\ buyer' = [buyer EXCEPT ![b] = [IdleBuyer EXCEPT !.pc = "today",
                                                       !.seen = vipNow]]
    /\ UNCHANGED <<vipNow, expiresAt, vipActive, purchases, place, vipJob,
                   expiry, grants>>

\* When hasActive has answered, now is read and gives the day of the claim.
DailyToday(b) ==
    /\ buyer[b].pc = "today"
    /\ buyer' = [buyer EXCEPT ![b].pc = "grant", ![b].day = vipNow]
    /\ UNCHANGED <<vipNow, expiresAt, vipActive, purchases, place, vipCache,
                   vipJob, expiry, grants, vipAsked>>

\* vip_daily_claims has the primary key (user_id, claim_date): a second claim
\* of the day adds nothing.
DailyGrant(b) ==
    /\ buyer[b].pc = "grant"
    /\ grants' = grants \cup {buyer[b].day}
    /\ buyer' = [buyer EXCEPT ![b] = IdleBuyer]
    /\ UNCHANGED <<vipNow, expiresAt, vipActive, purchases, place, vipCache,
                   vipJob, expiry, vipAsked>>

-----------------------------------------------------------------------------
(* processExpiryJob.                                                       *)

\* A membership that has not ended is left alone.
ExpiryRead ==
    /\ expiry = "idle"
    /\ JobReady(vipJob, vipNow)
    /\ IF expiresAt # 0 /\ expiresAt <= vipNow
       THEN expiry' = "write" /\ vipJob' = JobTaken(vipJob)
       ELSE vipJob' = [vipJob EXCEPT !.state = "kept"] /\ UNCHANGED expiry
    /\ UNCHANGED <<vipNow, expiresAt, vipActive, purchases, place, vipCache,
                   grants, buyer, vipAsked>>

\* Variant: update by id, without the condition on the expiry.
StillExpiredAlways == TRUE

\* updateMany where vipSubscriptionExpiresAt <= now.
StillExpired == expiresAt <= vipNow

\* The conditional write and the refresh of the cache.
ExpiryWrite ==
    /\ expiry = "write"
    /\ vipActive' = (vipActive /\ ~StillExpired)
    /\ WriteCache
    /\ expiry' = "idle"
    /\ vipJob' = [vipJob EXCEPT !.state = "kept"]
    /\ UNCHANGED <<vipNow, expiresAt, purchases, place, grants, buyer, vipAsked>>

\* A failed attempt goes back to the queue (attempts: 3).
ExpiryFails ==
    /\ expiry = "write"
    /\ expiry' = "idle"
    /\ vipJob' = [vipJob EXCEPT !.state = "delayed"]
    /\ UNCHANGED <<vipNow, expiresAt, vipActive, purchases, place, vipCache,
                   grants, buyer, vipAsked>>

VipDay ==
    /\ vipNow < VipEnd
    /\ vipNow' = vipNow + 1
    /\ UNCHANGED <<expiresAt, vipActive, purchases, place, vipCache, vipJob,
                   expiry, grants, buyer, vipAsked>>

VipNext ==
    \/ \E b \in Buyers, k \in VipKeys, t \in VipTiers : PreRead(b, k, t)
    \/ \E b \in Buyers : \/ Pay(b) \/ Refresh(b) \/ Remove(b) \/ Enqueue(b)
                         \/ BuyerCrash(b)
                         \/ DailyCheck(b) \/ DailyToday(b) \/ DailyGrant(b)
    \/ HasActive
    \/ ExpiryRead \/ ExpiryWrite \/ ExpiryFails
    \/ VipDay

VipSpec == VipInit /\ [][VipNext]_vipVars

-----------------------------------------------------------------------------

\* A membership with time left is active: the expiry job never cuts short a
\* purchase committed between its read and its write.
VipNotCutShort == expiresAt > vipNow => vipActive

\* Purchases stack: each begins where the one before it ends, or at the
\* moment of purchase when that has passed, so that concurrent purchases
\* lose no paid day; and no key pays twice.
VipStacks ==
    /\ \A i \in 1..Len(purchases) :
         LET p == purchases[i]
             left == IF i = 1 THEN 0 ELSE purchases[i - 1].after
         IN /\ p.before = left
            /\ p.after = Proposed(left, p.at, VipDays[p.tier])
            /\ \A j \in 1..Len(purchases) : purchases[j].key = p.key => j = i
    /\ expiresAt = IF purchases = <<>> THEN 0
                   ELSE purchases[Len(purchases)].after

\* SVIP purchases are listed in the order in which they were stacked.
SvipInOrder ==
    \A i, j \in OfTier("SVIP", Len(purchases)) : i < j => place[i] < place[j]

\* The badge, computed from the list of purchases, agrees with the stored
\* expiry: there is none when the membership is over; and unless two SVIP
\* purchases that overlapped are listed the other way round, there is one as
\* long as the membership lasts, and it is SVIP as long as any SVIP purchase
\* has time left.
BadgeMatchesExpiry ==
    LET n == Len(purchases)
    IN /\ DisplayTier(n) # "none" => expiresAt > vipNow
       /\ SvipInOrder =>
            /\ expiresAt > vipNow => DisplayTier(n) # "none"
            /\ (\E i \in OfTier("SVIP", n) : purchases[i].after > vipNow)
                 => DisplayTier(n) = "SVIP"

\* A claim that has come as far as its grant was checked, no later than the
\* day it is paid for, at a moment that a purchase covered, however stale the
\* cache and the replica are.  (The day itself may lie after the membership,
\* when midnight passes between the check and the reading of the day.)
GrantsArePaid ==
    \A b \in Buyers : buyer[b].pc = "grant" =>
        /\ buyer[b].seen <= buyer[b].day
        /\ \E i \in 1..Len(purchases) :
             purchases[i].at <= buyer[b].seen /\ buyer[b].seen < purchases[i].after

=============================================================================
