-------------------------- MODULE NormalHostReward --------------------------
(* The daily reward of one eligible host: every hour streamed opens a slot   *)
(* that pays the rate of the host's tier, and a host without a tier has one  *)
(* flat basic reward.  The tier of a day is the higher of a floor, recorded  *)
(* once for the day from the receiving of the days before it, and the tier   *)
(* reached so far; an admin may replace the ladder of tiers at any time.     *)
(* Two parties record the floor: the job of 00:00 UTC, and the first request *)
(* of the day when the job has not come by.                                  *)
(* Source: services/normal-host-reward.service.ts,                           *)
(* repositories/normalHostReward.repository.ts.                              *)
EXTENDS Integers, FiniteSetsExt

CONSTANTS
    RewardReqs,    \* status and claim requests in flight at once
    Ladders,       \* the ladders an admin sets: sets of tiers
    FirstLadder,
    NoTier, NoDayTier,
    BasicPoints,   \* pointsAmount of the basic reward
    LastDay, MaxReceived, MaxHours  \* bounds: days, receiving and hours a day

Days == 0..LastDay
Tiers == UNION Ladders
\* Slot 0 stands for the basic reward, which has a table of its own.
Slots == 0..MaxHours

\* validateTiers: a ladder is a list of tiers of different thresholds, with
\* positive rates; so any part of it has a highest tier.
ASSUME RewardAssumption ==
    /\ LastDay \in Nat /\ MaxReceived \in Nat /\ MaxHours \in Nat
    /\ BasicPoints \in Nat \ {0}
    /\ FirstLadder \in Ladders
    /\ \A t \in Tiers : /\ t.threshold \in Nat /\ t.rate \in Nat \ {0}
                        /\ t.cap \in Nat /\ t.window \in Nat
    /\ NoTier \notin Tiers /\ NoDayTier \notin Tiers /\ NoTier # NoDayTier
    /\ \A l \in Ladders : \A part \in SUBSET l : part # {} =>
          \E t \in part : \A u \in part : u.threshold <= t.threshold

VARIABLES
    hostDay,        \* today
    received,       \* qualifying receiving of each day
    streamed,       \* effective live hours of each day
    ladder,         \* the tiers of the configuration
    dayTier,        \* normal_host_daily_tiers: the floor of each day
    rewardClaims,   \* the points of each claim row, 0 where there is none
    rewardCredits,  \* the points credited under each idempotency key
    rewardReq,      \* the requests
    tierJob         \* the run of the job

rewardVars == <<hostDay, received, streamed, ladder, dayTier, rewardClaims,
                rewardCredits, rewardReq, tierJob>>

IdleReward == [pc |-> "idle", day |-> 0, slot |-> 0, ladder |-> FirstLadder,
               live |-> NoTier, tier |-> NoTier]
IdleJob == [pc |-> "idle", day |-> 0, tier |-> NoTier]

RewardTypeOK ==
    /\ hostDay \in Days
    /\ received \in [Days -> 0..MaxReceived]
    /\ streamed \in [Days -> 0..MaxHours]
    /\ ladder \in Ladders
    /\ dayTier \in [Days -> Tiers \cup {NoTier, NoDayTier}]
    /\ rewardClaims \in [Days \X Slots -> Nat]
    /\ rewardCredits \in [Days \X Slots -> Nat]
    /\ rewardReq \in [RewardReqs ->
          [pc : {"idle", "asked", "floor", "insert", "resolved", "commit"},
           day : Days, slot : Slots, ladder : Ladders,
           live : Tiers \cup {NoTier}, tier : Tiers \cup {NoTier}]]
    /\ tierJob \in [pc : {"idle", "insert"}, day : Days, tier : Tiers \cup {NoTier}]

RewardInit ==
    /\ hostDay = 0
    /\ received = [d \in Days |-> 0]
    /\ streamed = [d \in Days |-> 0]
    /\ ladder = FirstLadder
    /\ dayTier = [d \in Days |-> NoDayTier]
    /\ rewardClaims = [k \in Days \X Slots |-> 0]
    /\ rewardCredits = [k \in Days \X Slots |-> 0]
    /\ rewardReq = [r \in RewardReqs |-> IdleReward]
    /\ tierJob = IdleJob

-----------------------------------------------------------------------------
(* Tiers *)

\* getQualifyingEarningsForRange, over whole days.
Earned(from, to) == MapThenSumSet(LAMBDA d : received[d], {d \in Days : from <= d /\ d <= to})

\* resolveCurrentTier over the windows of computeEarningsByWindow that begin
\* before day and end with the day last: the highest tier that is met.
CurrentTier(tiers, day, last) ==
    LET met == {t \in tiers : Earned(day - t.window, last) >= t.threshold}
    IN  IF met = {} THEN NoTier
        ELSE CHOOSE t \in met : \A u \in met : u.threshold <= t.threshold

HigherTier(a, b) ==
    CASE a = NoTier -> b
      [] a # NoTier /\ b = NoTier -> a
      [] OTHER -> IF b.threshold > a.threshold THEN b ELSE a

\* insertDailyTiers: createMany with skipDuplicates.
InsertDailyTier(day, tier) ==
    dayTier' = [dayTier EXCEPT ![day] = IF @ = NoDayTier THEN tier ELSE @]

\* Variant: getDayTier returns what it computed.
FloorAsComputed(own, row) == own

\* What getDayTier returns after its insert: the row it reads again.
FloorAfterInsert(own, row) == row

-----------------------------------------------------------------------------
(* getStatus, claimReward and claimBasicReward *)

\* loadEligibilityAndInputs: the configuration.  Which slot is claimed, if any,
\* makes no difference before ClaimCheck.
RewardAsk(r) ==
    /\ rewardReq[r].pc = "idle"
    /\ rewardReq' = [rewardReq EXCEPT ![r] = [IdleReward EXCEPT
          !.pc = "asked", !.ladder = ladder]]
    /\ UNCHANGED <<hostDay, received, streamed, ladder, dayTier, rewardClaims,
                   rewardCredits, tierJob>>

\* Then now is read.  It gives the day, and the end of the windows of the live
\* tier, which is computed side by side with the floor.
RewardNow(r) ==
    LET q == rewardReq[r] IN
    /\ q.pc = "asked"
    /\ rewardReq' = [rewardReq EXCEPT ![r] = [q EXCEPT
          !.pc = "floor", !.day = hostDay,
          !.live = CurrentTier(q.ladder, hostDay, hostDay)]]
    /\ UNCHANGED <<hostDay, received, streamed, ladder, dayTier, rewardClaims,
                   rewardCredits, tierJob>>

\* resolveTodayTier: the higher of the floor and the live tier.
ReqResolves(r, floor) ==
    LET q == rewardReq[r] IN
    rewardReq' = [rewardReq EXCEPT ![r] = [IdleReward EXCEPT
       !.pc = "resolved", !.day = q.day, !.tier = HigherTier(floor, q.live)]]

\* getDayTier: the recorded row, or the tier as of 00:00 UTC, computed here.
FloorRead(r) ==
    LET q == rewardReq[r] IN
    /\ q.pc = "floor"
    /\ \/ /\ dayTier[q.day] # NoDayTier
          /\ ReqResolves(r, dayTier[q.day])
       \/ /\ dayTier[q.day] = NoDayTier
          /\ rewardReq' = [rewardReq EXCEPT ![r] = [q EXCEPT
                !.pc = "insert", !.tier = CurrentTier(q.ladder, q.day, q.day - 1)]]
    /\ UNCHANGED <<hostDay, received, streamed, ladder, dayTier, rewardClaims,
                   rewardCredits, tierJob>>

FloorInsert(r) ==
    LET q == rewardReq[r] IN
    /\ q.pc = "insert"
    /\ InsertDailyTier(q.day, q.tier)
    /\ ReqResolves(r, FloorAfterInsert(q.tier, dayTier'[q.day]))
    /\ UNCHANGED <<hostDay, received, streamed, ladder, rewardClaims, rewardCredits, tierJob>>

\* The conditions of claimReward, and of claimBasicReward for slot 0, whose
\* requiredMinutes are taken to be an hour.
MayClaimSlot(q, s) ==
    IF s = 0 THEN q.tier = NoTier /\ streamed[q.day] >= 1
    ELSE q.tier # NoTier /\ s <= q.tier.cap /\ s <= streamed[q.day]

RewardPoints(q) == IF q.slot = 0 THEN BasicPoints ELSE q.tier.rate

\* Variant: the key names the day and not what is claimed of it.
RewardKeyOfDay(q) == <<q.day, 0>>

\* The idempotency key of the credit names the day and the slot.
RewardKey(q) == <<q.day, q.slot>>

\* A status was shown, or the claim was refused.
RewardEnd(r) ==
    /\ rewardReq[r].pc = "resolved"
    /\ rewardReq' = [rewardReq EXCEPT ![r] = IdleReward]
    /\ UNCHANGED <<hostDay, received, streamed, ladder, dayTier, rewardClaims,
                   rewardCredits, tierJob>>

\* The transaction finds no claim row, and goes on.
ClaimCheck(r) ==
    LET q == rewardReq[r] IN
    /\ q.pc = "resolved"
    /\ \E s \in Slots :
          /\ MayClaimSlot(q, s)
          /\ rewardClaims[<<q.day, s>>] = 0
          /\ rewardReq' = [rewardReq EXCEPT ![r].pc = "commit", ![r].slot = s]
    /\ UNCHANGED <<hostDay, received, streamed, ladder, dayTier, rewardClaims,
                   rewardCredits, tierJob>>

\* creditInTransaction pays a key once and returns the entry it finds after
\* that; the primary key of the claim row rolls back the transaction that
\* comes second.
ClaimCommit(r) ==
    LET q == rewardReq[r]
        k == <<q.day, q.slot>>
        paid == RewardKey(q)
    IN
    /\ q.pc = "commit"
    /\ IF rewardClaims[k] # 0 THEN UNCHANGED <<rewardClaims, rewardCredits>>
       ELSE /\ rewardClaims' = [rewardClaims EXCEPT ![k] = RewardPoints(q)]
            /\ rewardCredits' = [rewardCredits EXCEPT ![paid] =
                  IF @ = 0 THEN RewardPoints(q) ELSE @]
    /\ rewardReq' = [rewardReq EXCEPT ![r] = IdleReward]
    /\ UNCHANGED <<hostDay, received, streamed, ladder, dayTier, tierJob>>

-----------------------------------------------------------------------------
(* recomputeDailyTiers: the repeatable job, its catch-up at boot, a run for  *)
(* a day an admin names.                                                     *)

\* Only users with receiving in the longest window are candidates.
TierJobRead ==
    /\ tierJob.pc = "idle"
    /\ \E d \in 0..hostDay :
          /\ \E t \in ladder : Earned(d - t.window, d - 1) > 0
          /\ tierJob' = [pc |-> "insert", day |-> d, tier |-> CurrentTier(ladder, d, d - 1)]
    /\ UNCHANGED <<hostDay, received, streamed, ladder, dayTier, rewardClaims,
                   rewardCredits, rewardReq>>

TierJobInsert ==
    /\ tierJob.pc = "insert"
    /\ InsertDailyTier(tierJob.day, tierJob.tier)
    /\ tierJob' = IdleJob
    /\ UNCHANGED <<hostDay, received, streamed, ladder, rewardClaims, rewardCredits, rewardReq>>

-----------------------------------------------------------------------------
(* The host's day, and the admin *)

GiftReceived ==
    /\ received[hostDay] < MaxReceived
    /\ received' = [received EXCEPT ![hostDay] = @ + 1]
    /\ UNCHANGED <<hostDay, streamed, ladder, dayTier, rewardClaims, rewardCredits,
                   rewardReq, tierJob>>

HourStreamed ==
    /\ streamed[hostDay] < MaxHours
    /\ streamed' = [streamed EXCEPT ![hostDay] = @ + 1]
    /\ UNCHANGED <<hostDay, received, ladder, dayTier, rewardClaims, rewardCredits,
                   rewardReq, tierJob>>

\* updateConfig, whose cache entry replaces the old one.
LadderEdited ==
    /\ ladder' \in Ladders \ {ladder}
    /\ UNCHANGED <<hostDay, received, streamed, dayTier, rewardClaims, rewardCredits,
                   rewardReq, tierJob>>

Midnight ==
    /\ hostDay < LastDay
    /\ hostDay' = hostDay + 1
    /\ UNCHANGED <<received, streamed, ladder, dayTier, rewardClaims, rewardCredits,
                   rewardReq, tierJob>>

RewardNext ==
    \/ \E r \in RewardReqs : \/ RewardAsk(r) \/ FloorRead(r) \/ FloorInsert(r)
                             \/ RewardNow(r) \/ RewardEnd(r)
                             \/ ClaimCheck(r) \/ ClaimCommit(r)
    \/ TierJobRead \/ TierJobInsert
    \/ GiftReceived \/ HourStreamed \/ LadderEdited \/ Midnight

RewardSpec == RewardInit /\ [][RewardNext]_rewardVars

-----------------------------------------------------------------------------
(* Properties *)

AtLeast(t, floor) == floor # NoTier => t # NoTier /\ t.threshold >= floor.threshold

\* Whatever ladders the job and the requests of a day work from, and whichever
\* of them records the floor, the tier a status shows or a claim pays is never
\* below the floor recorded for its day.
TierNotBelowFloor ==
    \A r \in RewardReqs : rewardReq[r].pc \in {"resolved", "commit"} =>
        /\ dayTier[rewardReq[r].day] # NoDayTier
        /\ AtLeast(rewardReq[r].tier, dayTier[rewardReq[r].day])

\* What the wallet is paid agrees with the floor of the day, also when the
\* claim, the floor and the ladder change hands on the way: an hour is paid at
\* the rate of a tier that covers it and is not below the floor, and the basic
\* reward is paid only for a day that began without a tier.
PaidAtFloor ==
    \A d \in Days, s \in Slots : rewardCredits[<<d, s>>] # 0 =>
        /\ dayTier[d] # NoDayTier
        /\ IF s = 0 THEN dayTier[d] = NoTier
           ELSE \E t \in Tiers : /\ t.rate = rewardCredits[<<d, s>>] /\ s <= t.cap
                                 /\ AtLeast(t, dayTier[d])

\* The tier a request made now is given, once the floor of the day is recorded.
TierNow == HigherTier(dayTier[hostDay], CurrentTier(ladder, hostDay, hostDay))

\* getDayTier says of the live tier that "the floor guarantees it never drops
\* mid-day, even if an admin edits the ladder": within a day whose floor is
\* recorded, no step lowers the tier of the host.
TierNeverDrops ==
    [][hostDay' = hostDay /\ dayTier[hostDay] # NoDayTier
         => AtLeast(TierNow', TierNow)]_rewardVars

=============================================================================
