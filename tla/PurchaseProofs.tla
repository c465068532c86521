--------------------------- MODULE PurchaseProofs ---------------------------
(***************************************************************************)
(* What a user buys for a time, for every value of the constants: VIP      *)
(* membership, the items of the store and rare ids.  The three share no    *)
(* rows, and a theorem is about one of them.                               *)
(***************************************************************************)
EXTENDS VipMembership, Store, RareIds, TLAPS

(***************************************************************************)
(* VipMembership.  VipNotCutShort, VipStacks, BadgeMatchesExpiry and       *)
(* GrantsArePaid for any number of requests and keys and any periods, with *)
(* a lagging replica, a cache that is written out of order and an expiry   *)
(* job that fails and runs again.                                          *)
(*                                                                         *)
(* All four follow from what is true of the list of purchases: their ends  *)
(* rise, and the stored expiry is the last of them.  The cache and the     *)
(* replica only ever hold the end of some purchase, or nothing.  Wherever  *)
(* a purchase is listed, the list has a last SVIP purchase.                *)
(***************************************************************************)

\* Where the purchase at place i of a list begins to count.
Left(p, i) == IF i = 1 THEN 0 ELSE p[i - 1].after

Chain(p) ==
    \A i \in 1..Len(p) : /\ p[i].before = Left(p, i)
                         /\ p[i].after = Proposed(Left(p, i), p[i].at, VipDays[p[i].tier])

Once(p) == \A i, j \in 1..Len(p) : p[j].key = p[i].key => j = i

Rising(p) == \A i, j \in 1..Len(p) : i < j => p[i].after < p[j].after

\* The expiry that a list of purchases leads to.
Last(p) == IF Len(p) = 0 THEN 0 ELSE p[Len(p)].after

\* The list of purchases at time n.
ListOK(p, n) ==
    /\ p \in Seq(Purchase)
    /\ Chain(p)
    /\ Once(p)
    /\ Rising(p)
    /\ \A i \in 1..Len(p) : p[i].at <= n

\* The SVIP purchases of a list, and that one of them is listed last.
Svips(p) == {i \in 1..Len(p) : p[i].tier = "SVIP"}
Headed(p, f) ==
    Svips(p) = {} \/ \E i \in Svips(p) : \A j \in Svips(p) : f[j] <= f[i]

PlacesOK(p, f) ==
    /\ f \in Seq(Nat)
    /\ Len(f) = Len(p)
    /\ Headed(p, f)

\* The moment lies in the period of some purchase.
Covered(p, t) == \E j \in 1..Len(p) : p[j].at <= t /\ t < p[j].after

\* What the cache may hold.
Known(p) == {NoCache, 0} \cup {p[i].after : i \in 1..Len(p)}

\* A claim was checked at a moment of the past that a purchase covered.
ClaimOK(p, n, q) ==
    /\ q.pc = "today" => Covered(p, q.seen) /\ q.seen <= n
    /\ q.pc = "grant" => Covered(p, q.seen) /\ q.seen <= q.day

BuyersOK(p, n, f) ==
    /\ f \in [Buyers -> Buyer]
    /\ \A b \in Buyers : ClaimOK(p, n, f[b])

VipInv ==
    /\ vipNow \in Nat
    /\ ListOK(purchases, vipNow)
    /\ PlacesOK(purchases, place)
    /\ expiresAt = Last(purchases)
    /\ vipActive \in BOOLEAN
    /\ VipNotCutShort
    /\ vipCache \in Known(purchases)
    /\ BuyersOK(purchases, vipNow, buyer)

-----------------------------------------------------------------------------

\* The fields of a purchase in a list, and its period.
LEMMA PurchaseFields ==
    ASSUME NEW p \in Seq(Purchase), NEW i \in 1..Len(p)
    PROVE  /\ p[i] \in Purchase /\ p[i].key \in VipKeys /\ p[i].at \in Nat
           /\ p[i].before \in Nat /\ p[i].after \in Nat
           /\ p[i].tier \in VipTiers /\ VipDays[p[i].tier] \in Nat \ {0}
  <1>1. p[i] \in Purchase
    OBVIOUS
  <1>2. /\ p[i].key \in VipKeys /\ p[i].at \in Nat /\ p[i].tier \in VipTiers
        /\ p[i].before \in Nat /\ p[i].after \in Nat
    BY <1>1 DEF Purchase
  <1> QED BY <1>1, <1>2, VipAssumption

\* The expiry of a list bounds the ends in it, and is positive with one.
LEMMA LastFacts ==
    ASSUME NEW p, NEW n \in Nat, ListOK(p, n)
    PROVE  /\ Last(p) \in Nat
           /\ \A i \in 1..Len(p) : p[i].after <= Last(p)
           /\ \A i \in 1..Len(p) : i # Len(p) => p[i].after < Last(p)
  <1>1. p \in Seq(Purchase) /\ Len(p) \in Nat /\ Rising(p)
    BY DEF ListOK
  <1>2. \A i \in 1..Len(p) : p[i].after \in Nat
    BY <1>1, PurchaseFields
  <1>3. CASE Len(p) = 0
    BY <1>3 DEF Last
  <1>4. CASE Len(p) # 0
    <2>1. Len(p) \in 1..Len(p) /\ Last(p) = p[Len(p)].after
      BY <1>1, <1>4 DEF Last
    <2>2. \A i \in 1..Len(p) : i # Len(p) => i < Len(p)
      BY <1>1
    <2>3. \A i \in 1..Len(p) : i # Len(p) => p[i].after < Last(p)
      BY <1>1, <2>1, <2>2 DEF Rising
    <2> QED BY <1>2, <2>1, <2>3
  <1> QED BY <1>3, <1>4

\* A purchase starts at the current expiry or at its moment, whichever is later.
LEMMA ProposedFacts ==
    ASSUME NEW current \in Nat, NEW now \in Nat, NEW days \in Nat \ {0}
    PROVE  /\ Proposed(current, now, days) \in Nat
           /\ current < Proposed(current, now, days)
           /\ now < Proposed(current, now, days)
  BY DEF Proposed

\* A purchase under a fresh key, added at its moment.
LEMMA Buying ==
    ASSUME NEW p, NEW n \in Nat, ListOK(p, n), NEW x \in Purchase,
           x.before = Last(p), x.at = n,
           x.after = Proposed(Last(p), n, VipDays[x.tier]),
           \A i \in 1..Len(p) : p[i].key # x.key
    PROVE  /\ ListOK(Append(p, x), n)
           /\ Last(Append(p, x)) = x.after
           /\ Known(p) \subseteq Known(Append(p, x))
           /\ \A t : Covered(p, t) => Covered(Append(p, x), t)
  <1> DEFINE e == Append(p, x)
  <1>1. p \in Seq(Purchase) /\ Len(p) \in Nat
    BY DEF ListOK
  <1>2. /\ e \in Seq(Purchase) /\ Len(e) = Len(p) + 1
        /\ e[Len(e)] = x
        /\ \A i \in 1..Len(p) : e[i] = p[i]
    BY <1>1
  <1> HIDE DEF e
  <1>3. /\ Len(e) \in 1..Len(e) /\ Len(e) # 0 /\ Len(e) \notin 1..Len(p)
        /\ \A i \in 1..Len(p) : i \in 1..Len(e)
        /\ \A i \in 1..Len(e) : i \in 1..Len(p) \/ i = Len(e)
    BY <1>1, <1>2
  <1>4. /\ x.key \in VipKeys /\ x.at \in Nat /\ x.after \in Nat
        /\ VipDays[x.tier] \in Nat \ {0}
    BY VipAssumption DEF Purchase
  <1>5. /\ Last(p) \in Nat /\ \A i \in 1..Len(p) : p[i].after <= Last(p)
    BY LastFacts
  <1>6. Last(p) < x.after
    BY <1>4, <1>5, ProposedFacts
  <1>7. \A i \in 1..Len(p) : p[i].after \in Nat /\ p[i].after < x.after
    <2>1. \A i \in 1..Len(p) : p[i].after \in Nat
      BY <1>1, PurchaseFields
    <2> QED BY <1>4, <1>5, <1>6, <2>1
  <1>8. Last(e) = x.after
    BY <1>2, <1>3 DEF Last
  <1>9. Chain(e)
    <2>1. \A i \in 1..Len(p) : Left(e, i) = Left(p, i)
      <3> SUFFICES ASSUME NEW i \in 1..Len(p), i # 1 PROVE e[i - 1] = p[i - 1]
        BY DEF Left
      <3>1. i - 1 \in 1..Len(p)
        BY <1>1
      <3> QED BY <1>2, <3>1
    <2>2. Left(e, Len(e)) = Last(p)
      <3>1. CASE Len(p) = 0
        BY <1>2, <3>1 DEF Left, Last
      <3>2. CASE Len(p) # 0
        <4>1. Len(e) - 1 = Len(p) /\ Len(e) # 1 /\ Len(p) \in 1..Len(p)
          BY <1>1, <1>2, <3>2
        <4> QED BY <1>2, <3>2, <4>1 DEF Left, Last
      <3> QED BY <3>1, <3>2
    <2>3. ASSUME NEW i \in 1..Len(e)
          PROVE  /\ e[i].before = Left(e, i)
                 /\ e[i].after = Proposed(Left(e, i), e[i].at, VipDays[e[i].tier])
      <3>1. CASE i \in 1..Len(p)
        BY <1>2, <2>1, <3>1 DEF ListOK, Chain
      <3>2. CASE i = Len(e)
        BY <1>2, <2>2, <3>2
      <3> QED BY <1>3, <3>1, <3>2
    <2> QED BY <2>3 DEF Chain
  <1>10. Once(e)
    BY <1>2, <1>3 DEF ListOK, Once
  <1>11. Rising(e)
    <2> SUFFICES ASSUME NEW i \in 1..Len(e), NEW j \in 1..Len(e), i < j
                 PROVE  e[i].after < e[j].after
      BY DEF Rising
    <2>1. i \in 1..Len(p)
      BY <1>1, <1>2
    <2>2. CASE j \in 1..Len(p)
      BY <1>2, <2>1, <2>2 DEF ListOK, Rising
    <2>3. CASE j = Len(e)
      BY <1>2, <1>7, <2>1, <2>3
    <2> QED BY <1>3, <2>2, <2>3
  <1>12. \A i \in 1..Len(e) : e[i].at <= n
    BY <1>2, <1>3 DEF ListOK
  <1>13. ListOK(e, n)
    BY <1>2, <1>9, <1>10, <1>11, <1>12 DEF ListOK
  <1>14. Known(p) \subseteq Known(e)
    BY <1>2, <1>3 DEF Known
  <1>15. \A t : Covered(p, t) => Covered(e, t)
    BY <1>2, <1>3 DEF Covered
  <1> QED BY <1>8, <1>13, <1>14, <1>15 DEF e

\* Positions of the list are ordered.
LEMMA NatOrder ==
    /\ \A m \in Nat : m <= m
    /\ \A m, n \in Nat : m <= n \/ n <= m
    /\ \A m, n, o \in Nat : m <= n /\ n <= o => m <= o
  OBVIOUS

\* Wherever the new purchase is listed, one SVIP purchase is the last: those
\* before it keep their order.
LEMMA Listing ==
    ASSUME NEW p \in Seq(Purchase), NEW f, PlacesOK(p, f), NEW x \in Purchase,
           NEW pos \in Nat,
           NEW g, g = Append([i \in 1..Len(p) |->
                                 IF f[i] >= pos THEN f[i] + 1 ELSE f[i]], pos)
    PROVE  PlacesOK(Append(p, x), g)
  <1> DEFINE e == Append(p, x)
             h == [i \in 1..Len(p) |-> IF f[i] >= pos THEN f[i] + 1 ELSE f[i]]
  <1>1. /\ Len(p) \in Nat /\ f \in Seq(Nat) /\ Len(f) = Len(p) /\ Headed(p, f)
        /\ \A i \in 1..Len(p) : f[i] \in Nat
    BY DEF PlacesOK
  <1>2. /\ Len(e) = Len(p) + 1 /\ e[Len(p) + 1] = x
        /\ \A i \in 1..Len(p) : e[i] = p[i]
    BY <1>1
  <1>3. h \in Seq(Nat) /\ Len(h) = Len(p)
    BY <1>1
  <1>4. /\ g \in Seq(Nat) /\ Len(g) = Len(p) + 1 /\ g[Len(p) + 1] = pos
        /\ \A i \in 1..Len(p) : g[i] = h[i]
    BY <1>1, <1>3
  <1>5. \A i \in 1..Len(p) : g[i] = IF f[i] >= pos THEN f[i] + 1 ELSE f[i]
    BY <1>4
  <1>6. \A i, j \in 1..Len(p) : f[j] <= f[i] => g[j] <= g[i]
    BY <1>1, <1>5
  <1> HIDE DEF e, h
  <1>7. \A i \in Svips(p) : i \in Svips(e) /\ i \in 1..Len(p)
    BY <1>1, <1>2 DEF Svips
  <1>8. \A i \in Svips(e) : i \in Svips(p) \/ (i = Len(p) + 1 /\ x.tier = "SVIP")
    BY <1>1, <1>2 DEF Svips
  <1>9. x.tier = "SVIP" => Len(p) + 1 \in Svips(e)
    BY <1>1, <1>2 DEF Svips
  <1>10. \A i \in Svips(p) : g[i] \in Nat
    BY <1>1, <1>5, <1>7
  <1>11. Headed(e, g)
    <2>1. CASE Svips(p) = {}
      BY <1>4, <1>8, <1>9, <2>1 DEF Headed
    <2>2. CASE Svips(p) # {}
      <3>1. PICK i \in Svips(p) : \A j \in Svips(p) : f[j] <= f[i]
        BY <1>1, <2>2 DEF Headed
      <3>2. \A j \in Svips(p) : g[j] <= g[i]
        BY <1>6, <1>7, <3>1
      <3>3. CASE x.tier # "SVIP" \/ pos <= g[i]
        <4>1. \A j \in Svips(e) : g[j] <= g[i]
          BY <1>4, <1>8, <3>2, <3>3
        <4> QED BY <1>7, <4>1 DEF Headed
      <3>4. CASE x.tier = "SVIP" /\ ~(pos <= g[i])
        <4>1. g[i] \in Nat /\ g[i] <= pos /\ pos <= pos
          BY <1>10, <3>1, <3>4, NatOrder
        <4>2. ASSUME NEW j \in Svips(p) PROVE g[j] <= pos
          <5>1. g[j] \in Nat /\ g[j] <= g[i]
            BY <1>10, <3>2
          <5> QED BY <4>1, <5>1, NatOrder
        <4>3. \A j \in Svips(e) : g[j] <= g[Len(p) + 1]
          BY <1>4, <1>8, <4>1, <4>2
        <4> QED BY <1>9, <3>4, <4>3 DEF Headed
      <3> QED BY <3>3, <3>4
    <2> QED BY <2>1, <2>2
  <1> QED BY <1>2, <1>4, <1>11 DEF PlacesOK, e

-----------------------------------------------------------------------------

\* A request that is not running.
LEMMA IdleBuyerFacts == IdleBuyer \in Buyer /\ IdleBuyer.pc = "idle"
  <1>1. (CHOOSE k \in VipKeys : TRUE) \in VipKeys
    BY VipAssumption
  <1> QED BY <1>1 DEF IdleBuyer, Buyer, VipTiers

\* The move of one request.
LEMMA BuyerMoves ==
    ASSUME NEW p, NEW n, NEW b \in Buyers, NEW q \in Buyer, ClaimOK(p, n, q),
           BuyersOK(p, n, buyer), buyer' = [buyer EXCEPT ![b] = q]
    PROVE  BuyersOK(p, n, buyer')
  BY DEF BuyersOK

\* A request that goes on to a step of a purchase, or ends.
LEMMA BuyerGoesOn ==
    ASSUME NEW p, NEW n, NEW b \in Buyers,
           NEW pc \in {"idle", "pay", "refresh", "remove", "enqueue"},
           BuyersOK(p, n, buyer),
           \/ buyer' = [buyer EXCEPT ![b].pc = pc]
           \/ buyer' = [buyer EXCEPT ![b] = IdleBuyer]
    PROVE  BuyersOK(p, n, buyer')
  <1> DEFINE q == [buyer[b] EXCEPT !.pc = pc]
  <1>1. q \in Buyer /\ q.pc = pc
    BY DEF BuyersOK, Buyer
  <1>2. CASE buyer' = [buyer EXCEPT ![b].pc = pc]
    <2>1. buyer' = [buyer EXCEPT ![b] = q]
      BY <1>2
    <2> HIDE DEF q
    <2>2. ClaimOK(p, n, q)
      BY <1>1 DEF ClaimOK
    <2> QED BY <1>1, <2>1, <2>2, BuyerMoves
  <1>3. CASE buyer' = [buyer EXCEPT ![b] = IdleBuyer]
    <2>1. ClaimOK(p, n, IdleBuyer)
      BY IdleBuyerFacts DEF ClaimOK
    <2> QED BY <1>3, <2>1, IdleBuyerFacts, BuyerMoves
  <1> QED BY <1>2, <1>3

\* A request whose debit is made.
LEMMA BuyerPaid ==
    ASSUME NEW p, NEW n, NEW b \in Buyers, NEW k \in VipKeys,
           BuyersOK(p, n, buyer), buyer' = [buyer EXCEPT ![b] = Paid(k)]
    PROVE  BuyersOK(p, n, buyer')
  <1>1. Paid(k) \in Buyer /\ Paid(k).pc = "refresh"
    BY IdleBuyerFacts DEF Paid, Buyer
  <1>2. ClaimOK(p, n, Paid(k))
    BY <1>1 DEF ClaimOK
  <1> QED BY <1>1, <1>2, BuyerMoves

\* What the replica knows of the expiry, and so what is cached, is the end of
\* a purchase, or nothing.
LEMMA CachedKnown ==
    ASSUME NEW n \in 0..Len(purchases)
    PROVE  ExpiryAfter(n) \in Known(purchases) /\ Cached(n) \subseteq Known(purchases)
  <1>1. ExpiryAfter(n) \in Known(purchases)
    <2>1. CASE n = 0
      BY <2>1 DEF ExpiryAfter, Known
    <2>2. CASE n # 0
      <3>1. n \in 1..Len(purchases)
        BY <2>2
      <3> QED BY <2>2, <3>1 DEF ExpiryAfter, Known
    <2> QED BY <2>1, <2>2
  <1>2. \A m : CacheOf(n, m) \in {ExpiryAfter(n), 0}
    BY DEF CacheOf
  <1>3. 0 \in Known(purchases)
    BY DEF Known
  <1> QED BY <1>1, <1>2, <1>3 DEF Cached

\* What a refresh writes to the cache is the end of a purchase, or nothing.
LEMMA CacheWritten ==
    ASSUME WriteCache
    PROVE  vipCache' \in Known(purchases)
  BY CachedKnown DEF WriteCache

\* Before the first purchase.
LEMMA VipInitInv == VipInit => VipInv
  <1> SUFFICES ASSUME VipInit PROVE VipInv
    OBVIOUS
  <1>1. purchases = <<>> /\ Len(purchases) = 0 /\ vipNow = 0 /\ expiresAt = 0
    BY DEF VipInit
  <1>2. PlacesOK(purchases, place)
    BY <1>1 DEF VipInit, PlacesOK, Headed, Svips
  <1>3. ListOK(purchases, vipNow)
    BY <1>1 DEF ListOK, Chain, Once, Rising
  <1>4. expiresAt = Last(purchases) /\ VipNotCutShort
    BY <1>1 DEF Last, VipNotCutShort
  <1>5. vipCache \in Known(purchases)
    BY DEF VipInit, Known
  <1>6. BuyersOK(purchases, vipNow, buyer)
    BY IdleBuyerFacts DEF VipInit, BuyersOK, ClaimOK
  <1>7. vipNow \in Nat
    BY <1>1
  <1>8. vipActive \in BOOLEAN
    BY DEF VipInit
  <1> QED BY <1>2, <1>3, <1>4, <1>5, <1>6, <1>7, <1>8 DEF VipInv

\* The transaction of a purchase.
LEMMA PayStep ==
    ASSUME VipInv, NEW b \in Buyers, Pay(b)
    PROVE  VipInv'
  <1> DEFINE k == buyer[b].key
             t == buyer[b].tier
             proposed == Proposed(expiresAt, vipNow, VipDays[t])
             x == [key |-> k, tier |-> t, at |-> vipNow, before |-> expiresAt,
                   after |-> proposed]
  <1>0. k \in VipKeys /\ t \in VipTiers
    BY DEF VipInv, BuyersOK, Buyer
  <1>1. CASE /\ \/ buyer' = [buyer EXCEPT ![b] = Paid(k)]
                \/ buyer' = [buyer EXCEPT ![b] = IdleBuyer]
             /\ UNCHANGED <<expiresAt, vipActive, purchases, place>>
    <2>1. BuyersOK(purchases, vipNow, buyer')
      BY <1>0, <1>1, BuyerGoesOn, BuyerPaid DEF VipInv
    <2> QED BY <1>1, <2>1 DEF Pay, VipInv, VipNotCutShort
  <1>2. CASE /\ ~KeyUsed(k)
             /\ expiresAt' = proposed
             /\ vipActive' = TRUE
             /\ purchases' = Append(purchases, x)
             /\ \E p \in 1..(Len(purchases) + 1) : ListAt(b, p)
             /\ buyer' = [buyer EXCEPT ![b] = Paid(k)]
    <2>1. /\ vipNow \in Nat /\ expiresAt \in Nat
          /\ expiresAt = Last(purchases) /\ ListOK(purchases, vipNow)
          /\ purchases \in Seq(Purchase) /\ PlacesOK(purchases, place)
      BY LastFacts DEF VipInv, ListOK
    <2>2. VipDays[t] \in Nat \ {0}
      BY <1>0, VipAssumption
    <2>3. proposed \in Nat
      BY <2>1, <2>2, ProposedFacts
    <2>4. \A i \in 1..Len(purchases) : purchases[i].key # k
      BY <1>2 DEF KeyUsed
    <2>5. /\ proposed = Proposed(Last(purchases), vipNow, VipDays[t])
          /\ expiresAt' = proposed /\ vipActive' = TRUE
          /\ UNCHANGED <<vipNow, vipCache>>
      BY <1>2, <2>1 DEF Pay
    <2> HIDE DEF k, t, proposed
    <2>6. /\ x \in Purchase /\ x.key = k /\ x.tier = t /\ x.at = vipNow
          /\ x.before = expiresAt /\ x.after = proposed
      BY <1>0, <2>1, <2>3 DEF Purchase
    <2>7. purchases' = Append(purchases, x)
      BY <1>2
    <2> HIDE DEF x
    <2>8. /\ ListOK(purchases', vipNow) /\ Last(purchases') = proposed
          /\ Known(purchases) \subseteq Known(purchases')
          /\ \A m : Covered(purchases, m) => Covered(purchases', m)
      BY <2>1, <2>4, <2>5, <2>6, <2>7, Buying
    <2>9. PlacesOK(purchases', place')
      <3>1. PICK p \in 1..(Len(purchases) + 1) : ListAt(b, p)
        BY <1>2
      <3>2. p \in Nat
        BY <2>1
      <3>3. place' = Append([i \in 1..Len(purchases) |->
                                IF place[i] >= p THEN place[i] + 1 ELSE place[i]], p)
        BY <3>1 DEF ListAt
      <3> QED BY <2>1, <2>6, <2>7, <3>2, <3>3, Listing
    <2>10. BuyersOK(purchases', vipNow, buyer)
      BY <2>8 DEF VipInv, BuyersOK, ClaimOK
    <2>11. BuyersOK(purchases', vipNow, buyer')
      BY <1>0, <1>2, <2>10, BuyerPaid
    <2>12. vipCache' \in Known(purchases')
      BY <2>5, <2>8 DEF VipInv
    <2> QED BY <2>1, <2>5, <2>8, <2>9, <2>11, <2>12 DEF VipInv, VipNotCutShort
  <1> QED BY <1>1, <1>2 DEF Pay, StackBase

\* The check of a claim: whatever answered, some purchase covers the moment.
LEMMA CheckStep ==
    ASSUME VipInv, NEW b \in Buyers, DailyCheck(b)
    PROVE  VipInv'
  <1> DEFINE q == [IdleBuyer EXCEPT !.pc = "today", !.seen = vipNow]
  <1>1. vipNow \in Nat /\ ListOK(purchases, vipNow) /\ purchases \in Seq(Purchase)
    BY DEF VipInv, ListOK
  <1>2. PICK e \in Known(purchases) : e > vipNow /\ vipCache' \in Known(purchases)
    <2>1. CASE MayClaim(vipCache) /\ UNCHANGED vipCache
      BY <2>1 DEF MayClaim, VipInv
    <2>2. CASE \E n \in 0..Len(purchases) :
                 MayClaim(ExpiryAfter(n)) /\ vipCache' \in Cached(n)
      BY <2>2, CachedKnown DEF MayClaim
    <2> QED BY <2>1, <2>2 DEF DailyCheck
  <1>3. PICK i \in 1..Len(purchases) : e = purchases[i].after
    <2>1. e # NoCache /\ e # 0
      BY <1>1, <1>2 DEF NoCache
    <2> QED BY <1>2, <2>1 DEF Known
  <1>4. Covered(purchases, vipNow)
    <2>1. purchases[i].at <= vipNow /\ purchases[i].after \in Nat
      BY <1>1, PurchaseFields DEF ListOK
    <2>2. vipNow < purchases[i].after
      BY <1>1, <1>2, <1>3, <2>1
    <2> QED BY <2>1, <2>2 DEF Covered
  <1>5. q \in Buyer /\ q.pc = "today" /\ q.seen = vipNow
    BY <1>1, IdleBuyerFacts DEF Buyer
  <1>6. buyer' = [buyer EXCEPT ![b] = q]
    BY DEF DailyCheck
  <1> HIDE DEF q
  <1>7. ClaimOK(purchases, vipNow, q)
    BY <1>1, <1>4, <1>5 DEF ClaimOK
  <1>8. BuyersOK(purchases, vipNow, buyer')
    BY <1>5, <1>6, <1>7, BuyerMoves DEF VipInv
  <1> QED BY <1>2, <1>8 DEF DailyCheck, VipInv, VipNotCutShort

\* The day of a claim is not before its check.
LEMMA TodayStep ==
    ASSUME VipInv, NEW b \in Buyers, DailyToday(b)
    PROVE  VipInv'
  <1> DEFINE q == [buyer[b] EXCEPT !.pc = "grant", !.day = vipNow]
  <1>1. /\ buyer[b] \in Buyer /\ buyer \in [Buyers -> Buyer] /\ vipNow \in Nat
        /\ Covered(purchases, buyer[b].seen) /\ buyer[b].seen <= vipNow
    BY DEF VipInv, BuyersOK, ClaimOK, DailyToday
  <1>2. /\ q \in Buyer /\ q.pc = "grant" /\ q.day = vipNow /\ q.seen = buyer[b].seen
    BY <1>1 DEF Buyer
  <1>3. buyer' = [buyer EXCEPT ![b] = q]
    BY <1>1 DEF DailyToday
  <1> HIDE DEF q
  <1>4. ClaimOK(purchases, vipNow, q)
    BY <1>1, <1>2 DEF ClaimOK
  <1>5. BuyersOK(purchases, vipNow, buyer')
    BY <1>2, <1>3, <1>4, BuyerMoves DEF VipInv
  <1> QED BY <1>5 DEF DailyToday, VipInv, VipNotCutShort

\* Every step leaves the invariant.
LEMMA VipStepInv == VipInv /\ [VipNext]_vipVars => VipInv'
  <1> SUFFICES ASSUME VipInv, [VipNext]_vipVars PROVE VipInv'
    OBVIOUS
  <1>1. CASE \E b \in Buyers, k \in VipKeys, t \in VipTiers : PreRead(b, k, t)
    <2>1. PICK b \in Buyers, k \in VipKeys, t \in VipTiers : PreRead(b, k, t)
      BY <1>1
    <2>2. Len(purchases) \in Nat
      BY DEF VipInv, ListOK
    <2> DEFINE q == [IdleBuyer EXCEPT !.pc = "pay", !.key = k, !.tier = t,
                                      !.seen = Len(purchases)]
    <2>3. q \in Buyer /\ q.pc = "pay"
      BY <2>2, IdleBuyerFacts DEF Buyer
    <2>4. buyer' = [buyer EXCEPT ![b] = q]
      BY <2>1 DEF PreRead
    <2> HIDE DEF q
    <2>5. BuyersOK(purchases, vipNow, buyer')
      BY <2>3, <2>4, BuyerMoves DEF VipInv, ClaimOK
    <2> QED BY <2>1, <2>5 DEF PreRead, VipInv, VipNotCutShort
  <1>2. ASSUME NEW b \in Buyers, Refresh(b) PROVE VipInv'
    <2>1. BuyersOK(purchases, vipNow, buyer')
      BY <1>2, BuyerGoesOn DEF Refresh, VipInv
    <2>2. vipCache' \in Known(purchases)
      BY <1>2, CacheWritten DEF Refresh
    <2> QED BY <1>2, <2>1, <2>2 DEF Refresh, VipInv, VipNotCutShort
  <1>3. ASSUME NEW b \in Buyers, Remove(b) PROVE VipInv'
    <2>1. \/ buyer' = [buyer EXCEPT ![b].pc = "enqueue"]
          \/ buyer' = [buyer EXCEPT ![b] = IdleBuyer]
      BY <1>3 DEF Remove
    <2>2. BuyersOK(purchases, vipNow, buyer')
      BY <2>1, BuyerGoesOn DEF VipInv
    <2> QED BY <1>3, <2>2 DEF Remove, VipInv, VipNotCutShort
  <1>4. ASSUME NEW b \in Buyers, Enqueue(b) PROVE VipInv'
    <2>1. BuyersOK(purchases, vipNow, buyer')
      BY <1>4, BuyerGoesOn DEF Enqueue, VipInv
    <2> QED BY <1>4, <2>1 DEF Enqueue, VipInv, VipNotCutShort
  <1>5. ASSUME NEW b \in Buyers, BuyerCrash(b) PROVE VipInv'
    <2>1. BuyersOK(purchases, vipNow, buyer')
      BY <1>5, BuyerGoesOn DEF BuyerCrash, VipInv
    <2> QED BY <1>5, <2>1 DEF BuyerCrash, VipInv, VipNotCutShort
  <1>6. CASE HasActive
    BY <1>6, CacheWritten DEF HasActive, VipInv, VipNotCutShort
  <1>7. CASE ExpiryRead
    BY <1>7 DEF ExpiryRead, VipInv, VipNotCutShort
  <1>8. CASE ExpiryWrite
    <2>1. vipCache' \in Known(purchases)
      BY <1>8, CacheWritten DEF ExpiryWrite
    <2>2. expiresAt \in Nat /\ vipNow \in Nat
      BY LastFacts DEF VipInv
    <2>3. expiresAt > vipNow => vipActive /\ ~StillExpired
      BY <2>2 DEF StillExpired, VipInv, VipNotCutShort
    <2>4. vipActive' \in BOOLEAN /\ VipNotCutShort'
      BY <1>8, <2>3 DEF ExpiryWrite, VipNotCutShort
    <2> QED BY <1>8, <2>1, <2>4 DEF ExpiryWrite, VipInv
  <1>9. CASE ExpiryFails
    BY <1>9 DEF ExpiryFails, VipInv, VipNotCutShort
  <1>10. CASE VipDay
    <2>1. vipNow \in Nat /\ vipNow' = vipNow + 1 /\ expiresAt \in Nat
          /\ purchases \in Seq(Purchase)
      BY <1>10, LastFacts DEF VipDay, VipInv, ListOK
    <2>2. \A i \in 1..Len(purchases) : purchases[i].at \in Nat
      BY <2>1, PurchaseFields
    <2>3. ListOK(purchases, vipNow')
      <3>1. \A i \in 1..Len(purchases) : purchases[i].at <= vipNow'
        BY <2>1, <2>2 DEF VipInv, ListOK
      <3> QED BY <3>1 DEF VipInv, ListOK
    <2>4. expiresAt > vipNow' => vipActive
      <3>1. expiresAt > vipNow' => expiresAt > vipNow
        BY <2>1
      <3> QED BY <3>1 DEF VipInv, VipNotCutShort
    <2>5. vipCache' \in Known(purchases)
      BY <1>10 DEF VipDay, VipInv, Known
    <2>6. vipNow' \in Nat
      BY <2>1
    <2>7. BuyersOK(purchases, vipNow', buyer)
      <3>1. \A b \in Buyers : buyer[b].seen \in Nat
        BY DEF VipInv, BuyersOK, Buyer
      <3> QED BY <2>1, <3>1 DEF VipInv, BuyersOK, ClaimOK
    <2> QED BY <1>10, <2>3, <2>4, <2>5, <2>6, <2>7 DEF VipDay, VipInv, VipNotCutShort
  <1>11. ASSUME NEW b \in Buyers, DailyGrant(b) PROVE VipInv'
    <2>1. BuyersOK(purchases, vipNow, buyer')
      BY <1>11, BuyerGoesOn DEF DailyGrant, VipInv
    <2> QED BY <1>11, <2>1 DEF DailyGrant, VipInv, VipNotCutShort
  <1>12. CASE UNCHANGED vipVars
    BY <1>12 DEF vipVars, VipInv, VipNotCutShort
  <1> QED BY <1>1, <1>2, <1>3, <1>4, <1>5, <1>6, <1>7, <1>8, <1>9, <1>10, <1>11,
             <1>12, PayStep, CheckStep, TodayStep
          DEF VipNext

\* The invariant holds in every state.
LEMMA VipInvAlways == VipSpec => []VipInv
  BY VipInitInv, VipStepInv, PTL DEF VipSpec

\* The stack of purchases, as the property says it.
LEMMA InvStacks == VipInv => VipStacks
  <1> SUFFICES ASSUME VipInv PROVE VipStacks
    OBVIOUS
  <1>1. purchases \in Seq(Purchase) /\ Chain(purchases) /\ Once(purchases)
    BY DEF VipInv, ListOK
  <1>2. expiresAt = IF purchases = <<>> THEN 0 ELSE purchases[Len(purchases)].after
    <2>1. purchases = <<>> <=> Len(purchases) = 0
      BY <1>1
    <2> QED BY <2>1 DEF VipInv, Last
  <1> QED BY <1>1, <1>2 DEF VipStacks, Chain, Once, Left

\* The end of the last SVIP purchase in the list is that of one of them, and
\* the latest when they are listed in order.
LEMMA LastSvipFacts ==
    ASSUME VipInv, NEW n, n = Len(purchases)
    PROVE  LET S == OfTier("SVIP", n) IN
           /\ S = {} => LastSvipEnd(n) = 0
           /\ S # {} => \E i \in S : /\ LastSvipEnd(n) = purchases[i].after
                                   /\ \A j \in S : place[j] <= place[i]
  <1>1. OfTier("SVIP", n) = Svips(purchases)
    BY DEF OfTier, Svips
  <1>2. CASE Svips(purchases) = {}
    BY <1>1, <1>2 DEF LastSvipEnd
  <1>3. CASE Svips(purchases) # {}
    <2> DEFINE S == OfTier("SVIP", n)
               i == CHOOSE i \in S : \A j \in S : place[j] <= place[i]
    <2>1. \E m \in S : \A j \in S : place[j] <= place[m]
      BY <1>1, <1>3 DEF VipInv, PlacesOK, Headed
    <2>2. i \in S /\ \A j \in S : place[j] <= place[i]
      BY <2>1
    <2>3. LastSvipEnd(n) = purchases[i].after
      BY <1>1, <1>3 DEF LastSvipEnd
    <2> HIDE DEF i, S
    <2> QED BY <2>2, <2>3 DEF S
  <1> QED BY <1>1, <1>2, <1>3

\* The badge, from the rising ends.
LEMMA InvBadge == VipInv => BadgeMatchesExpiry
  <1> SUFFICES ASSUME VipInv PROVE BadgeMatchesExpiry
    OBVIOUS
  <1> DEFINE n == Len(purchases)
             S == OfTier("SVIP", n)
             D == OfTier("DIAMOND", n)
             last == Last(purchases)
             s == LastSvipEnd(n)
  <1>1. /\ vipNow \in Nat /\ expiresAt = last /\ last \in Nat
        /\ purchases \in Seq(Purchase) /\ n \in Nat /\ Rising(purchases)
        /\ \A i \in 1..n : purchases[i].after <= last
        /\ \A i \in 1..n : i # n => purchases[i].after < last
    <2>1. vipNow \in Nat /\ ListOK(purchases, vipNow) /\ expiresAt = last
      BY DEF VipInv
    <2>2. purchases \in Seq(Purchase) /\ n \in Nat /\ Rising(purchases)
      BY <2>1 DEF ListOK
    <2> QED BY <2>1, <2>2, LastFacts
  <1>2. \A i \in 1..n : purchases[i].after \in Nat /\ purchases[i].tier \in VipTiers
    BY <1>1, PurchaseFields
  <1>3. /\ S \subseteq 1..n /\ D \subseteq 1..n
        /\ \A i \in 1..n : i \in S \/ i \in D
        /\ S \cap D = {}
    BY <1>2 DEF OfTier, VipTiers
  <1>4. /\ S = {} => s = 0
        /\ S # {} => \E i \in S : s = purchases[i].after /\ \A j \in S : place[j] <= place[i]
    BY LastSvipFacts
  <1>5. DisplayTier(n) = IF vipNow < s THEN "SVIP"
                         ELSE IF DiamondShows(n) THEN "DIAMOND" ELSE "none"
    BY DEF DisplayTier
  <1>6. DiamondShows(n) <=> \E i \in D : purchases[i].after > s /\ vipNow < purchases[i].after
    BY DEF DiamondShows
  <1>7. n # 0 => n \in 1..n /\ last = purchases[n].after
    BY <1>1 DEF Last
  <1>8. n = 0 => last = 0
    BY DEF Last
  <1>9. \A i \in 1..n : place[i] \in Nat
    BY DEF VipInv, PlacesOK
  <1>10. SvipInOrder => \A i, j \in S : i < j => place[i] < place[j]
    BY DEF SvipInOrder
  <1>11. \A i, j \in 1..n : i < j => purchases[i].after < purchases[j].after
    BY <1>1 DEF Rising
  <1> HIDE DEF n, S, D, last, s
  <1>12. s \in Nat /\ (s = 0 \/ \E i \in S : s = purchases[i].after)
    BY <1>2, <1>3, <1>4
  <1>13. DisplayTier(n) # "none" => last > vipNow
    <2>1. CASE vipNow < s
      <3>1. PICK i \in S : s = purchases[i].after
        BY <1>1, <1>12, <2>1
      <3>2. i \in 1..n /\ s <= last
        BY <1>1, <1>3, <3>1
      <3> QED BY <1>1, <1>12, <2>1, <3>2
    <2>2. CASE DiamondShows(n)
      <3>1. PICK i \in D : vipNow < purchases[i].after
        BY <1>6, <2>2
      <3>2. i \in 1..n /\ purchases[i].after <= last /\ purchases[i].after \in Nat
        BY <1>1, <1>2, <1>3
      <3> QED BY <1>1, <3>1, <3>2
    <2> QED BY <1>5, <2>1, <2>2
  <1>14. ASSUME SvipInOrder, NEW j \in S
         PROVE  purchases[j].after <= s
    <2>1. PICK i \in S : s = purchases[i].after /\ \A m \in S : place[m] <= place[i]
      BY <1>4
    <2>2. i \in 1..n /\ j \in 1..n /\ place[i] \in Nat /\ place[j] \in Nat
      BY <1>3, <1>9
    <2>3. ~(i < j)
      BY <1>10, <1>14, <2>1, <2>2
    <2>4. j = i \/ j < i
      BY <1>1, <2>2, <2>3
    <2> QED BY <1>2, <1>11, <2>1, <2>2, <2>4
  <1>15. SvipInOrder /\ last > vipNow => DisplayTier(n) # "none"
    <2> SUFFICES ASSUME SvipInOrder, last > vipNow, ~(vipNow < s)
                 PROVE  DiamondShows(n)
      BY <1>5
    <2>1. n \in 1..n /\ last = purchases[n].after
      BY <1>1, <1>7, <1>8
    <2>2. n \notin S
      <3> SUFFICES ASSUME n \in S PROVE FALSE
        OBVIOUS
      <3>1. last <= s
        BY <1>14, <2>1
      <3> QED BY <1>1, <1>12, <3>1
    <2>3. s < last
      BY <1>1, <1>12
    <2> QED BY <1>3, <1>6, <2>1, <2>2, <2>3
  <1>16. SvipInOrder /\ (\E i \in S : purchases[i].after > vipNow) => DisplayTier(n) = "SVIP"
    <2> SUFFICES ASSUME SvipInOrder, NEW i \in S, purchases[i].after > vipNow
                 PROVE  vipNow < s
      BY <1>5
    <2>1. purchases[i].after <= s /\ purchases[i].after \in Nat
      BY <1>2, <1>3, <1>14
    <2> QED BY <1>1, <1>12, <2>1
  <1> QED BY <1>1, <1>13, <1>15, <1>16 DEF BadgeMatchesExpiry, n, S

\* The claims, as the property says it.
LEMMA InvGrants == VipInv => GrantsArePaid
  BY DEF VipInv, BuyersOK, ClaimOK, Covered, GrantsArePaid

\* processExpiryJob never ends a membership that a purchase has extended.
THEOREM VipNotCutShortAlways == VipSpec => []VipNotCutShort
  <1>1. VipInv => VipNotCutShort
    BY DEF VipInv
  <1> QED BY <1>1, VipInvAlways, PTL

\* purchase never loses a paid day and never charges a key twice, however many
\* purchases run at once.
THEOREM VipStacksAlways == VipSpec => []VipStacks
  BY VipInvAlways, InvStacks, PTL

\* resolveVipDisplayState never shows a badge that the stored expiry does not
\* back; and it shows the right one as long as the membership lasts, unless
\* SVIP purchases are listed in another order than they were stacked.
THEOREM BadgeMatchesExpiryAlways == VipSpec => []BadgeMatchesExpiry
  BY VipInvAlways, InvBadge, PTL

\* claimDaily pays only after a check, no later than the day it pays for, at a
\* moment that a purchase covered, whatever the cache and the replica answer.
THEOREM GrantsArePaidAlways == VipSpec => []GrantsArePaid
  BY VipInvAlways, InvGrants, PTL

(***************************************************************************)
(* Store.  A row in the slot has been bought, so that no purchase writes   *)
(* it again.                                                               *)
(***************************************************************************)

\* A request works on a row, and equips one that it has seen to be bought.
SlotReq == [pc : {"idle", "buy", "enqueue", "resolve", "equip", "unequip"},
            key : ItemKeys \cup {IdleReq.key}]
SlotReqInv(w) == /\ w.pc # "idle" => w.key \in ItemKeys
                 /\ w.pc = "equip" => item[w.key].bought

\* The slot holds a row that is bought and applied.
SlotInv ==
    /\ storeNow \in Nat
    /\ item \in [ItemKeys -> ItemRow]
    /\ slot \in ItemKeys \cup {NoItem}
    /\ storeReq \in [StoreRequests -> SlotReq]
    /\ slot # NoItem => item[slot].bought /\ item[slot].applied
    /\ \A r \in StoreRequests : SlotReqInv(storeReq[r])

\* A row that was bought stays so.
BoughtStays == \A k \in ItemKeys : item[k].bought => item'[k].bought

\* A step of one request.
LEMMA StoreReqMoves ==
    ASSUME SlotInv, NEW r \in StoreRequests, NEW w \in SlotReq,
           storeReq' = [storeReq EXCEPT ![r] = w], BoughtStays, SlotReqInv(w)'
    PROVE  /\ storeReq' \in [StoreRequests -> SlotReq]
           /\ \A q \in StoreRequests : SlotReqInv(storeReq[q])'
  <1>1. storeReq' \in [StoreRequests -> SlotReq]
    BY DEF SlotInv
  <1>2. ASSUME NEW q \in StoreRequests
        PROVE  SlotReqInv(storeReq[q])'
    <2>1. CASE q = r
      BY <2>1 DEF SlotInv, SlotReqInv
    <2>2. CASE q # r
      <3>1. storeReq'[q] = storeReq[q] /\ SlotReqInv(storeReq[q])
        BY <2>2 DEF SlotInv
      <3> QED BY <3>1 DEF SlotReqInv, BoughtStays
    <2> QED BY <2>1, <2>2
  <1> QED BY <1>1, <1>2

\* Equip leaves the row it puts in the slot applied.
LEMMA EquipFacts ==
    ASSUME NEW k \in ItemKeys, NEW rows \in [ItemKeys -> ItemRow], Equip(k, rows)
    PROVE  /\ item' \in [ItemKeys -> ItemRow] /\ slot' = k /\ item'[k].applied
           /\ \A j \in ItemKeys : item'[j].bought = rows[j].bought
  <1> DEFINE u == Unapplied(rows)
             row == [u[k] EXCEPT !.applied = TRUE, !.wasApplied = TRUE]
  <1>1. u \in [ItemKeys -> ItemRow] /\ \A j \in ItemKeys : u[j].bought = rows[j].bought
    BY DEF Unapplied, ItemRow
  <1>2. item' = [u EXCEPT ![k].applied = TRUE, ![k].wasApplied = TRUE] /\ slot' = k
    BY DEF Equip
  <1> HIDE DEF u
  <1>3. item' = [u EXCEPT ![k] = row]
    BY <1>1, <1>2
  <1>4. row \in ItemRow /\ row.applied /\ row.bought = u[k].bought
    BY <1>1 DEF ItemRow
  <1> HIDE DEF row
  <1> QED BY <1>1, <1>2, <1>3, <1>4

\* A request takes a step that leaves rows and slot alone.
LEMMA StoreQuiet ==
    ASSUME SlotInv, NEW r \in StoreRequests, UNCHANGED <<item, slot, storeNow>>,
           \/ EndReq(r)
           \/ \E k \in ItemKeys, pc \in {"buy", "enqueue", "resolve", "unequip"} :
                ToReq(r, pc, k)
           \/ \E k \in ItemKeys : ToReq(r, "equip", k) /\ item[k].bought
    PROVE  SlotInv'
  <1>1. PICK w \in SlotReq : storeReq' = [storeReq EXCEPT ![r] = w] /\ SlotReqInv(w)
    <2>1. CASE EndReq(r)
      <3>1. IdleReq \in SlotReq /\ SlotReqInv(IdleReq)
        BY DEF IdleReq, SlotReq, SlotReqInv
      <3> QED BY <2>1, <3>1 DEF EndReq
    <2>2. ASSUME NEW k \in ItemKeys, NEW pc \in {"buy", "enqueue", "resolve", "unequip"},
                 ToReq(r, pc, k)
          PROVE  \E w \in SlotReq : storeReq' = [storeReq EXCEPT ![r] = w] /\ SlotReqInv(w)
      <3> DEFINE w == [pc |-> pc, key |-> k]
      <3>1. w \in SlotReq /\ SlotReqInv(w)
        BY DEF SlotReq, SlotReqInv
      <3>2. storeReq' = [storeReq EXCEPT ![r] = w]
        BY <2>2 DEF ToReq
      <3> QED BY <3>1, <3>2
    <2>3. ASSUME NEW k \in ItemKeys, ToReq(r, "equip", k), item[k].bought
          PROVE  \E w \in SlotReq : storeReq' = [storeReq EXCEPT ![r] = w] /\ SlotReqInv(w)
      <3> DEFINE w == [pc |-> "equip", key |-> k]
      <3>1. w \in SlotReq /\ SlotReqInv(w)
        BY <2>3 DEF SlotReq, SlotReqInv
      <3>2. storeReq' = [storeReq EXCEPT ![r] = w]
        BY <2>3 DEF ToReq
      <3> QED BY <3>1, <3>2
    <2> QED BY <2>1, <2>2, <2>3
  <1>2. BoughtStays /\ SlotReqInv(w)'
    BY <1>1 DEF BoughtStays, SlotReqInv
  <1> QED BY <1>1, <1>2, StoreReqMoves DEF SlotInv

\* The idle request.
LEMMA EndReqMoves ==
    ASSUME SlotInv, NEW r \in StoreRequests, EndReq(r), BoughtStays
    PROVE  /\ storeReq' \in [StoreRequests -> SlotReq]
           /\ \A q \in StoreRequests : SlotReqInv(storeReq[q])'
  <1>1. IdleReq \in SlotReq /\ SlotReqInv(IdleReq)'
    BY DEF IdleReq, SlotReq, SlotReqInv
  <1> QED BY <1>1, StoreReqMoves DEF EndReq

\* purchaseItem's transaction.
LEMMA BuySlot ==
    ASSUME SlotInv, NEW r \in StoreRequests, BuyCommit(r)
    PROVE  SlotInv'
  <1>1. PICK k \in ItemKeys : k = storeReq[r].key
    BY DEF SlotInv, BuyCommit, SlotReqInv
  <1>0. UNCHANGED storeNow
    BY DEF BuyCommit
  <1> DEFINE row == [NoItemRow EXCEPT !.bought = TRUE, !.active = TRUE,
                                      !.until = storeNow + ItemDays]
             rows == [item EXCEPT ![k] = row]
  <1>2. CASE UNCHANGED <<item, slot>> /\ EndReq(r)
    BY <1>0, <1>2, StoreQuiet
  <1>3. CASE /\ ~item[k].bought /\ ToReq(r, "enqueue", k)
             /\ Equip(k, rows) \/ (item' = rows /\ UNCHANGED slot)
    <2>0. k # slot \/ slot = NoItem
      BY <1>3 DEF SlotInv
    <2>1. row \in ItemRow /\ row.bought
      <3>1. NoItemRow \in ItemRow
        BY DEF NoItemRow, ItemRow
      <3>2. storeNow + ItemDays \in Nat
        BY StoreAssumption DEF SlotInv
      <3> QED BY <3>1, <3>2 DEF ItemRow
    <2> HIDE DEF row
    <2>2. rows \in [ItemKeys -> ItemRow] /\ rows[k].bought
      BY <1>1, <2>1 DEF SlotInv
    <2>3. \A j \in ItemKeys : j # k => rows[j] = item[j]
      BY DEF SlotInv
    <2> HIDE DEF rows
    <2>4. /\ item' \in [ItemKeys -> ItemRow] /\ slot' \in ItemKeys \cup {NoItem}
          /\ slot' # NoItem => item'[slot'].bought /\ item'[slot'].applied
          /\ BoughtStays
      <3>1. CASE Equip(k, rows)
        BY <1>1, <2>2, <2>3, <3>1, EquipFacts DEF BoughtStays
      <3>2. CASE item' = rows /\ UNCHANGED slot
        BY <1>1, <2>0, <2>2, <2>3, <3>2, StoreAssumption DEF BoughtStays, SlotInv
      <3> QED BY <1>3, <3>1, <3>2
    <2> DEFINE w == [pc |-> "enqueue", key |-> k]
    <2>5. w \in SlotReq /\ SlotReqInv(w)'
      BY DEF SlotReq, SlotReqInv
    <2>6. storeReq' = [storeReq EXCEPT ![r] = w]
      BY <1>3 DEF ToReq
    <2> HIDE DEF w
    <2> QED BY <1>0, <2>4, <2>5, <2>6, StoreReqMoves DEF SlotInv
  <1> QED BY <1>1, <1>2, <1>3 DEF BuyCommit

\* Every step of the store.
LEMMA SlotStep == SlotInv /\ [StoreNext]_storeVars => SlotInv'
  <1> SUFFICES ASSUME SlotInv, [StoreNext]_storeVars PROVE SlotInv'
    OBVIOUS
  <1>1. ASSUME NEW r \in StoreRequests, NEW k \in ItemKeys,
               BuyAcquire(r, k) \/ EquipRead(r, k) \/ UnequipRead(r, k)
        PROVE  SlotInv'
    BY <1>1, StoreQuiet DEF BuyAcquire, EquipRead, UnequipRead
  <1>2. ASSUME NEW r \in StoreRequests, BuyEnqueue(r) \/ BuyResolve(r) \/ StoreCrash(r)
        PROVE  SlotInv'
    <2>1. storeReq[r].pc # "idle" => storeReq[r].key \in ItemKeys
      BY DEF SlotInv, SlotReqInv
    <2> QED BY <1>2, <2>1, StoreQuiet DEF BuyEnqueue, BuyResolve, StoreCrash
  <1>3. ASSUME NEW r \in StoreRequests, EquipWrite(r)
        PROVE  SlotInv'
    <2> DEFINE k == storeReq[r].key
    <2>1. k \in ItemKeys /\ item[k].bought /\ item \in [ItemKeys -> ItemRow]
      BY <1>3 DEF SlotInv, SlotReqInv, EquipWrite
    <2>2. Equip(k, item) /\ EndReq(r) /\ UNCHANGED storeNow
      BY <1>3 DEF EquipWrite
    <2> HIDE DEF k
    <2>3. /\ item' \in [ItemKeys -> ItemRow] /\ slot' = k /\ item'[k].applied
          /\ item'[k].bought /\ BoughtStays
      BY <2>1, <2>2, EquipFacts DEF BoughtStays
    <2> QED BY <2>1, <2>2, <2>3, EndReqMoves DEF SlotInv
  <1>4. ASSUME NEW r \in StoreRequests, UnequipWrite(r)
        PROVE  SlotInv'
    <2> DEFINE k == storeReq[r].key
    <2>1. /\ k \in ItemKeys /\ item' = [item EXCEPT ![k].applied = FALSE]
          /\ slot' = NoItem /\ EndReq(r) /\ UNCHANGED storeNow
      BY <1>4 DEF SlotInv, SlotReqInv, UnequipWrite, Unequip
    <2> HIDE DEF k
    <2>2. item' \in [ItemKeys -> ItemRow] /\ BoughtStays
      BY <2>1 DEF BoughtStays, SlotInv, ItemRow
    <2> QED BY <2>1, <2>2, EndReqMoves DEF SlotInv
  <1>5. ASSUME NEW k \in ItemKeys, ExpireItem(k)
        PROVE  SlotInv'
    <2>1. CASE UNCHANGED <<item, slot>>
      BY <1>5, <2>1 DEF ExpireItem, SlotInv, SlotReqInv
    <2>2. CASE /\ item' = [item EXCEPT ![k].active = FALSE, ![k].applied = FALSE]
               /\ slot' = SlotAfterExpiry(k)
      <3> DEFINE row == [item[k] EXCEPT !.active = FALSE, !.applied = FALSE]
      <3>1. item' = [item EXCEPT ![k] = row] /\ row \in ItemRow /\ row.bought = item[k].bought
        BY <2>2 DEF SlotInv, ItemRow
      <3> HIDE DEF row
      <3>2. item' \in [ItemKeys -> ItemRow] /\ BoughtStays
        BY <3>1 DEF SlotInv, BoughtStays
      <3>3. \A j \in ItemKeys : j # k => item'[j] = item[j]
        BY <3>1 DEF SlotInv
      <3>4. slot' \in ItemKeys \cup {NoItem} /\ (slot' # NoItem => slot' = slot /\ slot # k)
        BY <2>2 DEF SlotAfterExpiry, SlotInv
      <3>5. \A r \in StoreRequests : SlotReqInv(storeReq[r])'
        BY <1>5, <3>2 DEF ExpireItem, SlotInv, SlotReqInv, BoughtStays
      <3> QED BY <1>5, <3>2, <3>3, <3>4, <3>5 DEF ExpireItem, SlotInv
    <2> QED BY <1>5, <2>1, <2>2 DEF ExpireItem
  <1>6. CASE ClearSlot
    <2>1. item' \in [ItemKeys -> ItemRow] /\ BoughtStays
      BY <1>6 DEF ClearSlot, Unapplied, SlotInv, ItemRow, BoughtStays
    <2>2. \A r \in StoreRequests : SlotReqInv(storeReq[r])'
      BY <1>6, <2>1 DEF ClearSlot, SlotInv, SlotReqInv, BoughtStays
    <2> QED BY <1>6, <2>1, <2>2 DEF ClearSlot, SlotInv
  <1>7. CASE StoreDay \/ (\E k \in ItemKeys : IdemExpires(k)) \/ UNCHANGED storeVars
    BY <1>7 DEF StoreDay, IdemExpires, storeVars, SlotInv, SlotReqInv
  <1> QED BY <1>1, <1>2, <1>3, <1>4, <1>5, <1>6, <1>7, BuySlot DEF StoreNext

\* purchaseItem, activateOwnedItem, deactivateOwnedItem, setActiveItems and the
\* expiry job, for any number of items and of requests that overlap: the item
\* that the slot names is applied.
THEOREM SlotIsAppliedAlways == StoreSpec => []SlotIsApplied
  <1>1. StoreInit => SlotInv
    BY DEF StoreInit, SlotInv, SlotReqInv, SlotReq, IdleReq, NoItemRow, ItemRow
  <1>2. SlotInv => SlotIsApplied
    BY DEF SlotInv, SlotIsApplied
  <1> QED BY <1>1, <1>2, SlotStep, PTL DEF StoreSpec

(***************************************************************************)
(* RareIds.  The handler of an expiry, on time, retried or left behind by  *)
(* a stall, never runs before the end of its lease, so that an overlay     *)
(* that is still shown belongs to a lease that is still active.  And as    *)
(* long as no handler was left behind, a handler that runs has the only    *)
(* active lease.                                                           *)
(***************************************************************************)

\* A lease and its job: the job is due at the end of the lease; a handler that
\* runs, and a lease that is over, are past that end.
LeaseInv(l) ==
    /\ leaseJob[l].state # "none" => /\ lease[l].state # "none"
                                     /\ leaseJob[l].due = lease[l].until
    /\ leaseJob[l].state = "active" \/ late[l] > 0 => lease[l].state # "none"
    /\ leaseJob[l].state = "active" \/ late[l] > 0 \/ lease[l].state = "over"
         => lease[l].until <= rareNow

\* A request that has sold the id and not queued the job yet; one that is about
\* to equip an id.
ReqInv(r) ==
    /\ rareReq[r].pc = "enqueue" => lease[rareReq[r].lease].state # "none"
    /\ rareReq[r].pc = "equip" => /\ lease[rareReq[r].lease].state # "none"
                                  /\ lease[rareReq[r].lease].user = rareReq[r].user

\* What is shown is what is leased.
HolderInv(u) ==
    overlay[u] > rareNow =>
        \E l \in Leases : /\ lease[l].state = "active" /\ lease[l].user = u
                          /\ lease[l].until = overlay[u]

\* Without stalls a running handler is alone with its lease.
HandlersInv ==
    rareStalls = 0 =>
        \A l \in Leases : /\ late[l] = 0
                          /\ leaseJob[l].state = "active" => lease[l].state = "active"

RareInv ==
    /\ RareTypeOK
    /\ \A l \in Leases : LeaseInv(l)
    /\ \A r \in RareReqs : ReqInv(r)
    /\ \A u \in RareUsers : HolderInv(u)
    /\ OneLease
    /\ HandlersInv

\* Rows of user_vip_assignments keep their user and their end.
LeasesKept ==
    \A l \in Leases : lease[l].state # "none" =>
        /\ lease'[l].state # "none"
        /\ lease'[l].user = lease[l].user
        /\ lease'[l].until = lease[l].until

\* The choices that stand for no user and no lease.
LEMMA SomeFacts == SomeRareUser \in RareUsers /\ SomeLease \in Leases
  BY RareAssumption DEF SomeRareUser, SomeLease

\* A request that is not running, a lease that does not exist, and no job.
LEMMA IdleRareFacts ==
    /\ IdleRare \in RareReq /\ IdleRare.pc = "idle"
    /\ NoLease \in Lease /\ NoLease.state = "none"
    /\ NoJob \in Job(Nat) /\ NoJob.state = "none"
  BY SomeFacts DEF IdleRare, RareReq, NoLease, Lease, NoJob, Job

\* The types, one by one.
LEMMA RareTypes ==
    ASSUME RareInv
    PROVE  /\ rareNow \in Nat /\ available \in BOOLEAN
           /\ lease \in [Leases -> Lease] /\ overlay \in [RareUsers -> Nat]
           /\ leaseJob \in [Leases -> Job(Nat)] /\ late \in [Leases -> Nat]
           /\ rareStalls \in Nat /\ rareReq \in [RareReqs -> RareReq]
  BY RareAssumption DEF RareInv, RareTypeOK

\* The id is free, and nobody has it.
LEMMA RareInitInv == RareInit => RareInv
  <1> SUFFICES ASSUME RareInit PROVE RareInv
    OBVIOUS
  <1>1. RareTypeOK
    <2>1. /\ rareNow \in 0..RareEnd /\ rareStalls \in 0..MaxRareStalls
          /\ overlay \in [RareUsers -> Nat] /\ late \in [Leases -> Nat]
      BY RareAssumption DEF RareInit
    <2>2. available \in BOOLEAN
      BY DEF RareInit
    <2>3. /\ lease \in [Leases -> Lease] /\ leaseJob \in [Leases -> Job(Nat)]
          /\ rareReq \in [RareReqs -> RareReq]
      BY IdleRareFacts DEF RareInit
    <2> QED BY <2>1, <2>2, <2>3 DEF RareTypeOK
  <1>2. /\ \A l \in Leases : /\ lease[l].state = "none" /\ leaseJob[l].state = "none"
                             /\ late[l] = 0
        /\ \A r \in RareReqs : rareReq[r].pc = "idle"
    BY IdleRareFacts DEF RareInit
  <1>3. OneLease /\ HandlersInv
    BY <1>2 DEF OneLease, HandlersInv
  <1>4. \A l \in Leases : LeaseInv(l)
    BY <1>2 DEF LeaseInv
  <1>5. \A u \in RareUsers : HolderInv(u)
    BY DEF RareInit, HolderInv
  <1> QED BY <1>1, <1>2, <1>3, <1>4, <1>5 DEF RareInv, ReqInv

(***************************************************************************)
(* The steps                                                               *)
(***************************************************************************)

\* Requests move, and none into a state that claims something of a lease that
\* is not so.
LEMMA RequestsStep ==
    ASSUME RareInv, LeasesKept,
           \A r \in RareReqs : \/ rareReq'[r] = rareReq[r]
                               \/ rareReq'[r].pc \in {"idle", "buy"}
                               \/ ReqInv(r)'
    PROVE  \A r \in RareReqs : ReqInv(r)'
  <1> SUFFICES ASSUME NEW r \in RareReqs PROVE ReqInv(r)'
    OBVIOUS
  <1>1. CASE rareReq'[r] = rareReq[r]
    <2>1. ReqInv(r) /\ rareReq[r].lease \in Leases
      BY RareTypes DEF RareInv, RareReq
    <2> QED BY <1>1, <2>1 DEF ReqInv, LeasesKept
  <1>2. CASE rareReq'[r].pc \in {"idle", "buy"}
    BY <1>2 DEF ReqInv
  <1> QED BY <1>1, <1>2

\* The state of the job of a lease changes.
LEMMA JobMoves ==
    ASSUME RareInv, NEW l \in Leases, NEW s \in {"delayed", "active", "kept"},
           leaseJob' = [leaseJob EXCEPT ![l].state = s]
    PROVE  /\ leaseJob' \in [Leases -> Job(Nat)]
           /\ leaseJob'[l].state = s /\ leaseJob'[l].due = leaseJob[l].due
           /\ \A m \in Leases : m # l => leaseJob'[m] = leaseJob[m]
  <1> DEFINE j == [leaseJob[l] EXCEPT !.state = s]
  <1>1. leaseJob \in [Leases -> Job(Nat)] /\ leaseJob[l] \in Job(Nat)
    BY RareTypes
  <1>2. j \in Job(Nat) /\ j.state = s /\ j.due = leaseJob[l].due
    BY <1>1 DEF Job
  <1>3. leaseJob' = [leaseJob EXCEPT ![l] = j]
    BY <1>1
  <1> HIDE DEF j
  <1> QED BY <1>1, <1>2, <1>3

\* Only jobs and handlers move.
LEMMA JobsStep ==
    ASSUME RareInv, UNCHANGED <<rareNow, available, lease, overlay>>,
           rareReq' \in [RareReqs -> RareReq],
           \A r \in RareReqs : rareReq'[r] = rareReq[r] \/ rareReq'[r].pc = "idle",
           leaseJob' \in [Leases -> Job(Nat)], late' \in [Leases -> Nat],
           rareStalls' \in 0..MaxRareStalls, rareStalls <= rareStalls',
           \A l \in Leases : LeaseInv(l)', HandlersInv'
    PROVE  RareInv'
  <1>1. RareTypeOK'
    BY DEF RareInv, RareTypeOK
  <1>2. \A r \in RareReqs : ReqInv(r)'
    BY RequestsStep DEF LeasesKept
  <1>3. \A u \in RareUsers : HolderInv(u)'
    BY DEF RareInv, HolderInv
  <1>4. OneLease'
    <2>1. rareStalls' = 0 => rareStalls = 0
      BY RareTypes, RareAssumption
    <2> QED BY <2>1 DEF RareInv, OneLease
  <1> QED BY <1>1, <1>2, <1>3, <1>4 DEF RareInv

\* One request moves, and nothing else.
LEMMA OneRequestStep ==
    ASSUME RareInv, NEW r \in RareReqs, NEW q \in RareReq,
           rareReq' = [rareReq EXCEPT ![r] = q],
           UNCHANGED <<rareNow, available, lease, overlay, leaseJob, late, rareStalls>>,
           \/ q.pc \in {"idle", "buy"}
           \/ /\ q.pc = "equip" /\ lease[q.lease].state # "none"
              /\ lease[q.lease].user = q.user
    PROVE  RareInv'
  <1>1. rareReq' \in [RareReqs -> RareReq] /\ rareReq'[r] = q
        /\ \A s \in RareReqs : s # r => rareReq'[s] = rareReq[s]
    BY RareTypes
  <1>2. RareTypeOK'
    BY <1>1 DEF RareInv, RareTypeOK
  <1>3. \A s \in RareReqs : ReqInv(s)'
    <2>1. ReqInv(r)'
      BY <1>1 DEF ReqInv
    <2> QED BY <1>1, <2>1, RequestsStep DEF LeasesKept
  <1>4. \A l \in Leases : LeaseInv(l)'
    BY DEF RareInv, LeaseInv
  <1>5. /\ \A u \in RareUsers : HolderInv(u)'
        /\ OneLease' /\ HandlersInv'
    BY DEF RareInv, HolderInv, OneLease, HandlersInv
  <1> QED BY <1>2, <1>3, <1>4, <1>5 DEF RareInv

\* The case of RareCommit in which the id is sold.
Sale(r, l, u, until) ==
    /\ u = rareReq[r].user /\ until = rareReq[r].until
    /\ lease[l].state = "none" /\ available /\ available' = FALSE
    /\ lease' = [lease EXCEPT ![l] = [state |-> "active", user |-> u, until |-> until]]
    /\ overlay' = [overlay EXCEPT ![u] = until] \/ UNCHANGED overlay
    /\ rareReq' = [rareReq EXCEPT ![r].pc = "enqueue", ![r].lease = l]
    /\ UNCHANGED <<rareNow, leaseJob, late, rareStalls>>

\* The id is sold: its lease did not exist, and no handler is about it.
LEMMA SaleStep ==
    ASSUME RareInv, NEW r \in RareReqs, NEW l \in Leases, NEW u, NEW until,
           Sale(r, l, u, until)
    PROVE  RareInv'
  <1> USE DEF Sale
  <1> DEFINE q == [rareReq[r] EXCEPT !.pc = "enqueue", !.lease = l]
             new == [state |-> "active", user |-> u, until |-> until]
  <1>1. rareReq \in [RareReqs -> RareReq] /\ rareReq[r] \in RareReq
        /\ u \in RareUsers /\ until \in Nat
    BY RareTypes DEF RareReq
  <1>2. q \in RareReq /\ q.pc = "enqueue" /\ q.lease = l
    BY <1>1 DEF RareReq
  <1>3. rareReq' = [rareReq EXCEPT ![r] = q]
    BY <1>1
  <1> HIDE DEF q
  <1>4. /\ rareReq' \in [RareReqs -> RareReq] /\ rareReq'[r] = q
        /\ \A s \in RareReqs : s # r => rareReq'[s] = rareReq[s]
    BY <1>1, <1>2, <1>3
  <1>5. new \in Lease /\ new.state = "active" /\ new.user = u /\ new.until = until
    BY <1>1 DEF Lease
  <1>6. lease' = [lease EXCEPT ![l] = new]
    OBVIOUS
  <1> HIDE DEF new
  <1>7. /\ lease' \in [Leases -> Lease] /\ lease'[l] = new
        /\ \A m \in Leases : m # l => lease'[m] = lease[m]
    BY <1>5, <1>6, RareTypes
  <1>8. overlay' \in [RareUsers -> Nat]
        /\ \A v \in RareUsers : overlay'[v] = overlay[v] \/ (v = u /\ overlay'[v] = until)
    BY <1>1, RareTypes
  <1>9. RareTypeOK'
    BY <1>4, <1>7, <1>8 DEF RareInv, RareTypeOK
  <1>10. ASSUME NEW m \in Leases PROVE LeaseInv(m)'
    <2>1. CASE m # l
      BY <1>7, <2>1 DEF RareInv, LeaseInv
    <2>2. CASE m = l
      <3>1. /\ leaseJob[l].state = "none" /\ ~(late[l] > 0)
        BY DEF RareInv, LeaseInv
      <3> QED BY <1>5, <1>7, <2>2, <3>1 DEF LeaseInv
    <2> QED BY <2>1, <2>2
  <1>11. \A s \in RareReqs : ReqInv(s)'
    <2>1. ReqInv(r)'
      BY <1>2, <1>4, <1>5, <1>7 DEF ReqInv
    <2>2. LeasesKept
      BY <1>7 DEF LeasesKept
    <2> QED BY <1>4, <2>1, <2>2, RequestsStep
  <1>12. ASSUME NEW v \in RareUsers PROVE HolderInv(v)'
    <2> SUFFICES ASSUME overlay'[v] > rareNow
                 PROVE  \E m \in Leases : /\ lease'[m].state = "active" /\ lease'[m].user = v
                                          /\ lease'[m].until = overlay'[v]
      BY DEF HolderInv
    <2>1. CASE overlay'[v] = overlay[v]
      <3>1. PICK m \in Leases : /\ lease[m].state = "active" /\ lease[m].user = v
                                /\ lease[m].until = overlay[v]
        BY <2>1 DEF RareInv, HolderInv
      <3>2. m # l
        BY <3>1
      <3> QED BY <1>7, <2>1, <3>1, <3>2
    <2>2. CASE v = u /\ overlay'[v] = until
      BY <1>5, <1>7, <2>2
    <2> QED BY <1>8, <2>1, <2>2
  <1>13. OneLease'
    BY <1>7 DEF RareInv, OneLease
  <1>14. HandlersInv'
    BY <1>5, <1>7 DEF RareInv, HandlersInv
  <1> QED BY <1>9, <1>10, <1>11, <1>12, <1>13, <1>14 DEF RareInv

\* The transaction that ends a lease, in a handler that runs no earlier than
\* its end.
LEMMA EndStep ==
    ASSUME RareInv, NEW l \in Leases, EndLease(l),
           lease[l].state # "none", lease[l].until <= rareNow,
           rareStalls = 0 => lease[l].state = "active",
           UNCHANGED <<rareNow, rareStalls, rareReq>>,
           leaseJob' \in [Leases -> Job(Nat)], late' \in [Leases -> Nat],
           \A m \in Leases : \/ leaseJob'[m] = leaseJob[m]
                             \/ leaseJob'[m].state = "none",
           \A m \in Leases : late'[m] = late[m] \/ (late[m] > 0 /\ late'[m] < late[m]),
           rareStalls = 0 => leaseJob'[l].state = "none"
    PROVE  RareInv'
  <1> DEFINE new == [lease[l] EXCEPT !.state = "over"]
             u == lease[l].user
  <1>1. /\ lease \in [Leases -> Lease] /\ lease[l] \in Lease /\ u \in RareUsers
        /\ rareNow \in Nat /\ lease[l].until \in Nat /\ overlay \in [RareUsers -> Nat]
    BY RareTypes DEF Lease
  <1>2. /\ new \in Lease /\ new.state = "over" /\ new.user = u
        /\ new.until = lease[l].until
    BY <1>1 DEF Lease
  <1>3. lease' = [lease EXCEPT ![l] = new]
    BY <1>1 DEF EndLease
  <1> HIDE DEF new
  <1>4. /\ lease' \in [Leases -> Lease] /\ lease'[l] = new
        /\ \A m \in Leases : m # l => lease'[m] = lease[m]
    BY <1>1, <1>2, <1>3
  <1>5. /\ overlay' \in [RareUsers -> Nat] /\ available' = TRUE
        /\ \A v \in RareUsers : overlay'[v] = overlay[v] \/ overlay'[v] = 0
    BY <1>1 DEF EndLease
  <1>6. RareTypeOK'
    BY <1>4, <1>5 DEF RareInv, RareTypeOK
  <1>7. \A m \in Leases : late'[m] > 0 => late[m] > 0
    BY RareTypes
  <1>8. ASSUME NEW m \in Leases PROVE LeaseInv(m)'
    <2>1. CASE m # l
      <3>1. LeaseInv(m) /\ lease'[m] = lease[m]
        BY <1>4, <2>1 DEF RareInv
      <3> QED BY <1>7, <3>1 DEF LeaseInv
    <2>2. CASE m = l
      <3>1. LeaseInv(l) /\ lease'[l].state = "over" /\ lease'[l].until = lease[l].until
        BY <1>2, <1>4 DEF RareInv
      <3> QED BY <1>7, <2>2, <3>1 DEF LeaseInv
    <2> QED BY <2>1, <2>2
  <1>9. \A r \in RareReqs : ReqInv(r)'
    <2>1. LeasesKept
      BY <1>2, <1>4 DEF LeasesKept
    <2> QED BY <2>1, RequestsStep
  <1>10. ASSUME NEW v \in RareUsers PROVE HolderInv(v)'
    <2> SUFFICES ASSUME overlay'[v] > rareNow
                 PROVE  \E m \in Leases : /\ lease'[m].state = "active" /\ lease'[m].user = v
                                          /\ lease'[m].until = overlay'[v]
      BY DEF HolderInv
    <2>1. overlay'[v] = overlay[v]
      BY <1>1, <1>5
    <2>2. PICK m \in Leases : /\ lease[m].state = "active" /\ lease[m].user = v
                              /\ lease[m].until = overlay[v]
      BY <2>1 DEF RareInv, HolderInv
    <2>3. m # l
      BY <1>1, <2>1, <2>2
    <2> QED BY <1>4, <2>1, <2>2, <2>3
  <1>11. rareStalls' = 0 => \A m \in Leases : lease'[m].state # "active"
    BY <1>2, <1>4 DEF RareInv, OneLease
  <1>12. OneLease'
    BY <1>11 DEF OneLease
  <1>13. HandlersInv'
    <2> SUFFICES ASSUME rareStalls = 0, NEW m \in Leases
                 PROVE  late'[m] = 0 /\ leaseJob'[m].state # "active"
      BY DEF HandlersInv
    <2>1. late[m] = 0 /\ (leaseJob[m].state = "active" => lease[m].state = "active")
      BY DEF RareInv, HandlersInv
    <2>2. late'[m] = 0
      BY <2>1
    <2>3. leaseJob[m].state = "active" => m = l
      BY <2>1 DEF RareInv, OneLease
    <2> QED BY <2>2, <2>3
  <1> QED BY <1>6, <1>8, <1>9, <1>10, <1>12, <1>13 DEF RareInv

\* Every step leaves the invariant.
LEMMA RareStep == RareInv /\ [RareNext]_rareVars => RareInv'
  <1> SUFFICES ASSUME RareInv, [RareNext]_rareVars PROVE RareInv'
    OBVIOUS
  <1>1. ASSUME NEW r \in RareReqs, NEW u \in RareUsers, RareBuy(r, u) PROVE RareInv'
    <2> DEFINE q == [IdleRare EXCEPT !.pc = "buy", !.user = u, !.until = rareNow + RareDays]
    <2>1. rareNow + RareDays \in Nat
      BY RareTypes, RareAssumption
    <2>2. q \in RareReq /\ q.pc = "buy"
      BY <2>1, IdleRareFacts DEF RareReq
    <2>3. rareReq' = [rareReq EXCEPT ![r] = q]
      BY <1>1 DEF RareBuy
    <2> HIDE DEF q
    <2> QED BY <1>1, <2>2, <2>3, OneRequestStep DEF RareBuy
  <1>2. ASSUME NEW r \in RareReqs, NEW l \in Leases, RareCommit(r, l) PROVE RareInv'
    <2>1. CASE /\ rareReq' = [rareReq EXCEPT ![r] = IdleRare]
               /\ UNCHANGED <<available, lease, overlay>>
      BY <1>2, <2>1, IdleRareFacts, OneRequestStep DEF RareCommit
    <2>2. CASE ~(/\ rareReq' = [rareReq EXCEPT ![r] = IdleRare]
                 /\ UNCHANGED <<available, lease, overlay>>)
      <3>1. PICK u, until : Sale(r, l, u, until)
        BY <1>2, <2>2, Zenon DEF RareCommit, StillAvailable, Sale
      <3> QED BY <3>1, SaleStep
    <2> QED BY <2>1, <2>2
  <1>3. ASSUME NEW r \in RareReqs, NEW l \in Leases, RareEquipRead(r, l) PROVE RareInv'
    <2> DEFINE q == [IdleRare EXCEPT !.pc = "equip", !.lease = l, !.user = lease[l].user]
    <2>1. lease[l].user \in RareUsers
      BY RareTypes DEF Lease
    <2>2. q \in RareReq /\ q.pc = "equip" /\ q.lease = l /\ q.user = lease[l].user
      BY <2>1, IdleRareFacts DEF RareReq
    <2>3. rareReq' = [rareReq EXCEPT ![r] = q] /\ lease[l].state # "none"
      BY <1>3 DEF RareEquipRead
    <2> HIDE DEF q
    <2> QED BY <1>3, <2>2, <2>3, OneRequestStep DEF RareEquipRead
  <1>4. ASSUME NEW r \in RareReqs, RareEnqueue(r) PROVE RareInv'
    <2>1. PICK l \in Leases : /\ l = rareReq[r].lease /\ lease[l].state # "none"
      BY <1>4, RareTypes DEF RareEnqueue, RareReq, RareInv, ReqInv
    <2>2. /\ rareReq' \in [RareReqs -> RareReq]
          /\ \A s \in RareReqs : rareReq'[s] = rareReq[s] \/ rareReq'[s].pc = "idle"
      BY <1>4, RareTypes, IdleRareFacts DEF RareEnqueue
    <2>3. /\ UNCHANGED <<rareNow, available, lease, overlay, late, rareStalls>>
          /\ \/ UNCHANGED leaseJob
             \/ leaseJob' = [leaseJob EXCEPT ![l] = JobAdd(leaseJob[l], lease[l].until)]
      BY <1>4, <2>1 DEF RareEnqueue
    <2>4. lease[l].until \in Nat /\ leaseJob[l] \in Job(Nat)
      BY RareTypes DEF Lease
    <2>5. PICK j \in Job(Nat) : /\ j = JobAdd(leaseJob[l], lease[l].until)
                                /\ j = leaseJob[l] \/ j.state = "delayed"
                                /\ j = leaseJob[l] \/ j.due = lease[l].until
      <3> DEFINE j == JobAdd(leaseJob[l], lease[l].until)
      <3>1. CASE leaseJob[l].state = "none"
        <4>1. j = [state |-> "delayed", due |-> lease[l].until]
          BY <3>1 DEF JobAdd
        <4>2. j \in Job(Nat) /\ j.state = "delayed" /\ j.due = lease[l].until
          BY <2>4, <4>1 DEF Job
        <4> HIDE DEF j
        <4> QED BY <4>2 DEF j
      <3>2. CASE leaseJob[l].state # "none"
        <4>1. j = leaseJob[l]
          BY <3>2 DEF JobAdd
        <4> QED BY <2>4, <4>1
      <3> QED BY <3>1, <3>2
    <2>6. /\ leaseJob' \in [Leases -> Job(Nat)]
          /\ \A m \in Leases : \/ leaseJob'[m] = leaseJob[m]
                               \/ m = l /\ leaseJob'[m] = j /\ j # leaseJob[l]
      BY <2>3, <2>5, RareTypes
    <2>7. ASSUME NEW m \in Leases PROVE LeaseInv(m)'
      <3>1. LeaseInv(m)
        BY DEF RareInv
      <3> QED BY <2>1, <2>3, <2>5, <2>6, <3>1 DEF LeaseInv
    <2>8. HandlersInv'
      BY <2>3, <2>5, <2>6 DEF RareInv, HandlersInv
    <2>9. /\ late' \in [Leases -> Nat] /\ rareStalls' \in 0..MaxRareStalls
          /\ rareStalls <= rareStalls'
      BY <2>3, RareTypes DEF RareInv, RareTypeOK
    <2> QED BY <2>2, <2>3, <2>6, <2>7, <2>8, <2>9, JobsStep
  <1>5. ASSUME NEW r \in RareReqs, RareEquipWrite(r) PROVE RareInv'
    <2>1. PICK l \in Leases : /\ l = rareReq[r].lease /\ lease[l].state # "none"
                              /\ lease[l].user = rareReq[r].user
      BY <1>5, RareTypes DEF RareEquipWrite, RareReq, RareInv, ReqInv
    <2>2. PICK u \in RareUsers : u = rareReq[r].user
      BY RareTypes DEF RareReq
    <2>3. lease[l].until \in Nat /\ lease[l].state \in {"none", "active", "over"}
      BY RareTypes DEF Lease
    <2>4. /\ overlay' = [overlay EXCEPT ![u] = lease[l].until] \/ UNCHANGED overlay
          /\ UNCHANGED <<rareNow, available, lease, leaseJob, late, rareStalls>>
      BY <1>5, <2>1, <2>2 DEF RareEquipWrite, OverlayUntil
    <2>5. /\ overlay' \in [RareUsers -> Nat]
          /\ \A v \in RareUsers : \/ overlay'[v] = overlay[v]
                                  \/ v = u /\ overlay'[v] = lease[l].until
      BY <2>3, <2>4, RareTypes
    <2>6. rareReq' \in [RareReqs -> RareReq]
          /\ \A s \in RareReqs : rareReq'[s] = rareReq[s] \/ rareReq'[s].pc = "idle"
      BY <1>5, RareTypes, IdleRareFacts DEF RareEquipWrite
    <2>7. RareTypeOK'
      BY <2>4, <2>5, <2>6 DEF RareInv, RareTypeOK
    <2>8. ASSUME NEW v \in RareUsers PROVE HolderInv(v)'
      <3>1. CASE overlay'[v] = overlay[v]
        BY <2>4, <3>1 DEF RareInv, HolderInv
      <3>2. CASE v = u /\ overlay'[v] = lease[l].until
        <4>1. lease[l].until > rareNow => lease[l].state # "over"
          <5>1. lease[l].state = "over" => lease[l].until <= rareNow
            BY DEF RareInv, LeaseInv
          <5> QED BY <2>3, <5>1, RareTypes
        <4> QED BY <2>1, <2>2, <2>3, <2>4, <3>2, <4>1 DEF HolderInv
      <3> QED BY <2>5, <3>1, <3>2
    <2>9. \A s \in RareReqs : ReqInv(s)'
      BY <2>4, <2>6, RequestsStep DEF LeasesKept
    <2>10. (\A m \in Leases : LeaseInv(m)') /\ OneLease' /\ HandlersInv'
      BY <2>4 DEF RareInv, LeaseInv, OneLease, HandlersInv
    <2> QED BY <2>7, <2>8, <2>9, <2>10 DEF RareInv
  <1>6. ASSUME NEW u \in RareUsers, RareUnequip(u) PROVE RareInv'
    <2>1. /\ overlay' \in [RareUsers -> Nat]
          /\ \A v \in RareUsers : overlay'[v] = overlay[v] \/ overlay'[v] = 0
      BY <1>6, RareTypes DEF RareUnequip
    <2>2. RareTypeOK'
      BY <1>6, <2>1 DEF RareUnequip, RareInv, RareTypeOK
    <2>3. ASSUME NEW v \in RareUsers PROVE HolderInv(v)'
      <3>1. CASE overlay'[v] = overlay[v]
        BY <1>6, <3>1 DEF RareUnequip, RareInv, HolderInv
      <3>2. CASE overlay'[v] = 0
        BY <1>6, <3>2, RareTypes DEF RareUnequip, HolderInv
      <3> QED BY <2>1, <3>1, <3>2
    <2>4. (\A l \in Leases : LeaseInv(l)') /\ OneLease' /\ HandlersInv'
      BY <1>6 DEF RareUnequip, RareInv, LeaseInv, OneLease, HandlersInv
    <2>5. \A r \in RareReqs : ReqInv(r)'
      BY <1>6 DEF RareUnequip, RareInv, ReqInv
    <2> QED BY <2>2, <2>3, <2>4, <2>5 DEF RareInv
  <1>7. ASSUME NEW l \in Leases, LeaseEndRead(l) PROVE RareInv'
    <2>1. /\ leaseJob[l].state = "delayed" /\ leaseJob[l].due <= rareNow
          /\ UNCHANGED <<rareNow, available, lease, overlay, late, rareStalls, rareReq>>
      BY <1>7 DEF LeaseEndRead, JobReady
    <2>2. leaseJob[l] \in Job(Nat) /\ leaseJob \in [Leases -> Job(Nat)]
      BY RareTypes
    <2>3. PICK j \in Job(Nat) :
             /\ leaseJob' = [leaseJob EXCEPT ![l] = j]
             /\ \/ j.state = "none"
                \/ j.state = "active" /\ j.due = leaseJob[l].due /\ lease[l].state = "active"
      <3>1. CASE lease[l].state = "active"
        <4> DEFINE j == JobTaken(leaseJob[l])
        <4>1. j \in Job(Nat) /\ j.state = "active" /\ j.due = leaseJob[l].due
          BY <2>2 DEF JobTaken, Job
        <4>2. leaseJob' = [leaseJob EXCEPT ![l] = j]
          BY <1>7, <3>1 DEF LeaseEndRead
        <4> QED BY <3>1, <4>1, <4>2
      <3>2. CASE lease[l].state # "active"
        BY <1>7, <3>2, IdleRareFacts DEF LeaseEndRead
      <3> QED BY <3>1, <3>2
    <2>4. /\ leaseJob' \in [Leases -> Job(Nat)] /\ leaseJob'[l] = j
          /\ \A m \in Leases : m # l => leaseJob'[m] = leaseJob[m]
      BY <2>2, <2>3
    <2>5. ASSUME NEW m \in Leases PROVE LeaseInv(m)'
      <3>1. LeaseInv(m)
        BY DEF RareInv
      <3>2. CASE m # l
        BY <2>1, <2>4, <3>1, <3>2 DEF LeaseInv
      <3>3. CASE m = l
        <4>1. lease[l].until <= rareNow /\ lease[l].until = leaseJob[l].due
          BY <2>1, <3>1, <3>3 DEF LeaseInv
        <4> QED BY <2>1, <2>3, <2>4, <3>1, <3>3, <4>1 DEF LeaseInv
      <3> QED BY <3>2, <3>3
    <2>6. HandlersInv'
      BY <2>1, <2>3, <2>4 DEF RareInv, HandlersInv
    <2>7. /\ late' \in [Leases -> Nat] /\ rareStalls' \in 0..MaxRareStalls
          /\ rareStalls <= rareStalls' /\ rareReq' \in [RareReqs -> RareReq]
      BY <2>1, RareTypes DEF RareInv, RareTypeOK
    <2> QED BY <2>1, <2>4, <2>5, <2>6, <2>7, JobsStep
  <1>8. ASSUME NEW l \in Leases, LeaseEndWrite(l) PROVE RareInv'
    <2>1. /\ leaseJob' \in [Leases -> Job(Nat)] /\ leaseJob'[l].state = "none"
          /\ \A m \in Leases : leaseJob'[m] = leaseJob[m] \/ leaseJob'[m].state = "none"
      BY <1>8, RareTypes, IdleRareFacts DEF LeaseEndWrite
    <2>2. /\ lease[l].state # "none" /\ lease[l].until <= rareNow
          /\ rareStalls = 0 => lease[l].state = "active"
      BY <1>8 DEF LeaseEndWrite, RareInv, LeaseInv, HandlersInv
    <2>3. late' \in [Leases -> Nat] /\ \A m \in Leases : late'[m] = late[m]
      BY <1>8, RareTypes DEF LeaseEndWrite
    <2> QED BY <1>8, <2>1, <2>2, <2>3, EndStep DEF LeaseEndWrite
  <1>9. ASSUME NEW l \in Leases, LeaseEndLate(l) PROVE RareInv'
    <2>1. late[l] \in Nat /\ late[l] > 0 /\ late \in [Leases -> Nat]
      BY <1>9, RareTypes DEF LeaseEndLate
    <2>2. rareStalls # 0
      BY <2>1 DEF RareInv, HandlersInv
    <2>3. lease[l].state # "none" /\ lease[l].until <= rareNow
      BY <2>1 DEF RareInv, LeaseInv
    <2>4. late[l] - 1 \in Nat /\ late[l] - 1 < late[l]
      BY <2>1
    <2>5. late' = [late EXCEPT ![l] = late[l] - 1]
      BY <1>9 DEF LeaseEndLate
    <2>6. /\ late' \in [Leases -> Nat]
          /\ \A m \in Leases : late'[m] = late[m] \/ (late[m] > 0 /\ late'[m] < late[m])
      BY <2>1, <2>4, <2>5
    <2>7. leaseJob' = leaseJob /\ leaseJob \in [Leases -> Job(Nat)]
      BY <1>9, RareTypes DEF LeaseEndLate
    <2> QED BY <1>9, <2>2, <2>3, <2>6, <2>7, EndStep DEF LeaseEndLate
  <1>10. ASSUME NEW l \in Leases, LeaseEndFails(l) \/ LeaseEndStalls(l) PROVE RareInv'
    <2>1. PICK s \in {"delayed", "kept"} :
             /\ leaseJob' = [leaseJob EXCEPT ![l].state = s]
             /\ leaseJob[l].state = "active"
             /\ UNCHANGED <<rareNow, available, lease, overlay, rareReq>>
      BY <1>10 DEF LeaseEndFails, LeaseEndStalls
    <2>2. /\ leaseJob' \in [Leases -> Job(Nat)]
          /\ leaseJob'[l].state = s /\ leaseJob'[l].due = leaseJob[l].due
          /\ \A m \in Leases : m # l => leaseJob'[m] = leaseJob[m]
      BY <2>1, JobMoves
    <2>3. /\ late' \in [Leases -> Nat] /\ rareStalls' \in 0..MaxRareStalls
          /\ \A m \in Leases : m # l => late'[m] = late[m]
          /\ \/ late' = late /\ rareStalls' = rareStalls
             \/ rareStalls' = rareStalls + 1
      <3>1. CASE LeaseEndFails(l)
        BY <3>1, RareTypes DEF LeaseEndFails, RareInv, RareTypeOK
      <3>2. CASE LeaseEndStalls(l)
        <4>1. late[l] + 1 \in Nat /\ late \in [Leases -> Nat]
          BY RareTypes
        <4>2. late' = [late EXCEPT ![l] = late[l] + 1] /\ rareStalls' = rareStalls + 1
          BY <3>2 DEF LeaseEndStalls
        <4>3. rareStalls + 1 \in 0..MaxRareStalls
          BY <3>2, RareAssumption, RareTypes DEF LeaseEndStalls
        <4> QED BY <4>1, <4>2, <4>3
      <3> QED BY <1>10, <3>1, <3>2
    <2>4. rareStalls <= rareStalls' /\ (rareStalls' = 0 => rareStalls = 0 /\ late' = late)
      BY <2>3, RareTypes
    <2>5. ASSUME NEW m \in Leases PROVE LeaseInv(m)'
      <3>1. LeaseInv(m)
        BY DEF RareInv
      <3>2. CASE m # l
        BY <2>1, <2>2, <2>3, <3>1, <3>2 DEF LeaseInv
      <3>3. CASE m = l
        BY <2>1, <2>2, <3>1, <3>3 DEF LeaseInv
      <3> QED BY <3>2, <3>3
    <2>6. HandlersInv'
      BY <2>1, <2>2, <2>4 DEF RareInv, HandlersInv
    <2>7. rareReq' \in [RareReqs -> RareReq]
      BY <2>1, RareTypes
    <2> QED BY <2>1, <2>2, <2>3, <2>4, <2>5, <2>6, <2>7, JobsStep
  <1>11. CASE RareDay
    <2>1. /\ rareNow \in Nat /\ rareNow' = rareNow + 1 /\ rareNow' \in 0..RareEnd
          /\ UNCHANGED <<available, lease, overlay, leaseJob, late, rareStalls, rareReq>>
      BY <1>11, RareTypes, RareAssumption DEF RareDay
    <2>2. RareTypeOK'
      BY <2>1 DEF RareInv, RareTypeOK
    <2>3. ASSUME NEW l \in Leases PROVE LeaseInv(l)'
      <3>1. lease[l].until \in Nat
        BY RareTypes DEF Lease
      <3>2. \A n \in Nat : n <= rareNow => n <= rareNow'
        <4>1. rareNow \in Nat /\ rareNow' = rareNow + 1
          BY <2>1
        <4> QED BY <4>1
      <3>3. LeaseInv(l)
        BY DEF RareInv
      <3> QED BY <2>1, <3>1, <3>2, <3>3 DEF LeaseInv
    <2>4. ASSUME NEW u \in RareUsers PROVE HolderInv(u)'
      <3>1. overlay[u] > rareNow' => overlay[u] > rareNow
        BY <2>1, RareTypes
      <3> QED BY <2>1, <3>1 DEF RareInv, HolderInv
    <2>5. (\A r \in RareReqs : ReqInv(r)') /\ OneLease' /\ HandlersInv'
      BY <2>1 DEF RareInv, ReqInv, OneLease, HandlersInv
    <2> QED BY <2>2, <2>3, <2>4, <2>5 DEF RareInv
  <1>12. CASE UNCHANGED rareVars
    BY <1>12 DEF rareVars, RareInv, RareTypeOK, LeaseInv, ReqInv, HolderInv, OneLease,
                 HandlersInv
  <1> QED BY <1>1, <1>2, <1>3, <1>4, <1>5, <1>6, <1>7, <1>8, <1>9, <1>10, <1>11, <1>12
          DEF RareNext

\* The row lock of executePurchaseRareId, and the one handler of an expiry,
\* keep the id to one active lease, for any number of users, leases and
\* requests and with retries, as long as no handler goes on without its job.
THEOREM OneLeaseAlways == RareSpec => []OneLease
  <1>1. RareInv => OneLease
    BY DEF RareInv
  <1> QED BY <1>1, RareInitInv, RareStep, PTL DEF RareSpec

\* A user shows the id only during a lease of their own and no longer than it,
\* also when activateOwnedRarePublicId writes what it read before the lease
\* ended, and when processRareIdExpiryJob writes after it has lost its job.
THEOREM ShownIsLeasedAlways == RareSpec => []ShownIsLeased
  <1>1. RareInv => ShownIsLeased
    BY DEF RareInv, HolderInv, ShownIsLeased, ShowsId
  <1> QED BY <1>1, RareInitInv, RareStep, PTL DEF RareSpec

=============================================================================
