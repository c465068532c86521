------------------------- MODULE HostEarningsProofs -------------------------
(***************************************************************************)
(* What a host earns by the minute and by the day, for every value of the  *)
(* constants: the minutes of paid calls, and the rewards of a normal host. *)
(* The two share no rows, and a theorem is about one of them.              *)
(***************************************************************************)
EXTENDS VideoCall, NormalHostReward, TLAPS

(***************************************************************************)
(* VideoCall.  MinutesInOrder and OneMinuteAfterEnd for any number of      *)
(* calls and ticks in flight, with any balance and any replica lag.  The   *)
(* inductive invariant says what a tick knows of a call that is billed by  *)
(* ticks: the minute it is about to charge is at most one past the count,  *)
(* and at most one past the end of the call.  A tick that has charged and  *)
(* not counted has put a minute of its own in the ledger, so a call billed *)
(* by Live-server is counted by Live-server alone.                         *)
(***************************************************************************)

\* A call that nobody has accepted.
Waiting == {"NONE", "RINGING"}

\* What a replica may still answer with.
ServedInv(c) ==
    /\ \A row \in served[c] : row.minsCharged <= session[c].minsCharged
    /\ session[c].status = "NONE" => \A row \in served[c] : row.status # "RINGING"
    /\ session[c].status \in Waiting => \A row \in served[c] : row.status # "ACTIVE"
    /\ BilledBy(c, "tick") /\ session[c].status \in Ended =>
         \A row \in served[c] : row.status = "ACTIVE" => row.minsCharged <= atEnd[c]

\* The ledger of a call and the count in its row.
CountInv(c) ==
    /\ session[c].status \in Waiting =>
         Len(minutes[c]) = 0 /\ session[c].minsCharged = 0 /\ atEnd[c] = 0
    /\ BilledBy(c, "tick") =>
         /\ \A i \in 1..Len(minutes[c]) : minutes[c][i].n = i
         /\ \/ Len(minutes[c]) = session[c].minsCharged
            \/ Len(minutes[c]) = session[c].minsCharged + 1
         /\ session[c].status \in Ended => Len(minutes[c]) <= atEnd[c] + 1
    /\ BilledBy(c, "live") =>
         /\ \A i \in 1..Len(minutes[c]) : minutes[c][i].n = i
         /\ Len(minutes[c]) = session[c].minsCharged
         /\ session[c].status \in Ended => Len(minutes[c]) = atEnd[c]

\* What a tick in flight knows of its call.
TickInv(t) ==
    tick[t].pc # "idle" =>
        /\ session[tick[t].call].status \notin Waiting
        /\ tick[t].pc \in {"frozen", "charge"} =>
             /\ 1 <= tick[t].minute
             /\ tick[t].minute <= session[tick[t].call].minsCharged + 1
             /\ BilledBy(tick[t].call, "tick")
                    /\ session[tick[t].call].status \in Ended =>
                  tick[t].minute <= atEnd[tick[t].call] + 1
        /\ tick[t].pc = "count" =>
             /\ ~BilledBy(tick[t].call, "live")
             /\ BilledBy(tick[t].call, "tick") =>
                  Len(minutes[tick[t].call]) = session[tick[t].call].minsCharged + 1

\* Between the commit of a minute and its count no other minute commits, in a
\* call billed by ticks.
CountAlone ==
    \A t, u \in Ticks : /\ tick[t].pc = "count" /\ tick[u].pc = "count"
                        /\ tick[t].call = tick[u].call
                        /\ BilledBy(tick[t].call, "tick")
                        => t = u

CallInv ==
    /\ CallTypeOK
    /\ \A c \in Calls : ServedInv(c) /\ CountInv(c)
    /\ \A t \in Ticks : TickInv(t)
    /\ CountAlone

\* The tick of a request that is not running.
LEMMA IdleTickFacts == IdleTick \in Tick /\ IdleTick.pc = "idle"
  <1>1. (CHOOSE c \in Calls : TRUE) \in Calls
    BY CallAssumption
  <1> QED BY <1>1 DEF IdleTick, Tick

\* The row before the call.
LEMMA NoRowFacts == NoRow \in SessionRow /\ NoRow.status = "NONE" /\ NoRow.minsCharged = 0
  BY DEF NoRow, SessionRow, CallStatus

\* No call, no request.
LEMMA CallInitInv == CallInit => CallInv
  <1> SUFFICES ASSUME CallInit PROVE CallInv
    OBVIOUS
  <1>1. CallTypeOK
    <2>1. minutes \in [Calls -> Seq(Minute)]
      BY DEF CallInit
    <2>2. coins \in Nat /\ topUps \in 0..MaxTopUps /\ atEnd \in [Calls -> Nat]
      BY CallAssumption DEF CallInit
    <2>3. frozen \in BOOLEAN
      BY DEF CallInit
    <2>4. session \in [Calls -> SessionRow] /\ served \in [Calls -> SUBSET SessionRow]
      BY NoRowFacts DEF CallInit
    <2>5. tick \in [Ticks -> Tick]
      BY IdleTickFacts DEF CallInit
    <2> QED BY <2>1, <2>2, <2>3, <2>4, <2>5 DEF CallTypeOK
  <1>2. ASSUME NEW c \in Calls PROVE ServedInv(c) /\ CountInv(c)
    BY NoRowFacts DEF CallInit, ServedInv, CountInv, Ended, Waiting
  <1>3. \A t \in Ticks : tick[t].pc = "idle"
    BY IdleTickFacts DEF CallInit
  <1> QED BY <1>1, <1>2, <1>3 DEF CallInv, TickInv, CountAlone

(***************************************************************************)
(* The steps                                                               *)
(***************************************************************************)

\* The part of the type that no minute depends on.
PurseOK == coins \in Nat /\ frozen \in BOOLEAN /\ topUps \in 0..MaxTopUps

\* Every step keeps the purse in its type.
LEMMA PurseStep == CallTypeOK /\ [CallNext]_callVars => PurseOK'
  <1> SUFFICES ASSUME CallTypeOK, [CallNext]_callVars PROVE PurseOK'
    OBVIOUS
  <1>1. coins' \in Nat
    <2>1. coins \in Nat
      BY DEF CallTypeOK
    <2>2. coins' = coins \/ (coins >= 1 /\ coins' = coins - 1) \/ coins' = coins + 1
      BY DEF CallNext, callVars, Initiate, End, TickRead, CheckFrozen, Charge, CountMinute,
             CheckNext, TickCrash, Freeze, TopUp, Ring, Miss, CallAccept, CallMinute,
             BillLive, Bill
    <2> QED BY <2>1, <2>2
  <1>2. topUps' \in 0..MaxTopUps
    <2>1. topUps \in 0..MaxTopUps /\ MaxTopUps \in Nat
      BY CallAssumption DEF CallTypeOK
    <2>2. topUps' = topUps \/ (topUps < MaxTopUps /\ topUps' = topUps + 1)
      BY DEF CallNext, callVars, Initiate, End, TickRead, CheckFrozen, Charge, CountMinute,
             CheckNext, TickCrash, Freeze, TopUp, Ring, Miss, CallAccept, CallMinute,
             BillLive, Bill
    <2> QED BY <2>1, <2>2
  <1>3. frozen' \in BOOLEAN
    <2>1. frozen' = frozen \/ frozen' = ~frozen
      BY DEF CallNext, callVars, Initiate, End, TickRead, CheckFrozen, Charge, CountMinute,
             CheckNext, TickCrash, Freeze, TopUp, Ring, Miss, CallAccept, CallMinute,
             BillLive, Bill
    <2> QED BY <2>1 DEF CallTypeOK
  <1> QED BY <1>1, <1>2, <1>3 DEF PurseOK

\* Requests that stop, and nothing else of the calls.
LEMMA QuietStep ==
    ASSUME CallInv, PurseOK', UNCHANGED <<session, served, minutes, atEnd>>,
           tick' \in [Ticks -> Tick],
           \A u \in Ticks : tick'[u] = tick[u] \/ tick'[u].pc = "idle"
    PROVE  CallInv'
  <1>1. CallTypeOK'
    BY DEF CallInv, CallTypeOK, PurseOK
  <1>2. ASSUME NEW c \in Calls PROVE (ServedInv(c) /\ CountInv(c))'
    BY DEF CallInv, ServedInv, CountInv, BilledBy
  <1>3. ASSUME NEW t \in Ticks PROVE TickInv(t)'
    BY DEF CallInv, TickInv, BilledBy
  <1>4. CountAlone'
    BY DEF CallInv, CountAlone, BilledBy
  <1> QED BY <1>1, <1>2, <1>3, <1>4 DEF CallInv

\* What a write of a row does.
LEMMA WriteFacts ==
    ASSUME CallTypeOK, NEW c \in Calls, NEW row \in SessionRow, WriteSession(c, row)
    PROVE  /\ session' \in [Calls -> SessionRow] /\ served' \in [Calls -> SUBSET SessionRow]
           /\ session'[c] = row /\ served'[c] = served[c] \cup {row}
           /\ \A d \in Calls \ {c} : session'[d] = session[d] /\ served'[d] = served[d]
  BY DEF CallTypeOK, WriteSession

\* A call ends, again or for the first time, with the request that ended it.
LEMMA EndStep ==
    ASSUME CallInv, PurseOK', NEW c \in Calls, NEW status \in Ended,
           session[c].status # "NONE", EndSession(c, status), UNCHANGED minutes,
           tick' \in [Ticks -> Tick],
           \A u \in Ticks : tick'[u] = tick[u] \/ tick'[u].pc = "idle"
    PROVE  CallInv'
  <1> DEFINE row == [session[c] EXCEPT !.status = status]
  <1>1. CallTypeOK /\ session[c] \in SessionRow
    BY DEF CallInv, CallTypeOK
  <1>2. /\ row \in SessionRow /\ row.status = status
        /\ row.minsCharged = session[c].minsCharged
    BY <1>1 DEF SessionRow, Ended, CallStatus
  <1>3. WriteSession(c, row)
    BY DEF EndSession
  <1> HIDE DEF row
  <1>4. /\ session' \in [Calls -> SessionRow] /\ served' \in [Calls -> SUBSET SessionRow]
        /\ session'[c] = row /\ served'[c] = served[c] \cup {row}
        /\ \A d \in Calls \ {c} : session'[d] = session[d] /\ served'[d] = served[d]
    BY <1>1, <1>2, <1>3, WriteFacts
  <1>5. /\ Len(minutes[c]) \in Nat /\ atEnd \in [Calls -> Nat]
        /\ session[c].minsCharged \in Nat /\ session[c].status \in CallStatus
    BY <1>1 DEF CallTypeOK, SessionRow
  <1>6. /\ atEnd' \in [Calls -> Nat]
        /\ atEnd'[c] = IF session[c].status = "ACTIVE" THEN Len(minutes[c]) ELSE atEnd[c]
        /\ \A d \in Calls \ {c} : atEnd'[d] = atEnd[d]
    BY <1>5 DEF EndSession
  <1>7. CallTypeOK'
    BY <1>1, <1>4, <1>6 DEF CallTypeOK, PurseOK
  <1>8. \/ session[c].status \in Ended \/ session[c].status = "ACTIVE"
        \/ session[c].status = "RINGING"
    BY <1>5 DEF CallStatus, Ended
  <1>9. ServedInv(c) /\ CountInv(c)
    BY DEF CallInv
  <1>0. \A d \in Calls : (BilledBy(d, "tick")' <=> BilledBy(d, "tick"))
                         /\ (BilledBy(d, "live")' <=> BilledBy(d, "live"))
    BY DEF BilledBy
  <1>10. ServedInv(c)'
    <2>1. status # "ACTIVE" /\ status # "NONE" /\ status \notin Waiting
      BY DEF Ended, Waiting
    <2>2. ASSUME NEW r \in served'[c]
          PROVE  r.minsCharged <= session'[c].minsCharged
      BY <1>2, <1>4, <1>5, <1>9 DEF ServedInv
    <2>3. ASSUME NEW r \in served'[c], r.status = "ACTIVE", BilledBy(c, "tick")
          PROVE  r.minsCharged <= atEnd'[c]
      <3>1. r \in served[c] /\ r \in SessionRow /\ r.minsCharged \in Nat
        BY <1>1, <1>2, <1>4, <2>1, <2>3 DEF CallTypeOK, SessionRow
      <3>2. CASE session[c].status \in Ended
        BY <1>6, <1>9, <2>3, <3>1, <3>2 DEF ServedInv, Ended
      <3>3. CASE session[c].status = "ACTIVE"
        BY <1>5, <1>6, <1>9, <2>3, <3>1, <3>3 DEF ServedInv, CountInv
      <3>4. CASE session[c].status = "RINGING"
        BY <1>9, <2>3, <3>1, <3>4 DEF ServedInv, Waiting
      <3> QED BY <1>8, <3>2, <3>3, <3>4
    <2> QED BY <1>0, <1>2, <1>4, <2>1, <2>2, <2>3 DEF ServedInv
  <1>11. CountInv(c)'
    <2>1. session'[c].minsCharged = session[c].minsCharged /\ session'[c].status \notin Waiting
      BY <1>2, <1>4 DEF Ended, Waiting
    <2>2. BilledBy(c, "tick") => Len(minutes[c]) <= atEnd'[c] + 1
      BY <1>5, <1>6, <1>8, <1>9 DEF CountInv, Ended, Waiting
    <2>3. BilledBy(c, "live") => Len(minutes[c]) = atEnd'[c]
      BY <1>5, <1>6, <1>8, <1>9 DEF CountInv, Ended, Waiting
    <2> QED BY <1>0, <1>9, <2>1, <2>2, <2>3 DEF CountInv
  <1>12. ASSUME NEW d \in Calls PROVE (ServedInv(d) /\ CountInv(d))'
    <2>1. CASE d = c
      BY <1>10, <1>11, <2>1
    <2>2. CASE d # c
      BY <1>0, <1>4, <1>6, <2>2 DEF CallInv, ServedInv, CountInv
    <2> QED BY <2>1, <2>2
  <1>13. ASSUME NEW t \in Ticks PROVE TickInv(t)'
    <2>1. CASE tick'[t].pc = "idle"
      BY <2>1 DEF TickInv
    <2>2. CASE tick'[t].pc # "idle"
      <3>1. tick'[t] = tick[t] /\ tick[t] \in Tick /\ TickInv(t)
        BY <2>2 DEF CallInv, CallTypeOK
      <3>2. tick[t].call \in Calls /\ tick[t].minute \in Nat
        BY <3>1 DEF Tick
      <3>3. CASE tick[t].call # c
        BY <1>0, <1>4, <1>6, <3>1, <3>2, <3>3 DEF TickInv
      <3>4. CASE tick[t].call = c
        <4>1. session'[c].minsCharged = session[c].minsCharged /\ session'[c].status \notin Waiting
          BY <1>2, <1>4 DEF Ended, Waiting
        <4>2. ASSUME tick[t].pc \in {"frozen", "charge"}, BilledBy(c, "tick")
              PROVE  tick[t].minute <= atEnd'[c] + 1
          BY <1>5, <1>6, <1>8, <1>9, <2>2, <3>1, <3>2, <3>4, <4>2
             DEF TickInv, CountInv, Ended, Waiting
        <4> QED BY <1>0, <3>1, <3>4, <4>1, <4>2 DEF TickInv
      <3> QED BY <3>3, <3>4
    <2> QED BY <2>1, <2>2
  <1>14. CountAlone'
    BY DEF CallInv, CountAlone, BilledBy
  <1> QED BY <1>7, <1>12, <1>13, <1>14 DEF CallInv

\* A call begins, active or ringing: no replica knew it, and no tick is under
\* way for it.
LEMMA BeginStep ==
    ASSUME CallInv, PurseOK', NEW c \in Calls, session[c].status = "NONE",
           NEW status \in {"ACTIVE", "RINGING"},
           WriteSession(c, [NoRow EXCEPT !.status = status]),
           UNCHANGED <<minutes, tick, atEnd>>
    PROVE  CallInv'
  <1> DEFINE row == [NoRow EXCEPT !.status = status]
  <1>1. CallTypeOK /\ ServedInv(c) /\ CountInv(c) /\ session[c].status \in Waiting
    BY DEF CallInv, Waiting
  <1>2. row \in SessionRow /\ row.status = status /\ row.minsCharged = 0
    BY NoRowFacts DEF SessionRow, CallStatus
  <1>3. WriteSession(c, row)
    OBVIOUS
  <1> HIDE DEF row
  <1>4. /\ session' \in [Calls -> SessionRow] /\ served' \in [Calls -> SUBSET SessionRow]
        /\ session'[c] = row /\ served'[c] = served[c] \cup {row}
        /\ \A d \in Calls \ {c} : session'[d] = session[d] /\ served'[d] = served[d]
    BY <1>1, <1>2, <1>3, WriteFacts
  <1>5. Len(minutes[c]) = 0 /\ session[c].minsCharged = 0 /\ atEnd[c] = 0
    BY <1>1 DEF CountInv
  <1>0. \A d \in Calls : (BilledBy(d, "tick")' <=> BilledBy(d, "tick"))
                         /\ (BilledBy(d, "live")' <=> BilledBy(d, "live"))
    BY DEF BilledBy
  <1>6. CallTypeOK'
    BY <1>1, <1>4 DEF CallTypeOK, PurseOK
  <1>7. ServedInv(c)'
    BY <1>1, <1>2, <1>4, <1>5 DEF ServedInv, Ended, Waiting
  <1>8. CountInv(c)'
    BY <1>2, <1>4, <1>5 DEF CountInv, Ended, Waiting
  <1>9. \A d \in Calls : (ServedInv(d) /\ CountInv(d))'
    BY <1>0, <1>4, <1>7, <1>8 DEF CallInv, ServedInv, CountInv
  <1>10. ASSUME NEW t \in Ticks PROVE TickInv(t)'
    <2>1. tick[t].call \in Calls /\ TickInv(t)
      BY DEF CallInv, CallTypeOK, Tick
    <2>2. tick[t].pc # "idle" => tick[t].call # c
      BY <1>1, <2>1 DEF TickInv
    <2> QED BY <1>0, <1>4, <2>1, <2>2 DEF TickInv
  <1>11. CountAlone'
    BY DEF CallInv, CountAlone, BilledBy
  <1> QED BY <1>6, <1>9, <1>10, <1>11 DEF CallInv

\* A tick takes the minute after the count of some row it was served.
LEMMA TickReadStep ==
    ASSUME CallInv, PurseOK', NEW t \in Ticks, NEW c \in Calls, TickRead(t, c)
    PROVE  CallInv'
  <1>1. PICK row \in served[c] :
          /\ row.status = "ACTIVE"
          /\ tick' = [tick EXCEPT ![t] = [pc |-> "frozen", call |-> c,
                                         minute |-> row.minsCharged + 1]]
    BY DEF TickRead
  <1>2. UNCHANGED <<session, served, minutes, atEnd>>
    BY DEF TickRead
  <1>3. /\ CallTypeOK /\ ServedInv(c) /\ row \in SessionRow /\ session[c] \in SessionRow
        /\ atEnd[c] \in Nat
    BY DEF CallInv, CallTypeOK
  <1>4. row.minsCharged \in Nat /\ session[c].minsCharged \in Nat
    BY <1>3 DEF SessionRow
  <1> DEFINE w == [pc |-> "frozen", call |-> c, minute |-> row.minsCharged + 1]
  <1>5. w \in Tick /\ w.pc = "frozen" /\ w.call = c /\ w.minute = row.minsCharged + 1
    BY <1>4 DEF Tick
  <1> HIDE DEF w
  <1>6. /\ tick' \in [Ticks -> Tick] /\ tick'[t] = w
        /\ \A u \in Ticks \ {t} : tick'[u] = tick[u]
    BY <1>1, <1>3, <1>5 DEF CallTypeOK, w
  <1>7. CallTypeOK'
    BY <1>2, <1>3, <1>6 DEF CallTypeOK, PurseOK
  <1>8. \A d \in Calls : (ServedInv(d) /\ CountInv(d))'
    BY <1>2 DEF CallInv, ServedInv, CountInv, BilledBy
  <1>9. TickInv(t)'
    <2>1. session[c].status \notin Waiting
      BY <1>1, <1>3 DEF ServedInv
    <2>2. 1 <= w.minute /\ w.minute <= session[c].minsCharged + 1
      BY <1>3, <1>4, <1>5 DEF ServedInv
    <2>3. BilledBy(c, "tick") /\ session[c].status \in Ended => w.minute <= atEnd[c] + 1
      BY <1>1, <1>3, <1>4, <1>5 DEF ServedInv
    <2> QED BY <1>2, <1>5, <1>6, <2>1, <2>2, <2>3 DEF TickInv, BilledBy
  <1>10. ASSUME NEW u \in Ticks, u # t PROVE TickInv(u)'
    BY <1>2, <1>6, <1>10 DEF CallInv, TickInv, BilledBy
  <1>11. CountAlone'
    BY <1>2, <1>5, <1>6 DEF CallInv, CountAlone, BilledBy
  <1> QED BY <1>7, <1>8, <1>9, <1>10, <1>11 DEF CallInv

\* The coins are not frozen: the tick goes on to charge.
LEMMA GoOnStep ==
    ASSUME CallInv, PurseOK', NEW t \in Ticks, tick[t].pc = "frozen",
           tick' = [tick EXCEPT ![t].pc = "charge"],
           UNCHANGED <<session, served, minutes, atEnd>>
    PROVE  CallInv'
  <1>1. CallTypeOK /\ tick[t] \in Tick /\ TickInv(t)
    BY DEF CallInv, CallTypeOK
  <1> DEFINE w == [tick[t] EXCEPT !.pc = "charge"]
  <1>2. /\ w \in Tick /\ w.pc = "charge" /\ w.call = tick[t].call
        /\ w.minute = tick[t].minute
    BY <1>1 DEF Tick
  <1>3. tick' = [tick EXCEPT ![t] = w]
    BY <1>1 DEF CallTypeOK
  <1> HIDE DEF w
  <1>4. /\ tick' \in [Ticks -> Tick] /\ tick'[t] = w
        /\ \A u \in Ticks \ {t} : tick'[u] = tick[u]
    BY <1>1, <1>2, <1>3 DEF CallTypeOK
  <1>5. CallTypeOK'
    BY <1>1, <1>4 DEF CallTypeOK, PurseOK
  <1>6. \A d \in Calls : (ServedInv(d) /\ CountInv(d))'
    BY DEF CallInv, ServedInv, CountInv, BilledBy
  <1>7. TickInv(t)'
    BY <1>1, <1>2, <1>4 DEF TickInv, BilledBy
  <1>8. ASSUME NEW u \in Ticks, u # t PROVE TickInv(u)'
    BY <1>4, <1>8 DEF CallInv, TickInv, BilledBy
  <1>9. CountAlone'
    BY <1>2, <1>4 DEF CallInv, CountAlone, BilledBy
  <1> QED BY <1>5, <1>6, <1>7, <1>8, <1>9 DEF CallInv

\* A minute that is not charged yet, and at most one past the count, is the next.
LEMMA NextMinute ==
    ASSUME NEW k \in Nat, NEW m \in Nat, NEW n \in Nat, k = m \/ k = m + 1,
           1 <= n, n <= m + 1, n \notin 1..k
    PROVE  n = k + 1 /\ k = m
  OBVIOUS

\* A minute more.
LEMMA AppendFacts ==
    ASSUME NEW s \in Seq(Minute), NEW m \in Minute
    PROVE  /\ Append(s, m) \in Seq(Minute) /\ Len(s) \in Nat
           /\ Len(Append(s, m)) = Len(s) + 1 /\ Append(s, m)[Len(s) + 1] = m
           /\ \A i \in 1..Len(s) : Append(s, m)[i] = s[i]
  OBVIOUS

\* Minutes in order, with the next one, are in order.
LEMMA AppendNext ==
    ASSUME NEW s \in Seq(Minute), NEW m \in Minute, m.n = Len(s) + 1,
           \A i \in 1..Len(s) : s[i].n = i
    PROVE  \A i \in 1..Len(Append(s, m)) : Append(s, m)[i].n = i
  <1>1. \A i \in 1..Len(Append(s, m)) : i \in 1..Len(s) \/ i = Len(s) + 1
    BY AppendFacts
  <1> QED BY <1>1, AppendFacts

\* The call after a minute more is billed in one way when it was before and the
\* minute is of that way.
LEMMA BilledMore ==
    ASSUME CallTypeOK, NEW c \in Calls, NEW m \in Minute,
           minutes' = [minutes EXCEPT ![c] = Append(@, m)], NEW way
    PROVE  /\ minutes' \in [Calls -> Seq(Minute)]
           /\ minutes'[c] = Append(minutes[c], m)
           /\ BilledBy(c, way)' <=> BilledBy(c, way) /\ m.by = way
           /\ \A d \in Calls \ {c} : /\ minutes'[d] = minutes[d]
                                     /\ BilledBy(d, way)' <=> BilledBy(d, way)
  <1>1. minutes \in [Calls -> Seq(Minute)] /\ minutes[c] \in Seq(Minute)
    BY DEF CallTypeOK
  <1>2. /\ Append(minutes[c], m) \in Seq(Minute) /\ Len(minutes[c]) \in Nat
        /\ Len(Append(minutes[c], m)) = Len(minutes[c]) + 1
        /\ Append(minutes[c], m)[Len(minutes[c]) + 1] = m
        /\ \A i \in 1..Len(minutes[c]) : Append(minutes[c], m)[i] = minutes[c][i]
    BY <1>1, AppendFacts
  <1>3. /\ minutes' \in [Calls -> Seq(Minute)]
        /\ minutes'[c] = Append(minutes[c], m)
        /\ \A d \in Calls \ {c} : minutes'[d] = minutes[d]
    BY <1>1, <1>2
  <1>4. \A i \in 1..(Len(minutes[c]) + 1) : i \in 1..Len(minutes[c]) \/ i = Len(minutes[c]) + 1
    BY <1>2
  <1>5. Len(minutes[c]) + 1 \in 1..(Len(minutes[c]) + 1)
          /\ \A i \in 1..Len(minutes[c]) : i \in 1..(Len(minutes[c]) + 1)
    BY <1>2
  <1>6. BilledBy(c, way)' <=> BilledBy(c, way) /\ m.by = way
    BY <1>2, <1>3, <1>4, <1>5 DEF BilledBy
  <1>7. \A d \in Calls \ {c} : BilledBy(d, way)' <=> BilledBy(d, way)
    BY <1>3 DEF BilledBy
  <1> QED BY <1>3, <1>6, <1>7

\* A minute that is fresh is the next one in a call billed by ticks: the
\* transaction commits only when the count has caught up with the ledger.
LEMMA ChargeStep ==
    ASSUME CallInv, PurseOK', NEW t \in Ticks, tick[t].pc = "charge",
           NEW c \in Calls, NEW m \in Minute,
           c = tick[t].call, m.by = "tick", m.n = tick[t].minute,
           FreshMinute(c, m),
           minutes' = [minutes EXCEPT ![c] = Append(@, m)],
           tick' = [tick EXCEPT ![t].pc = "count"],
           UNCHANGED <<session, served, atEnd>>
    PROVE  CallInv'
  <1>1. CallTypeOK /\ tick[t] \in Tick /\ TickInv(t)
    BY DEF CallInv, CallTypeOK
  <1>2. PICK n \in Nat : n = tick[t].minute /\ m.n = n /\ m.by = "tick"
    BY <1>1 DEF Tick
  <1> DEFINE w == [tick[t] EXCEPT !.pc = "count"]
  <1>3. w \in Tick /\ w.pc = "count" /\ w.call = c
    BY <1>1 DEF Tick
  <1>4. tick' = [tick EXCEPT ![t] = w]
    BY <1>1 DEF CallTypeOK
  <1> HIDE DEF w
  <1>5. /\ tick' \in [Ticks -> Tick] /\ tick'[t] = w
        /\ \A u \in Ticks \ {t} : tick'[u] = tick[u]
    BY <1>1, <1>3, <1>4 DEF CallTypeOK
  <1>6. /\ minutes[c] \in Seq(Minute) /\ session[c].minsCharged \in Nat /\ atEnd[c] \in Nat
        /\ Len(minutes[c]) \in Nat /\ CountInv(c) /\ ServedInv(c)
    BY <1>1 DEF CallInv, CallTypeOK, SessionRow
  <1>7. /\ minutes' \in [Calls -> Seq(Minute)] /\ minutes'[c] = Append(minutes[c], m)
        /\ BilledBy(c, "tick")' <=> BilledBy(c, "tick")
        /\ ~BilledBy(c, "live")'
        /\ \A d \in Calls \ {c} : /\ minutes'[d] = minutes[d]
                                  /\ BilledBy(d, "tick")' <=> BilledBy(d, "tick")
                                  /\ BilledBy(d, "live")' <=> BilledBy(d, "live")
    <2>1. /\ BilledBy(c, "tick")' <=> BilledBy(c, "tick")
          /\ \A d \in Calls \ {c} : BilledBy(d, "tick")' <=> BilledBy(d, "tick")
      BY <1>1, <1>2, BilledMore
    <2>2. /\ ~BilledBy(c, "live")'
          /\ \A d \in Calls \ {c} : BilledBy(d, "live")' <=> BilledBy(d, "live")
      BY <1>1, <1>2, BilledMore
    <2>3. /\ minutes' \in [Calls -> Seq(Minute)] /\ minutes'[c] = Append(minutes[c], m)
          /\ \A d \in Calls \ {c} : minutes'[d] = minutes[d]
      BY <1>1, <1>2, BilledMore
    <2> QED BY <2>1, <2>2, <2>3
  <1>8. /\ 1 <= n /\ n <= session[c].minsCharged + 1
        /\ BilledBy(c, "tick") /\ session[c].status \in Ended => n <= atEnd[c] + 1
        /\ session[c].status \notin Waiting
    BY <1>1, <1>2 DEF TickInv
  <1>9. ASSUME BilledBy(c, "tick")
        PROVE  n = Len(minutes[c]) + 1 /\ Len(minutes[c]) = session[c].minsCharged
    <2>1. n \notin 1..Len(minutes[c])
      <3>1. ASSUME NEW i \in 1..Len(minutes[c]), n = i PROVE FALSE
        <4>1. minutes[c][i] \in Minute /\ minutes[c][i].n = n /\ minutes[c][i].by = "tick"
          BY <1>6, <1>9, <3>1 DEF CountInv, BilledBy
        <4>2. minutes[c][i] = m
          BY <1>2, <4>1 DEF Minute
        <4> QED BY <4>2 DEF FreshMinute
      <3> QED BY <3>1
    <2>2. \/ Len(minutes[c]) = session[c].minsCharged
          \/ Len(minutes[c]) = session[c].minsCharged + 1
      BY <1>6, <1>9 DEF CountInv
    <2> QED BY <1>2, <1>6, <1>8, <2>1, <2>2, NextMinute
  <1>10. Len(minutes'[c]) = Len(minutes[c]) + 1
    BY <1>6, <1>7, AppendFacts
  <1>11. CallTypeOK'
    BY <1>1, <1>5, <1>7 DEF CallTypeOK, PurseOK
  <1>12. CountInv(c)'
    <2>1. ASSUME BilledBy(c, "tick")
          PROVE  /\ \A i \in 1..Len(minutes'[c]) : minutes'[c][i].n = i
                 /\ Len(minutes'[c]) = session[c].minsCharged + 1
                 /\ session[c].status \in Ended => Len(minutes'[c]) <= atEnd[c] + 1
      <3>1. \A i \in 1..Len(minutes[c]) : minutes[c][i].n = i
        BY <1>6, <2>1 DEF CountInv
      <3>2. \A i \in 1..Len(minutes'[c]) : minutes'[c][i].n = i
        BY <1>2, <1>6, <1>7, <1>9, <2>1, <3>1, AppendNext
      <3> QED BY <1>6, <1>8, <1>9, <1>10, <2>1, <3>2
    <2> QED BY <1>7, <1>8, <2>1 DEF CountInv
  <1>13. ServedInv(c)'
    BY <1>6, <1>7 DEF ServedInv
  <1>14. \A d \in Calls : (ServedInv(d) /\ CountInv(d))'
    <2>1. ASSUME NEW d \in Calls, d # c PROVE (ServedInv(d) /\ CountInv(d))'
      <3>1. /\ ServedInv(d) /\ CountInv(d)
            /\ minutes'[d] = minutes[d]
            /\ BilledBy(d, "tick")' <=> BilledBy(d, "tick")
            /\ BilledBy(d, "live")' <=> BilledBy(d, "live")
        BY <1>7, <2>1 DEF CallInv
      <3>2. ServedInv(d)'
        BY <3>1 DEF ServedInv
      <3>3. CountInv(d)'
        BY <3>1 DEF CountInv
      <3> QED BY <3>2, <3>3
    <2> QED BY <1>12, <1>13, <2>1
  <1>15. TickInv(t)'
    <2>1. BilledBy(c, "tick") => Len(minutes'[c]) = session'[c].minsCharged + 1
      BY <1>9, <1>10
    <2> QED BY <1>3, <1>5, <1>7, <1>8, <2>1 DEF TickInv
  <1>16. BilledBy(c, "tick") => \A u \in Ticks : tick[u].pc = "count" => tick[u].call # c
    <2>1. ASSUME BilledBy(c, "tick"), NEW u \in Ticks, tick[u].pc = "count", tick[u].call = c
          PROVE  FALSE
      <3>1. Len(minutes[c]) = session[c].minsCharged + 1
        BY <2>1 DEF CallInv, TickInv
      <3> QED BY <1>6, <1>9, <2>1, <3>1
    <2> QED BY <2>1
  <1>17. ASSUME NEW u \in Ticks, u # t PROVE TickInv(u)'
    <2>1. tick'[u] = tick[u] /\ TickInv(u) /\ tick[u].call \in Calls
      BY <1>1, <1>5, <1>17 DEF CallInv, CallTypeOK, Tick
    <2>2. CASE tick[u].call # c
      BY <1>7, <2>1, <2>2 DEF TickInv
    <2>3. CASE tick[u].call = c
      BY <1>7, <1>16, <2>1, <2>3 DEF TickInv
    <2> QED BY <2>2, <2>3
  <1>18. ASSUME NEW u \in Ticks, NEW v \in Ticks, tick'[u].pc = "count", tick'[v].pc = "count",
                tick'[u].call = tick'[v].call, BilledBy(tick[u].call, "tick")'
         PROVE  u = v
    <2>1. PICK d \in Calls : d = tick'[u].call
      BY <1>5 DEF Tick
    <2>2. BilledBy(d, "tick")'
      BY <1>18, <2>1 DEF BilledBy
    <2>3. CASE d = c
      BY <1>5, <1>7, <1>16, <1>18, <2>1, <2>2, <2>3
    <2>4. CASE d # c
      <3>1. u # t /\ v # t
        BY <1>3, <1>5, <1>18, <2>1, <2>4
      <3>2. BilledBy(d, "tick")
        BY <1>7, <2>2, <2>4
      <3> QED BY <1>5, <1>18, <2>1, <3>1, <3>2 DEF CallInv, CountAlone
    <2> QED BY <2>3, <2>4
  <1>19. CountAlone'
    BY <1>18 DEF CountAlone
  <1> QED BY <1>11, <1>14, <1>15, <1>17, <1>19 DEF CallInv

\* incrementMinute: the count catches up, and no other tick is about to count.
LEMMA CountStep ==
    ASSUME CallInv, PurseOK', NEW t \in Ticks, CountMinute(t)
    PROVE  CallInv'
  <1>1. /\ CallTypeOK /\ tick[t] \in Tick /\ TickInv(t) /\ tick[t].pc = "count"
        /\ UNCHANGED <<minutes, atEnd>>
    BY DEF CallInv, CallTypeOK, CountMinute
  <1>2. PICK c \in Calls : c = tick[t].call
    BY <1>1 DEF Tick
  <1> DEFINE w == [tick[t] EXCEPT !.pc = "afford"]
             row == [session[c] EXCEPT !.minsCharged = @ + 1]
  <1>3. w \in Tick /\ w.pc = "afford" /\ w.call = c
    BY <1>1, <1>2 DEF Tick
  <1>4. tick' = [tick EXCEPT ![t] = w]
    BY <1>1 DEF CallTypeOK, CountMinute
  <1>5. /\ session[c] \in SessionRow /\ session[c].minsCharged \in Nat /\ atEnd[c] \in Nat
        /\ Len(minutes[c]) \in Nat /\ ServedInv(c) /\ CountInv(c)
    BY <1>1, <1>2 DEF CallInv, CallTypeOK, SessionRow
  <1>6. /\ row \in SessionRow /\ row.status = session[c].status
        /\ row.minsCharged = session[c].minsCharged + 1
    BY <1>5 DEF SessionRow
  <1>7. WriteSession(c, row)
    BY <1>2 DEF CountMinute
  <1> HIDE DEF w, row
  <1>8. /\ tick' \in [Ticks -> Tick] /\ tick'[t] = w
        /\ \A u \in Ticks \ {t} : tick'[u] = tick[u]
    BY <1>1, <1>3, <1>4 DEF CallTypeOK
  <1>9. /\ session' \in [Calls -> SessionRow] /\ served' \in [Calls -> SUBSET SessionRow]
        /\ session'[c] = row /\ served'[c] = served[c] \cup {row}
        /\ \A d \in Calls \ {c} : session'[d] = session[d] /\ served'[d] = served[d]
    BY <1>1, <1>6, <1>7, WriteFacts
  <1>10. /\ BilledBy(c, "tick") => Len(minutes[c]) = session[c].minsCharged + 1
         /\ ~BilledBy(c, "live") /\ session[c].status \notin Waiting
    BY <1>1, <1>2 DEF TickInv
  <1>0. \A d \in Calls : (BilledBy(d, "tick")' <=> BilledBy(d, "tick"))
                         /\ (BilledBy(d, "live")' <=> BilledBy(d, "live"))
    BY <1>1 DEF BilledBy
  <1>11. CallTypeOK'
    BY <1>1, <1>8, <1>9 DEF CallTypeOK, PurseOK
  <1>12. ServedInv(c)'
    <2>1. \A r \in served'[c] : r.minsCharged <= session'[c].minsCharged
      <3>1. \A r \in served[c] : r.minsCharged \in Nat /\ r.minsCharged <= session[c].minsCharged
        BY <1>1, <1>5 DEF ServedInv, CallTypeOK, SessionRow
      <3> QED BY <1>5, <1>6, <1>9, <3>1
    <2>2. session[c].status \in Ended => row.status # "ACTIVE"
      BY <1>6 DEF Ended
    <2> QED BY <1>0, <1>1, <1>5, <1>6, <1>9, <1>10, <2>1, <2>2 DEF ServedInv, Waiting
  <1>13. CountInv(c)'
    BY <1>0, <1>1, <1>5, <1>6, <1>9, <1>10 DEF CountInv
  <1>14. ASSUME NEW d \in Calls PROVE (ServedInv(d) /\ CountInv(d))'
    <2>1. CASE d = c
      BY <1>12, <1>13, <2>1
    <2>2. CASE d # c
      <3>1. ServedInv(d) /\ CountInv(d)
        BY DEF CallInv
      <3>2. session'[d] = session[d] /\ served'[d] = served[d]
        BY <1>9, <2>2
      <3>3. ServedInv(d)'
        BY <1>0, <1>1, <3>1, <3>2 DEF ServedInv
      <3>4. CountInv(d)'
        BY <1>0, <1>1, <3>1, <3>2 DEF CountInv
      <3> QED BY <3>3, <3>4
    <2> QED BY <2>1, <2>2
  <1>15. TickInv(t)'
    BY <1>3, <1>6, <1>8, <1>9, <1>10 DEF TickInv
  <1>16. ASSUME NEW u \in Ticks, u # t PROVE TickInv(u)'
    <2>1. tick'[u] = tick[u] /\ TickInv(u) /\ tick[u] \in Tick
      BY <1>1, <1>8, <1>16 DEF CallInv, CallTypeOK
    <2>2. tick[u].call \in Calls /\ tick[u].minute \in Nat
      BY <2>1 DEF Tick
    <2>3. CASE tick[u].call # c
      BY <1>0, <1>1, <1>9, <2>1, <2>2, <2>3 DEF TickInv
    <2>4. CASE tick[u].call = c
      <3>1. BilledBy(c, "tick") => tick[u].pc # "count"
        BY <1>1, <1>2, <1>16, <2>4 DEF CallInv, CountAlone
      <3>2. tick[u].minute <= session[c].minsCharged + 1
              => tick[u].minute <= session'[c].minsCharged + 1
        <4>1. session'[c].minsCharged = session[c].minsCharged + 1
          BY <1>6, <1>9
        <4>2. session[c].minsCharged \in Nat
          BY <1>5
        <4> QED BY <2>2, <4>1, <4>2
      <3> QED BY <1>0, <1>1, <1>6, <1>9, <1>10, <2>1, <2>4, <3>1, <3>2 DEF TickInv
    <2> QED BY <2>3, <2>4
  <1>17. CountAlone'
    BY <1>1, <1>3, <1>8 DEF CallInv, CountAlone, BilledBy
  <1> QED BY <1>11, <1>14, <1>15, <1>16, <1>17 DEF CallInv

\* Live-server charges and counts a minute of a call that is not over.  A call
\* that only it bills is counted exactly; a call billed by ticks is so no more.
LEMMA LiveStep ==
    ASSUME CallInv, PurseOK', NEW c \in Calls, NEW n \in Nat, BillLive(c, n),
           n = session[c].minsCharged + 1, session[c].status \in {"RINGING", "ACTIVE"}
    PROVE  CallInv'
  <1> DEFINE m == [by |-> "live", n |-> n]
             row == [status |-> "ACTIVE", minsCharged |-> n]
  <1>1. /\ CallTypeOK /\ CountInv(c) /\ ServedInv(c) /\ session[c].minsCharged \in Nat
        /\ minutes[c] \in Seq(Minute) /\ Len(minutes[c]) \in Nat
    BY DEF CallInv, CallTypeOK, SessionRow
  <1>2. m \in Minute /\ m.by = "live" /\ m.n = n
    BY DEF Minute
  <1>3. row \in SessionRow /\ row.status = "ACTIVE" /\ row.minsCharged = n
    BY DEF SessionRow, CallStatus
  <1>4. /\ minutes' = [minutes EXCEPT ![c] = Append(@, m)] /\ WriteSession(c, row)
        /\ UNCHANGED <<tick, atEnd>>
    BY DEF BillLive, Bill
  <1> HIDE DEF m, row
  <1>5. /\ session' \in [Calls -> SessionRow] /\ served' \in [Calls -> SUBSET SessionRow]
        /\ session'[c] = row /\ served'[c] = served[c] \cup {row}
        /\ \A d \in Calls \ {c} : session'[d] = session[d] /\ served'[d] = served[d]
    BY <1>1, <1>3, <1>4, WriteFacts
  <1>6. /\ minutes' \in [Calls -> Seq(Minute)] /\ minutes'[c] = Append(minutes[c], m)
        /\ \A d \in Calls \ {c} : minutes'[d] = minutes[d]
    BY <1>1, <1>2, <1>4, BilledMore
  <1>7. /\ ~BilledBy(c, "tick")'
        /\ \A d \in Calls \ {c} : BilledBy(d, "tick")' <=> BilledBy(d, "tick")
    BY <1>1, <1>2, <1>4, BilledMore
  <1>8. /\ BilledBy(c, "live")' <=> BilledBy(c, "live")
        /\ \A d \in Calls \ {c} : BilledBy(d, "live")' <=> BilledBy(d, "live")
    BY <1>1, <1>2, <1>4, BilledMore
  <1>9. CallTypeOK'
    BY <1>1, <1>4, <1>5, <1>6 DEF CallTypeOK, PurseOK
  <1>10. ServedInv(c)'
    <2>1. \A r \in served'[c] : r.minsCharged <= session'[c].minsCharged
      <3>1. \A r \in served[c] : r.minsCharged \in Nat /\ r.minsCharged <= session[c].minsCharged
        BY <1>1 DEF ServedInv, CallTypeOK, SessionRow
      <3> QED BY <1>1, <1>3, <1>5, <3>1
    <2> QED BY <1>3, <1>5, <1>7, <2>1 DEF ServedInv, Waiting
  <1>11. CountInv(c)'
    <2>1. ASSUME BilledBy(c, "live")
          PROVE  /\ \A i \in 1..Len(minutes'[c]) : minutes'[c][i].n = i
                 /\ Len(minutes'[c]) = n
      <3>1. (\A i \in 1..Len(minutes[c]) : minutes[c][i].n = i) /\ n = Len(minutes[c]) + 1
        BY <1>1, <2>1 DEF CountInv
      <3>2. \A i \in 1..Len(minutes'[c]) : minutes'[c][i].n = i
        BY <1>1, <1>2, <1>6, <3>1, AppendNext
      <3>3. Len(minutes'[c]) = Len(minutes[c]) + 1
        BY <1>1, <1>2, <1>6, AppendFacts
      <3> QED BY <3>1, <3>2, <3>3
    <2> QED BY <1>3, <1>5, <1>7, <1>8, <2>1 DEF CountInv, Waiting, Ended
  <1>12. ASSUME NEW d \in Calls PROVE (ServedInv(d) /\ CountInv(d))'
    <2>1. CASE d = c
      BY <1>10, <1>11, <2>1
    <2>2. CASE d # c
      <3>1. ServedInv(d) /\ CountInv(d)
        BY DEF CallInv
      <3>2. /\ session'[d] = session[d] /\ served'[d] = served[d] /\ minutes'[d] = minutes[d]
            /\ BilledBy(d, "tick")' <=> BilledBy(d, "tick")
            /\ BilledBy(d, "live")' <=> BilledBy(d, "live")
        BY <1>5, <1>6, <1>7, <1>8, <2>2
      <3>3. ServedInv(d)'
        BY <1>4, <3>1, <3>2 DEF ServedInv
      <3>4. CountInv(d)'
        BY <1>4, <3>1, <3>2 DEF CountInv
      <3> QED BY <3>3, <3>4
    <2> QED BY <2>1, <2>2
  <1>13. ASSUME NEW t \in Ticks PROVE TickInv(t)'
    <2>1. tick'[t] = tick[t] /\ TickInv(t) /\ tick[t].call \in Calls /\ tick[t].minute \in Nat
      BY <1>1, <1>4 DEF CallInv, CallTypeOK, Tick
    <2>2. CASE tick[t].call # c
      BY <1>4, <1>5, <1>6, <1>7, <1>8, <2>1, <2>2 DEF TickInv
    <2>3. CASE tick[t].call = c
      <3>1. tick[t].minute <= session[c].minsCharged + 1
              => tick[t].minute <= session'[c].minsCharged + 1
        <4>1. session'[c].minsCharged = session[c].minsCharged + 1
          BY <1>3, <1>5
        <4>2. session[c].minsCharged \in Nat /\ tick[t].minute \in Nat
          BY <1>1, <2>1
        <4> QED BY <4>1, <4>2
      <3> QED BY <1>3, <1>5, <1>7, <1>8, <2>1, <2>3, <3>1 DEF TickInv, Waiting
    <2> QED BY <2>2, <2>3
  <1>14. ASSUME NEW u \in Ticks, NEW v \in Ticks, tick'[u].pc = "count", tick'[v].pc = "count",
                tick'[u].call = tick'[v].call, BilledBy(tick[u].call, "tick")'
         PROVE  u = v
    <2>1. PICK d \in Calls : d = tick[u].call
      BY <1>1 DEF CallTypeOK, Tick
    <2>2. BilledBy(d, "tick")'
      BY <1>4, <1>14, <2>1 DEF BilledBy
    <2>3. BilledBy(d, "tick")
      BY <1>7, <2>2
    <2> QED BY <1>4, <1>14, <2>1, <2>3 DEF CallInv, CountAlone
  <1>15. CountAlone'
    BY <1>14 DEF CountAlone
  <1> QED BY <1>9, <1>12, <1>13, <1>15 DEF CallInv

\* CallInv is inductive.
LEMMA CallStep == CallInv /\ [CallNext]_callVars => CallInv'
  <1> SUFFICES ASSUME CallInv, [CallNext]_callVars PROVE CallInv'
    OBVIOUS
  <1>0. PurseOK' /\ tick \in [Ticks -> Tick]
    BY PurseStep DEF CallInv, CallTypeOK
  <1>1. CASE UNCHANGED callVars \/ Freeze \/ TopUp
    BY <1>0, <1>1, QuietStep DEF callVars, Freeze, TopUp
  <1>2. ASSUME NEW c \in Calls, Initiate(c) \/ Ring(c) PROVE CallInv'
    BY <1>0, <1>2, BeginStep DEF Initiate, Ring
  <1>3. ASSUME NEW c \in Calls, End(c) \/ Miss(c) PROVE CallInv'
    <2>1. session[c].status # "NONE"
      BY <1>3 DEF End, Miss, CallInv, ServedInv, Waiting
    <2>2. PICK status \in Ended : EndSession(c, status) /\ UNCHANGED <<minutes, tick>>
      BY <1>3 DEF End, Miss, Ended
    <2> QED BY <1>0, <2>1, <2>2, EndStep
  <1>12. ASSUME NEW c \in Calls, CallAccept(c) \/ CallMinute(c) PROVE CallInv'
    <2>1. CountInv(c) /\ session[c].minsCharged \in Nat
      BY DEF CallInv, CallTypeOK, SessionRow
    <2>2. CASE CallAccept(c)
      <3>1. session[c].minsCharged = 0 /\ BillLive(c, 1) /\ session[c].status = "RINGING"
        BY <2>1, <2>2 DEF CallAccept, CountInv, Waiting
      <3> QED BY <1>0, <3>1, LiveStep
    <2>3. CASE CallMinute(c)
      BY <1>0, <2>1, <2>3, LiveStep DEF CallMinute
    <2> QED BY <1>12, <2>2, <2>3
  <1>4. ASSUME NEW t \in Ticks, NEW c \in Calls, TickRead(t, c) PROVE CallInv'
    BY <1>0, <1>4, TickReadStep
  <1>5. ASSUME NEW t \in Ticks, tick' = [tick EXCEPT ![t] = IdleTick]
        PROVE  /\ tick' \in [Ticks -> Tick]
               /\ \A u \in Ticks : tick'[u] = tick[u] \/ tick'[u].pc = "idle"
    BY <1>0, <1>5, IdleTickFacts
  <1>6. ASSUME NEW t \in Ticks, tick[t].pc # "idle"
        PROVE  tick[t].call \in Calls /\ session[tick[t].call].status # "NONE"
    BY <1>0, <1>6 DEF CallInv, TickInv, Tick, Waiting
  <1>7. ASSUME NEW t \in Ticks, CheckFrozen(t) PROVE CallInv'
    <2>1. CASE frozen
      <3>1. /\ EndSession(tick[t].call, "ENDED") /\ UNCHANGED minutes
            /\ tick' = [tick EXCEPT ![t] = IdleTick] /\ tick[t].pc # "idle"
        BY <1>7, <2>1 DEF CheckFrozen
      <3> QED BY <1>0, <1>5, <1>6, <3>1, EndStep DEF Ended
    <2>2. CASE ~frozen
      BY <1>0, <1>7, <2>2, GoOnStep DEF CheckFrozen
    <2> QED BY <2>1, <2>2
  <1>8. ASSUME NEW t \in Ticks, Charge(t) PROVE CallInv'
    <2>1. PICK c \in Calls, m \in Minute :
            c = tick[t].call /\ m = [by |-> "tick", n |-> tick[t].minute]
      BY <1>0 DEF Tick, Minute
    <2>2. tick[t].pc = "charge" /\ UNCHANGED <<session, served, atEnd>>
      BY <1>8 DEF Charge
    <2>3. CASE coins >= 1 /\ FreshMinute(c, m)
      <3>1. /\ minutes' = [minutes EXCEPT ![c] = Append(@, m)]
            /\ tick' = [tick EXCEPT ![t].pc = "count"]
        BY <1>8, <2>1, <2>3 DEF Charge, Bill
      <3>2. m.by = "tick" /\ m.n = tick[t].minute
        BY <2>1
      <3> QED BY <1>0, <2>1, <2>2, <2>3, <3>1, <3>2, ChargeStep
    <2>4. CASE ~(coins >= 1 /\ FreshMinute(c, m))
      <3>1. tick' = [tick EXCEPT ![t] = IdleTick] /\ UNCHANGED minutes
        BY <1>8, <2>1, <2>4 DEF Charge
      <3> QED BY <1>0, <1>5, <2>2, <3>1, QuietStep
    <2> QED BY <2>3, <2>4
  <1>9. ASSUME NEW t \in Ticks, CountMinute(t) PROVE CallInv'
    BY <1>0, <1>9, CountStep
  <1>10. ASSUME NEW t \in Ticks, CheckNext(t) PROVE CallInv'
    <2>1. tick' = [tick EXCEPT ![t] = IdleTick] /\ tick[t].pc # "idle" /\ UNCHANGED minutes
      BY <1>10 DEF CheckNext
    <2>2. CASE EndSession(tick[t].call, "INSUFFICIENT_COINS")
      BY <1>0, <1>5, <1>6, <2>1, <2>2, EndStep DEF Ended
    <2>3. CASE UNCHANGED <<session, served, atEnd>>
      BY <1>0, <1>5, <2>1, <2>3, QuietStep
    <2> QED BY <1>10, <2>2, <2>3 DEF CheckNext
  <1>11. ASSUME NEW t \in Ticks, TickCrash(t) PROVE CallInv'
    <2>1. /\ tick' = [tick EXCEPT ![t] = IdleTick]
          /\ UNCHANGED <<session, served, minutes, atEnd>>
      BY <1>11 DEF TickCrash
    <2> QED BY <1>0, <1>5, <2>1, QuietStep
  <1> QED BY <1>1, <1>2, <1>3, <1>4, <1>7, <1>8, <1>9, <1>10, <1>11, <1>12 DEF CallNext

\* Billed in one way, a call is never charged a minute twice or out of turn by
\* a retried, late or overlapping request, and minsCharged never runs ahead of
\* the ledger.
THEOREM MinutesInOrderAlways == CallSpec => []MinutesInOrder
  <1>1. ASSUME CallInv, NEW c \in Calls
        PROVE  /\ BilledBy(c, "tick") \/ BilledBy(c, "live")
                    => \A i \in 1..Len(minutes[c]) : minutes[c][i].n = i
               /\ BilledBy(c, "tick") => Len(minutes[c]) - session[c].minsCharged \in {0, 1}
               /\ BilledBy(c, "live") => session[c].minsCharged = Len(minutes[c])
    <2>1. CountInv(c) /\ session[c].minsCharged \in Nat /\ Len(minutes[c]) \in Nat
      BY <1>1 DEF CallInv, CallTypeOK, SessionRow
    <2> QED BY <2>1 DEF CountInv
  <1>2. CallInv => MinutesInOrder
    BY <1>1 DEF MinutesInOrder
  <1> QED BY <1>2, CallInitInv, CallStep, PTL DEF CallSpec

\* A call that has ended is charged at most one more minute by ticks, with any
\* number of them in flight and any replica lag, and none by Live-server.
THEOREM OneMinuteAfterEndAlways == CallSpec => []OneMinuteAfterEnd
  <1>1. CallInv => OneMinuteAfterEnd
    BY DEF CallInv, CountInv, OneMinuteAfterEnd
  <1> QED BY <1>1, CallInitInv, CallStep, PTL DEF CallSpec

(***************************************************************************)
(* NormalHostReward.  The floor of a day is written once, and a request    *)
(* that has gone past it holds a tier that is not below the row that was   *)
(* written; so does what is paid.                                          *)
(***************************************************************************)

Request == [pc : {"idle", "asked", "floor", "insert", "resolved", "commit"},
            day : Days, slot : Slots, ladder : Ladders,
            live : Tiers \cup {NoTier}, tier : Tiers \cup {NoTier}]
JobRun == [pc : {"idle", "insert"}, day : Days, tier : Tiers \cup {NoTier}]

\* The part of RewardTypeOK the floor depends on.
FloorTypes ==
    /\ hostDay \in Days
    /\ ladder \in Ladders
    /\ dayTier \in [Days -> Tiers \cup {NoTier, NoDayTier}]
    /\ rewardReq \in [RewardReqs -> Request]
    /\ tierJob \in JobRun

\* What a request that has read the floor knows of it.
FloorInv(r) ==
    rewardReq[r].pc \in {"resolved", "commit"} =>
         /\ dayTier[rewardReq[r].day] # NoDayTier
         /\ AtLeast(rewardReq[r].tier, dayTier[rewardReq[r].day])

RewardInv == FloorTypes /\ \A r \in RewardReqs : FloorInv(r)

\* The highest tier of a ladder that is met is a tier of the ladder, or none is.
LEMMA CurrentTierType ==
    ASSUME NEW tiers \in Ladders, NEW day, NEW last
    PROVE  CurrentTier(tiers, day, last) \in Tiers \cup {NoTier}
  <1> DEFINE met == {t \in tiers : Earned(day - t.window, last) >= t.threshold}
  <1>1. met \in SUBSET tiers /\ tiers \subseteq Tiers
    BY DEF Tiers
  <1>2. CASE met = {}
    BY <1>2 DEF CurrentTier
  <1>3. CASE met # {}
    <2> HIDE DEF met
    <2>1. \E t \in met : \A u \in met : u.threshold <= t.threshold
      BY <1>1, <1>3, RewardAssumption
    <2>2. (CHOOSE t \in met : \A u \in met : u.threshold <= t.threshold) \in met
      BY <2>1
    <2>3. CurrentTier(tiers, day, last)
            = CHOOSE t \in met : \A u \in met : u.threshold <= t.threshold
      BY <1>3 DEF CurrentTier, met
    <2> QED BY <1>1, <2>2, <2>3
  <1> QED BY <1>2, <1>3

\* higherTier is at least its first argument.
LEMMA HigherTierFacts ==
    ASSUME NEW a \in Tiers \cup {NoTier}, NEW b \in Tiers \cup {NoTier}
    PROVE  HigherTier(a, b) \in Tiers \cup {NoTier} /\ AtLeast(HigherTier(a, b), a)
  <1>1. CASE a = NoTier
    BY <1>1 DEF HigherTier, AtLeast
  <1>2. CASE a # NoTier /\ b = NoTier
    <2>1. a.threshold \in Nat
      BY <1>2, RewardAssumption
    <2> QED BY <1>2, <2>1 DEF HigherTier, AtLeast
  <1>3. CASE a # NoTier /\ b # NoTier
    <2>1. a.threshold \in Nat /\ b.threshold \in Nat
      BY <1>3, RewardAssumption
    <2>2. HigherTier(a, b) = IF b.threshold > a.threshold THEN b ELSE a
      BY <1>3 DEF HigherTier
    <2> QED BY <1>3, <2>1, <2>2 DEF AtLeast
  <1> QED BY <1>1, <1>2, <1>3

\* A request that is not running, and a job that is not.
LEMMA IdleRewardFacts ==
    /\ IdleReward \in Request /\ IdleReward.pc = "idle"
    /\ IdleJob \in JobRun
  <1>1. 0 \in Days /\ 0 \in Slots /\ FirstLadder \in Ladders
    BY RewardAssumption DEF Days, Slots
  <1> QED BY <1>1 DEF IdleReward, IdleJob, Request, JobRun

\* Nothing is recorded and nobody asks.
LEMMA RewardInitInv == RewardInit => RewardInv
  <1> SUFFICES ASSUME RewardInit PROVE RewardInv
    OBVIOUS
  <1>1. 0 \in Days /\ FirstLadder \in Ladders
    BY RewardAssumption DEF Days
  <1>2. FloorTypes
    BY <1>1, IdleRewardFacts DEF RewardInit, FloorTypes
  <1>3. \A r \in RewardReqs : rewardReq[r].pc = "idle"
    BY IdleRewardFacts DEF RewardInit
  <1> QED BY <1>2, <1>3 DEF RewardInv, FloorInv

\* insertDailyTiers writes a floor where there is none, and never over one.
LEMMA InsertFacts ==
    ASSUME FloorTypes, NEW d \in Days, NEW t \in Tiers \cup {NoTier}, InsertDailyTier(d, t)
    PROVE  /\ dayTier' \in [Days -> Tiers \cup {NoTier, NoDayTier}]
           /\ dayTier'[d] # NoDayTier /\ dayTier'[d] \in Tiers \cup {NoTier}
           /\ \A e \in Days : dayTier[e] # NoDayTier => dayTier'[e] = dayTier[e]
  <1>1. t # NoDayTier
    BY RewardAssumption
  <1> QED BY <1>1 DEF FloorTypes, InsertDailyTier

\* A request that does not move keeps what it knows: floors stay.
LEMMA FloorKept ==
    ASSUME RewardInv, NEW r \in RewardReqs, rewardReq'[r] = rewardReq[r],
           \A e \in Days : dayTier[e] # NoDayTier => dayTier'[e] = dayTier[e]
    PROVE  FloorInv(r)'
  <1>1. rewardReq[r].day \in Days /\ FloorInv(r)
    BY DEF RewardInv, FloorTypes, Request
  <1>2. ASSUME dayTier[rewardReq[r].day] # NoDayTier
        PROVE  dayTier'[rewardReq'[r].day] = dayTier[rewardReq[r].day]
    BY <1>1, <1>2
  <1> QED BY <1>1, <1>2 DEF FloorInv, AtLeast

\* The request r moves to w, which knows the floor of its day if it has to.
LEMMA MoveStep ==
    ASSUME RewardInv, NEW r \in RewardReqs, NEW w \in Request,
           rewardReq' = [rewardReq EXCEPT ![r] = w],
           UNCHANGED <<hostDay, ladder, tierJob>>,
           dayTier' \in [Days -> Tiers \cup {NoTier, NoDayTier}],
           \A e \in Days : dayTier[e] # NoDayTier => dayTier'[e] = dayTier[e],
           w.pc \in {"resolved", "commit"} =>
               dayTier'[w.day] # NoDayTier /\ AtLeast(w.tier, dayTier'[w.day])
    PROVE  RewardInv'
  <1>1. /\ rewardReq' \in [RewardReqs -> Request] /\ rewardReq'[r] = w
        /\ \A q \in RewardReqs \ {r} : rewardReq'[q] = rewardReq[q]
    BY DEF RewardInv, FloorTypes
  <1>2. FloorTypes'
    BY <1>1 DEF RewardInv, FloorTypes
  <1>3. FloorInv(r)'
    BY <1>1 DEF FloorInv, AtLeast
  <1>4. \A q \in RewardReqs \ {r} : FloorInv(q)'
    BY <1>1, FloorKept
  <1> QED BY <1>2, <1>3, <1>4 DEF RewardInv

\* resolveTodayTier: a request resolves with a floor that is recorded.
LEMMA ResolveStep ==
    ASSUME RewardInv, NEW r \in RewardReqs, NEW floor \in Tiers \cup {NoTier},
           ReqResolves(r, floor), UNCHANGED <<hostDay, ladder, tierJob>>,
           dayTier' \in [Days -> Tiers \cup {NoTier, NoDayTier}],
           \A e \in Days : dayTier[e] # NoDayTier => dayTier'[e] = dayTier[e],
           floor = dayTier'[rewardReq[r].day]
    PROVE  RewardInv'
  <1>1. rewardReq[r].day \in Days /\ rewardReq[r].live \in Tiers \cup {NoTier}
    BY DEF RewardInv, FloorTypes, Request
  <1> DEFINE t == HigherTier(floor, rewardReq[r].live)
             w == [IdleReward EXCEPT !.pc = "resolved", !.day = rewardReq[r].day, !.tier = t]
  <1>2. t \in Tiers \cup {NoTier} /\ AtLeast(t, floor)
    BY <1>1, HigherTierFacts
  <1>3. rewardReq' = [rewardReq EXCEPT ![r] = w]
    BY DEF ReqResolves
  <1> HIDE DEF t
  <1>4. w \in Request /\ w.pc = "resolved" /\ w.tier = t /\ w.day = rewardReq[r].day
    BY <1>1, <1>2, IdleRewardFacts DEF Request
  <1> HIDE DEF w
  <1>5. dayTier'[w.day] # NoDayTier /\ AtLeast(w.tier, dayTier'[w.day])
    BY <1>2, <1>4, RewardAssumption
  <1> QED BY <1>3, <1>4, <1>5, MoveStep

\* The requests of the day, one action after the other.
LEMMA RequestStep ==
    ASSUME RewardInv, NEW r \in RewardReqs,
           \/ RewardAsk(r) \/ RewardNow(r) \/ FloorRead(r) \/ FloorInsert(r)
           \/ RewardEnd(r) \/ ClaimCheck(r) \/ ClaimCommit(r)
    PROVE  RewardInv'
  <1> DEFINE q == rewardReq[r]
  <1>0. /\ FloorTypes /\ rewardReq \in [RewardReqs -> Request] /\ q \in Request /\ FloorInv(r)
        /\ hostDay \in Days /\ ladder \in Ladders
        /\ dayTier \in [Days -> Tiers \cup {NoTier, NoDayTier}]
    BY DEF RewardInv, FloorTypes
  <1>00. q.day \in Days /\ q.slot \in Slots /\ q.ladder \in Ladders /\ q.tier \in Tiers \cup {NoTier}
    BY <1>0 DEF Request
  <1>1. CASE RewardAsk(r)
    <2> DEFINE w == [IdleReward EXCEPT !.pc = "asked", !.ladder = ladder]
    <2>1. w \in Request /\ w.pc = "asked"
      BY <1>0, IdleRewardFacts DEF Request
    <2>2. rewardReq' = [rewardReq EXCEPT ![r] = w]
          /\ UNCHANGED <<hostDay, ladder, tierJob, dayTier>>
      BY <1>1 DEF RewardAsk
    <2> HIDE DEF w
    <2> QED BY <1>0, <2>1, <2>2, MoveStep
  <1>4. CASE RewardNow(r)
    <2>1. PICK t \in Tiers \cup {NoTier} : t = CurrentTier(q.ladder, hostDay, hostDay)
      BY <1>00, CurrentTierType
    <2> DEFINE w == [q EXCEPT !.pc = "floor", !.day = hostDay, !.live = t]
    <2>2. w \in Request /\ w.pc = "floor"
      BY <1>0 DEF Request
    <2>3. rewardReq' = [rewardReq EXCEPT ![r] = w]
          /\ UNCHANGED <<hostDay, ladder, tierJob, dayTier>>
      BY <1>4, <2>1 DEF RewardNow
    <2> HIDE DEF w
    <2> QED BY <1>0, <2>2, <2>3, MoveStep
  <1>2. CASE FloorRead(r)
    <2>0. UNCHANGED <<hostDay, ladder, tierJob, dayTier>>
      BY <1>2 DEF FloorRead
    <2>1. CASE dayTier[q.day] # NoDayTier
      <3>1. ReqResolves(r, dayTier[q.day])
        BY <1>2, <2>1 DEF FloorRead
      <3>2. dayTier[q.day] \in Tiers \cup {NoTier}
        BY <1>0, <1>00, <2>1
      <3> QED BY <1>0, <2>0, <3>1, <3>2, ResolveStep
    <2>2. CASE dayTier[q.day] = NoDayTier
      <3>1. PICK t \in Tiers \cup {NoTier} : t = CurrentTier(q.ladder, q.day, q.day - 1)
        BY <1>00, CurrentTierType
      <3> DEFINE w == [q EXCEPT !.pc = "insert", !.tier = t]
      <3>2. w \in Request /\ w.pc = "insert"
        BY <1>0 DEF Request
      <3>3. rewardReq' = [rewardReq EXCEPT ![r] = w]
        BY <1>2, <2>2, <3>1 DEF FloorRead
      <3> HIDE DEF w
      <3> QED BY <1>0, <2>0, <3>2, <3>3, MoveStep
    <2> QED BY <2>1, <2>2
  <1>3. CASE FloorInsert(r)
    <2>1. InsertDailyTier(q.day, q.tier) /\ UNCHANGED <<hostDay, ladder, tierJob>>
      BY <1>3 DEF FloorInsert
    <2>2. /\ dayTier' \in [Days -> Tiers \cup {NoTier, NoDayTier}]
          /\ dayTier'[q.day] # NoDayTier /\ dayTier'[q.day] \in Tiers \cup {NoTier}
          /\ \A e \in Days : dayTier[e] # NoDayTier => dayTier'[e] = dayTier[e]
      BY <1>0, <1>00, <2>1, InsertFacts
    <2>3. PICK floor \in Tiers \cup {NoTier} : floor = dayTier'[q.day]
      BY <2>2
    <2>4. ReqResolves(r, floor)
      BY <1>3, <2>3 DEF FloorInsert, FloorAfterInsert
    <2> QED BY <2>1, <2>2, <2>3, <2>4, ResolveStep
  <1>5. CASE RewardEnd(r) \/ ClaimCommit(r)
    <2>1. rewardReq' = [rewardReq EXCEPT ![r] = IdleReward]
          /\ UNCHANGED <<hostDay, ladder, tierJob, dayTier>>
      BY <1>5 DEF RewardEnd, ClaimCommit
    <2> QED BY <1>0, <2>1, IdleRewardFacts, MoveStep
  <1>6. CASE ClaimCheck(r)
    <2>1. PICK s \in Slots : rewardReq' = [rewardReq EXCEPT ![r].pc = "commit", ![r].slot = s]
      BY <1>6 DEF ClaimCheck
    <2> DEFINE w == [q EXCEPT !.pc = "commit", !.slot = s]
    <2>2. w \in Request /\ w.pc = "commit" /\ w.tier = q.tier /\ w.day = q.day
      BY <1>0 DEF Request
    <2>3. rewardReq' = [rewardReq EXCEPT ![r] = w]
      BY <1>0, <2>1
    <2>4. UNCHANGED <<hostDay, ladder, tierJob, dayTier>> /\ q.pc = "resolved"
      BY <1>6 DEF ClaimCheck
    <2>5. dayTier[q.day] # NoDayTier /\ AtLeast(q.tier, dayTier[q.day])
      BY <1>0, <2>4 DEF FloorInv
    <2> HIDE DEF w
    <2>6. dayTier'[w.day] # NoDayTier /\ AtLeast(w.tier, dayTier'[w.day])
      BY <2>2, <2>4, <2>5
    <2> QED BY <1>0, <2>2, <2>3, <2>4, <2>6, MoveStep
  <1> QED BY <1>1, <1>2, <1>3, <1>4, <1>5, <1>6

\* RewardInv is inductive.
LEMMA RewardStep == RewardInv /\ [RewardNext]_rewardVars => RewardInv'
  <1> SUFFICES ASSUME RewardInv, [RewardNext]_rewardVars PROVE RewardInv'
    OBVIOUS
  <1>0. FloorTypes /\ LastDay \in Nat
    BY RewardAssumption DEF RewardInv
  <1>1. ASSUME FloorTypes', rewardReq' = rewardReq,
               \A e \in Days : dayTier[e] # NoDayTier => dayTier'[e] = dayTier[e]
        PROVE  RewardInv'
    BY <1>1, FloorKept DEF RewardInv
  <1>2. ASSUME NEW r \in RewardReqs,
               \/ RewardAsk(r) \/ RewardNow(r) \/ FloorRead(r) \/ FloorInsert(r)
               \/ RewardEnd(r) \/ ClaimCheck(r) \/ ClaimCommit(r)
        PROVE  RewardInv'
    BY <1>2, RequestStep
  <1>3. CASE TierJobRead
    <2>1. PICK d \in 0..hostDay :
            tierJob' = [pc |-> "insert", day |-> d, tier |-> CurrentTier(ladder, d, d - 1)]
      BY <1>3 DEF TierJobRead
    <2>2. d \in Days
      BY <1>0 DEF FloorTypes, Days
    <2>3. CurrentTier(ladder, d, d - 1) \in Tiers \cup {NoTier}
      BY <1>0, CurrentTierType DEF FloorTypes
    <2>4. tierJob' \in JobRun
      BY <2>1, <2>2, <2>3 DEF JobRun
    <2>5. UNCHANGED <<hostDay, ladder, dayTier, rewardReq>>
      BY <1>3 DEF TierJobRead
    <2>6. FloorTypes'
      BY <1>0, <2>4, <2>5 DEF FloorTypes
    <2> QED BY <1>1, <2>5, <2>6
  <1>4. CASE TierJobInsert
    <2>1. /\ InsertDailyTier(tierJob.day, tierJob.tier) /\ tierJob' = IdleJob
          /\ UNCHANGED <<hostDay, ladder, rewardReq>>
      BY <1>4 DEF TierJobInsert
    <2>2. tierJob.day \in Days /\ tierJob.tier \in Tiers \cup {NoTier}
      BY <1>0 DEF FloorTypes, JobRun
    <2>3. /\ dayTier' \in [Days -> Tiers \cup {NoTier, NoDayTier}]
          /\ \A e \in Days : dayTier[e] # NoDayTier => dayTier'[e] = dayTier[e]
      BY <1>0, <2>1, <2>2, InsertFacts
    <2>4. FloorTypes'
      BY <1>0, <2>1, <2>3, IdleRewardFacts DEF FloorTypes
    <2> QED BY <1>1, <2>1, <2>3, <2>4
  <1>5. CASE GiftReceived \/ HourStreamed \/ UNCHANGED rewardVars
    <2>1. UNCHANGED <<hostDay, ladder, dayTier, rewardReq, tierJob>>
      BY <1>5 DEF GiftReceived, HourStreamed, rewardVars
    <2>2. FloorTypes'
      BY <1>0, <2>1 DEF FloorTypes
    <2> QED BY <1>1, <2>1, <2>2
  <1>6. CASE LadderEdited \/ Midnight
    <2>1. UNCHANGED <<dayTier, rewardReq, tierJob>> /\ hostDay' \in Days /\ ladder' \in Ladders
      BY <1>0, <1>6 DEF LadderEdited, Midnight, FloorTypes, Days
    <2>2. FloorTypes'
      BY <1>0, <2>1 DEF FloorTypes
    <2> QED BY <1>1, <2>1, <2>2
  <1> QED BY <1>2, <1>3, <1>4, <1>5, <1>6 DEF RewardNext

\* The tier of a status or a claim is never below the floor of its day,
\* whichever of the job and the requests records the floor and however often
\* the ladder is edited.
THEOREM TierNotBelowFloorAlways == RewardSpec => []TierNotBelowFloor
  <1>1. RewardInv => TierNotBelowFloor
    BY DEF RewardInv, FloorInv, TierNotBelowFloor
  <1> QED BY <1>1, RewardInitInv, RewardStep, PTL DEF RewardSpec

\* A floor once recorded is never written again.
LEMMA FloorsStay ==
    RewardInv /\ [RewardNext]_rewardVars =>
      \A e \in Days : dayTier[e] # NoDayTier => dayTier'[e] = dayTier[e]
  <1> SUFFICES ASSUME RewardInv, [RewardNext]_rewardVars
               PROVE  \A e \in Days : dayTier[e] # NoDayTier => dayTier'[e] = dayTier[e]
    OBVIOUS
  <1>1. CASE UNCHANGED dayTier
    BY <1>1
  <1>2. ASSUME NEW d, NEW t, InsertDailyTier(d, t)
        PROVE  \A e \in Days : dayTier[e] # NoDayTier => dayTier'[e] = dayTier[e]
    BY <1>2 DEF RewardInv, FloorTypes, InsertDailyTier
  <1>3. UNCHANGED dayTier \/ \E d, t : InsertDailyTier(d, t)
    BY DEF RewardNext, rewardVars, RewardAsk, RewardNow, FloorRead, FloorInsert, RewardEnd,
           ClaimCheck, ClaimCommit, TierJobRead, TierJobInsert, GiftReceived, HourStreamed,
           LadderEdited, Midnight
  <1> QED BY <1>1, <1>2, <1>3

\* A claim that is about to commit passed the conditions of its slot.
ClaimInv(q) ==
    q.pc = "commit" => IF q.slot = 0 THEN q.tier = NoTier
                       ELSE q.tier # NoTier /\ q.slot <= q.tier.cap

PaidInv ==
    /\ rewardCredits \in [Days \X Slots -> Nat]
    /\ \A r \in RewardReqs : ClaimInv(rewardReq[r])
    /\ PaidAtFloor

\* Points credited for a slot of a day, as the floor allows.
PaidRight(d, s, points) ==
    /\ dayTier[d] # NoDayTier
    /\ IF s = 0 THEN dayTier[d] = NoTier
       ELSE \E t \in Tiers : t.rate = points /\ s <= t.cap /\ AtLeast(t, dayTier[d])

\* What has been paid stays right, since floors stay.
LEMMA PaidKept ==
    ASSUME PaidInv, NEW d \in Days, NEW s \in Slots, rewardCredits[<<d, s>>] # 0,
           \A e \in Days : dayTier[e] # NoDayTier => dayTier'[e] = dayTier[e]
    PROVE  PaidRight(d, s, rewardCredits[<<d, s>>])'
           \/ rewardCredits'[<<d, s>>] # rewardCredits[<<d, s>>]
  <1>1. PaidRight(d, s, rewardCredits[<<d, s>>])
    BY DEF PaidInv, PaidAtFloor, PaidRight
  <1>2. dayTier'[d] = dayTier[d]
    BY <1>1 DEF PaidRight
  <1> QED BY <1>1, <1>2 DEF PaidRight, AtLeast

\* Every claim keeps to the conditions it was let through by.
LEMMA ClaimStep ==
    ASSUME RewardInv, \A r \in RewardReqs : ClaimInv(rewardReq[r]), [RewardNext]_rewardVars
    PROVE  \A r \in RewardReqs : ClaimInv(rewardReq'[r])
  <1>1. rewardReq \in [RewardReqs -> Request]
    BY DEF RewardInv, FloorTypes
  <1>2. CASE UNCHANGED rewardReq
    BY <1>2
  <1>3. ASSUME NEW r \in RewardReqs, NEW w, rewardReq' = [rewardReq EXCEPT ![r] = w], ClaimInv(w)
        PROVE  \A u \in RewardReqs : ClaimInv(rewardReq'[u])
    BY <1>1, <1>3
  <1>4. ASSUME NEW r \in RewardReqs, ClaimCheck(r)
        PROVE  \A u \in RewardReqs : ClaimInv(rewardReq'[u])
    <2>1. PICK s \in Slots : /\ MayClaimSlot(rewardReq[r], s)
                            /\ rewardReq' = [rewardReq EXCEPT ![r].pc = "commit", ![r].slot = s]
      BY <1>4 DEF ClaimCheck
    <2> DEFINE w == [rewardReq[r] EXCEPT !.pc = "commit", !.slot = s]
    <2>2. rewardReq[r] \in Request
      BY <1>1
    <2>3. w.slot = s /\ w.tier = rewardReq[r].tier
      BY <2>2 DEF Request
    <2>4. rewardReq' = [rewardReq EXCEPT ![r] = w]
      BY <1>1, <2>1
    <2> HIDE DEF w
    <2>5. ClaimInv(w)
      BY <2>1, <2>3 DEF ClaimInv, MayClaimSlot
    <2> QED BY <1>3, <2>4, <2>5
  <1>5. ASSUME NEW r \in RewardReqs,
               \/ RewardAsk(r) \/ RewardNow(r) \/ FloorRead(r) \/ FloorInsert(r)
               \/ RewardEnd(r) \/ ClaimCommit(r)
        PROVE  \A u \in RewardReqs : ClaimInv(rewardReq'[u])
    <2>1. rewardReq[r] \in Request /\ IdleReward \in Request /\ IdleReward.pc = "idle"
      BY <1>1, IdleRewardFacts
    <2>2. ASSUME NEW d, NEW t, NEW l
          PROVE  /\ [IdleReward EXCEPT !.pc = "asked", !.ladder = l].pc # "commit"
                 /\ [rewardReq[r] EXCEPT !.pc = "floor", !.day = d, !.live = t].pc # "commit"
                 /\ [rewardReq[r] EXCEPT !.pc = "insert", !.tier = t].pc # "commit"
                 /\ [IdleReward EXCEPT !.pc = "resolved", !.day = d, !.tier = t].pc # "commit"
      BY <2>1 DEF Request
    <2>3. ASSUME NEW floor, ReqResolves(r, floor)
          PROVE  \A u \in RewardReqs : ClaimInv(rewardReq'[u])
      <3>1. PICK d, t : d = rewardReq[r].day /\ t = HigherTier(floor, rewardReq[r].live)
        OBVIOUS
      <3>2. rewardReq' = [rewardReq EXCEPT ![r] = [IdleReward EXCEPT !.pc = "resolved",
                                                     !.day = d, !.tier = t]]
        BY <2>3, <3>1 DEF ReqResolves
      <3> QED BY <1>3, <2>2, <3>2 DEF ClaimInv
    <2>4. CASE RewardAsk(r)
      BY <1>3, <2>2, <2>4 DEF RewardAsk, ClaimInv
    <2>5. CASE RewardNow(r)
      <3>1. PICK t : t = CurrentTier(rewardReq[r].ladder, hostDay, hostDay)
        OBVIOUS
      <3>2. rewardReq' = [rewardReq EXCEPT ![r] = [rewardReq[r] EXCEPT !.pc = "floor",
                                                     !.day = hostDay, !.live = t]]
        BY <2>5, <3>1 DEF RewardNow
      <3> QED BY <1>3, <2>2, <3>2 DEF ClaimInv
    <2>6. CASE FloorRead(r)
      <3>1. CASE ReqResolves(r, dayTier[rewardReq[r].day])
        BY <2>3, <3>1
      <3>2. CASE ~ReqResolves(r, dayTier[rewardReq[r].day])
        <4>1. PICK t : t = CurrentTier(rewardReq[r].ladder, rewardReq[r].day, rewardReq[r].day - 1)
          OBVIOUS
        <4>2. rewardReq' = [rewardReq EXCEPT ![r] = [rewardReq[r] EXCEPT !.pc = "insert",
                                                                         !.tier = t]]
          BY <2>6, <3>2, <4>1 DEF FloorRead
        <4> QED BY <1>3, <2>2, <4>2 DEF ClaimInv
      <3> QED BY <3>1, <3>2
    <2>7. CASE FloorInsert(r)
      <3>1. PICK floor : ReqResolves(r, floor)
        BY <2>7 DEF FloorInsert
      <3> QED BY <2>3, <3>1
    <2>8. CASE RewardEnd(r) \/ ClaimCommit(r)
      BY <1>3, <2>1, <2>8 DEF RewardEnd, ClaimCommit, ClaimInv
    <2> QED BY <1>5, <2>4, <2>5, <2>6, <2>7, <2>8
  <1>7. CASE TierJobRead \/ TierJobInsert \/ GiftReceived \/ HourStreamed \/ LadderEdited
             \/ Midnight \/ UNCHANGED rewardVars
    BY <1>2, <1>7 DEF TierJobRead, TierJobInsert, GiftReceived, HourStreamed, LadderEdited,
                      Midnight, rewardVars
  <1> QED BY <1>4, <1>5, <1>7 DEF RewardNext

\* A claim commits at the tier it holds, which is not below the floor.
LEMMA PaidStep == RewardInv /\ PaidInv /\ [RewardNext]_rewardVars => PaidInv'
  <1> SUFFICES ASSUME RewardInv, PaidInv, [RewardNext]_rewardVars PROVE PaidInv'
    OBVIOUS
  <1>1. \A r \in RewardReqs : ClaimInv(rewardReq'[r])
    BY ClaimStep DEF PaidInv
  <1>2. \A e \in Days : dayTier[e] # NoDayTier => dayTier'[e] = dayTier[e]
    BY FloorsStay
  <1>3. CASE UNCHANGED rewardCredits
    <2>1. PaidAtFloor'
      BY <1>2, <1>3, PaidKept DEF PaidAtFloor, PaidRight
    <2> QED BY <1>1, <1>3, <2>1 DEF PaidInv
  <1>4. ASSUME NEW r \in RewardReqs, ClaimCommit(r) PROVE PaidInv'
    <2> DEFINE q == rewardReq[r]
    <2>1. /\ q \in Request /\ q.pc = "commit" /\ FloorInv(r) /\ ClaimInv(q)
          /\ UNCHANGED dayTier
      BY <1>4 DEF RewardInv, FloorTypes, PaidInv, ClaimCommit
    <2>2. PICK d \in Days, s \in Slots, t \in Tiers \cup {NoTier} :
            d = q.day /\ s = q.slot /\ t = q.tier
      BY <2>1 DEF Request
    <2>3. PICK points : points = RewardPoints(q)
      OBVIOUS
    <2>4. \/ UNCHANGED rewardCredits
          \/ rewardCredits' = [rewardCredits EXCEPT ![<<d, s>>] = IF @ = 0 THEN points ELSE @]
      BY <1>4, <2>2, <2>3 DEF ClaimCommit, RewardKey
    <2>5. PaidRight(d, s, points) /\ points \in Nat
      <3>1. dayTier[d] # NoDayTier /\ AtLeast(t, dayTier[d])
        BY <2>1, <2>2 DEF FloorInv
      <3>2. CASE s = 0
        BY <2>1, <2>2, <2>3, <3>1, <3>2, RewardAssumption
           DEF ClaimInv, AtLeast, PaidRight, RewardPoints
      <3>3. CASE s # 0
        <4>1. t \in Tiers /\ s <= t.cap /\ points = t.rate
          BY <2>1, <2>2, <2>3, <3>3 DEF ClaimInv, RewardPoints
        <4> QED BY <3>1, <3>3, <4>1, RewardAssumption DEF PaidRight
      <3> QED BY <3>2, <3>3
    <2> HIDE DEF q
    <2>6. CASE rewardCredits' = [rewardCredits EXCEPT ![<<d, s>>] = IF @ = 0 THEN points ELSE @]
      <3>1. /\ rewardCredits \in [Days \X Slots -> Nat]
            /\ rewardCredits' \in [Days \X Slots -> Nat]
        BY <2>5, <2>6 DEF PaidInv
      <3>2. \A e \in Days, v \in Slots : <<e, v>> # <<d, s>> =>
              rewardCredits'[<<e, v>>] = rewardCredits[<<e, v>>]
        BY <2>6, <3>1
      <3>3. rewardCredits'[<<d, s>>] = IF rewardCredits[<<d, s>>] = 0 THEN points
                                       ELSE rewardCredits[<<d, s>>]
        BY <2>6, <3>1
      <3>4. ASSUME NEW e \in Days, NEW v \in Slots, rewardCredits'[<<e, v>>] # 0
            PROVE  PaidRight(e, v, rewardCredits[<<e, v>>])'
        <4>1. CASE rewardCredits'[<<e, v>>] = rewardCredits[<<e, v>>]
          BY <1>2, <3>4, <4>1, PaidKept
        <4>2. CASE rewardCredits'[<<e, v>>] # rewardCredits[<<e, v>>]
          <5>1. e = d /\ v = s /\ rewardCredits'[<<e, v>>] = points
            BY <3>2, <3>3, <4>2
          <5> QED BY <2>1, <2>5, <5>1 DEF PaidRight, AtLeast
        <4> QED BY <4>1, <4>2
      <3> QED BY <1>1, <3>1, <3>4 DEF PaidInv, PaidAtFloor, PaidRight
    <2> QED BY <1>3, <2>4, <2>6
  <1>5. UNCHANGED rewardCredits \/ \E r \in RewardReqs : ClaimCommit(r)
    BY DEF RewardNext, rewardVars, RewardAsk, RewardNow, FloorRead, FloorInsert, RewardEnd,
           ClaimCheck, TierJobRead, TierJobInsert, GiftReceived, HourStreamed, LadderEdited,
           Midnight
  <1> QED BY <1>3, <1>4, <1>5

\* What the wallet is paid for a day agrees with the floor of the day, whatever
\* claims race and however often the ladder is edited on the way.
THEOREM PaidAtFloorAlways == RewardSpec => []PaidAtFloor
  <1>1. ASSUME RewardInit PROVE PaidInv
    <2>1. \A r \in RewardReqs : rewardReq[r].pc = "idle"
      BY <1>1, IdleRewardFacts DEF RewardInit
    <2>2. rewardCredits \in [Days \X Slots -> Nat] /\ PaidAtFloor
      BY <1>1 DEF RewardInit, PaidAtFloor
    <2> QED BY <2>1, <2>2 DEF PaidInv, ClaimInv
  <1>2. PaidInv => PaidAtFloor
    BY DEF PaidInv
  <1> QED BY <1>1, <1>2, RewardInitInv, RewardStep, PaidStep, PTL DEF RewardSpec

=============================================================================
