------------------------- MODULE SubscriptionProofs -------------------------
(***************************************************************************)
(* RenewalPaidOnce and AccessIsPaid for any number of requests and         *)
(* handlers, any lengths of period and grace, any number of stalls and     *)
(* crashes, with a replica that lags or not.                               *)
(*                                                                         *)
(* A row travels: a request or a handler reads it, keeps it, and writes it *)
(* or grants access with it later.  The inductive invariant says of every  *)
(* copy, wherever it is, that its period was charged.  The list of debits  *)
(* only grows, and a period in it only gets longer, so that what is said   *)
(* of a copy stays true while it waits.                                    *)
(***************************************************************************)
EXTENDS Subscription, TLAPS

\* The end of a period t is covered by a debit of the list d.
PaidIn(d, t) == t = 0 \/ \E i \in 1..Len(d) : d[i].until >= t

\* A key that grants access until t at time n: paid for, or for a second.
Granted(d, n, t) == t \in Nat /\ (t <= n + 1 \/ PaidIn(d, t))

\* The key is in the list d.
UsedIn(d, kind, key) == \E i \in 1..Len(d) : d[i].kind = kind /\ d[i].key = key

\* The period that a debit pays for, seen at time n: a renewal's follows from
\* its key, any other started at n or before.
PeriodOK(x, n) ==
    /\ x.kind = "renewal" => x.until = x.key + SubPeriod
    /\ x.kind # "renewal" => x.until <= n + SubPeriod

\* The list of debits at time n.
DebitsOK(d, n) ==
    /\ d \in Seq(SubDebit)
    /\ \A i, j \in 1..Len(d) : d[i].kind = d[j].kind /\ d[i].key = d[j].key => i = j
    /\ \A i \in 1..Len(d) : PeriodOK(d[i], n)

RowOK(d, row) == row \in SubRow /\ PaidIn(d, row.next)
RequestOK(d, q) == q \in SubRequestState /\ PaidIn(d, q.row.next)

\* The key of a handler, as DebitKey has it.
KeyOf(v) == IF v.kind = "renewal" THEN v.row.next ELSE v.row.grace

\* A handler about to write the row has its debit in the list.
WorkerOK(d, v) ==
    /\ v \in SubWorkerState
    /\ PaidIn(d, v.row.next)
    /\ v.pc = "write" => UsedIn(d, v.kind, KeyOf(v))

RequestsOK(d, f) ==
    f \in [SubRequests -> SubRequestState] /\ \A r \in SubRequests : RequestOK(d, f[r])
WorkersOK(d, f) ==
    f \in [SubWorkers -> SubWorkerState] /\ \A w \in SubWorkers : WorkerOK(d, f[w])

SubInv ==
    /\ subNow \in Nat
    /\ DebitsOK(subDebits, subNow)
    /\ RowOK(subDebits, subRow)
    /\ RowOK(subDebits, subOld)
    /\ Granted(subDebits, subNow, subAccess)
    /\ RequestsOK(subDebits, subRequest)
    /\ WorkersOK(subDebits, subWorker)

\* What may happen to the list of debits.
Grow(d, e) ==
    /\ Len(d) <= Len(e)
    /\ \A i \in 1..Len(d) : /\ e[i].kind = d[i].kind
                            /\ e[i].key = d[i].key
                            /\ e[i].until >= d[i].until

-----------------------------------------------------------------------------

\* The debits of a list and their fields.
LEMMA DebitFields ==
    ASSUME NEW d \in Seq(SubDebit), NEW i \in 1..Len(d)
    PROVE  d[i] \in SubDebit /\ d[i].key \in Nat /\ d[i].until \in Nat
  <1>1. d[i] \in SubDebit
    OBVIOUS
  <1> QED BY <1>1 DEF SubDebit

\* What is paid or used stays so when the list grows.
LEMMA Growth ==
    ASSUME NEW d \in Seq(SubDebit), NEW e \in Seq(SubDebit), Grow(d, e)
    PROVE  /\ \A t \in Nat : PaidIn(d, t) => PaidIn(e, t)
           /\ \A kind, key : UsedIn(d, kind, key) => UsedIn(e, kind, key)
           /\ \A row : RowOK(d, row) => RowOK(e, row)
           /\ \A f : RequestsOK(d, f) => RequestsOK(e, f)
           /\ \A f : WorkersOK(d, f) => WorkersOK(e, f)
           /\ \A n, t : Granted(d, n, t) => Granted(e, n, t)
  <1>0. /\ Len(d) \in Nat /\ Len(e) \in Nat
        /\ \A i \in 1..Len(d) : i \in 1..Len(e) /\ d[i].until \in Nat /\ e[i].until \in Nat
    <2>1. Len(d) \in Nat /\ Len(e) \in Nat /\ \A i \in 1..Len(d) : i \in 1..Len(e)
      BY DEF Grow
    <2> QED BY <2>1, DebitFields
  <1>1. \A t \in Nat : PaidIn(d, t) => PaidIn(e, t)
    BY <1>0 DEF Grow, PaidIn
  <1>2. \A kind, key : UsedIn(d, kind, key) => UsedIn(e, kind, key)
    BY <1>0 DEF Grow, UsedIn
  <1>3. \A row : RowOK(d, row) => RowOK(e, row)
    BY <1>1 DEF RowOK, SubRow
  <1>4. \A q : RequestOK(d, q) => RequestOK(e, q)
    BY <1>1 DEF RequestOK, SubRequestState, SubRow
  <1>5. \A v : WorkerOK(d, v) => WorkerOK(e, v)
    BY <1>1, <1>2 DEF WorkerOK, SubWorkerState, SubRow
  <1>6. \A n, t : Granted(d, n, t) => Granted(e, n, t)
    BY <1>1 DEF Granted
  <1> QED BY <1>1, <1>2, <1>3, <1>4, <1>5, <1>6 DEF RequestsOK, WorkersOK

\* A debit under a fresh key.
LEMMA Appending ==
    ASSUME NEW d, NEW n \in Nat, DebitsOK(d, n), NEW x \in SubDebit,
           ~UsedIn(d, x.kind, x.key), PeriodOK(x, n)
    PROVE  /\ DebitsOK(Append(d, x), n)
           /\ Grow(d, Append(d, x))
           /\ UsedIn(Append(d, x), x.kind, x.key)
           /\ PaidIn(Append(d, x), x.until)
  <1> DEFINE e == Append(d, x)
  <1>1. d \in Seq(SubDebit)
    BY DEF DebitsOK
  <1>2. /\ e \in Seq(SubDebit) /\ Len(e) = Len(d) + 1 /\ Len(d) \in Nat
        /\ e[Len(e)] = x
        /\ \A i \in 1..Len(d) : e[i] = d[i]
    BY <1>1
  <1>3. /\ Len(e) \in 1..Len(e)
        /\ \A i \in 1..Len(e) : i \in 1..Len(d) \/ i = Len(e)
    BY <1>2
  <1>4. \A i \in 1..Len(d) : d[i].until \in Nat
    BY <1>1, DebitFields
  <1>5. x.until \in Nat
    BY DEF SubDebit
  <1> HIDE DEF e
  <1>6. Grow(d, e)
    BY <1>2, <1>4 DEF Grow
  <1>7. UsedIn(e, x.kind, x.key) /\ PaidIn(e, x.until)
    BY <1>2, <1>3, <1>5 DEF UsedIn, PaidIn
  <1>8. \A i \in 1..Len(e) : PeriodOK(e[i], n)
    BY <1>2, <1>3 DEF DebitsOK
  <1>9. \A i, j \in 1..Len(e) : e[i].kind = e[j].kind /\ e[i].key = e[j].key => i = j
    BY <1>2, <1>3 DEF DebitsOK, UsedIn
  <1> QED BY <1>2, <1>6, <1>7, <1>8, <1>9 DEF DebitsOK, e

\* The write of a row gives the debit of its key the period that is written.
LEMMA Redating ==
    ASSUME NEW d, NEW n \in Nat, DebitsOK(d, n), NEW kind, NEW key, NEW until \in Nat,
           UsedIn(d, kind, key),
           kind = "renewal" => until = key + SubPeriod,
           kind # "renewal" => until = n + SubPeriod,
           NEW e, e = [i \in 1..Len(d) |->
                         IF d[i].kind = kind /\ d[i].key = key
                         THEN [d[i] EXCEPT !.until = until] ELSE d[i]]
    PROVE  DebitsOK(e, n) /\ Grow(d, e) /\ PaidIn(e, until)
  <1>1. d \in Seq(SubDebit) /\ Len(d) \in Nat
    BY DEF DebitsOK
  <1>2. \A i \in 1..Len(d) :
          /\ d[i] \in SubDebit
          /\ e[i] \in SubDebit /\ e[i].kind = d[i].kind /\ e[i].key = d[i].key
          /\ d[i].kind = kind /\ d[i].key = key => e[i].until = until
          /\ ~(d[i].kind = kind /\ d[i].key = key) => e[i] = d[i]
    <2> SUFFICES ASSUME NEW i \in 1..Len(d)
                 PROVE  /\ d[i] \in SubDebit
                        /\ e[i] \in SubDebit /\ e[i].kind = d[i].kind /\ e[i].key = d[i].key
                        /\ d[i].kind = kind /\ d[i].key = key => e[i].until = until
                        /\ ~(d[i].kind = kind /\ d[i].key = key) => e[i] = d[i]
      OBVIOUS
    <2>1. d[i] \in SubDebit
      BY <1>1, DebitFields
    <2>2. e[i] = IF d[i].kind = kind /\ d[i].key = key
                 THEN [d[i] EXCEPT !.until = until] ELSE d[i]
      OBVIOUS
    <2> QED BY <2>1, <2>2 DEF SubDebit
  <1>3. e \in Seq(SubDebit) /\ Len(e) = Len(d)
    <2>1. e \in [1..Len(d) -> SubDebit]
      BY <1>2
    <2> QED BY <1>1, <2>1
  <1>4. \A i \in 1..Len(d) : PeriodOK(d[i], n)
    BY DEF DebitsOK
  <1>5. \A i \in 1..Len(d) : PeriodOK(e[i], n) /\ e[i].until >= d[i].until
    <2> SUFFICES ASSUME NEW i \in 1..Len(d)
                 PROVE  PeriodOK(e[i], n) /\ e[i].until >= d[i].until
      OBVIOUS
    <2>1. d[i].until \in Nat /\ d[i].key \in Nat /\ n + SubPeriod \in Nat
      BY <1>1, DebitFields, SubAssumption
    <2>2. CASE d[i].kind = kind /\ d[i].key = key
      BY <2>1, <2>2, <1>2, <1>4 DEF PeriodOK
    <2>3. CASE ~(d[i].kind = kind /\ d[i].key = key)
      BY <2>1, <2>3, <1>2, <1>4 DEF PeriodOK
    <2> QED BY <2>2, <2>3
  <1>6. Grow(d, e)
    <2>1. Len(d) <= Len(e)
      BY <1>1, <1>3
    <2> QED BY <1>2, <1>5, <2>1 DEF Grow
  <1>7. PaidIn(e, until)
    BY <1>2, <1>3 DEF UsedIn, PaidIn
  <1>8. \A i, j \in 1..Len(e) : e[i].kind = e[j].kind /\ e[i].key = e[j].key => i = j
    BY <1>2, <1>3 DEF DebitsOK
  <1> QED BY <1>3, <1>5, <1>6, <1>7, <1>8 DEF DebitsOK

\* The passing of time.
LEMMA Later ==
    ASSUME NEW d, NEW n \in Nat, DebitsOK(d, n)
    PROVE  DebitsOK(d, n + 1) /\ \A t : Granted(d, n, t) => Granted(d, n + 1, t)
  <1>1. \A i \in 1..Len(d) : d[i].until \in Nat
    BY DebitFields DEF DebitsOK
  <1>2. n + SubPeriod \in Nat /\ (n + 1) + SubPeriod = (n + SubPeriod) + 1
    BY SubAssumption
  <1>3. \A i \in 1..Len(d) : PeriodOK(d[i], n + 1)
    BY <1>1, <1>2 DEF DebitsOK, PeriodOK
  <1> QED BY <1>3 DEF DebitsOK, Granted

\* setSubscriptionAccess: the end of a paid period, or a second from now.
LEMMA AccessSet ==
    ASSUME NEW d, NEW until \in Nat, PaidIn(d, until), subNow \in Nat, SetAccess(until)
    PROVE  Granted(d, subNow, subAccess')
  BY DEF SetAccess, Granted

-----------------------------------------------------------------------------

\* Nothing to pay for.
LEMMA IdleFacts ==
    /\ NoSub \in SubRow /\ NoSub.next = 0
    /\ IdleRequest \in SubRequestState /\ IdleRequest.row.next = 0
    /\ IdleWorker \in SubWorkerState /\ IdleWorker.row.next = 0 /\ IdleWorker.pc = "idle"
  BY DEF NoSub, SubRow, IdleRequest, SubRequestState, IdleWorker, SubWorkerState

\* So they satisfy the invariant under any debits.
LEMMA IdleOK ==
    ASSUME NEW d
    PROVE  RowOK(d, NoSub) /\ RequestOK(d, IdleRequest) /\ WorkerOK(d, IdleWorker)
  BY IdleFacts DEF RowOK, RequestOK, WorkerOK, PaidIn

\* The move of one request.
LEMMA RequestMoves ==
    ASSUME NEW d, NEW r \in SubRequests, NEW q, RequestOK(d, q),
           RequestsOK(d, subRequest), ToRequest(r, q)
    PROVE  RequestsOK(d, subRequest')
  BY DEF RequestsOK, RequestOK, ToRequest

\* The same of a handler.
LEMMA WorkerMoves ==
    ASSUME NEW d, NEW w \in SubWorkers, NEW v, WorkerOK(d, v),
           WorkersOK(d, subWorker), ToWorker(w, v)
    PROVE  WorkersOK(d, subWorker')
  BY DEF WorkersOK, WorkerOK, ToWorker

\* A row that changes only its status and its grace.
LEMMA RowChanges ==
    ASSUME NEW d, NEW row, RowOK(d, row),
           NEW status \in {"NONE", "ACTIVE", "GRACE", "CANCELLED", "EXPIRED"},
           NEW grace \in Nat
    PROVE  RowOK(d, [row EXCEPT !.status = status, !.grace = grace])
  BY DEF RowOK, SubRow

\* The program starts with nothing charged and nothing granted.
LEMMA SubInitInv == SubInit => SubInv
  <1> SUFFICES ASSUME SubInit PROVE SubInv
    OBVIOUS
  <1>1. subNow \in Nat /\ Granted(subDebits, subNow, subAccess)
    BY DEF SubInit, Granted
  <1>2. DebitsOK(subDebits, subNow)
    BY DEF SubInit, DebitsOK
  <1>3. RowOK(subDebits, subRow) /\ RowOK(subDebits, subOld)
    BY IdleOK DEF SubInit
  <1>4. RequestsOK(subDebits, subRequest)
    BY IdleFacts, IdleOK DEF SubInit, RequestsOK
  <1>5. WorkersOK(subDebits, subWorker)
    BY IdleFacts, IdleOK DEF SubInit, WorkersOK
  <1> QED BY <1>1, <1>2, <1>3, <1>4, <1>5 DEF SubInv

\* A request leaves the invariant.
LEMMA RequestStep ==
    ASSUME SubInv, NEW r \in SubRequests,
           \/ CreateRead(r) \/ CreateResume(r) \/ CreateRejob(r) \/ CreatePay(r)
           \/ CreateAdd(r) \/ StopRead(r) \/ StopWrite(r) \/ StopDrop(r)
    PROVE  SubInv'
  <1> DEFINE q == subRequest[r]
  <1>1. /\ q \in SubRequestState /\ q.row \in SubRow /\ q.row.next \in Nat
        /\ PaidIn(subDebits, q.row.next)
    BY DEF SubInv, RequestsOK, RequestOK, SubRequestState, SubRow
  <1>2. \A pc \in {"idle", "resume", "pay", "rejob", "add", "stop", "drop"} :
          /\ RequestOK(subDebits, [q EXCEPT !.pc = pc])
          /\ \A row : RowOK(subDebits, row) => RequestOK(subDebits, [pc |-> pc, row |-> row])
    BY <1>1 DEF RequestOK, RowOK, SubRequestState
  <1>3. \A row \in SubServed : RowOK(subDebits, row)
    BY DEF SubInv, SubServed
  <1>4. CASE CreateRead(r)
    <2>1. PICK row \in SubServed :
            ToRequest(r, [pc |-> IF row.status = "CANCELLED" /\ row.next > subNow
                                 THEN "resume" ELSE "pay",
                          row |-> row])
      BY <1>4 DEF CreateRead
    <2>2. RequestsOK(subDebits, subRequest')
      BY <2>1, <1>2, <1>3, RequestMoves DEF SubInv
    <2> QED BY <1>4, <2>2 DEF CreateRead, SubInv
  <1>5. CASE CreateResume(r)
    <2> DEFINE row == [subRow EXCEPT !.status = "ACTIVE", !.grace = 0]
    <2>1. CASE subRow.status = "CANCELLED" /\ subRow.next > subNow
      <3>1. RowOK(subDebits, row)
        BY RowChanges DEF SubInv
      <3>2. /\ subRow' = row /\ subOld' = subRow /\ SetAccess(row.next)
            /\ ToRequest(r, [pc |-> "rejob", row |-> row]) /\ subNow' = subNow
        BY <1>5, <2>1 DEF CreateResume, WriteSub
      <3> HIDE DEF row
      <3>3. RequestsOK(subDebits, subRequest')
        BY <3>1, <3>2, <1>2, RequestMoves DEF SubInv
      <3>4. row.next \in Nat /\ PaidIn(subDebits, row.next)
        BY <3>1 DEF RowOK, SubRow
      <3>5. Granted(subDebits, subNow, subAccess')
        BY <3>2, <3>4, AccessSet DEF SubInv
      <3> QED BY <1>5, <3>1, <3>2, <3>3, <3>5 DEF CreateResume, SubInv
    <2>2. CASE ~(subRow.status = "CANCELLED" /\ subRow.next > subNow)
      <3>1. /\ ToRequest(r, [q EXCEPT !.pc = "pay"])
            /\ UNCHANGED <<subRow, subOld, subAccess>>
        BY <1>5, <2>2 DEF CreateResume
      <3>2. RequestsOK(subDebits, subRequest')
        BY <3>1, <1>2, RequestMoves DEF SubInv
      <3> QED BY <1>5, <3>1, <3>2 DEF CreateResume, SubInv
    <2> QED BY <2>1, <2>2
  <1>6. CASE CreateRejob(r)
    <2>1. ToRequest(r, [q EXCEPT !.pc = "add"]) \/ ToRequest(r, IdleRequest)
      BY <1>6 DEF CreateRejob
    <2>2. RequestsOK(subDebits, subRequest')
      BY <2>1, <1>2, IdleOK, RequestMoves DEF SubInv
    <2> QED BY <1>6, <2>2 DEF CreateRejob, SubInv
  <1>7. CASE CreatePay(r)
    <2> DEFINE until == subNow + SubPeriod
               row == [status |-> "ACTIVE", next |-> until, grace |-> 0]
               x == [kind |-> "create", key |-> q.row.next, until |-> until]
    <2>1. CASE /\ ToRequest(r, IdleRequest)
               /\ UNCHANGED <<subRow, subOld, subDebits, subAccess>>
      <3>1. RequestsOK(subDebits, subRequest')
        BY <2>1, IdleOK, RequestMoves DEF SubInv
      <3> QED BY <1>7, <2>1, <3>1 DEF CreatePay, SubInv
    <2>2. CASE /\ Debit("create", q.row.next, until)
               /\ WriteSub(row)
               /\ SetAccess(until)
               /\ ToRequest(r, [pc |-> "add", row |-> row])
      <3>1. until \in Nat /\ subNow \in Nat
        BY SubAssumption DEF SubInv
      <3>2. /\ x \in SubDebit /\ x.kind = "create" /\ x.key = q.row.next
            /\ x.until = until /\ PeriodOK(x, subNow)
        BY <3>1, <1>1 DEF SubDebit, PeriodOK
      <3>3. row \in SubRow /\ row.next = until
        BY <3>1 DEF SubRow
      <3>4. subDebits' = Append(subDebits, x) /\ ~UsedIn(subDebits, x.kind, x.key)
        BY <2>2, <3>2 DEF Debit, DebitUsed, UsedIn
      <3>5. /\ subRow' = row /\ subOld' = subRow /\ SetAccess(until)
            /\ ToRequest(r, [pc |-> "add", row |-> row])
            /\ subNow' = subNow /\ subWorker' = subWorker
        BY <1>7, <2>2 DEF CreatePay, WriteSub
      <3> HIDE DEF x, row, until
      <3>6. /\ DebitsOK(subDebits', subNow) /\ Grow(subDebits, subDebits')
            /\ PaidIn(subDebits', until)
        BY <3>1, <3>2, <3>4, Appending DEF SubInv
      <3>7. subDebits \in Seq(SubDebit) /\ subDebits' \in Seq(SubDebit)
        BY <3>6 DEF SubInv, DebitsOK
      <3>8. /\ RowOK(subDebits', subRow) /\ RequestsOK(subDebits', subRequest)
            /\ WorkersOK(subDebits', subWorker)
        BY <3>6, <3>7, Growth DEF SubInv
      <3>9. RowOK(subDebits', row) /\ RequestOK(subDebits', [pc |-> "add", row |-> row])
        BY <3>3, <3>6 DEF RowOK, RequestOK, SubRequestState
      <3>10. RequestsOK(subDebits', subRequest')
        BY <3>5, <3>8, <3>9, RequestMoves
      <3>11. Granted(subDebits', subNow, subAccess')
        BY <3>1, <3>5, <3>6, AccessSet
      <3> QED BY <3>1, <3>5, <3>6, <3>8, <3>9, <3>10, <3>11 DEF SubInv
    <2> QED BY <1>7, <2>1, <2>2 DEF CreatePay
  <1>8. CASE CreateAdd(r)
    <2>1. RequestsOK(subDebits, subRequest')
      BY <1>8, IdleOK, RequestMoves DEF CreateAdd, SubInv
    <2> QED BY <1>8, <2>1 DEF CreateAdd, SubInv
  <1>9. CASE StopRead(r)
    <2>1. PICK row \in SubServed : ToRequest(r, [pc |-> "stop", row |-> row])
      BY <1>9 DEF StopRead
    <2>2. RequestsOK(subDebits, subRequest')
      BY <2>1, <1>2, <1>3, RequestMoves DEF SubInv
    <2> QED BY <1>9, <2>2 DEF StopRead, SubInv
  <1>10. CASE StopWrite(r)
    <2>1. ToRequest(r, [q EXCEPT !.pc = "drop"])
      BY <1>10 DEF StopWrite
    <2>2. RequestsOK(subDebits, subRequest')
      BY <2>1, <1>2, RequestMoves DEF SubInv
    <2>3. RowOK(subDebits, [subRow EXCEPT !.status = "CANCELLED", !.grace = 0])
      BY RowChanges DEF SubInv
    <2> QED BY <1>10, <2>2, <2>3 DEF StopWrite, WriteSub, SubInv
  <1>11. CASE StopDrop(r)
    <2>1. ToRequest(r, IdleRequest)
      BY <1>11 DEF StopDrop
    <2>2. RequestsOK(subDebits, subRequest')
      BY <2>1, IdleOK, RequestMoves DEF SubInv
    <2>3. subAccess' \in {subAccess, q.row.next, 0}
      BY <1>11 DEF StopDrop, DropJobs
    <2>4. Granted(subDebits, subNow, subAccess')
      BY <2>3, <1>1 DEF SubInv, PaidIn, Granted
    <2> QED BY <1>11, <2>2, <2>4 DEF StopDrop, SubInv
  <1> QED BY <1>4, <1>5, <1>6, <1>7, <1>8, <1>9, <1>10, <1>11

\* The key of a handler and the end of the period it pays for.
LEMMA KeyAndPeriod ==
    ASSUME NEW w \in SubWorkers, subWorker[w] \in SubWorkerState, subNow \in Nat
    PROVE  /\ DebitKey(w) \in Nat /\ PaidUntil(w) \in Nat
           /\ subWorker[w].kind \in {"renewal", "grace"}
           /\ DebitKey(w) = KeyOf(subWorker[w])
  <1>1. /\ subWorker[w].row.next \in Nat /\ subWorker[w].row.grace \in Nat
        /\ subWorker[w].kind \in {"renewal", "grace"}
    BY DEF SubWorkerState, SubRow
  <1>2. DebitKey(w) \in Nat /\ DebitKey(w) = KeyOf(subWorker[w])
    BY <1>1 DEF DebitKey, KeyOf
  <1>3. PaidUntil(w) \in Nat
    BY <1>1, SubAssumption DEF PaidUntil
  <1> QED BY <1>1, <1>2, <1>3

\* A handler leaves the invariant.
LEMMA WorkerStep ==
    ASSUME SubInv, NEW w \in SubWorkers,
           \/ RenewTake(w) \/ GraceTake(w) \/ WorkBlocked(w) \/ WorkDebit(w)
           \/ WorkWrite(w) \/ RenewAfter(w) \/ GraceAfter(w) \/ RenewShort(w)
           \/ GraceShort(w) \/ WorkStall(w)
    PROVE  SubInv'
  <1> DEFINE v == subWorker[w]
  <1>1. /\ WorkerOK(subDebits, v)
        /\ v \in SubWorkerState /\ v.row \in SubRow
        /\ v.row.next \in Nat /\ v.row.grace \in Nat
        /\ PaidIn(subDebits, v.row.next)
    BY DEF SubInv, WorkersOK, WorkerOK, SubWorkerState, SubRow
  <1>0. subNow \in Nat
    BY DEF SubInv
  <1>2. \A row \in SubServed : RowOK(subDebits, row)
    BY DEF SubInv, SubServed
  <1>3. \A row, kind : RowOK(subDebits, row) /\ kind \in {"renewal", "grace"} =>
          WorkerOK(subDebits, [pc |-> "debit", kind |-> kind, row |-> row, holds |-> TRUE])
    BY DEF WorkerOK, RowOK, SubWorkerState
  <1>4. \A status \in {"NONE", "ACTIVE", "GRACE", "CANCELLED", "EXPIRED"}, grace \in Nat :
          RowOK(subDebits, [subRow EXCEPT !.status = status, !.grace = grace])
    BY RowChanges DEF SubInv
  <1>5. ToWorker(w, IdleWorker) => WorkersOK(subDebits, subWorker')
    BY IdleOK, WorkerMoves DEF SubInv
  <1>6. CASE RenewTake(w)
    <2>1. \/ \E row \in SubServed : ToWorker(w, [pc |-> "debit", kind |-> "renewal",
                                                row |-> row, holds |-> TRUE])
          \/ subWorker' = subWorker
      BY <1>6 DEF RenewTake
    <2>2. WorkersOK(subDebits, subWorker')
      BY <2>1, <1>2, <1>3, WorkerMoves DEF SubInv
    <2> QED BY <1>6, <2>2 DEF RenewTake, SubInv
  <1>7. CASE GraceTake(w)
    <2>1. \/ \E row \in SubServed : ToWorker(w, [pc |-> "debit", kind |-> "grace",
                                                row |-> row, holds |-> TRUE])
          \/ subWorker' = subWorker
      BY <1>7 DEF GraceTake
    <2>2. WorkersOK(subDebits, subWorker')
      BY <2>1, <1>2, <1>3, WorkerMoves DEF SubInv
    <2> QED BY <1>7, <2>2 DEF GraceTake, SubInv
  <1>8. CASE WorkBlocked(w)
    <2>1. \/ /\ subRow' = [subRow EXCEPT !.status = "CANCELLED", !.grace = 0]
             /\ subOld' = subRow
          \/ subRow' = subRow /\ subOld' = subOld
      BY <1>8 DEF WorkBlocked, WriteSub
    <2>2. RowOK(subDebits, subRow') /\ RowOK(subDebits, subOld')
      BY <2>1, <1>4 DEF SubInv
    <2>3. PICK row \in SubServed : subAccess' \in {subAccess, row.next, 0}
      BY <1>8 DEF WorkBlocked, DropJobs
    <2>4. row.next \in Nat /\ PaidIn(subDebits, row.next)
      BY <1>2 DEF RowOK, SubRow
    <2>5. Granted(subDebits, subNow, subAccess')
      BY <2>3, <2>4 DEF SubInv, PaidIn, Granted
    <2> QED BY <1>8, <1>5, <2>2, <2>5 DEF WorkBlocked, SubInv
  <1>9. CASE WorkDebit(w)
    <2>1. CASE /\ Debit(v.kind, DebitKey(w), PaidUntil(w))
               /\ ToWorker(w, [v EXCEPT !.pc = "write"])
      <3> DEFINE key == DebitKey(w)
                 until == PaidUntil(w)
                 x == [kind |-> v.kind, key |-> key, until |-> until]
                 u == [v EXCEPT !.pc = "write"]
      <3>1. /\ key \in Nat /\ until \in Nat /\ subNow \in Nat
            /\ v.kind \in {"renewal", "grace"} /\ key = KeyOf(v)
        BY <1>1, <1>0, KeyAndPeriod
      <3>2. /\ v.kind = "renewal" => until = key + SubPeriod
            /\ v.kind # "renewal" => until = subNow + SubPeriod
        BY DEF DebitKey, PaidUntil
      <3>3. subDebits' = Append(subDebits, x) /\ ~UsedIn(subDebits, v.kind, key)
        BY <2>1 DEF Debit, DebitUsed, UsedIn
      <3>4. /\ u \in SubWorkerState /\ u.row = v.row /\ u.kind = v.kind
            /\ ToWorker(w, u)
        BY <2>1, <1>1 DEF SubWorkerState
      <3>5. UNCHANGED <<subNow, subRow, subOld, subAccess, subRequest>>
        BY <1>9 DEF WorkDebit
      <3> HIDE DEF key, until, u
      <3>6. x \in SubDebit /\ x.kind = v.kind /\ x.key = key /\ x.until = until
        BY <3>1 DEF SubDebit
      <3> HIDE DEF x
      <3>7. PeriodOK(x, subNow)
        <4>1. subNow + SubPeriod <= subNow + SubPeriod
          BY <3>1, SubAssumption
        <4> QED BY <3>2, <3>6, <4>1 DEF PeriodOK
      <3>8. /\ DebitsOK(subDebits', subNow) /\ Grow(subDebits, subDebits')
            /\ UsedIn(subDebits', v.kind, key)
        BY <3>1, <3>3, <3>6, <3>7, Appending DEF SubInv
      <3>9. subDebits \in Seq(SubDebit) /\ subDebits' \in Seq(SubDebit)
        BY <3>8 DEF SubInv, DebitsOK
      <3>10. /\ RowOK(subDebits', subRow) /\ RowOK(subDebits', subOld)
             /\ Granted(subDebits', subNow, subAccess) /\ PaidIn(subDebits', v.row.next)
             /\ RequestsOK(subDebits', subRequest)
             /\ WorkersOK(subDebits', subWorker)
        <4>1. /\ RowOK(subDebits, subRow) /\ RowOK(subDebits, subOld)
              /\ Granted(subDebits, subNow, subAccess)
              /\ RequestsOK(subDebits, subRequest) /\ WorkersOK(subDebits, subWorker)
          BY DEF SubInv
        <4>2. Grow(subDebits, subDebits')
          BY <3>8
        <4>3. /\ RowOK(subDebits', subRow) /\ RowOK(subDebits', subOld)
              /\ Granted(subDebits', subNow, subAccess)
          BY <3>9, <4>1, <4>2, Growth
        <4>4. RequestsOK(subDebits', subRequest) /\ WorkersOK(subDebits', subWorker)
          BY <3>9, <4>1, <4>2, Growth
        <4>5. PaidIn(subDebits', v.row.next)
          BY <3>9, <1>1, <4>2, Growth
        <4> QED BY <4>3, <4>4, <4>5
      <3>11. WorkerOK(subDebits', u)
        BY <3>1, <3>4, <3>8, <3>10 DEF WorkerOK, KeyOf
      <3>12. WorkersOK(subDebits', subWorker')
        BY <3>4, <3>10, <3>11, WorkerMoves
      <3> QED BY <3>5, <3>8, <3>10, <3>12 DEF SubInv
    <2>2. CASE /\ subDebits' = subDebits
               /\ \/ ToWorker(w, [v EXCEPT !.pc = "short"])
                  \/ ToWorker(w, IdleWorker)
      <3>1. WorkerOK(subDebits, [v EXCEPT !.pc = "short"])
        BY <1>1 DEF WorkerOK, SubWorkerState
      <3>2. WorkersOK(subDebits, subWorker')
        BY <2>2, <3>1, <1>5, WorkerMoves DEF SubInv
      <3> QED BY <1>9, <2>2, <3>2 DEF WorkDebit, SubInv
    <2> QED BY <1>9, <2>1, <2>2 DEF WorkDebit
  <1>10. CASE WorkWrite(w)
    <2> DEFINE key == DebitKey(w)
               until == PaidUntil(w)
               row == [status |-> "ACTIVE", next |-> until, grace |-> 0]
               u == [v EXCEPT !.pc = "after", !.row.next = until]
    <2>1. /\ key \in Nat /\ until \in Nat /\ subNow \in Nat
          /\ v.kind \in {"renewal", "grace"} /\ key = KeyOf(v)
      BY <1>1, <1>0, KeyAndPeriod
    <2>2. /\ v.kind = "renewal" => until = key + SubPeriod
          /\ v.kind # "renewal" => until = subNow + SubPeriod
      BY DEF DebitKey, PaidUntil
    <2>3. UsedIn(subDebits, v.kind, key)
      BY <1>1, <1>10, <2>1 DEF WorkWrite, WorkerOK
    <2>4. subDebits' = [i \in 1..Len(subDebits) |->
                          IF subDebits[i].kind = v.kind /\ subDebits[i].key = key
                          THEN [subDebits[i] EXCEPT !.until = until] ELSE subDebits[i]]
      BY <1>10 DEF WorkWrite
    <2>5. /\ subRow' = row /\ subOld' = subRow /\ ToWorker(w, u)
          /\ UNCHANGED <<subNow, subAccess, subRequest>>
      BY <1>10 DEF WorkWrite, WriteSub
    <2>6. u \in SubWorkerState /\ u.row.next = until /\ u.pc = "after"
      BY <1>1, <2>1 DEF SubWorkerState, SubRow
    <2>7. row \in SubRow /\ row.next = until
      BY <2>1 DEF SubRow
    <2> HIDE DEF key, until, row, u
    <2>8. /\ DebitsOK(subDebits', subNow) /\ Grow(subDebits, subDebits')
          /\ PaidIn(subDebits', until)
      BY <2>1, <2>2, <2>3, <2>4, Redating DEF SubInv
    <2>9. subDebits \in Seq(SubDebit) /\ subDebits' \in Seq(SubDebit)
      BY <2>8 DEF SubInv, DebitsOK
    <2>10. /\ RowOK(subDebits', subRow) /\ Granted(subDebits', subNow, subAccess)
           /\ RequestsOK(subDebits', subRequest) /\ WorkersOK(subDebits', subWorker)
      BY <2>8, <2>9, Growth DEF SubInv
    <2>11. RowOK(subDebits', row) /\ WorkerOK(subDebits', u)
      BY <2>6, <2>7, <2>8 DEF RowOK, WorkerOK
    <2>12. WorkersOK(subDebits', subWorker')
      BY <2>5, <2>10, <2>11, WorkerMoves
    <2> QED BY <2>5, <2>8, <2>10, <2>11, <2>12 DEF SubInv
  <1>11. CASE RenewAfter(w)
    <2>1. SetAccess(v.row.next) \/ subAccess' = subAccess
      BY <1>11 DEF RenewAfter
    <2>2. Granted(subDebits, subNow, subAccess')
      BY <1>1, <2>1, AccessSet DEF SubInv
    <2> QED BY <1>5, <1>11, <2>2 DEF RenewAfter, SubInv
  <1>12. CASE GraceAfter(w)
    <2>1. SetAccess(v.row.next)
      BY <1>12 DEF GraceAfter
    <2>2. Granted(subDebits, subNow, subAccess')
      BY <1>1, <2>1, AccessSet DEF SubInv
    <2> QED BY <1>5, <1>12, <2>2 DEF GraceAfter, SubInv
  <1>13. CASE RenewShort(w)
    <2>1. subNow + SubGrace \in Nat
      BY SubAssumption DEF SubInv
    <2>2. /\ subRow' = [subRow EXCEPT !.status = "GRACE", !.grace = subNow + SubGrace]
          /\ subOld' = subRow /\ subAccess' = 0
      BY <1>13 DEF RenewShort, WriteSub, DelAccess
    <2>3. RowOK(subDebits, subRow') /\ RowOK(subDebits, subOld')
      BY <2>1, <2>2, <1>4 DEF SubInv
    <2>4. Granted(subDebits, subNow, subAccess')
      BY <2>2 DEF Granted, PaidIn
    <2> QED BY <1>5, <1>13, <2>3, <2>4 DEF RenewShort, SubInv
  <1>14. CASE GraceShort(w)
    <2>1. /\ subRow' = [subRow EXCEPT !.status = "EXPIRED", !.grace = 0]
          /\ subOld' = subRow /\ subAccess' = 0
      BY <1>14 DEF GraceShort, WriteSub, DelAccess
    <2>2. RowOK(subDebits, subRow') /\ RowOK(subDebits, subOld')
      BY <2>1, <1>4 DEF SubInv
    <2>3. Granted(subDebits, subNow, subAccess')
      BY <2>1 DEF Granted, PaidIn
    <2> QED BY <1>5, <1>14, <2>2, <2>3 DEF GraceShort, SubInv
  <1>15. CASE WorkStall(w)
    <2>1. WorkerOK(subDebits, [v EXCEPT !.holds = FALSE])
      BY <1>1 DEF WorkerOK, SubWorkerState, KeyOf
    <2>2. \/ ToWorker(w, [v EXCEPT !.holds = FALSE])
          \/ ToWorker(w, IdleWorker)
      BY <1>15 DEF WorkStall
    <2>3. WorkersOK(subDebits, subWorker')
      BY <2>1, <2>2, <1>5, WorkerMoves DEF SubInv
    <2> QED BY <1>15, <2>3 DEF WorkStall, SubInv
  <1> QED BY <1>6, <1>7, <1>8, <1>9, <1>10, <1>11, <1>12, <1>13, <1>14, <1>15

\* Every step leaves the invariant.
LEMMA SubStepInv == SubInv /\ [SubNext]_subVars => SubInv'
  <1> SUFFICES ASSUME SubInv, [SubNext]_subVars PROVE SubInv'
    OBVIOUS
  <1>1. CASE Block
    BY <1>1 DEF Block, SubInv
  <1>2. CASE CheckAccess
    <2>1. PICK row \in SubServed : SetAccess(row.next)
      BY <1>2 DEF CheckAccess
    <2>2. RowOK(subDebits, row)
      BY DEF SubInv, SubServed
    <2>3. Granted(subDebits, subNow, subAccess')
      <3>1. row.next \in Nat /\ PaidIn(subDebits, row.next) /\ subNow \in Nat
        BY <2>2 DEF RowOK, SubRow, SubInv
      <3> QED BY <2>1, <3>1, AccessSet
    <2> QED BY <1>2, <2>3 DEF CheckAccess, SubInv
  <1>3. CASE SubTime
    <2>1. /\ subNow' \in Nat /\ DebitsOK(subDebits, subNow')
          /\ Granted(subDebits, subNow', subAccess)
      BY <1>3, Later DEF SubTime, SubInv
    <2> QED BY <1>3, <2>1 DEF SubTime, SubInv
  <1>4. CASE UNCHANGED subVars
    BY <1>4 DEF subVars, SubInv
  <1> QED BY <1>1, <1>2, <1>3, <1>4, RequestStep, WorkerStep DEF SubNext

\* The invariant holds in every state.
LEMMA SubInvAlways == SubSpec => []SubInv
  BY SubInitInv, SubStepInv, PTL DEF SubSpec

\* Two debits of renewals for one period have one key, and a key is used once.
LEMMA InvPaysOnce == SubInv => RenewalPaidOnce
  <1> SUFFICES ASSUME SubInv, NEW i \in 1..Len(subDebits), NEW j \in 1..Len(subDebits),
                      subDebits[i].kind = "renewal", subDebits[j].kind = "renewal",
                      subDebits[i].until = subDebits[j].until
               PROVE  i = j
    BY DEF RenewalPaidOnce
  <1>1. subDebits[i].key \in Nat /\ subDebits[j].key \in Nat
    BY DebitFields DEF SubInv, DebitsOK
  <1>2. subDebits[i].key + SubPeriod = subDebits[j].key + SubPeriod
    BY DEF SubInv, DebitsOK, PeriodOK
  <1>3. subDebits[i].key = subDebits[j].key
    BY <1>1, <1>2, SubAssumption
  <1> QED BY <1>3 DEF SubInv, DebitsOK

\* The access key is one of the copies of which the invariant speaks.
LEMMA InvAccessPaid == SubInv => AccessIsPaid
  BY DEF SubInv, Granted, PaidIn, AccessIsPaid

\* processRenewalJob never charges a period twice, whatever stalls, crashes
\* and stale reads it meets.
THEOREM RenewalPaidOnceAlways == SubSpec => []RenewalPaidOnce
  BY SubInvAlways, InvPaysOnce, PTL

\* setSubscriptionAccess, wherever it is called, never grants access beyond
\* the end of a period that was charged, apart from the one second it always
\* grants.
THEOREM AccessIsPaidAlways == SubSpec => []AccessIsPaid
  BY SubInvAlways, InvAccessPaid, PTL

=============================================================================
