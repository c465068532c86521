--------------------------- MODULE PayrollProofs ---------------------------
(***************************************************************************)
(* TypeOK and RowsMatchLedger hold for any number of workers, assignments  *)
(* and agencies and for any bounds.                                        *)
(*                                                                         *)
(* RowsMatchLedger is not inductive: between its read and its commit a     *)
(* handler carries what it read, and its commit believes it.  WorkerOK     *)
(* says which of these beliefs stay true while others commit.  They do     *)
(* because the ledger only grows and payout_handler never changes, not     *)
(* because the rows stay what they were.                                   *)
(***************************************************************************)
EXTENDS Payroll, FiniteSetTheorems, TLAPS

\* Handlers that work on an assignment they have found.
OnAssignment == {"sla", "reject", "complete", "manualComplete", "autoWait",
                 "favourAgent", "favourHost"}

\* Somebody was credited for the withdrawal, in ledger L.
PaidIn(L) == Takeover \in L \/ \E a \in AssignmentIds : Payout(a) \in L

\* What worker record w may rely on, given ledger L and payout handler h.
WorkerOK(w, L, h) ==
    /\ w.pc # "idle" /\ w.op # "ban" => Debit \in L
    /\ w.op = "ban" /\ w.rm # {} => Debit \in L
    /\ w.pc = "commit" /\ w.op = "ban" => w.ag \in Agencies
    /\ w.pc = "commit" /\ w.op \in OnAssignment => w.a \in AssignmentIds
    /\ w.pc = "commit" /\ w.op \in {"resolvePaid", "resolveRefund"} => h # "AGENCY"
    /\ w.pc = "commit" /\ w.op = "proof" /\ w.a # None =>
         /\ w.saw \in AssignmentStatus \ {"NONE"}
         /\ w.saw = "COMPLETED" => Payout(w.a) \in L
    /\ w.pc = "commit" /\ w.op = "proof" /\ w.a = None =>
         /\ w.saw \in WithdrawalStatus
         /\ w.saw = "FAILED" => Refund \in L
         /\ w.saw = "PAID" /\ h = "AGENCY" => PaidIn(L)

RowsType ==
    /\ status \in WithdrawalStatus \cup {"NONE"}
    /\ payoutHandler \in {"AGENCY", "PLATFORM"}
    /\ assignmentCount \in Nat
    /\ disputeTicketId \in BOOLEAN
    /\ asg \in [AssignmentIds -> [status : AssignmentStatus,
                                  agency : Agencies \cup {None}]]
    /\ clock \in [Timers -> {"unset", "running", "elapsed"}]
    /\ ledger \subseteq Keys
    /\ banned \subseteq Agencies

RowsOK ==
    /\ RowsType
    /\ RowsMatchLedger
    /\ \A a \in AssignmentIds : asg[a].status # "NONE" => Debit \in ledger

ProcOK ==
    /\ proc \in [Workers -> Worker]
    /\ \A p \in Workers : WorkerOK(proc[p], ledger, payoutHandler)

QueueOK ==
    /\ jobs \in [Timers -> {"none", "queued", "active", "kept"}]
    /\ lock \in Workers \cup {None}
    /\ faults \in Nat
    /\ requests \in Nat

IInv == RowsOK /\ ProcOK /\ QueueOK

(***************************************************************************)
(* Keys, timers and records                                                *)
(***************************************************************************)

\* The idempotency keys the handlers write are keys of the ledger, and two of
\* them are equal only when they have one prefix and one assignment.
LEMMA KeyFacts ==
    /\ Debit \in Keys /\ Refund \in Keys /\ Takeover \in Keys
    /\ \A a \in AssignmentIds : Payout(a) \in Keys /\ Reversal(a) \in Keys
    /\ Debit # Refund /\ Debit # Takeover /\ Refund # Takeover
    /\ \A a : /\ Payout(a) # Debit /\ Payout(a) # Refund /\ Payout(a) # Takeover
              /\ Reversal(a) # Debit /\ Reversal(a) # Refund
              /\ Reversal(a) # Takeover
    /\ \A a, b : /\ Payout(a) # Reversal(b)
                 /\ Payout(a) = Payout(b) => a = b
                 /\ Reversal(a) = Reversal(b) => a = b
  BY DEF Keys, Debit, Refund, Takeover, Payout, Reversal

\* The job ids of the queue are timers, and carry the assignment they are for.
LEMMA TimerFacts ==
    /\ Window \in Timers
    /\ \A a \in AssignmentIds : Sla(a) \in Timers /\ Waiting(a) \in Timers
    /\ \A a : Sla(a)[2] = a /\ Waiting(a)[2] = a
    /\ Window[2] = None
  BY DEF Timers, Sla, Waiting, Window

\* A worker between two handlers is a worker.
LEMMA IdleType == Idle \in Worker
  BY DEF Idle, Worker

\* A worker between two handlers relies on nothing.
LEMMA IdleOK == \A L, h : WorkerOK(Idle, L, h)
  BY DEF Idle, WorkerOK, OnAssignment

\* What a worker relies on stays true while the ledger grows.
LEMMA WorkerOKMonotone ==
    ASSUME NEW w, NEW L, NEW M, NEW h, WorkerOK(w, L, h), L \subseteq M
    PROVE  WorkerOK(w, M, h)
  BY DEF WorkerOK, PaidIn

\* A handler begins: its worker has what it read, the others go on.
LEMMA BeginOK ==
    ASSUME ProcOK, NEW p \in Workers, NEW r \in Worker, Begin(p, r),
           WorkerOK(r, ledger', payoutHandler), requests \in Nat,
           ledger \subseteq ledger', UNCHANGED payoutHandler
    PROVE  ProcOK' /\ requests' \in Nat
  <1>1. proc' \in [Workers -> Worker] /\ requests' \in Nat
    BY DEF Begin, ProcOK
  <1>2. ASSUME NEW q \in Workers
        PROVE  WorkerOK(proc'[q], ledger', payoutHandler')
    <2>1. CASE q = p
      BY <2>1 DEF Begin, ProcOK
    <2>2. CASE q # p
      <3>1. proc'[q] = proc[q] /\ WorkerOK(proc[q], ledger, payoutHandler)
        BY <2>2 DEF Begin, ProcOK
      <3> QED BY <3>1, WorkerOKMonotone
    <2> QED BY <2>1, <2>2
  <1> QED BY <1>1, <1>2 DEF ProcOK

\* A handler commits: it no longer relies on a row, and the others only learn
\* of deadlines.
LEMMA CommittedOK ==
    ASSUME ProcOK, NEW p \in Workers, NEW opened \in SUBSET Timers,
           NEW add \in SUBSET Timers, NEW re \in BOOLEAN,
           Committed(p, opened, add, re), proc[p].pc # "idle",
           ledger \subseteq ledger', UNCHANGED payoutHandler
    PROVE  ProcOK'
  <1>1. \A q \in Workers :
          /\ proc[q] \in Worker /\ WorkerOK(proc[q], ledger', payoutHandler)
    BY WorkerOKMonotone DEF ProcOK
  <1>2. ASSUME NEW q \in Workers
        PROVE  proc'[q] \in Worker /\ WorkerOK(proc'[q], ledger', payoutHandler')
    <2>1. CASE q = p
      <3>1. proc'[q] = [op |-> proc[p].op, pc |-> "jobs", a |-> None, b |-> None,
                        saw |-> None, ag |-> proc[p].ag, rm |-> proc[p].rm,
                        add |-> add, re |-> re, job |-> proc[p].job,
                        spans |-> proc[p].spans \cup opened]
        BY <2>1 DEF Committed, Idle
      <3> QED BY <1>1, <2>1, <3>1 DEF Worker, WorkerOK
    <2>2. CASE q # p /\ proc[q].pc = "idle"
      BY <1>1, <2>2 DEF Committed
    <2>3. CASE q # p /\ proc[q].pc # "idle"
      <3>1. proc'[q] = [proc[q] EXCEPT !.spans = @ \cup opened]
        BY <2>3 DEF Committed
      <3> QED BY <1>1, <3>1 DEF Worker, WorkerOK
    <2> QED BY <2>1, <2>2, <2>3
  <1>3. proc' = [q \in Workers |-> proc'[q]]
    BY DEF Committed
  <1> QED BY <1>2, <1>3 DEF ProcOK

(***************************************************************************)
(* Reads change no row                                                     *)
(***************************************************************************)

\* A step that leaves the rows alone leaves what is said of them.
LEMMA RowsKept == RowsOK /\ UNCHANGED rows => RowsOK'
  BY DEF RowsOK, RowsType, RowsMatchLedger, rows, Exists, Banked

\* A request begins and writes nothing yet.
LEMMA RequestOK ==
    ASSUME IInv, NEW p \in Workers, NEW r \in Worker, Begin(p, r),
           WorkerOK(r, ledger, payoutHandler),
           UNCHANGED <<rows, jobs, lock, faults>>
    PROVE  IInv'
  <1>1. RowsOK'
    BY RowsKept DEF IInv
  <1>2. UNCHANGED <<ledger, payoutHandler>>
    BY DEF rows
  <1>3. ProcOK' /\ requests' \in Nat
    BY <1>2, BeginOK DEF IInv, QueueOK
  <1> QED BY <1>1, <1>3 DEF IInv, QueueOK

\* The queue hands out a job of an assignment that exists, or of the withdrawal.
LEMMA TakeOK ==
    ASSUME IInv, NEW p \in Workers, NEW t \in Timers, NEW op \in Jobs,
           Take(p, t, op), Debit \in ledger, t[2] \in AssignmentIds \cup {None},
           op \in OnAssignment => t[2] \in AssignmentIds,
           UNCHANGED <<rows, lock, faults>>
    PROVE  IInv'
  <1> DEFINE r == [Request(op) EXCEPT !.a = t[2], !.job = t]
  <1>1. r \in Worker /\ r.op = op /\ r.pc = "commit" /\ r.a = t[2]
    BY DEF Request, Idle, Worker, Jobs, AllOps
  <1>2. WorkerOK(r, ledger, payoutHandler)
    BY <1>1 DEF WorkerOK, Jobs, OnAssignment
  <1>3. RowsOK'
    BY RowsKept DEF IInv
  <1>4. UNCHANGED <<ledger, payoutHandler>> /\ Begin(p, r)
    BY DEF rows, Take
  <1>5. ProcOK' /\ requests' \in Nat
    BY <1>1, <1>2, <1>4, BeginOK DEF IInv, QueueOK
  <1> QED BY <1>3, <1>5 DEF IInv, QueueOK, Take

\* A row that exists was paid for.
LEMMA Paid ==
    ASSUME RowsOK
    PROVE  /\ status # "NONE" => Debit \in ledger
           /\ \A a \in AssignmentIds : asg[a].status # "NONE" => Debit \in ledger
  BY DEF RowsOK, RowsMatchLedger, Exists

\* The processors of the queue's jobs.
LEMMA RunJobOK ==
    ASSUME IInv, NEW p \in Workers, RunJob(p)
    PROVE  IInv'
  <1>1. ASSUME NEW a \in AssignmentIds, SlaRead(p, a)
        PROVE  IInv'
    BY <1>1, TakeOK, TimerFacts, Paid DEF SlaRead, IInv, Jobs
  <1>2. ASSUME NEW a \in AssignmentIds, AutoWaitRead(p, a)
        PROVE  IInv'
    BY <1>2, TakeOK, TimerFacts, Paid DEF AutoWaitRead, IInv, Jobs
  <1>3. CASE AutoWindowRead(p)
    BY <1>3, TakeOK, TimerFacts, Paid DEF AutoWindowRead, IInv, Jobs, OnAssignment
  <1> QED BY <1>1, <1>2, <1>3 DEF RunJob

\* A request that needs no more than the debit, and an assignment where it
\* works on one, begins.
LEMMA PlainRead ==
    ASSUME IInv, NEW p \in Workers, NEW r \in Worker, Begin(p, r),
           UNCHANGED <<rows, jobs, lock, faults>>, Debit \in ledger,
           r.op \notin {"ban", "proof", "resolvePaid", "resolveRefund"},
           r.op \in OnAssignment => r.a \in AssignmentIds
    PROVE  IInv'
  <1>1. WorkerOK(r, ledger, payoutHandler)
    BY DEF WorkerOK
  <1> QED BY <1>1, RequestOK

\* Requests of the assigned agency.
LEMMA AgencyReadOK ==
    ASSUME IInv, NEW p \in Workers, NEW a \in AssignmentIds,
           RejectRead(p, a) \/ CompleteRead(p, a)
    PROVE  IInv'
  <1>1. Debit \in ledger
    BY Paid DEF IInv, RejectRead, CompleteRead
  <1>2. {Sla(a)} \in SUBSET Timers
    BY TimerFacts
  <1>3. ASSUME NEW op \in {"reject", "complete"},
               Begin(p, [Request(op) EXCEPT !.a = a, !.rm = {Sla(a)}]),
               UNCHANGED <<rows, jobs, lock, faults>>
        PROVE  IInv'
    <2> DEFINE r == [Request(op) EXCEPT !.a = a, !.rm = {Sla(a)}]
    <2>1. r \in Worker /\ r.op = op /\ r.a = a
      BY <1>2 DEF Request, Idle, Worker, AllOps
    <2> HIDE DEF r
    <2>2. Begin(p, r)
      BY <1>3 DEF r
    <2> QED BY <1>1, <1>3, <2>1, <2>2, PlainRead
  <1> QED BY <1>3 DEF RejectRead, CompleteRead

\* adminCompletePlatformPayout and adminCompletePayrollTakeover begin.
LEMMA PayoutReadOK ==
    ASSUME IInv, NEW p \in Workers, PayoutRead(p)
    PROVE  IInv'
  <1> DEFINE op == IF Banked THEN "takeover" ELSE "payout"
  <1>1. Request(op) \in Worker /\ Request(op).op \in {"takeover", "payout"}
    BY DEF Request, Idle, Worker, AllOps
  <1>2. Debit \in ledger
    BY Paid DEF IInv, PayoutRead
  <1> QED BY <1>1, <1>2, PlainRead DEF PayoutRead, OnAssignment

\* adminCompletePayrollForAgency begins.
LEMMA ManualCompleteReadOK ==
    ASSUME IInv, NEW p \in Workers, ManualCompleteRead(p)
    PROVE  IInv'
  <1> DEFINE Rm(o) == IF o # None /\ asg[o].status = "PENDING" THEN {Sla(o)} ELSE {}
             R(a, o, g) == [Request("manualComplete") EXCEPT !.a = a, !.b = o,
                              !.ag = g, !.rm = Rm(o)]
  <1>1. PICK g \in Agencies \ banned, o \in AnyOf(Open) :
          \E a \in IF o # None /\ asg[o].agency = g THEN {o} ELSE Fresh :
            Begin(p, R(a, o, g))
    BY DEF ManualCompleteRead
  <1>2. o \in AssignmentIds \cup {None} /\ Fresh \subseteq AssignmentIds
    BY DEF AnyOf, Open, Fresh, WithStatus
  <1>3. PICK a \in AssignmentIds : Begin(p, R(a, o, g))
    BY <1>1, <1>2
  <1>4. Rm(o) \in SUBSET Timers
    BY <1>2, TimerFacts
  <1>5. R(a, o, g) \in Worker /\ R(a, o, g).op = "manualComplete" /\ R(a, o, g).a = a
    BY <1>2, <1>4 DEF Request, Idle, Worker, AllOps
  <1>6. Debit \in ledger
    BY Paid DEF IInv, ManualCompleteRead
  <1>7. UNCHANGED <<rows, jobs, lock, faults>>
    BY DEF ManualCompleteRead
  <1> HIDE DEF R
  <1> QED BY <1>3, <1>5, <1>6, <1>7, PlainRead

\* disputeWithdrawal begins.
LEMMA DisputeReadOK ==
    ASSUME IInv, NEW p \in Workers, DisputeRead(p)
    PROVE  IInv'
  <1> DEFINE Rm(a) == {Waiting(i) : i \in {a} \ {None}}
                        \cup IF status = "WAITING" /\ ~Banked THEN {Window} ELSE {}
             R(a) == [Request("dispute") EXCEPT !.a = a, !.rm = Rm(a)]
  <1>1. PICK a \in AnyOf(WithStatus("WAITING")) : Begin(p, R(a)) /\ status # "NONE"
    BY DEF DisputeRead
  <1>2. a \in AssignmentIds \cup {None}
    BY DEF AnyOf, WithStatus
  <1>3. Rm(a) \in SUBSET Timers
    BY <1>2, TimerFacts
  <1> HIDE DEF Rm
  <1>4. R(a) \in Worker /\ R(a).op = "dispute"
    BY <1>2, <1>3 DEF Request, Idle, Worker, AllOps
  <1>5. Debit \in ledger /\ UNCHANGED <<rows, jobs, lock, faults>>
    BY <1>1, Paid DEF IInv, DisputeRead
  <1> HIDE DEF R
  <1> QED BY <1>1, <1>4, <1>5, PlainRead DEF OnAssignment

\* The resolution of a dispute for the agent or for the host begins.
LEMMA FavourReadOK ==
    ASSUME IInv, NEW p \in Workers, FavourRead(p)
    PROVE  IInv'
  <1> DEFINE A(a) == [Request("favourAgent") EXCEPT !.a = a, !.rm = {Waiting(a)}]
             H(a, g) == [Request("favourHost") EXCEPT !.a = a, !.ag = g,
                           !.rm = {Waiting(a)}]
  <1>1. PICK a \in WithStatus("WAITING") :
          \/ Begin(p, A(a))
          \/ \E g \in {asg[a].agency} \cup Agencies : Begin(p, H(a, g))
    BY DEF FavourRead
  <1>2. a \in AssignmentIds /\ {Waiting(a)} \in SUBSET Timers
    BY TimerFacts DEF WithStatus
  <1>3. asg[a].agency \in Agencies \cup {None}
    BY <1>2 DEF IInv, RowsOK, RowsType
  <1>4. A(a) \in Worker /\ A(a).op = "favourAgent" /\ A(a).a = a
    BY <1>2 DEF Request, Idle, Worker, AllOps
  <1>5. \A g \in Agencies \cup {None} :
          H(a, g) \in Worker /\ H(a, g).op = "favourHost" /\ H(a, g).a = a
    BY <1>2 DEF Request, Idle, Worker, AllOps
  <1>6. Debit \in ledger /\ UNCHANGED <<rows, jobs, lock, faults>>
    BY Paid DEF IInv, FavourRead
  <1> HIDE DEF A, H
  <1>7. CASE Begin(p, A(a))
    BY <1>2, <1>4, <1>6, <1>7, PlainRead
  <1>8. ASSUME NEW g \in {asg[a].agency} \cup Agencies, Begin(p, H(a, g))
        PROVE  IInv'
    BY <1>2, <1>3, <1>5, <1>6, <1>8, PlainRead
  <1> QED BY <1>1, <1>7, <1>8

\* adminUpdatePayrollProof remembers a status that was true when it read it.
LEMMA ProofReadOK ==
    ASSUME IInv, NEW p \in Workers, ProofRead(p)
    PROVE  IInv'
  <1> DEFINE A(a) == [Request("proof") EXCEPT !.a = a, !.saw = asg[a].status]
             W == [Request("proof") EXCEPT !.saw = status]
  <1>1. UNCHANGED <<rows, jobs, lock, faults>> /\ status # "NONE"
    BY DEF ProofRead
  <1>2. Debit \in ledger /\ RowsType /\ RowsMatchLedger
    BY <1>1, Paid DEF IInv, RowsOK
  <1>3. ASSUME NEW a \in AssignmentIds \ WithStatus("NONE"), Begin(p, A(a))
        PROVE  IInv'
    <2>1. asg[a].status \in AssignmentStatus \ {"NONE"}
      BY <1>2 DEF RowsType, WithStatus
    <2>2. A(a) \in Worker /\ A(a).op = "proof" /\ A(a).a = a
            /\ A(a).saw = asg[a].status
      BY <2>1 DEF Request, Idle, Worker, AllOps
    <2> HIDE DEF A
    <2>3. WorkerOK(A(a), ledger, payoutHandler)
      BY <1>2, <2>1, <2>2, NoneAssumption
         DEF WorkerOK, OnAssignment, RowsMatchLedger, Exists
    <2> QED BY <1>1, <1>3, <2>2, <2>3, RequestOK
  <1>4. CASE Begin(p, W)
    <2>1. status \in WithdrawalStatus
      BY <1>1, <1>2 DEF RowsType
    <2>2. W \in Worker /\ W.op = "proof" /\ W.a = None /\ W.saw = status
      BY <2>1 DEF Request, Idle, Worker, AllOps
    <2> HIDE DEF W
    <2>3. WorkerOK(W, ledger, payoutHandler)
      BY <1>2, <2>1, <2>2
         DEF WorkerOK, OnAssignment, RowsMatchLedger, Exists, Banked, PaidIn
    <2> QED BY <1>1, <1>4, <2>2, <2>3, RequestOK
  <1> QED BY <1>3, <1>4 DEF ProofRead

\* The resolutions of a platform dispute begin only for a platform withdrawal.
LEMMA ResolveReadOK ==
    ASSUME IInv, NEW p \in Workers, ResolveRead(p)
    PROVE  IInv'
  <1> DEFINE R(op) == [Request(op) EXCEPT !.rm = {Window}]
  <1>1. PICK op \in {"resolvePaid", "resolveRefund"} : Begin(p, R(op))
    BY DEF ResolveRead
  <1>2a. {Window} \in SUBSET Timers
    BY TimerFacts
  <1>2. R(op) \in Worker /\ R(op).op = op
    BY <1>2a DEF Request, Idle, Worker, AllOps
  <1>3. Debit \in ledger /\ payoutHandler # "AGENCY"
    BY Paid DEF IInv, ResolveRead, Banked
  <1> HIDE DEF R
  <1>4. WorkerOK(R(op), ledger, payoutHandler)
    BY <1>2, <1>3 DEF WorkerOK, OnAssignment
  <1> QED BY <1>1, <1>2, <1>4, RequestOK DEF ResolveRead

\* cancelUnsettledWithdrawalsForPointsFreeze selects the withdrawal.
LEMMA SelectsOK ==
    ASSUME IInv, NEW p \in Workers, Selects(p)
    PROVE  IInv'
  <1> DEFINE r == [Idle EXCEPT !.op = "freeze", !.pc = "selected"]
  <1>1. r \in Worker /\ r.op = "freeze"
    BY DEF Idle, Worker, AllOps
  <1>2. Debit \in ledger
    BY Paid DEF IInv, Selects
  <1> QED BY <1>1, <1>2, PlainRead DEF Selects, OnAssignment

\* banAgencyByAdmin finds what the agency holds.
LEMMA BanReadOK ==
    ASSUME IInv, NEW p \in Workers, BanRead(p)
    PROVE  IInv'
  <1> DEFINE held(g) == {a \in Open : asg[a].agency = g}
             Rm(g) == {Sla(a) : a \in held(g)}
                        \cup {Waiting(a) : a \in held(g) \cap WithStatus("WAITING")}
             R(g) == [Request("ban") EXCEPT !.ag = g, !.rm = Rm(g)]
  <1>1. PICK g \in Agencies \ banned : Begin(p, R(g))
    BY DEF BanRead
  <1>2. Rm(g) \in SUBSET Timers
    BY TimerFacts DEF Open
  <1>3. Rm(g) # {} => Debit \in ledger
    BY Paid DEF Open, IInv
  <1> HIDE DEF Rm
  <1>4. R(g) \in Worker /\ R(g).op = "ban" /\ R(g).rm = Rm(g) /\ R(g).ag = g
    BY <1>2 DEF Request, Idle, Worker, AllOps
  <1> HIDE DEF R
  <1>5. WorkerOK(R(g), ledger, payoutHandler)
    BY <1>3, <1>4 DEF WorkerOK, OnAssignment
  <1> QED BY <1>1, <1>4, <1>5, RequestOK DEF BanRead

\* adminReverseWithdrawal begins, by itself or for a selected withdrawal.
LEMMA ReverseReadOK ==
    ASSUME IInv, NEW p \in Workers, ReverseRead(p)
    PROVE  IInv'
  <1> DEFINE Rm(o) == {Sla(i) : i \in {o} \ {None}}
                        \cup {Waiting(i) : i \in {o} \cap WithStatus("WAITING")}
                        \cup IF Banked THEN {} ELSE {Window}
             R(o, c) == [Request("reverse") EXCEPT !.a = c, !.b = o, !.rm = Rm(o)]
             F(o, c) == [R(o, c) EXCEPT !.op = "freeze", !.spans = proc[p].spans]
  <1>1. PICK o \in AnyOf(Open),
             c \in IF WithStatus("WAITING") # {} THEN WithStatus("WAITING")
                   ELSE AnyOf(WithStatus("COMPLETED")) :
          \/ Begin(p, R(o, c))
          \/ /\ proc[p].pc = "selected"
             /\ proc' = [proc EXCEPT ![p] = F(o, c)]
             /\ UNCHANGED requests
    BY DEF ReverseRead
  <1>2. o \in AssignmentIds \cup {None} /\ c \in AssignmentIds \cup {None}
    BY DEF AnyOf, Open, WithStatus
  <1>3. Rm(o) \in SUBSET Timers
    BY <1>2, TimerFacts DEF WithStatus
  <1> HIDE DEF Rm
  <1>4. R(o, c) \in Worker /\ R(o, c).op = "reverse"
    BY <1>2, <1>3 DEF Request, Idle, Worker, AllOps
  <1>5. Debit \in ledger /\ UNCHANGED <<rows, jobs, lock, faults>>
    BY Paid DEF IInv, ReverseRead, WithdrawalStatus
  <1> HIDE DEF R
  <1>6. CASE Begin(p, R(o, c))
    BY <1>4, <1>5, <1>6, PlainRead DEF OnAssignment
  <1>7. CASE proc' = [proc EXCEPT ![p] = F(o, c)] /\ UNCHANGED requests
    <2>1. proc \in [Workers -> Worker]
      BY DEF IInv, ProcOK
    <2>1a. proc[p].spans \in SUBSET Timers
      BY <2>1 DEF Worker
    <2>2. F(o, c) \in Worker /\ F(o, c).op = "freeze"
      BY <1>4, <2>1a DEF Worker, AllOps
    <2> HIDE DEF F
    <2>3. WorkerOK(F(o, c), ledger, payoutHandler)
      BY <1>5, <2>2 DEF WorkerOK, OnAssignment
    <2>4. ProcOK'
      BY <1>5, <1>7, <2>1, <2>2, <2>3 DEF IInv, ProcOK, rows
    <2> QED BY <1>5, <1>7, <2>4, RowsKept DEF IInv, QueueOK
  <1> QED BY <1>1, <1>6, <1>7

\* An admin calls assignToAgency.
LEMMA ManualAssignOK ==
    ASSUME IInv, NEW p \in Workers, ManualAssign(p)
    PROVE  IInv'
  <1> DEFINE R(g) == [Idle EXCEPT !.op = "manualAssign", !.pc = "lock", !.ag = g]
  <1>1. PICK g \in (Agencies \ banned) \cup {None} : Begin(p, R(g))
    BY DEF ManualAssign
  <1>2. R(g) \in Worker /\ R(g).op = "manualAssign"
    BY DEF Idle, Worker, AllOps
  <1>3. Debit \in ledger
    BY Paid DEF IInv, ManualAssign
  <1> HIDE DEF R
  <1> QED BY <1>1, <1>2, <1>3, PlainRead DEF ManualAssign, OnAssignment

\* The hourly sweep begins only when some row asks for it.
LEMMA SafetyNetOK ==
    ASSUME IInv, NEW p \in Workers, SafetyNet(p)
    PROVE  IInv'
  <1>1. UNCHANGED <<rows, jobs, lock, faults>>
    BY DEF SafetyNet
  <1>2. CASE ~(StuckPending \/ Overdue # {})
    <2>1. UNCHANGED <<rows, jobs, lock, faults, proc, requests>>
      BY <1>1, <1>2 DEF SafetyNet
    <2> QED BY <2>1, RowsKept DEF IInv, ProcOK, QueueOK, rows
  <1>3. CASE StuckPending \/ Overdue # {}
    <2> DEFINE r == [Idle EXCEPT !.op = "safetyNet", !.pc = "jobs",
                                 !.add = Overdue, !.re = StuckPending]
    <2>1. Begin(p, r)
      BY <1>3 DEF SafetyNet
    <2>2. Overdue \in SUBSET Timers
      BY TimerFacts DEF Overdue, WithStatus
    <2>3. StuckPending \in BOOLEAN
      BY DEF StuckPending, Banked
    <2>4. r \in Worker /\ r.op = "safetyNet"
      BY <2>2, <2>3 DEF Idle, Worker, AllOps
    <2>5. Debit \in ledger
      BY <1>3, Paid DEF StuckPending, Overdue, WithStatus, IInv
    <2> HIDE DEF r
    <2> QED BY <1>1, <2>1, <2>4, <2>5, PlainRead DEF OnAssignment
  <1> QED BY <1>2, <1>3

\* createWithdrawal writes the debit with the row.
LEMMA CreateOK ==
    ASSUME IInv, NEW p \in Workers, CreateWithdrawal(p)
    PROVE  IInv'
  <1> DEFINE r == [Idle EXCEPT !.op = "create", !.pc = "jobs", !.re = Banked]
  <1>1. Begin(p, r) /\ ledger' = ledger \cup {Debit}
    BY DEF CreateWithdrawal
  <1>2. r \in Worker /\ r.op = "create" /\ r.pc = "jobs"
    BY DEF Idle, Worker, AllOps, Banked
  <1> HIDE DEF r
  <1>3. WorkerOK(r, ledger', payoutHandler)
    BY <1>1, <1>2 DEF WorkerOK
  <1>4. ProcOK' /\ requests' \in Nat
    BY <1>1, <1>2, <1>3, BeginOK DEF IInv, QueueOK, CreateWithdrawal
  <1>5. RowsOK'
    BY KeyFacts
       DEF IInv, RowsOK, RowsType, RowsMatchLedger, Exists, Banked,
           CreateWithdrawal, WithdrawalStatus
  <1> QED BY <1>4, <1>5 DEF IInv, QueueOK, CreateWithdrawal

(***************************************************************************)
(* Steps that change neither a row nor the ledger                          *)
(***************************************************************************)

\* A worker moves on by itself and the rows stay.
LEMMA WorkerMoves ==
    ASSUME IInv, NEW p \in Workers, NEW r \in Worker, UNCHANGED rows,
           proc' = [proc EXCEPT ![p] = r], WorkerOK(r, ledger, payoutHandler),
           QueueOK'
    PROVE  IInv'
  <1>1. RowsOK' /\ UNCHANGED <<ledger, payoutHandler>>
    BY RowsKept DEF IInv, rows
  <1>2. ProcOK'
    BY <1>1 DEF IInv, ProcOK
  <1> QED BY <1>1, <1>2 DEF IInv

\* assignToAgency takes the row lock.
LEMMA LockRowOK ==
    ASSUME IInv, NEW p \in Workers, LockRow(p)
    PROVE  IInv'
  <1>1. PICK o \in AnyOf(Open) :
          proc' = [proc EXCEPT ![p].pc = "locked", ![p].b = o]
    BY DEF LockRow
  <1>2. o \in AssignmentIds \cup {None}
    BY DEF AnyOf, Open
  <1> DEFINE r == [proc[p] EXCEPT !.pc = "locked", !.b = o]
  <1>3. proc \in [Workers -> Worker] /\ WorkerOK(proc[p], ledger, payoutHandler)
    BY DEF IInv, ProcOK
  <1>4a. proc[p] \in Worker
    BY <1>3
  <1>4b. r \in Worker
    BY <1>2, <1>4a DEF Worker
  <1>4. proc' = [proc EXCEPT ![p] = r]
    BY <1>1, <1>3
  <1>5. WorkerOK(r, ledger, payoutHandler)
    BY <1>3, <1>2 DEF WorkerOK, Worker, LockRow
  <1>6. QueueOK' /\ UNCHANGED rows
    BY DEF IInv, QueueOK, LockRow, budget
  <1> HIDE DEF r
  <1> QED BY <1>4b, <1>4, <1>5, <1>6, WorkerMoves

\* The queue calls after a transaction.
LEMMA UpdateQueueOK ==
    ASSUME IInv, NEW p \in Workers, UpdateQueue(p)
    PROVE  IInv'
  <1> DEFINE w == proc[p]
             r == IF w.re THEN [w EXCEPT !.pc = "lock", !.re = FALSE, !.rm = {},
                                         !.add = {}]
                  ELSE Idle
  <1>1. proc' = [proc EXCEPT ![p] = r] /\ UNCHANGED <<rows, lock, budget>>
    BY DEF UpdateQueue
  <1>2. w \in Worker /\ WorkerOK(w, ledger, payoutHandler) /\ w.pc = "jobs"
    BY DEF IInv, ProcOK, UpdateQueue
  <1>3. r \in Worker
    <2>1. [w EXCEPT !.pc = "lock", !.re = FALSE, !.rm = {}, !.add = {}] \in Worker
      BY <1>2 DEF Worker
    <2> QED BY <2>1, IdleType
  <1>4. WorkerOK(r, ledger, payoutHandler)
    BY <1>2, IdleOK DEF WorkerOK, Worker
  <1>5. jobs' \in [Timers -> {"none", "queued", "active", "kept"}]
    BY DEF IInv, QueueOK, UpdateQueue, Finished
  <1>6. QueueOK'
    BY <1>1, <1>5 DEF IInv, QueueOK, budget
  <1> HIDE DEF r
  <1> QED BY <1>1, <1>3, <1>4, <1>6, WorkerMoves

\* A callback that finds its row changed returns without a write.
LEMMA TxReturnsOK ==
    ASSUME IInv, NEW p \in Workers, TxReturns(p)
    PROVE  IInv'
  <1>1. UNCHANGED <<rows, jobs, lock, budget>>
    BY DEF TxReturns
  <1>2. UNCHANGED <<ledger, payoutHandler>> /\ RowsOK'
    BY <1>1, RowsKept DEF IInv, rows
  <1>3. ProcOK'
    BY <1>2, CommittedOK DEF IInv, TxReturns
  <1> QED BY <1>1, <1>2, <1>3 DEF IInv, QueueOK, budget

\* A handler that is refused or finds nothing leaves its worker idle.
LEMMA EndsOK ==
    ASSUME IInv, NEW p \in Workers,
           DebitRefused(p) \/ FreezeReturns(p) \/ Fail(p)
    PROVE  IInv'
  <1>1. proc' = [proc EXCEPT ![p] = Idle] /\ UNCHANGED rows
    BY DEF DebitRefused, FreezeReturns, Fail
  <1>2. QueueOK'
    BY DEF IInv, QueueOK, DebitRefused, FreezeReturns, Fail, budget
  <1> QED BY <1>1, <1>2, IdleType, IdleOK, WorkerMoves

\* A deadline passes, or a job finds nothing to do.
LEMMA TimerStepOK ==
    ASSUME IInv, NEW t \in Timers, Elapse(t) \/ JobReturns(t)
    PROVE  IInv'
  <1>1. CASE Elapse(t)
    <2>1. RowsOK'
      BY <1>1 DEF IInv, RowsOK, RowsType, RowsMatchLedger, Exists, Banked, Elapse,
                  outside
    <2> QED BY <1>1, <2>1 DEF IInv, ProcOK, QueueOK, Elapse, outside
  <1>2. CASE JobReturns(t)
    <2>1. UNCHANGED <<rows, lock, proc, budget>> /\ RowsOK'
      BY <1>2, RowsKept DEF IInv, JobReturns
    <2>2. jobs' \in [Timers -> {"none", "queued", "active", "kept"}]
      BY <1>2 DEF IInv, QueueOK, JobReturns, Finished
    <2> QED BY <2>1, <2>2 DEF IInv, ProcOK, QueueOK, rows, budget
  <1> QED BY <1>1, <1>2

(***************************************************************************)
(* assignToAgency under its lock                                           *)
(***************************************************************************)

\* An end of assignToAgency that moves only between the two pending states.
LEMMA UnlockedOK ==
    ASSUME IInv, NEW p \in Workers, NEW s, Unlocked(p, s), proc[p].pc = "locked",
           \/ s = status
           \/ s \in {"PENDING", "PENDING_PLATFORM"} /\ status # "NONE"
    PROVE  IInv'
  <1>1. UNCHANGED <<payoutHandler, assignmentCount, disputeTicketId, asg, clock,
                    ledger, banned, jobs, faults, requests>>
        /\ status' = s /\ lock' = None
    BY DEF Unlocked, budget
  <1>2. RowsOK'
    BY <1>1 DEF IInv, RowsOK, RowsType, RowsMatchLedger, Exists, Banked,
                WithdrawalStatus
  <1>3. ProcOK'
    BY <1>1, CommittedOK DEF IInv, Unlocked
  <1> QED BY <1>1, <1>2, <1>3 DEF IInv, QueueOK

\* assignToAgency creates an assignment, or decides that it does not.
LEMMA AssignOK ==
    ASSUME IInv, NEW p \in Workers, Assign(p)
    PROVE  IInv'
  <1>1. CASE AssignNothing(p) \/ AssignHeal(p) \/ AssignExhausted(p)
               \/ AssignNoAgency(p)
    BY <1>1, UnlockedOK
       DEF AssignNothing, AssignHeal, AssignExhausted, AssignNoAgency, Picking
  <1>2. CASE AssignCreate(p)
    <2>1. PICK g \in Agencies \ banned, a \in Fresh :
            /\ asg' = [asg EXCEPT ![a] = [status |-> "PENDING", agency |-> g]]
            /\ clock' = Runs(Sla(a))
            /\ Committed(p, {Sla(a)}, {Sla(a)}, FALSE)
      BY <1>2 DEF AssignCreate
    <2>2. a \in AssignmentIds /\ {Sla(a)} \in SUBSET Timers
      BY TimerFacts DEF Fresh, WithStatus
    <2>3. UNCHANGED <<payoutHandler, assignmentCount, disputeTicketId, ledger,
                      banned, jobs, faults, requests>>
          /\ status' = "PENDING" /\ lock' = None /\ proc[p].pc = "locked"
          /\ status \in {"PENDING", "PENDING_PLATFORM"}
      BY <1>2 DEF AssignCreate, Picking, budget
    <2>4. Debit \in ledger
      BY <2>3, Paid DEF IInv
    <2>5. RowsType'
      BY <2>1, <2>3 DEF IInv, RowsOK, RowsType, Runs, WithdrawalStatus,
                        AssignmentStatus
    <2>6. RowsMatchLedger' /\ \A i \in AssignmentIds : asg'[i].status # "NONE"
                                                         => Debit \in ledger'
      BY <2>1, <2>3, <2>4 DEF IInv, RowsOK, RowsType, RowsMatchLedger, Exists, Banked
    <2>7. ProcOK'
      BY <2>1, <2>2, <2>3, CommittedOK DEF IInv
    <2> QED BY <2>3, <2>5, <2>6, <2>7 DEF IInv, RowsOK, QueueOK
  <1> QED BY <1>1, <1>2 DEF Assign

(***************************************************************************)
(* Commits                                                                 *)
(***************************************************************************)

\* What every commit has in common.  The new rows are typed, agree with the
\* ledger and follow a debit; the worker goes on to the queue.
LEMMA CommitOK ==
    ASSUME IInv, NEW p \in Workers, NEW opened \in SUBSET Timers,
           NEW add \in SUBSET Timers, NEW re \in BOOLEAN,
           Committed(p, opened, add, re), proc[p].pc = "commit",
           UNCHANGED outside, ledger \subseteq ledger', RowsOK'
    PROVE  IInv'
  <1>1. ProcOK'
    BY CommittedOK DEF IInv, outside
  <1> QED BY <1>1 DEF IInv, QueueOK, outside

\* A handler that is about to commit was started for a row that is paid for.
LEMMA Committer ==
    ASSUME IInv, NEW p \in Workers, proc[p].pc = "commit"
    PROVE  /\ proc[p] \in Worker /\ WorkerOK(proc[p], ledger, payoutHandler)
           /\ proc[p].op # "ban" => Debit \in ledger
           /\ proc[p].op \in OnAssignment => proc[p].a \in AssignmentIds
  BY DEF IInv, ProcOK, WorkerOK

\* processSlaExpiry and agentRejectPayroll close the assignment.
LEMMA CloseCommitOK ==
    ASSUME IInv, NEW p \in Workers, CloseCommit(p)
    PROVE  IInv'
  <1>1. /\ proc[p].pc = "commit" /\ proc[p].op \in {"sla", "reject"}
        /\ Debit \in ledger /\ proc[p].a \in AssignmentIds
    BY Committer DEF CloseCommit, Committing, OnAssignment
  <1>2. PICK s \in {"EXPIRED", "REJECTED"} :
          asg' = [asg EXCEPT ![proc[p].a].status = s]
    BY DEF CloseCommit
  <1>3. assignmentCount' \in Nat /\ (assignmentCount' < MaxAttempts) \in BOOLEAN
    BY BoundsAssumption DEF CloseCommit, IInv, RowsOK, RowsType
  <1>4. UNCHANGED <<payoutHandler, disputeTicketId, clock, ledger, banned>>
        /\ status' \in {status, "PENDING_PLATFORM"}
    BY DEF CloseCommit, outside
  <1>5. RowsOK'
    BY <1>1, <1>2, <1>3, <1>4
       DEF IInv, RowsOK, RowsType, RowsMatchLedger, Exists, Banked,
           WithdrawalStatus, AssignmentStatus
  <1> QED BY <1>1, <1>3, <1>4, <1>5, CommitOK DEF CloseCommit

\* agentCompletePayroll starts the waiting window.
LEMMA CompleteCommitOK ==
    ASSUME IInv, NEW p \in Workers, CompleteCommit(p)
    PROVE  IInv'
  <1>1. /\ proc[p].pc = "commit" /\ Debit \in ledger /\ proc[p].a \in AssignmentIds
    BY Committer DEF CompleteCommit, Committing, OnAssignment
  <1>2. /\ asg' = [asg EXCEPT ![proc[p].a].status = "WAITING"]
        /\ clock' = Runs(Waiting(proc[p].a)) /\ status' = "WAITING"
        /\ UNCHANGED <<payoutHandler, assignmentCount, disputeTicketId, ledger, banned>>
    BY DEF CompleteCommit, outside
  <1>3. RowsOK'
    BY <1>1, <1>2
       DEF IInv, RowsOK, RowsType, RowsMatchLedger, Exists, Banked, Runs,
           WithdrawalStatus, AssignmentStatus
  <1>4. {Waiting(proc[p].a)} \in SUBSET Timers
    BY <1>1, TimerFacts
  <1> QED BY <1>1, <1>2, <1>3, <1>4, CommitOK DEF CompleteCommit

\* The platform pays and its window starts.
LEMMA PayoutCommitOK ==
    ASSUME IInv, NEW p \in Workers, PayoutCommit(p)
    PROVE  IInv'
  <1>1. proc[p].pc = "commit" /\ Debit \in ledger
    BY Committer DEF PayoutCommit, Committing
  <1>2. /\ clock' = Runs(Window) /\ status' = "WAITING"
        /\ UNCHANGED <<payoutHandler, assignmentCount, disputeTicketId, asg, ledger,
                       banned>>
    BY DEF PayoutCommit, outside
  <1>3. RowsOK'
    BY <1>1, <1>2
       DEF IInv, RowsOK, RowsType, RowsMatchLedger, Exists, Banked, Runs,
           WithdrawalStatus
  <1>4. {Window} \in SUBSET Timers
    BY TimerFacts
  <1> QED BY <1>1, <1>2, <1>3, <1>4, CommitOK DEF PayoutCommit

\* adminCompletePayrollForAgency supersedes the open assignment.
LEMMA ManualCompleteCommitOK ==
    ASSUME IInv, NEW p \in Workers, ManualCompleteCommit(p)
    PROVE  IInv'
  <1> DEFINE a == proc[p].a
             superseded == {proc[p].b} \ {a, None}
  <1>1. /\ proc[p].pc = "commit" /\ Debit \in ledger /\ a \in AssignmentIds
        /\ proc[p].ag \in Agencies \cup {None}
    BY Committer DEF ManualCompleteCommit, Committing, OnAssignment, Worker
  <1>2. /\ asg' = [i \in AssignmentIds |->
                     IF i = a THEN [status |-> "WAITING", agency |-> proc[p].ag]
                     ELSE IF i \in superseded
                     THEN [asg[i] EXCEPT !.status = "REJECTED"]
                     ELSE asg[i]]
        /\ assignmentCount' \in {assignmentCount, assignmentCount + 1}
        /\ clock' = Runs(Waiting(a)) /\ status' = "WAITING"
        /\ Committed(p, {Waiting(a)}, {Waiting(a)}, FALSE)
        /\ UNCHANGED <<payoutHandler, disputeTicketId, ledger, banned>>
        /\ UNCHANGED outside
    BY DEF ManualCompleteCommit, outside
  <1> HIDE DEF superseded, a
  <1>3. asg' \in [AssignmentIds -> [status : AssignmentStatus,
                                    agency : Agencies \cup {None}]]
    BY <1>1, <1>2 DEF IInv, RowsOK, RowsType, AssignmentStatus
  <1>4. \A i \in AssignmentIds :
          asg'[i].status = "COMPLETED" => asg[i].status = "COMPLETED"
    BY <1>1, <1>2 DEF IInv, RowsOK, RowsType
  <1>5. RowsOK'
    <2>1. /\ clock' = Runs(Waiting(a)) /\ status' = "WAITING"
          /\ UNCHANGED <<payoutHandler, disputeTicketId, ledger, banned>>
      BY <1>2
    <2>2. assignmentCount' \in Nat
      BY <1>2 DEF IInv, RowsOK, RowsType
    <2>3. RowsType'
      BY <2>1, <2>2, <1>3 DEF IInv, RowsOK, RowsType, Runs, WithdrawalStatus
    <2>4. RowsMatchLedger' /\ \A i \in AssignmentIds : asg'[i].status # "NONE"
                                                         => Debit \in ledger'
      BY <1>1, <1>2, <1>4 DEF IInv, RowsOK, RowsMatchLedger, Exists, Banked
    <2> QED BY <2>3, <2>4 DEF RowsOK
  <1>6. {Waiting(a)} \in SUBSET Timers
    BY <1>1, TimerFacts
  <1> QED BY <1>1, <1>2, <1>5, <1>6, CommitOK

\* adminUpdatePayrollProof writes a status back that may be old, but whose
\* money has moved.
LEMMA ProofCommitOK ==
    ASSUME IInv, NEW p \in Workers, ProofCommit(p)
    PROVE  IInv'
  <1>1. /\ proc[p].pc = "commit" /\ proc[p].op = "proof" /\ Debit \in ledger
        /\ proc[p] \in Worker /\ WorkerOK(proc[p], ledger, payoutHandler)
    BY Committer DEF ProofCommit
  <1>2. /\ UNCHANGED <<payoutHandler, assignmentCount, disputeTicketId, clock,
                       ledger, banned>>
        /\ UNCHANGED outside /\ Committed(p, {}, {}, FALSE)
    BY DEF ProofCommit, outside
  <1>3. CASE proc[p].a # None
    <2>1. /\ asg' = [asg EXCEPT ![proc[p].a].status = proc[p].saw]
          /\ UNCHANGED status
      BY <1>3 DEF ProofCommit
    <2>2. /\ proc[p].saw \in AssignmentStatus \ {"NONE"}
          /\ proc[p].saw = "COMPLETED" => Payout(proc[p].a) \in ledger
          /\ proc[p].a \in AssignmentIds
      BY <1>1, <1>3 DEF WorkerOK, Worker
    <2>3. RowsOK'
      BY <1>1, <1>2, <2>1, <2>2
         DEF IInv, RowsOK, RowsType, RowsMatchLedger, Exists, Banked
    <2> QED BY <1>1, <1>2, <2>3, CommitOK
  <1>4. CASE proc[p].a = None
    <2>1. status' = proc[p].saw /\ UNCHANGED asg
      BY <1>4 DEF ProofCommit
    <2>2. /\ proc[p].saw \in WithdrawalStatus
          /\ proc[p].saw = "FAILED" => Refund \in ledger
          /\ proc[p].saw = "PAID" /\ payoutHandler = "AGENCY" => PaidIn(ledger)
      BY <1>1, <1>4 DEF WorkerOK
    <2>3. RowsOK'
      BY <1>1, <1>2, <2>1, <2>2
         DEF IInv, RowsOK, RowsType, RowsMatchLedger, Exists, Banked, PaidIn,
             WithdrawalStatus
    <2> QED BY <1>1, <1>2, <2>3, CommitOK
  <1> QED BY <1>3, <1>4

\* The window of an agency's payout, or a dispute decided for the agent, credits
\* the agency with the rows.
LEMMA CreditCommitOK ==
    ASSUME IInv, NEW p \in Workers, AutoWaitCommit(p) \/ FavourAgentCommit(p)
    PROVE  IInv'
  <1>1. /\ proc[p].pc = "commit" /\ Debit \in ledger /\ proc[p].a \in AssignmentIds
    BY Committer DEF AutoWaitCommit, FavourAgentCommit, Committing, OnAssignment
  <1>2. /\ asg' = [asg EXCEPT ![proc[p].a].status = "COMPLETED"]
        /\ status' = "PAID" /\ ledger' = ledger \cup {Payout(proc[p].a)}
        /\ disputeTicketId' \in {disputeTicketId, FALSE}
        /\ UNCHANGED <<payoutHandler, assignmentCount, clock, banned>>
        /\ UNCHANGED outside /\ Committed(p, {}, {}, FALSE)
    BY DEF AutoWaitCommit, FavourAgentCommit, outside
  <1>3. RowsType'
    BY <1>1, <1>2, KeyFacts
       DEF IInv, RowsOK, RowsType, WithdrawalStatus, AssignmentStatus
  <1>4. RowsMatchLedger' /\ \A i \in AssignmentIds : asg'[i].status # "NONE"
                                                       => Debit \in ledger'
    BY <1>1, <1>2, KeyFacts
       DEF IInv, RowsOK, RowsType, RowsMatchLedger, Exists, Banked
  <1> QED BY <1>1, <1>2, <1>3, <1>4, CommitOK DEF RowsOK

\* The window of a platform payout ends; for a BANK withdrawal the company is
\* credited.
LEMMA AutoWindowCommitOK ==
    ASSUME IInv, NEW p \in Workers, AutoWindowCommit(p)
    PROVE  IInv'
  <1>1. proc[p].pc = "commit" /\ Debit \in ledger
    BY Committer DEF AutoWindowCommit, Committing
  <1>2. /\ status' = "PAID"
        /\ ledger' = IF Banked THEN ledger \cup {Takeover} ELSE ledger
        /\ UNCHANGED <<payoutHandler, assignmentCount, disputeTicketId, asg, clock,
                       banned>>
        /\ UNCHANGED outside /\ Committed(p, {}, {}, FALSE)
    BY DEF AutoWindowCommit, outside
  <1>3. RowsOK'
    BY <1>1, <1>2, KeyFacts
       DEF IInv, RowsOK, RowsType, RowsMatchLedger, Exists, Banked, WithdrawalStatus
  <1> QED BY <1>1, <1>2, <1>3, CommitOK

\* A dispute is raised.
LEMMA DisputeCommitOK ==
    ASSUME IInv, NEW p \in Workers, DisputeCommit(p)
    PROVE  IInv'
  <1>1. proc[p].pc = "commit" /\ Debit \in ledger
    BY Committer DEF DisputeCommit, Committing
  <1>2. /\ status' = "DISPUTED" /\ disputeTicketId' = TRUE
        /\ UNCHANGED <<payoutHandler, assignmentCount, asg, clock, ledger, banned>>
        /\ UNCHANGED outside /\ Committed(p, {}, {}, FALSE)
    BY DEF DisputeCommit, outside
  <1>3. RowsOK'
    BY <1>1, <1>2
       DEF IInv, RowsOK, RowsType, RowsMatchLedger, Exists, Banked, WithdrawalStatus
  <1> QED BY <1>1, <1>2, <1>3, CommitOK

\* A platform dispute ends with the host paid or refunded.
LEMMA ResolveCommitOK ==
    ASSUME IInv, NEW p \in Workers, ResolveCommit(p)
    PROVE  IInv'
  <1>1. /\ proc[p].pc = "commit" /\ Debit \in ledger /\ payoutHandler # "AGENCY"
    BY Committer DEF ResolveCommit, Committing, WorkerOK
  <1>2. /\ \/ status' = "PAID" /\ UNCHANGED ledger
           \/ status' = "FAILED" /\ ledger' = ledger \cup {Refund}
        /\ disputeTicketId' = FALSE
        /\ UNCHANGED <<payoutHandler, assignmentCount, asg, clock, banned>>
        /\ UNCHANGED outside /\ Committed(p, {}, {}, FALSE)
    BY DEF ResolveCommit, outside
  <1>3. RowsOK'
    BY <1>1, <1>2, KeyFacts
       DEF IInv, RowsOK, RowsType, RowsMatchLedger, Exists, Banked, WithdrawalStatus
  <1> QED BY <1>1, <1>2, <1>3, CommitOK

\* What a reversal adds to the ledger: only reversals of credits that are there.
LEMMA ReversedFacts ==
    ASSUME NEW a \in AssignmentIds \cup {None}
    PROVE  /\ Reversed(a) \subseteq Keys
           /\ \A i : Reversal(i) \in Reversed(a) => Payout(i) \in ledger
           /\ \A i : Payout(i) \notin Reversed(a)
           /\ Debit \notin Reversed(a) /\ Refund \notin Reversed(a)
           /\ Takeover \notin Reversed(a)
  BY KeyFacts DEF Reversed

\* A dispute decided for the host takes the credit back and reopens the payroll.
LEMMA FavourHostCommitOK ==
    ASSUME IInv, NEW p \in Workers, FavourHostCommit(p)
    PROVE  IInv'
  <1>1. /\ proc[p].pc = "commit" /\ Debit \in ledger /\ proc[p].a \in AssignmentIds
    BY Committer DEF FavourHostCommit, Committing, OnAssignment
  <1>2. /\ asg' = [asg EXCEPT ![proc[p].a].status = "REJECTED"]
        /\ status' = "PENDING" /\ disputeTicketId' = FALSE
        /\ assignmentCount' = assignmentCount + 1
        /\ ledger' = ledger \cup Reversed(proc[p].a)
        /\ UNCHANGED <<payoutHandler, clock, banned>>
        /\ UNCHANGED outside /\ Committed(p, {}, {}, TRUE)
    BY DEF FavourHostCommit, outside
  <1>3. RowsType'
    <2>1. asg' \in [AssignmentIds -> [status : AssignmentStatus,
                                      agency : Agencies \cup {None}]]
      BY <1>2 DEF IInv, RowsOK, RowsType, AssignmentStatus
    <2>2. ledger' \subseteq Keys
      BY <1>1, <1>2, ReversedFacts DEF IInv, RowsOK, RowsType
    <2>3. /\ status' = "PENDING" /\ disputeTicketId' = FALSE
          /\ UNCHANGED <<payoutHandler, clock, banned>>
      BY <1>2
    <2>4. assignmentCount' \in Nat
      BY <1>2 DEF IInv, RowsOK, RowsType
    <2> QED BY <2>1, <2>2, <2>3, <2>4 DEF IInv, RowsOK, RowsType, WithdrawalStatus
  <1>4. RowsMatchLedger' /\ \A i \in AssignmentIds : asg'[i].status # "NONE"
                                                       => Debit \in ledger'
    BY <1>1, <1>2, ReversedFacts
       DEF IInv, RowsOK, RowsType, RowsMatchLedger, Exists, Banked
  <1> QED BY <1>1, <1>2, <1>3, <1>4, CommitOK DEF RowsOK

\* adminReverseWithdrawal refunds the host and closes what it read as open.
LEMMA ReverseCommitOK ==
    ASSUME IInv, NEW p \in Workers, ReverseCommit(p)
    PROVE  IInv'
  <1>1. /\ proc[p].pc = "commit" /\ Debit \in ledger
        /\ proc[p].a \in AssignmentIds \cup {None}
    BY Committer DEF ReverseCommit, Committing, Worker
  <1>2. /\ asg' = [i \in AssignmentIds |->
                     IF i = proc[p].b THEN [asg[i] EXCEPT !.status = "EXPIRED"]
                     ELSE asg[i]]
        /\ status' = "FAILED"
        /\ ledger' = ledger \cup {Refund} \cup Reversed(proc[p].a)
        /\ UNCHANGED <<payoutHandler, assignmentCount, disputeTicketId, clock, banned>>
        /\ UNCHANGED outside /\ Committed(p, {}, {}, FALSE)
    BY DEF ReverseCommit, outside
  <1>3. RowsType'
    BY <1>1, <1>2, ReversedFacts, KeyFacts
       DEF IInv, RowsOK, RowsType, WithdrawalStatus, AssignmentStatus
  <1>4. \A i \in AssignmentIds :
          asg'[i].status = "COMPLETED" => asg[i].status = "COMPLETED"
    BY <1>2 DEF IInv, RowsOK, RowsType
  <1>5. RowsMatchLedger' /\ \A i \in AssignmentIds : asg'[i].status # "NONE"
                                                       => Debit \in ledger'
    BY <1>1, <1>2, <1>4, ReversedFacts, KeyFacts
       DEF IInv, RowsOK, RowsMatchLedger, Exists, Banked
  <1> QED BY <1>1, <1>2, <1>3, <1>5, CommitOK DEF RowsOK

\* banAgencyByAdmin closes what the agency held when it looked.
LEMMA BanCommitOK ==
    ASSUME IInv, NEW p \in Workers, BanCommit(p)
    PROVE  IInv'
  <1> DEFINE held == {a \in AssignmentIds : Sla(a) \in proc[p].rm}
  <1>1. /\ proc[p].pc = "commit" /\ proc[p] \in Worker
        /\ held # {} => Debit \in ledger
    BY Committer DEF BanCommit, Committing, WorkerOK
  <1>2. /\ asg' = [a \in AssignmentIds |->
                     IF a \in held THEN [asg[a] EXCEPT !.status = "EXPIRED"]
                     ELSE asg[a]]
        /\ assignmentCount' = assignmentCount + Cardinality(held)
        /\ status' = (IF held = {} THEN status ELSE "PENDING")
        /\ Committed(p, {}, {}, held # {})
        /\ banned' = banned \cup {proc[p].ag}
        /\ UNCHANGED <<payoutHandler, disputeTicketId, clock, ledger>>
        /\ UNCHANGED outside
    BY DEF BanCommit, outside
  <1>3. Cardinality(held) \in Nat
    BY FiniteAssumption, FS_Subset, FS_CardinalityType
  <1> HIDE DEF held
  <1>4. proc[p].ag \in Agencies
    BY Committer DEF BanCommit, Committing, WorkerOK
  <1>5. RowsType'
    BY <1>2, <1>3, <1>4
       DEF IInv, RowsOK, RowsType, WithdrawalStatus, AssignmentStatus
  <1>6. \A i \in AssignmentIds :
          /\ asg'[i].status = "COMPLETED" => asg[i].status = "COMPLETED"
          /\ asg'[i].status # "NONE" => asg[i].status # "NONE" \/ i \in held
    BY <1>2 DEF IInv, RowsOK, RowsType
  <1>7. RowsMatchLedger' /\ \A i \in AssignmentIds : asg'[i].status # "NONE"
                                                       => Debit \in ledger'
    BY <1>1, <1>2, <1>6 DEF IInv, RowsOK, RowsMatchLedger, Exists, Banked
  <1> QED BY <1>1, <1>2, <1>5, <1>7, CommitOK DEF RowsOK

(***************************************************************************)
(* The theorems                                                            *)
(***************************************************************************)

\* The invariant holds before the withdrawal exists.
LEMMA InitOK == Init => IInv
  <1> SUFFICES ASSUME Init PROVE IInv
    OBVIOUS
  <1>1. RowsOK
    BY DEF Init, RowsOK, RowsType, RowsMatchLedger, Exists, Banked, AssignmentStatus
  <1>2. ProcOK /\ QueueOK
    BY IdleType, IdleOK DEF Init, ProcOK, QueueOK
  <1> QED BY <1>1, <1>2 DEF IInv

\* Every step of every handler keeps the invariant.
LEMMA NextOK == IInv /\ [Next]_vars => IInv'
  <1> SUFFICES ASSUME IInv, [Next]_vars PROVE IInv'
    OBVIOUS
  <1>1. CASE UNCHANGED vars
    BY <1>1, RowsKept DEF vars, rows, IInv, ProcOK, QueueOK
  <1>2. ASSUME NEW t \in Timers, Elapse(t) \/ JobReturns(t)
        PROVE  IInv'
    BY <1>2, TimerStepOK
  <1>3. ASSUME NEW p \in Workers, Read(p)
        PROVE  IInv'
    BY <1>3, CreateOK, ManualAssignOK, PayoutReadOK, ManualCompleteReadOK,
       ProofReadOK, DisputeReadOK, ResolveReadOK, FavourReadOK, SelectsOK, BanReadOK,
       ReverseReadOK, AgencyReadOK DEF Read
  <1>4. ASSUME NEW p \in Workers, Commit(p)
        PROVE  IInv'
    BY <1>4, CloseCommitOK, CompleteCommitOK, PayoutCommitOK, ManualCompleteCommitOK,
       ProofCommitOK, CreditCommitOK, AutoWindowCommitOK, DisputeCommitOK,
       ResolveCommitOK, FavourHostCommitOK, ReverseCommitOK, BanCommitOK DEF Commit
  <1>5. ASSUME NEW p \in Workers,
               \/ RunJob(p) \/ LockRow(p) \/ Assign(p) \/ UpdateQueue(p)
               \/ TxReturns(p) \/ DebitRefused(p) \/ FreezeReturns(p)
               \/ SafetyNet(p) \/ Fail(p)
        PROVE  IInv'
    BY <1>5, RunJobOK, LockRowOK, AssignOK, UpdateQueueOK, TxReturnsOK, EndsOK,
       SafetyNetOK
  <1> QED BY <1>1, <1>2, <1>3, <1>4, <1>5 DEF Next

\* Whatever handlers of withdrawal.service.ts overlap, crash or are retried, the
\* rows, the ledger, the queue and the workers keep their types.
THEOREM TypeCorrect == Spec => []TypeOK
  <1>1. IInv => TypeOK
    BY DEF IInv, RowsOK, RowsType, ProcOK, QueueOK, TypeOK
  <1> QED BY <1>1, InitOK, NextOK, PTL DEF Spec

\* Whatever handlers of withdrawal.service.ts overlap, crash or are retried, a
\* row never says that money moved which the point ledger does not show.
THEOREM RowsMatchLedgerAlways == Spec => []RowsMatchLedger
  <1>1. IInv => RowsMatchLedger
    BY DEF IInv, RowsOK
  <1> QED BY <1>1, InitOK, NextOK, PTL DEF Spec

(***************************************************************************)
(* The row lock                                                            *)
(***************************************************************************)

\* A worker under the lock is alone there and knows the open assignment.
\* adminUpdatePayrollProof, which writes an assignment without the lock, is out.
LockInv ==
    \A p \in Workers :
      /\ proc[p].pc # "idle" => proc[p].op # "proof"
      /\ proc[p].pc = "locked" => lock = p /\ proc[p].b \in AnyOf(Open)

\* Under the lock, no open assignment was seen means that there is none.
LEMMA SawNone ==
    ASSUME NEW b \in AnyOf(Open), b = None
    PROVE  Open = {}
  BY NoneAssumption DEF AnyOf, Open

\* A commit lets its worker out of the lock and the others where they are.
LEMMA CommittedFields ==
    ASSUME ProcOK, NEW p \in Workers, NEW opened, NEW add, NEW re,
           Committed(p, opened, add, re), NEW q \in Workers
    PROVE  /\ proc'[q].pc = IF q = p THEN "jobs" ELSE proc[q].pc
           /\ proc'[q].op = proc[q].op
           /\ q # p => proc'[q].b = proc[q].b
  <1>1. proc[q] \in Worker
    BY DEF ProcOK
  <1>2. CASE q = p
    BY <1>2 DEF Committed, Idle
  <1>3. CASE q # p /\ proc[q].pc = "idle"
    BY <1>3 DEF Committed
  <1>4. CASE q # p /\ proc[q].pc # "idle"
    <2>1. proc'[q] = [proc[q] EXCEPT !.spans = @ \cup opened]
      BY <1>4 DEF Committed
    <2> QED BY <1>1, <1>4, <2>1 DEF Worker
  <1> QED BY <1>2, <1>3, <1>4

\* A worker that moves outside the lock disturbs nobody under it.
LEMMA LockMoves ==
    ASSUME IInv, LockInv, NEW p \in Workers, NEW r,
           proc' = [proc EXCEPT ![p] = r], r.pc # "locked",
           r.pc # "idle" => r.op # "proof",
           UNCHANGED rows, UNCHANGED lock \/ (lock = p /\ lock' = None)
    PROVE  LockInv'
  <1> SUFFICES ASSUME NEW q \in Workers
               PROVE  /\ proc'[q].pc # "idle" => proc'[q].op # "proof"
                      /\ proc'[q].pc = "locked" =>
                           lock' = q /\ proc'[q].b \in AnyOf(Open)'
    BY DEF LockInv
  <1>1. proc \in [Workers -> Worker] /\ AnyOf(Open)' = AnyOf(Open)
    BY DEF IInv, ProcOK, rows, AnyOf, Open
  <1>2. CASE q = p
    BY <1>1, <1>2
  <1>3. CASE q # p
    <2>1. proc'[q] = proc[q]
      BY <1>1, <1>3
    <2> QED BY <1>1, <1>3, <2>1 DEF LockInv
  <1> QED BY <1>2, <1>3

\* A handler begins outside the lock.
LEMMA LockBegins ==
    ASSUME IInv, LockInv, "proof" \notin Ops, NEW p \in Workers, NEW r, Begin(p, r),
           r.pc # "locked", UNCHANGED <<rows, lock>>
    PROVE  LockInv'
  <1>1. proc' = [proc EXCEPT ![p] = r] /\ r.op # "proof"
    BY DEF Begin
  <1> QED BY <1>1, LockMoves

\* Requests and jobs begin.
LEMMA LockReads ==
    ASSUME IInv, LockInv, "proof" \notin Ops, NEW p \in Workers,
           Read(p) \/ RunJob(p) \/ SafetyNet(p)
    PROVE  LockInv'
  <1>1. \A op : Request(op).pc = "commit" /\ Request(op) = [Idle EXCEPT !.op = op, !.pc = "commit"]
    BY DEF Request, Idle
  <1>2. CASE CreateWithdrawal(p)
    <2> DEFINE r == [Idle EXCEPT !.op = "create", !.pc = "jobs", !.re = Banked]
    <2>1. /\ proc' = [proc EXCEPT ![p] = r] /\ r.op = "create" /\ r.pc = "jobs"
          /\ UNCHANGED <<asg, lock>>
      BY <1>2 DEF CreateWithdrawal, Begin, Idle
    <2> HIDE DEF r
    <2>2. proc \in [Workers -> Worker] /\ AnyOf(Open)' = AnyOf(Open)
      BY <2>1 DEF IInv, ProcOK, AnyOf, Open
    <2>3. \A q \in Workers : proc'[q] = IF q = p THEN r ELSE proc[q]
      BY <2>1, <2>2
    <2> QED BY <2>1, <2>2, <2>3 DEF LockInv
  <1>3. CASE ManualAssign(p)
    <2> DEFINE R(g) == [Idle EXCEPT !.op = "manualAssign", !.pc = "lock", !.ag = g]
    <2>1. (\E g : Begin(p, R(g))) /\ UNCHANGED <<rows, lock>>
      BY <1>3 DEF ManualAssign
    <2>2. \A g : R(g).pc = "lock"
      BY DEF Idle
    <2> HIDE DEF R
    <2> QED BY <2>1, <2>2, LockBegins
  <1>4. CASE PayoutRead(p)
    BY <1>1, <1>4, LockBegins DEF PayoutRead
  <1>5. CASE ManualCompleteRead(p)
    <2> DEFINE R(a, o, g, x) == [Request("manualComplete") EXCEPT !.a = a, !.b = o,
                                   !.ag = g, !.rm = x]
    <2>1. (\E a, o, g, x : Begin(p, R(a, o, g, x))) /\ UNCHANGED <<rows, lock>>
      BY <1>5 DEF ManualCompleteRead
    <2>2. \A a, o, g, x : R(a, o, g, x).pc = "commit"
      BY DEF Request, Idle
    <2> HIDE DEF R
    <2> QED BY <2>1, <2>2, LockBegins
  <1>6. CASE ProofRead(p)
    <2> DEFINE A(a) == [Request("proof") EXCEPT !.a = a, !.saw = asg[a].status]
               W == [Request("proof") EXCEPT !.saw = status]
    <2>1. W.op = "proof" /\ \A a : A(a).op = "proof"
      BY DEF Request, Idle
    <2> QED BY <1>6, <2>1 DEF ProofRead, Begin
  <1>7. CASE DisputeRead(p)
    <2> DEFINE R(a, x) == [Request("dispute") EXCEPT !.a = a, !.rm = x]
    <2>1. (\E a, x : Begin(p, R(a, x))) /\ UNCHANGED <<rows, lock>>
      BY <1>7 DEF DisputeRead
    <2>2. \A a, x : R(a, x).pc = "commit"
      BY DEF Request, Idle
    <2> HIDE DEF R
    <2> QED BY <2>1, <2>2, LockBegins
  <1>8. CASE ResolveRead(p)
    <2> DEFINE R(op) == [Request(op) EXCEPT !.rm = {Window}]
    <2>1. (\E op : Begin(p, R(op))) /\ UNCHANGED <<rows, lock>>
      BY <1>8 DEF ResolveRead
    <2>2. \A op : R(op).pc = "commit"
      BY DEF Request, Idle
    <2> HIDE DEF R
    <2> QED BY <2>1, <2>2, LockBegins
  <1>9. CASE FavourRead(p)
    <2> DEFINE A(a) == [Request("favourAgent") EXCEPT !.a = a, !.rm = {Waiting(a)}]
               H(a, g) == [Request("favourHost") EXCEPT !.a = a, !.ag = g,
                             !.rm = {Waiting(a)}]
    <2>1. /\ (\E a : Begin(p, A(a))) \/ \E a, g : Begin(p, H(a, g))
          /\ UNCHANGED <<rows, lock>>
      BY <1>9 DEF FavourRead
    <2>2. \A a, g : A(a).pc = "commit" /\ H(a, g).pc = "commit"
      BY DEF Request, Idle
    <2> HIDE DEF A, H
    <2> QED BY <2>1, <2>2, LockBegins
  <1>10. CASE Selects(p)
    <2> DEFINE r == [Idle EXCEPT !.op = "freeze", !.pc = "selected"]
    <2>1. Begin(p, r) /\ r.pc = "selected" /\ UNCHANGED <<rows, lock>>
      BY <1>10 DEF Selects, Idle
    <2> HIDE DEF r
    <2> QED BY <2>1, LockBegins
  <1>11. CASE BanRead(p)
    <2> DEFINE R(g, x) == [Request("ban") EXCEPT !.ag = g, !.rm = x]
    <2>1. (\E g, x : Begin(p, R(g, x))) /\ UNCHANGED <<rows, lock>>
      BY <1>11 DEF BanRead
    <2>2. \A g, x : R(g, x).pc = "commit"
      BY DEF Request, Idle
    <2> HIDE DEF R
    <2> QED BY <2>1, <2>2, LockBegins
  <1>12. CASE ReverseRead(p)
    <2> DEFINE R(o, c, x) == [Request("reverse") EXCEPT !.a = c, !.b = o, !.rm = x]
               F(o, c, x) == [R(o, c, x) EXCEPT !.op = "freeze",
                                                !.spans = proc[p].spans]
    <2>1. /\ \E o, c, x : \/ Begin(p, R(o, c, x))
                          \/ proc' = [proc EXCEPT ![p] = F(o, c, x)]
          /\ UNCHANGED <<rows, lock>>
      BY <1>12 DEF ReverseRead
    <2>2. \A o, c, x : /\ R(o, c, x).pc = "commit"
                       /\ F(o, c, x).pc = "commit" /\ F(o, c, x).op = "freeze"
      BY DEF Request, Idle
    <2> HIDE DEF R, F
    <2> QED BY <2>1, <2>2, LockBegins, LockMoves
  <1>13. ASSUME NEW a \in AssignmentIds, RejectRead(p, a) \/ CompleteRead(p, a)
         PROVE  LockInv'
    <2> DEFINE R(op) == [Request(op) EXCEPT !.a = a, !.rm = {Sla(a)}]
    <2>1. (\E op : Begin(p, R(op))) /\ UNCHANGED <<rows, lock>>
      BY <1>13 DEF RejectRead, CompleteRead
    <2>2. \A op : R(op).pc = "commit"
      BY DEF Request, Idle
    <2> HIDE DEF R
    <2> QED BY <2>1, <2>2, LockBegins
  <1>14. CASE RunJob(p)
    <2> DEFINE R(t, op) == [Request(op) EXCEPT !.a = t[2], !.job = t]
    <2>1. (\E t, op : Begin(p, R(t, op))) /\ UNCHANGED <<rows, lock>>
      BY <1>14 DEF RunJob, SlaRead, AutoWaitRead, AutoWindowRead, Take
    <2>2. \A t, op : R(t, op).pc = "commit"
      BY DEF Request, Idle
    <2> HIDE DEF R
    <2> QED BY <2>1, <2>2, LockBegins
  <1>15. CASE SafetyNet(p)
    <2> DEFINE r == [Idle EXCEPT !.op = "safetyNet", !.pc = "jobs",
                                 !.add = Overdue, !.re = StuckPending]
    <2>1. (Begin(p, r) \/ UNCHANGED proc) /\ UNCHANGED <<rows, lock>>
      BY <1>15 DEF SafetyNet
    <2>2. r.pc = "jobs"
      BY DEF Idle
    <2> HIDE DEF r
    <2>3. CASE UNCHANGED proc
      BY <2>1, <2>3 DEF LockInv, rows, AnyOf, Open
    <2> QED BY <2>1, <2>2, <2>3, LockBegins
  <1> QED BY <1>2, <1>3, <1>4, <1>5, <1>6, <1>7, <1>8, <1>9, <1>10, <1>11, <1>12,
             <1>13, <1>14, <1>15 DEF Read


\* A commit finds the lock free, and assignToAgency frees it.
LEMMA LockCommits ==
    ASSUME IInv, LockInv, NEW p \in Workers, Commit(p) \/ Assign(p) \/ TxReturns(p)
    PROVE  LockInv'
  <1> DEFINE Others == \A q \in Workers \ {p} : proc[q].pc # "locked"
  <1>1. /\ \E opened, add, re : Committed(p, opened, add, re)
        /\ Others \/ UNCHANGED <<rows, lock>>
        /\ proc[p].pc # "idle"
    <2>1. CASE Commit(p) /\ ~ProofCommit(p)
      <3>1. proc[p].pc = "commit" /\ lock = None
        BY <2>1
           DEF Commit, CloseCommit, CompleteCommit, PayoutCommit,
               ManualCompleteCommit, AutoWaitCommit, AutoWindowCommit, DisputeCommit,
               ResolveCommit, FavourAgentCommit, FavourHostCommit, ReverseCommit,
               BanCommit, Committing
      <3>2. Others
        BY <3>1, NoneAssumption DEF LockInv
      <3>3. \E opened, add, re : Committed(p, opened, add, re)
        BY <2>1
           DEF Commit, CloseCommit, CompleteCommit, PayoutCommit,
               ManualCompleteCommit, AutoWaitCommit, AutoWindowCommit, DisputeCommit,
               ResolveCommit, FavourAgentCommit, FavourHostCommit, ReverseCommit,
               BanCommit
      <3> QED BY <3>1, <3>2, <3>3
    <2>2. CASE ProofCommit(p)
      BY <2>2 DEF ProofCommit, LockInv
    <2>3. CASE Assign(p)
      <3>1. proc[p].pc = "locked"
        BY <2>3 DEF Assign, AssignNothing, AssignHeal, AssignExhausted,
                    AssignNoAgency, AssignCreate, Picking
      <3>2. Others
        BY <3>1 DEF LockInv
      <3>3. \E opened, add, re : Committed(p, opened, add, re)
        BY <2>3 DEF Assign, AssignNothing, AssignHeal, AssignExhausted,
                    AssignNoAgency, AssignCreate, Unlocked
      <3> QED BY <3>1, <3>2, <3>3
    <2>4. CASE TxReturns(p)
      BY <2>4 DEF TxReturns
    <2> QED BY <2>1, <2>2, <2>3, <2>4
  <1>2. PICK opened, add, re : Committed(p, opened, add, re)
    BY <1>1
  <1> SUFFICES ASSUME NEW q \in Workers
               PROVE  /\ proc'[q].pc # "idle" => proc'[q].op # "proof"
                      /\ proc'[q].pc = "locked" =>
                           lock' = q /\ proc'[q].b \in AnyOf(Open)'
    BY DEF LockInv
  <1>3. /\ proc'[q].pc = IF q = p THEN "jobs" ELSE proc[q].pc
        /\ proc'[q].op = proc[q].op
        /\ q # p => proc'[q].b = proc[q].b
    BY <1>2, CommittedFields DEF IInv
  <1>4. proc'[q].pc # "idle" => proc'[q].op # "proof"
    BY <1>1, <1>3 DEF LockInv
  <1>5. ASSUME proc'[q].pc = "locked"
        PROVE  lock' = q /\ proc'[q].b \in AnyOf(Open)'
    <2>1. q # p /\ proc[q].pc = "locked" /\ proc'[q].b = proc[q].b
      BY <1>3, <1>5
    <2>2. UNCHANGED <<rows, lock>>
      BY <1>1, <2>1
    <2> QED BY <2>1, <2>2 DEF LockInv, rows, AnyOf, Open
  <1> QED BY <1>4, <1>5

\* Every step of every handler but adminUpdatePayrollProof keeps the lock's
\* promise.
LEMMA LockStep ==
    ASSUME "proof" \notin Ops, IInv, LockInv, [Next]_vars
    PROVE  LockInv'
  <1>1. CASE UNCHANGED vars
    BY <1>1 DEF vars, LockInv, AnyOf, Open
  <1>2. ASSUME NEW t \in Timers, Elapse(t) \/ JobReturns(t)
        PROVE  LockInv'
    <2>1. UNCHANGED <<asg, lock, proc>>
      BY <1>2 DEF Elapse, JobReturns, outside, rows
    <2> QED BY <2>1 DEF LockInv, AnyOf, Open
  <1>3. ASSUME NEW p \in Workers, LockRow(p)
        PROVE  LockInv'
    <2>1. PICK o \in AnyOf(Open) :
            proc' = [proc EXCEPT ![p].pc = "locked", ![p].b = o]
      BY <1>3 DEF LockRow
    <2>2. /\ proc[p].pc = "lock" /\ lock = None /\ lock' = p /\ UNCHANGED asg
          /\ proc \in [Workers -> Worker]
      BY <1>3 DEF LockRow, rows, IInv, ProcOK
    <2>3. ASSUME NEW q \in Workers
          PROVE  /\ proc'[q].pc # "idle" => proc'[q].op # "proof"
                 /\ proc'[q].pc = "locked" =>
                      lock' = q /\ proc'[q].b \in AnyOf(Open)'
      <3>1. CASE q = p
        <4>1. proc'[q].pc = "locked" /\ proc'[q].b = o /\ proc'[q].op = proc[p].op
          BY <2>1, <2>2, <3>1 DEF Worker
        <4> QED BY <2>2, <3>1, <4>1 DEF LockInv, AnyOf, Open
      <3>2. CASE q # p
        <4>1. proc'[q] = proc[q] /\ proc[q].pc # "locked"
          BY <2>1, <2>2, <3>2, NoneAssumption DEF LockInv
        <4> QED BY <4>1 DEF LockInv
      <3> QED BY <3>1, <3>2
    <2> QED BY <2>3 DEF LockInv
  <1>4. ASSUME NEW p \in Workers, UpdateQueue(p)
        PROVE  LockInv'
    <2> DEFINE r == IF proc[p].re
                    THEN [proc[p] EXCEPT !.pc = "lock", !.re = FALSE, !.rm = {},
                                         !.add = {}]
                    ELSE Idle
    <2>1. proc' = [proc EXCEPT ![p] = r] /\ UNCHANGED <<rows, lock>>
      BY <1>4 DEF UpdateQueue
    <2>2. proc[p] \in Worker /\ proc[p].op # "proof"
      BY <1>4 DEF UpdateQueue, LockInv, IInv, ProcOK
    <2>3. r.pc # "locked" /\ (r.pc # "idle" => r.op # "proof")
      BY <2>2 DEF Idle, Worker
    <2> HIDE DEF r
    <2> QED BY <2>1, <2>3, LockMoves
  <1>5. ASSUME NEW p \in Workers, DebitRefused(p) \/ FreezeReturns(p) \/ Fail(p)
        PROVE  LockInv'
    <2>1. /\ proc' = [proc EXCEPT ![p] = Idle] /\ UNCHANGED rows
          /\ UNCHANGED lock \/ (lock = p /\ lock' = None)
      BY <1>5 DEF DebitRefused, FreezeReturns, Fail
    <2>2. Idle.pc = "idle"
      BY DEF Idle
    <2> QED BY <2>1, <2>2, LockMoves
  <1> QED BY <1>1, <1>2, <1>3, <1>4, <1>5, LockReads, LockCommits DEF Next

\* SELECT ... FOR UPDATE in assignToAgency: however many requests, jobs and
\* sweeps call it at once, with whatever crashes, it creates an assignment only
\* while no other is open.  adminUpdatePayrollProof, which writes an assignment's
\* status back without the lock, is the one handler that has to be left out.
THEOREM AssignAloneAlways == ASSUME "proof" \notin Ops PROVE Spec => AssignAlone
  <1>1. Init => LockInv
    BY DEF Init, LockInv, Idle
  <1>2. IInv /\ LockInv /\ [Next]_vars => LockInv'
    BY LockStep
  <1>3. LockInv => \A p \in Workers : AssignCreate(p) => Open = {}
    <2> SUFFICES ASSUME LockInv, NEW p \in Workers, AssignCreate(p) PROVE Open = {}
      OBVIOUS
    <2>1. proc[p].b \in AnyOf(Open) /\ proc[p].b = None
      BY DEF AssignCreate, Picking, LockInv
    <2> QED BY <2>1, SawNone
  <1> QED BY <1>1, <1>2, <1>3, InitOK, NextOK, PTL DEF Spec, AssignAlone

=============================================================================
