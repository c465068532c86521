------------------------ MODULE PayrollSerialProofs ------------------------
(***************************************************************************)
(* What holds of any number of workers, assignments and agencies as long   *)
(* as the handlers do not overlap: the safety properties of Payroll's      *)
(* serial instance, and that the points take the steps of a settlement.    *)
(*                                                                         *)
(* None of these is inductive.  SerialRows says how the status of the      *)
(* withdrawal, the one live assignment, the platform's window and the      *)
(* ledger determine each other; StillTrue says that what a handler has     *)
(* read is true until it commits, crashes and passing deadlines included.  *)
(***************************************************************************)
EXTENDS PayrollProofs

\* Two handlers are never in flight at once.
NoOverlap ==
    \A p, q \in Workers : proc[p].pc # "idle" /\ proc[q].pc # "idle" => p = q

\* An assignment that somebody may be, or has been, paid for.
Live(a) == asg[a].status \in {"PENDING", "WAITING", "COMPLETED"}
Closed == WithStatus("EXPIRED") \cup WithStatus("REJECTED")

AssignmentsOK ==
    /\ \A a, b \in AssignmentIds : Live(a) /\ Live(b) => a = b
    /\ \A a \in AssignmentIds :
         /\ asg[a].status # "NONE" => Banked
         /\ asg[a].status = "PENDING" => status = "PENDING"
         /\ asg[a].status = "WAITING" => status \in {"WAITING", "DISPUTED"}
         /\ asg[a].status = "COMPLETED" => status \in {"PAID", "DISPUTED", "FAILED"}
    /\ clock[Window] # "unset" =>
         /\ status \in {"WAITING", "PAID", "DISPUTED", "FAILED"}
         /\ \A a \in AssignmentIds : ~Live(a)

LedgerOK ==
    /\ \A a \in AssignmentIds :
         /\ Payout(a) \in ledger <=> asg[a].status = "COMPLETED"
         /\ Reversal(a) \in ledger <=> asg[a].status = "COMPLETED" /\ status = "FAILED"
    /\ Takeover \in ledger =>
         clock[Window] # "unset" /\ status \in {"PAID", "DISPUTED", "FAILED"}
    /\ Refund \in ledger <=> status = "FAILED"

SerialRows == AssignmentsOK /\ LedgerOK /\ CountsClosed

\* What the handler of worker record w has read and its commit believes.
StillTrue(w) ==
    /\ w.op \in {"sla", "reject", "complete"} => asg[w.a].status = "PENDING"
    /\ w.op \in {"payout", "takeover"} => status = "PENDING_PLATFORM"
    /\ w.op = "manualComplete" =>
         /\ Banked /\ status \in {"PENDING", "PENDING_PLATFORM"}
         /\ w.b \in AnyOf(Open)
         /\ w.a = w.b \/ asg[w.a].status = "NONE"
    /\ w.op = "proof" => w.saw = IF w.a = None THEN status ELSE asg[w.a].status
    /\ w.op = "autoWait" =>
         asg[w.a].status = "WAITING" /\ clock[Waiting(w.a)] = "elapsed"
    /\ w.op = "autoWindow" => status = "WAITING" /\ clock[Window] = "elapsed"
    /\ w.op = "dispute" => status \in {"WAITING", "PAID"}
    /\ w.op \in {"resolvePaid", "resolveRefund"} => status = "DISPUTED"
    /\ w.op \in {"favourAgent", "favourHost"} =>
         status = "DISPUTED" /\ asg[w.a].status = "WAITING"
    /\ w.op \in {"reverse", "freeze"} =>
         /\ status \in WithdrawalStatus \ {"FAILED"}
         /\ w.b \in AnyOf(Open)
         /\ \A a \in AssignmentIds : asg[a].status = "COMPLETED" => a = w.a
    /\ w.op = "ban" => \A a \in AssignmentIds : Sla(a) \in w.rm => a \in Open

SerialWorker(w) ==
    /\ w.pc \in {"lock", "locked"} \/ (w.pc = "jobs" /\ w.re) => Banked
    /\ w.pc = "locked" => w.b \in AnyOf(Open)
    /\ w.pc = "commit" => StillTrue(w)

Serial == SerialRows /\ \A p \in Workers : SerialWorker(proc[p])

SerialInv == IInv /\ Serial

(***************************************************************************)
(* Workers                                                                 *)
(***************************************************************************)

\* A handler is in flight after the step: then no other is.
LEMMA OneInFlight ==
    ASSUME NoOverlap', NEW p \in Workers, proc'[p].pc # "idle",
           SerialWorker(proc[p])'
    PROVE  (\A q \in Workers : SerialWorker(proc[q]))'
  <1> SUFFICES ASSUME NEW q \in Workers PROVE SerialWorker(proc[q])'
    OBVIOUS
  <1>1. CASE q = p
    BY <1>1
  <1>2. CASE q # p
    <2>1. proc'[q].pc = "idle"
      BY <1>2 DEF NoOverlap
    <2> QED BY <2>1 DEF SerialWorker
  <1> QED BY <1>1, <1>2

\* The handler in flight ends: then every worker is idle.
LEMMA NoneInFlight ==
    ASSUME NoOverlap, NEW p \in Workers, proc[p].pc # "idle",
           proc \in [Workers -> Worker], proc' = [proc EXCEPT ![p] = Idle]
    PROVE  (\A q \in Workers : SerialWorker(proc[q]))'
  <1> SUFFICES ASSUME NEW q \in Workers PROVE SerialWorker(proc[q])'
    OBVIOUS
  <1>1. proc'[q].pc = "idle"
    BY DEF NoOverlap, Idle
  <1> QED BY <1>1 DEF SerialWorker

\* What is said of the rows holds while they stay.
LEMMA SerialRowsKept == SerialRows /\ UNCHANGED rows => SerialRows'
  BY DEF SerialRows, AssignmentsOK, LedgerOK, CountsClosed, Live, WithStatus, Banked,
         rows

\* And with the workers, everything.
LEMMA SerialKept == Serial /\ UNCHANGED <<rows, proc>> => Serial'
  <1> SUFFICES ASSUME Serial, UNCHANGED <<rows, proc>> PROVE Serial'
    OBVIOUS
  <1>1. SerialRows'
    BY SerialRowsKept DEF Serial
  <1>2. ASSUME NEW p \in Workers PROVE SerialWorker(proc[p])'
    <2>1. SerialWorker(proc[p]) /\ proc'[p] = proc[p]
      BY DEF Serial
    <2> QED BY <2>1 DEF SerialWorker, StillTrue, Open, AnyOf, Banked, rows
  <1> QED BY <1>1, <1>2 DEF Serial

\* A handler that has committed goes on to the queue, and calls assignToAgency
\* only for a BANK withdrawal.
LEMMA AfterCommit ==
    ASSUME NoOverlap', NEW p \in Workers, NEW opened, NEW add, NEW re \in BOOLEAN,
           Committed(p, opened, add, re), re => Banked'
    PROVE  (\A q \in Workers : SerialWorker(proc[q]))'
  <1>1. proc'[p].pc = "jobs" /\ proc'[p].re = re
    BY DEF Committed, Idle
  <1>2. SerialWorker(proc[p])'
    BY <1>1 DEF SerialWorker
  <1> QED BY <1>1, <1>2, OneInFlight

\* A handler that begins relies on what it has just read.
LEMMA Reads ==
    ASSUME SerialInv, NoOverlap', NEW p \in Workers, NEW r, Begin(p, r),
           r.pc # "idle", SerialWorker(r), UNCHANGED rows
    PROVE  Serial'
  <1>1. proc'[p] = r
    BY DEF Begin, SerialInv, IInv, ProcOK
  <1>2. SerialWorker(proc[p])'
    BY <1>1 DEF SerialWorker, StillTrue, Open, AnyOf, Banked, rows
  <1>3. SerialRows'
    BY SerialRowsKept DEF SerialInv, Serial
  <1> QED BY <1>1, <1>2, <1>3, OneInFlight DEF Serial

(***************************************************************************)
(* Reads                                                                   *)
(***************************************************************************)

\* A request that goes straight to its transaction.
LEMMA RequestReads ==
    ASSUME SerialInv, NoOverlap', NEW p \in Workers, NEW r, Begin(p, r),
           r.pc = "commit", StillTrue(r), UNCHANGED rows
    PROVE  Serial'
  <1>1. SerialWorker(r)
    BY DEF SerialWorker
  <1> QED BY <1>1, Reads

\* The processors of the queue's jobs look at a row and at its deadline.
LEMMA RunJobSerial ==
    ASSUME SerialInv, NoOverlap', NEW p \in Workers, RunJob(p)
    PROVE  Serial'
  <1> DEFINE R(t, op) == [Request(op) EXCEPT !.a = t[2], !.job = t]
  <1>1. \A t, op : R(t, op).op = op /\ R(t, op).pc = "commit" /\ R(t, op).a = t[2]
    BY DEF Request, Idle
  <1> HIDE DEF R
  <1>2. ASSUME NEW a \in AssignmentIds, SlaRead(p, a)
        PROVE  Serial'
    <2>1. Begin(p, R(Sla(a), "sla")) /\ asg[a].status = "PENDING" /\ UNCHANGED rows
      BY <1>2 DEF SlaRead, Take, R
    <2>2. StillTrue(R(Sla(a), "sla"))
      BY <1>1, <2>1, TimerFacts DEF StillTrue
    <2> QED BY <1>1, <2>1, <2>2, RequestReads
  <1>3. ASSUME NEW a \in AssignmentIds, AutoWaitRead(p, a)
        PROVE  Serial'
    <2>1. /\ Begin(p, R(Waiting(a), "autoWait")) /\ asg[a].status = "WAITING"
          /\ clock[Waiting(a)] = "elapsed" /\ UNCHANGED rows
      BY <1>3 DEF AutoWaitRead, Take, R
    <2>2. StillTrue(R(Waiting(a), "autoWait"))
      BY <1>1, <2>1, TimerFacts DEF StillTrue
    <2> QED BY <1>1, <2>1, <2>2, RequestReads
  <1>4. CASE AutoWindowRead(p)
    <2>1. /\ Begin(p, R(Window, "autoWindow")) /\ status = "WAITING"
          /\ clock[Window] = "elapsed" /\ UNCHANGED rows
      BY <1>4 DEF AutoWindowRead, Take, R
    <2>2. StillTrue(R(Window, "autoWindow"))
      BY <1>1, <2>1 DEF StillTrue
    <2> QED BY <1>1, <2>1, <2>2, RequestReads
  <1> QED BY <1>2, <1>3, <1>4 DEF RunJob

\* The assigned agency answers.
LEMMA AgencyReadSerial ==
    ASSUME SerialInv, NoOverlap', NEW p \in Workers, NEW a \in AssignmentIds,
           RejectRead(p, a) \/ CompleteRead(p, a)
    PROVE  Serial'
  <1> DEFINE R(op) == [Request(op) EXCEPT !.a = a, !.rm = {Sla(a)}]
  <1>1. \A op : R(op).op = op /\ R(op).pc = "commit" /\ R(op).a = a
    BY DEF Request, Idle
  <1> HIDE DEF R
  <1>2. PICK op \in {"reject", "complete"} : Begin(p, R(op))
    BY DEF RejectRead, CompleteRead, R
  <1>3. asg[a].status = "PENDING" /\ UNCHANGED rows
    BY DEF RejectRead, CompleteRead
  <1>4. StillTrue(R(op))
    BY <1>1, <1>3 DEF StillTrue
  <1> QED BY <1>1, <1>2, <1>3, <1>4, RequestReads

\* The platform is asked to pay.
LEMMA PayoutReadSerial ==
    ASSUME SerialInv, NoOverlap', NEW p \in Workers, PayoutRead(p)
    PROVE  Serial'
  <1>1. \A op : Request(op).op = op /\ Request(op).pc = "commit"
    BY DEF Request, Idle
  <1>2. PICK op \in {"payout", "takeover"} : Begin(p, Request(op))
    BY DEF PayoutRead
  <1>3. status = "PENDING_PLATFORM" /\ UNCHANGED rows
    BY DEF PayoutRead
  <1>4. StillTrue(Request(op))
    BY <1>1, <1>3 DEF StillTrue
  <1> QED BY <1>1, <1>2, <1>3, <1>4, RequestReads

\* adminCompletePayrollForAgency finds the open assignment, or none.
LEMMA ManualCompleteReadSerial ==
    ASSUME SerialInv, NoOverlap', NEW p \in Workers, ManualCompleteRead(p)
    PROVE  Serial'
  <1> DEFINE Rm(o) == IF o # None /\ asg[o].status = "PENDING" THEN {Sla(o)} ELSE {}
             R(a, o, g) == [Request("manualComplete") EXCEPT !.a = a, !.b = o,
                              !.ag = g, !.rm = Rm(o)]
  <1>1. PICK g \in Agencies \ banned, o \in AnyOf(Open) :
          \E a \in IF o # None /\ asg[o].agency = g THEN {o} ELSE Fresh :
            Begin(p, R(a, o, g))
    BY DEF ManualCompleteRead
  <1>2. PICK a : Begin(p, R(a, o, g)) /\ (a = o \/ asg[a].status = "NONE")
    BY <1>1 DEF Fresh, WithStatus
  <1>3. /\ R(a, o, g).op = "manualComplete" /\ R(a, o, g).pc = "commit"
        /\ R(a, o, g).a = a /\ R(a, o, g).b = o
    BY DEF Request, Idle
  <1> HIDE DEF R
  <1>4. Banked /\ status \in {"PENDING", "PENDING_PLATFORM"} /\ UNCHANGED rows
    BY DEF ManualCompleteRead
  <1>5. StillTrue(R(a, o, g))
    BY <1>1, <1>2, <1>3, <1>4 DEF StillTrue
  <1> QED BY <1>2, <1>3, <1>4, <1>5, RequestReads

\* adminUpdatePayrollProof reads the status that it will write back.
LEMMA ProofReadSerial ==
    ASSUME SerialInv, NoOverlap', NEW p \in Workers, ProofRead(p)
    PROVE  Serial'
  <1> DEFINE A(a) == [Request("proof") EXCEPT !.a = a, !.saw = asg[a].status]
             W == [Request("proof") EXCEPT !.saw = status]
  <1>1. UNCHANGED rows
    BY DEF ProofRead
  <1>2. ASSUME NEW a \in AssignmentIds, Begin(p, A(a))
        PROVE  Serial'
    <2>1. /\ A(a).op = "proof" /\ A(a).pc = "commit" /\ A(a).a = a
          /\ A(a).saw = asg[a].status
      BY DEF Request, Idle
    <2> HIDE DEF A
    <2>2. StillTrue(A(a))
      BY <2>1, NoneAssumption DEF StillTrue
    <2> QED BY <1>1, <1>2, <2>1, <2>2, RequestReads
  <1>3. CASE Begin(p, W)
    <2>1. W.op = "proof" /\ W.pc = "commit" /\ W.a = None /\ W.saw = status
      BY DEF Request, Idle
    <2> HIDE DEF W
    <2>2. StillTrue(W)
      BY <2>1 DEF StillTrue
    <2> QED BY <1>1, <1>3, <2>1, <2>2, RequestReads
  <1> QED BY <1>2, <1>3 DEF ProofRead

\* disputeWithdrawal: while handlers do not overlap, a WAITING assignment is not
\* met under a PENDING withdrawal.
LEMMA DisputeReadSerial ==
    ASSUME SerialInv, NoOverlap', NEW p \in Workers, DisputeRead(p)
    PROVE  Serial'
  <1> DEFINE Rm(a) == {Waiting(i) : i \in {a} \ {None}}
                        \cup IF status = "WAITING" /\ ~Banked THEN {Window} ELSE {}
             R(a) == [Request("dispute") EXCEPT !.a = a, !.rm = Rm(a)]
  <1>1. PICK a \in AnyOf(WithStatus("WAITING")) :
          /\ \/ status = "PAID"
             \/ status \in {"PENDING", "WAITING"} /\ a # None
             \/ status = "WAITING" /\ ~Banked
          /\ Begin(p, R(a))
    BY DEF DisputeRead
  <1>2. R(a).op = "dispute" /\ R(a).pc = "commit"
    BY DEF Request, Idle
  <1> HIDE DEF R
  <1>3. status \in {"WAITING", "PAID"}
    BY <1>1 DEF AnyOf, WithStatus, SerialInv, Serial, SerialRows, AssignmentsOK
  <1>4. StillTrue(R(a))
    BY <1>2, <1>3 DEF StillTrue
  <1> QED BY <1>1, <1>2, <1>4, RequestReads DEF DisputeRead

\* The resolutions of a platform dispute.
LEMMA ResolveReadSerial ==
    ASSUME SerialInv, NoOverlap', NEW p \in Workers, ResolveRead(p)
    PROVE  Serial'
  <1> DEFINE R(op) == [Request(op) EXCEPT !.rm = {Window}]
  <1>1. PICK op \in {"resolvePaid", "resolveRefund"} : Begin(p, R(op))
    BY DEF ResolveRead
  <1>2. R(op).op = op /\ R(op).pc = "commit"
    BY DEF Request, Idle
  <1> HIDE DEF R
  <1>3. StillTrue(R(op))
    BY <1>2 DEF StillTrue, ResolveRead
  <1> QED BY <1>1, <1>2, <1>3, RequestReads DEF ResolveRead

\* The resolutions of a dispute with an agency.
LEMMA FavourReadSerial ==
    ASSUME SerialInv, NoOverlap', NEW p \in Workers, FavourRead(p)
    PROVE  Serial'
  <1> DEFINE A(a) == [Request("favourAgent") EXCEPT !.a = a, !.rm = {Waiting(a)}]
             H(a, g) == [Request("favourHost") EXCEPT !.a = a, !.ag = g,
                           !.rm = {Waiting(a)}]
  <1>1. PICK a \in WithStatus("WAITING") :
          Begin(p, A(a)) \/ \E g : Begin(p, H(a, g))
    BY DEF FavourRead
  <1>2. /\ A(a).op = "favourAgent" /\ A(a).pc = "commit" /\ A(a).a = a
        /\ \A g : /\ H(a, g).op = "favourHost" /\ H(a, g).pc = "commit"
                  /\ H(a, g).a = a
    BY DEF Request, Idle
  <1> HIDE DEF A, H
  <1>3. status = "DISPUTED" /\ asg[a].status = "WAITING" /\ UNCHANGED rows
    BY DEF FavourRead, WithStatus
  <1>4. StillTrue(A(a)) /\ \A g : StillTrue(H(a, g))
    BY <1>2, <1>3 DEF StillTrue
  <1> QED BY <1>1, <1>2, <1>3, <1>4, RequestReads

\* A withdrawal is selected for the freeze, or assigned by an admin.
LEMMA SelectSerial ==
    ASSUME SerialInv, NoOverlap', NEW p \in Workers, Selects(p) \/ ManualAssign(p)
    PROVE  Serial'
  <1> DEFINE F == [Idle EXCEPT !.op = "freeze", !.pc = "selected"]
             M(g) == [Idle EXCEPT !.op = "manualAssign", !.pc = "lock", !.ag = g]
  <1>1. F.pc = "selected" /\ \A g : M(g).pc = "lock"
    BY DEF Idle
  <1>2. \/ Begin(p, F) /\ UNCHANGED rows
        \/ (\E g : Begin(p, M(g))) /\ Banked /\ UNCHANGED rows
    BY DEF Selects, ManualAssign
  <1> HIDE DEF F, M
  <1>3. SerialWorker(F) /\ (Banked => \A g : SerialWorker(M(g)))
    BY <1>1 DEF SerialWorker
  <1> QED BY <1>1, <1>2, <1>3, Reads

\* banAgencyByAdmin lists what the agency holds.
LEMMA BanReadSerial ==
    ASSUME SerialInv, NoOverlap', NEW p \in Workers, BanRead(p)
    PROVE  Serial'
  <1> DEFINE held(g) == {a \in Open : asg[a].agency = g}
             Rm(g) == {Sla(a) : a \in held(g)}
                        \cup {Waiting(a) : a \in held(g) \cap WithStatus("WAITING")}
             R(g) == [Request("ban") EXCEPT !.ag = g, !.rm = Rm(g)]
  <1>1. PICK g \in Agencies \ banned : Begin(p, R(g))
    BY DEF BanRead
  <1>2. \A a : Sla(a) \in Rm(g) => a \in Open
    BY DEF Sla, Waiting
  <1> HIDE DEF Rm
  <1>3. R(g).op = "ban" /\ R(g).pc = "commit" /\ R(g).rm = Rm(g)
    BY DEF Request, Idle
  <1> HIDE DEF R
  <1>4. StillTrue(R(g))
    BY <1>2, <1>3 DEF StillTrue
  <1> QED BY <1>1, <1>3, <1>4, RequestReads DEF BanRead

\* adminReverseWithdrawal finds the open assignment and the one to take a credit
\* back from: no other was ever credited.
LEMMA ReverseReadSerial ==
    ASSUME SerialInv, NoOverlap', NEW p \in Workers, ReverseRead(p)
    PROVE  Serial'
  <1> DEFINE Rm(o) == {Sla(i) : i \in {o} \ {None}}
                        \cup {Waiting(i) : i \in {o} \cap WithStatus("WAITING")}
                        \cup IF Banked THEN {} ELSE {Window}
             R(o, c) == [Request("reverse") EXCEPT !.a = c, !.b = o, !.rm = Rm(o)]
             F(o, c) == [R(o, c) EXCEPT !.op = "freeze", !.spans = proc[p].spans]
  <1>1. PICK o \in AnyOf(Open),
             c \in IF WithStatus("WAITING") # {} THEN WithStatus("WAITING")
                   ELSE AnyOf(WithStatus("COMPLETED")) :
          \/ Begin(p, R(o, c))
          \/ proc' = [proc EXCEPT ![p] = F(o, c)]
    BY DEF ReverseRead
  <1> HIDE DEF Rm
  <1>2. /\ R(o, c).op = "reverse" /\ R(o, c).pc = "commit" /\ R(o, c).a = c
        /\ R(o, c).b = o
        /\ F(o, c).op = "freeze" /\ F(o, c).pc = "commit" /\ F(o, c).a = c
        /\ F(o, c).b = o
    BY DEF Request, Idle
  <1> HIDE DEF R, F
  <1>3. status \in WithdrawalStatus \ {"FAILED"} /\ UNCHANGED rows
    BY DEF ReverseRead
  <1>4. \A a \in AssignmentIds : asg[a].status = "COMPLETED" => a = c
    <2> SUFFICES ASSUME NEW a \in AssignmentIds, asg[a].status = "COMPLETED"
                 PROVE  a = c
      OBVIOUS
    <2>1. c \in AssignmentIds /\ Live(c)
      BY <1>1 DEF AnyOf, WithStatus, Live
    <2> QED BY <2>1 DEF Live, SerialInv, Serial, SerialRows, AssignmentsOK
  <1>5. StillTrue(R(o, c)) /\ StillTrue(F(o, c))
    BY <1>1, <1>2, <1>3, <1>4 DEF StillTrue
  <1>6. CASE Begin(p, R(o, c))
    BY <1>2, <1>3, <1>5, <1>6, RequestReads
  <1>7. CASE proc' = [proc EXCEPT ![p] = F(o, c)]
    <2>1. proc'[p] = F(o, c)
      BY <1>7 DEF SerialInv, IInv, ProcOK
    <2>2. SerialWorker(proc[p])'
      BY <1>2, <1>3, <1>5, <2>1
         DEF SerialWorker, StillTrue, Open, AnyOf, Banked, rows
    <2>3. SerialRows'
      BY <1>3, SerialRowsKept DEF SerialInv, Serial
    <2> QED BY <1>2, <2>1, <2>2, <2>3, OneInFlight DEF Serial
  <1> QED BY <1>1, <1>6, <1>7

\* The hourly sweep calls assignToAgency for BANK withdrawals only.
LEMMA SafetyNetSerial ==
    ASSUME SerialInv, NoOverlap', NEW p \in Workers, SafetyNet(p)
    PROVE  Serial'
  <1> DEFINE r == [Idle EXCEPT !.op = "safetyNet", !.pc = "jobs",
                               !.add = Overdue, !.re = StuckPending]
  <1>1. UNCHANGED rows /\ (Begin(p, r) \/ UNCHANGED proc)
    BY DEF SafetyNet
  <1>2. r.pc = "jobs" /\ (r.re <=> StuckPending)
    BY DEF Idle
  <1> HIDE DEF r
  <1>3. CASE Begin(p, r)
    <2>1. SerialWorker(r)
      BY <1>2 DEF SerialWorker, StuckPending
    <2> QED BY <1>1, <1>2, <1>3, <2>1, Reads
  <1>4. CASE UNCHANGED proc
    BY <1>1, <1>4, SerialKept DEF SerialInv
  <1> QED BY <1>1, <1>3, <1>4

\* createWithdrawal finds no row and no assignment.
LEMMA CreateSerial ==
    ASSUME SerialInv, NoOverlap', NEW p \in Workers, CreateWithdrawal(p)
    PROVE  Serial'
  <1> DEFINE r == [Idle EXCEPT !.op = "create", !.pc = "jobs", !.re = Banked]
  <1>1. /\ proc'[p] = r
        /\ status = "NONE" /\ status' \in {"PENDING", "PENDING_PLATFORM"}
        /\ ledger' = ledger \cup {Debit}
        /\ UNCHANGED <<payoutHandler, assignmentCount, asg, clock>>
    BY DEF CreateWithdrawal, Begin, SerialInv, IInv, ProcOK
  <1>2. r.pc = "jobs" /\ r.re = Banked
    BY DEF Idle
  <1> HIDE DEF r
  <1>3. SerialWorker(proc[p])'
    BY <1>1, <1>2 DEF SerialWorker, Banked
  <1>4. \A a \in AssignmentIds : asg[a].status = "NONE"
    BY <1>1 DEF SerialInv, IInv, RowsOK, RowsMatchLedger, Exists
  <1>5. AssignmentsOK'
    BY <1>1, <1>4 DEF SerialInv, Serial, SerialRows, AssignmentsOK, Live, Banked
  <1>6. LedgerOK'
    BY <1>1, <1>4, KeyFacts DEF SerialInv, Serial, SerialRows, LedgerOK
  <1>7. CountsClosed'
    BY <1>1 DEF SerialInv, Serial, SerialRows, CountsClosed, WithStatus
  <1> QED BY <1>1, <1>2, <1>3, <1>5, <1>6, <1>7, OneInFlight DEF Serial, SerialRows

(***************************************************************************)
(* Steps that change no row, deadlines, and assignToAgency                 *)
(***************************************************************************)

\* assignToAgency takes the row lock and looks for the open assignment.
LEMMA LockRowSerial ==
    ASSUME SerialInv, NoOverlap', NEW p \in Workers, LockRow(p)
    PROVE  Serial'
  <1>1. PICK o \in AnyOf(Open) :
          proc' = [proc EXCEPT ![p].pc = "locked", ![p].b = o]
    BY DEF LockRow
  <1>2. proc[p] \in Worker /\ SerialWorker(proc[p]) /\ proc[p].pc = "lock"
    BY DEF LockRow, SerialInv, Serial, IInv, ProcOK
  <1>3. proc'[p].pc = "locked" /\ proc'[p].b = o
    BY <1>1, <1>2 DEF SerialInv, IInv, ProcOK, Worker
  <1>4. UNCHANGED rows
    BY DEF LockRow
  <1>5. SerialWorker(proc[p])'
    BY <1>2, <1>3, <1>4 DEF SerialWorker, Open, AnyOf, Banked, rows
  <1> QED BY <1>3, <1>4, <1>5, OneInFlight, SerialRowsKept DEF SerialInv, Serial

\* The queue calls after a transaction, and the way to assignToAgency.
LEMMA UpdateQueueSerial ==
    ASSUME SerialInv, NoOverlap, NoOverlap', NEW p \in Workers, UpdateQueue(p)
    PROVE  Serial'
  <1>1. /\ proc[p] \in Worker /\ SerialWorker(proc[p]) /\ proc[p].pc = "jobs"
        /\ proc \in [Workers -> Worker]
    BY DEF UpdateQueue, SerialInv, Serial, IInv, ProcOK
  <1>2. UNCHANGED rows /\ SerialRows'
    BY SerialRowsKept DEF UpdateQueue, SerialInv, Serial
  <1>3. CASE proc[p].re
    <2>1. proc'[p].pc = "lock"
      BY <1>1, <1>3 DEF UpdateQueue, Worker
    <2>2. SerialWorker(proc[p])'
      BY <1>1, <1>2, <1>3, <2>1 DEF SerialWorker, Banked, rows
    <2> QED BY <1>2, <2>1, <2>2, OneInFlight DEF Serial
  <1>4. CASE ~proc[p].re
    <2>1. proc' = [proc EXCEPT ![p] = Idle]
      BY <1>4 DEF UpdateQueue
    <2> QED BY <1>1, <1>2, <2>1, NoneInFlight DEF Serial
  <1> QED BY <1>3, <1>4

\* A callback that finds its row changed returns.
LEMMA TxReturnsSerial ==
    ASSUME SerialInv, NoOverlap', NEW p \in Workers, TxReturns(p)
    PROVE  Serial'
  <1>1. UNCHANGED rows /\ SerialRows'
    BY SerialRowsKept DEF TxReturns, SerialInv, Serial
  <1>2. Committed(p, {}, {}, proc[p].op = "favourHost") /\ proc[p].pc = "commit"
    BY DEF TxReturns
  <1>3. proc[p].op = "favourHost" => Banked
    <2>1. SerialWorker(proc[p])
      BY DEF SerialInv, Serial
    <2>2. proc[p].op = "favourHost" => proc[p].a \in AssignmentIds
      BY <1>2, Committer DEF SerialInv, OnAssignment
    <2> QED BY <1>2, <2>1, <2>2
            DEF SerialWorker, StillTrue, SerialInv, Serial, SerialRows, AssignmentsOK
  <1> QED BY <1>1, <1>2, <1>3, AfterCommit DEF Serial, Banked, rows

\* A handler that is refused, finds nothing or crashes.
LEMMA EndsSerial ==
    ASSUME SerialInv, NoOverlap, NEW p \in Workers,
           DebitRefused(p) \/ FreezeReturns(p) \/ Fail(p)
    PROVE  Serial'
  <1>1. /\ proc' = [proc EXCEPT ![p] = Idle] /\ UNCHANGED rows
        /\ proc[p].pc # "idle" /\ proc \in [Workers -> Worker]
    BY DEF DebitRefused, FreezeReturns, Fail, Committing, SerialInv, IInv, ProcOK
  <1> QED BY <1>1, NoneInFlight, SerialRowsKept DEF SerialInv, Serial

\* A deadline passes while a handler is in flight, or a job finds nothing to do.
LEMMA TimerStepSerial ==
    ASSUME SerialInv, NEW t \in Timers, Elapse(t) \/ JobReturns(t)
    PROVE  Serial'
  <1>1. CASE Elapse(t)
    <2>1. /\ UNCHANGED <<status, payoutHandler, assignmentCount, asg, ledger, proc>>
          /\ clock[t] = "running" /\ clock' = [clock EXCEPT ![t] = "elapsed"]
          /\ clock \in [Timers -> {"unset", "running", "elapsed"}]
      BY <1>1 DEF Elapse, outside, SerialInv, IInv, RowsOK, RowsType
    <2>2. \A u \in Timers : /\ clock[u] = "elapsed" => clock'[u] = "elapsed"
                            /\ clock'[u] = "unset" <=> clock[u] = "unset"
      BY <2>1
    <2>3. SerialRows'
      BY <2>1, <2>2, TimerFacts
         DEF SerialInv, Serial, SerialRows, AssignmentsOK, LedgerOK, CountsClosed,
             Live, WithStatus, Banked
    <2>4. ASSUME NEW p \in Workers PROVE SerialWorker(proc[p])'
      <3>1. SerialWorker(proc[p]) /\ proc'[p] = proc[p]
        BY <2>1 DEF SerialInv, Serial
      <3>2. proc[p].pc = "commit" /\ proc[p].op = "autoWait"
              => proc[p].a \in AssignmentIds
        BY Committer DEF SerialInv, OnAssignment
      <3>3. /\ proc[p].pc = "commit" => StillTrue(proc[p])
            /\ proc[p].pc = "commit" /\ proc[p].op = "autoWait"
                 => clock'[Waiting(proc[p].a)] = "elapsed"
            /\ proc[p].pc = "commit" /\ proc[p].op = "autoWindow"
                 => clock'[Window] = "elapsed"
        BY <2>2, <3>1, <3>2, TimerFacts DEF SerialWorker, StillTrue
      <3>4. (proc[p].pc = "commit" => StillTrue(proc[p]))'
        BY <2>1, <3>1, <3>3 DEF StillTrue, Open, AnyOf, Banked
      <3> QED BY <2>1, <3>1, <3>4 DEF SerialWorker, Open, AnyOf, Banked
    <2> QED BY <2>3, <2>4 DEF Serial
  <1>2. CASE JobReturns(t)
    BY <1>2, SerialKept DEF SerialInv, JobReturns
  <1> QED BY <1>1, <1>2

\* assignToAgency ends without an assignment.
LEMMA UnlockedSerial ==
    ASSUME SerialInv, NoOverlap', NEW p \in Workers, proc[p].pc = "locked",
           NEW s, Unlocked(p, s),
           \/ s = status
           \/ /\ status \in {"PENDING", "PENDING_PLATFORM"}
              /\ \/ s = "PENDING"
                 \/ s = "PENDING_PLATFORM" /\ Open = {}
    PROVE  Serial'
  <1>1. /\ status' = s
        /\ UNCHANGED <<payoutHandler, assignmentCount, asg, clock, ledger>>
        /\ Committed(p, {}, {}, FALSE)
    BY DEF Unlocked
  <1>2. SerialRows'
    BY <1>1
       DEF SerialInv, Serial, SerialRows, AssignmentsOK, LedgerOK, CountsClosed,
           Live, WithStatus, Banked, Open
  <1> QED BY <1>1, <1>2, AfterCommit DEF Serial

\* The closed assignments are finitely many, and one more is one more.
LEMMA ClosedFacts ==
    /\ IsFiniteSet(Closed) /\ Cardinality(Closed) \in Nat
    /\ \A a : a \notin Closed =>
                Cardinality(Closed \cup {a}) = Cardinality(Closed) + 1
  <1>1. IsFiniteSet(Closed)
    <2>1. Closed \subseteq AssignmentIds
      BY DEF Closed, WithStatus
    <2> QED BY <2>1, FiniteAssumption, FS_Subset
  <1> QED BY <1>1, FS_CardinalityType, FS_AddElement

\* assignToAgency creates an assignment only while there is no live one.
LEMMA AssignSerial ==
    ASSUME SerialInv, NoOverlap', NEW p \in Workers, Assign(p)
    PROVE  Serial'
  <1>1. proc[p].pc = "locked" /\ proc[p].b \in AnyOf(Open)
    <2>1. proc[p].pc = "locked"
      BY DEF Assign, AssignNothing, AssignHeal, AssignExhausted, AssignNoAgency,
             AssignCreate, Picking
    <2> QED BY <2>1 DEF SerialInv, Serial, SerialWorker
  <1>2. CASE AssignNothing(p) \/ AssignHeal(p) \/ AssignExhausted(p)
               \/ AssignNoAgency(p)
    BY <1>1, <1>2, SawNone, UnlockedSerial
       DEF AssignNothing, AssignHeal, AssignExhausted, AssignNoAgency, Picking
  <1>3. CASE AssignCreate(p)
    <2>1. PICK g \in Agencies \ banned, a \in Fresh :
            /\ asg' = [asg EXCEPT ![a] = [status |-> "PENDING", agency |-> g]]
            /\ clock' = Runs(Sla(a))
            /\ Committed(p, {Sla(a)}, {Sla(a)}, FALSE)
      BY <1>3 DEF AssignCreate
    <2>2. /\ status \in {"PENDING", "PENDING_PLATFORM"} /\ status' = "PENDING"
          /\ proc[p].b = None
          /\ UNCHANGED <<payoutHandler, assignmentCount, ledger>>
      BY <1>3 DEF AssignCreate, Picking
    <2>3. a \in AssignmentIds /\ asg[a].status = "NONE" /\ Banked
      BY <1>1 DEF Fresh, WithStatus, SerialInv, Serial, SerialWorker
    <2>4. /\ \A i \in AssignmentIds : ~Live(i)
          /\ clock[Window] = "unset"
      BY <1>1, <2>2, SawNone
         DEF Open, Live, SerialInv, Serial, SerialRows, AssignmentsOK
    <2>5. /\ asg'[a].status = "PENDING"
          /\ \A i \in AssignmentIds \ {a} : asg'[i] = asg[i]
          /\ clock'[Window] = "unset"
      <3>1. Window # Sla(a)
        BY DEF Window, Sla
      <3> QED BY <2>1, <2>3, <2>4, <3>1, TimerFacts
              DEF SerialInv, IInv, RowsOK, RowsType, Runs
    <2>6. AssignmentsOK'
      BY <2>2, <2>3, <2>4, <2>5
         DEF SerialInv, Serial, SerialRows, AssignmentsOK, Live, Banked
    <2>7. LedgerOK'
      BY <2>2, <2>3, <2>4, <2>5
         DEF SerialInv, Serial, SerialRows, LedgerOK, Live
    <2>8. Closed' = Closed
      BY <2>3, <2>5 DEF Closed, WithStatus
    <2>9. CountsClosed'
      BY <2>2, <2>8 DEF SerialInv, Serial, SerialRows, CountsClosed, Closed
    <2> QED BY <2>1, <2>6, <2>7, <2>9, AfterCommit DEF Serial, SerialRows
  <1> QED BY <1>2, <1>3 DEF Assign

(***************************************************************************)
(* Commits                                                                 *)
(***************************************************************************)

\* What a handler has read is true when it commits.
LEMMA Believes ==
    ASSUME SerialInv, NEW p \in Workers, proc[p].pc = "commit"
    PROVE  StillTrue(proc[p])
  BY DEF SerialInv, Serial, SerialWorker

\* processSlaExpiry and agentRejectPayroll close the one live assignment and
\* count it.
LEMMA CloseCommitSerial ==
    ASSUME SerialInv, NoOverlap', NEW p \in Workers, CloseCommit(p)
    PROVE  Serial'
  <1> DEFINE a == proc[p].a
  <1>1. /\ proc[p].pc = "commit" /\ proc[p].op \in {"sla", "reject"}
        /\ a \in AssignmentIds
    BY Committer DEF CloseCommit, Committing, OnAssignment, SerialInv
  <1>2. asg[a].status = "PENDING"
    BY <1>1, Believes DEF StillTrue
  <1> HIDE DEF a
  <1>3. PICK s \in {"EXPIRED", "REJECTED"} : asg' = [asg EXCEPT ![a].status = s]
    BY DEF CloseCommit, a
  <1>4. /\ assignmentCount' = assignmentCount + 1
        /\ status' \in {status, "PENDING_PLATFORM"}
        /\ UNCHANGED <<payoutHandler, clock, ledger>>
        /\ Committed(p, {}, {}, assignmentCount' < MaxAttempts)
    BY DEF CloseCommit, outside
  <1>5. /\ asg'[a].status = s
        /\ \A i \in AssignmentIds \ {a} : asg'[i] = asg[i]
    BY <1>1, <1>3 DEF SerialInv, IInv, RowsOK, RowsType
  <1>6. /\ status = "PENDING" /\ Banked /\ clock[Window] = "unset"
        /\ \A i \in AssignmentIds \ {a} : ~Live(i)
    BY <1>1, <1>2 DEF Live, SerialInv, Serial, SerialRows, AssignmentsOK, a
  <1>7. AssignmentsOK'
    BY <1>4, <1>5, <1>6
       DEF SerialInv, Serial, SerialRows, AssignmentsOK, Live, Banked
  <1>8. LedgerOK'
    BY <1>1, <1>2, <1>4, <1>5, <1>6 DEF SerialInv, Serial, SerialRows, LedgerOK, Live
  <1>9. Closed' = Closed \cup {a} /\ a \notin Closed
    BY <1>1, <1>2, <1>5 DEF Closed, WithStatus, a
  <1>10. CountsClosed'
    BY <1>4, <1>6, <1>9, ClosedFacts
       DEF SerialInv, Serial, SerialRows, CountsClosed, Closed
  <1>11. (assignmentCount' < MaxAttempts) \in BOOLEAN
    OBVIOUS
  <1> QED BY <1>4, <1>6, <1>7, <1>8, <1>10, <1>11, AfterCommit
          DEF Serial, SerialRows, Banked

\* agentCompletePayroll: the one live assignment is WAITING, and the withdrawal
\* with it.
LEMMA CompleteCommitSerial ==
    ASSUME SerialInv, NoOverlap', NEW p \in Workers, CompleteCommit(p)
    PROVE  Serial'
  <1> DEFINE a == proc[p].a
  <1>1. proc[p].pc = "commit" /\ proc[p].op = "complete" /\ a \in AssignmentIds
    BY Committer DEF CompleteCommit, Committing, OnAssignment, SerialInv
  <1>2. asg[a].status = "PENDING"
    BY <1>1, Believes DEF StillTrue
  <1>3. /\ asg' = [asg EXCEPT ![a].status = "WAITING"]
        /\ clock' = Runs(Waiting(a)) /\ status' = "WAITING"
        /\ UNCHANGED <<payoutHandler, assignmentCount, ledger>>
        /\ Committed(p, {Waiting(a)}, {Waiting(a)}, FALSE)
    BY DEF CompleteCommit, outside
  <1> HIDE DEF a
  <1>4. /\ status = "PENDING" /\ Banked /\ clock[Window] = "unset"
        /\ \A i \in AssignmentIds \ {a} : ~Live(i)
    BY <1>1, <1>2 DEF Live, SerialInv, Serial, SerialRows, AssignmentsOK
  <1>5. /\ asg'[a].status = "WAITING"
        /\ \A i \in AssignmentIds \ {a} : asg'[i] = asg[i]
        /\ clock'[Window] = "unset"
    <2>1. Window # Waiting(a)
      BY DEF Window, Waiting
    <2> QED BY <1>1, <1>3, <1>4, <2>1, TimerFacts
            DEF SerialInv, IInv, RowsOK, RowsType, Runs
  <1>6. AssignmentsOK'
    BY <1>3, <1>4, <1>5
       DEF SerialInv, Serial, SerialRows, AssignmentsOK, Live, Banked
  <1>7. LedgerOK'
    BY <1>1, <1>2, <1>3, <1>4, <1>5 DEF SerialInv, Serial, SerialRows, LedgerOK, Live
  <1>8. Closed' = Closed
    BY <1>1, <1>2, <1>5 DEF Closed, WithStatus
  <1>9. CountsClosed'
    BY <1>3, <1>4, <1>8 DEF SerialInv, Serial, SerialRows, CountsClosed, Closed
  <1> QED BY <1>3, <1>6, <1>7, <1>9, AfterCommit DEF Serial, SerialRows

\* The platform pays while no assignment is live.
LEMMA PayoutCommitSerial ==
    ASSUME SerialInv, NoOverlap', NEW p \in Workers, PayoutCommit(p)
    PROVE  Serial'
  <1>1. status = "PENDING_PLATFORM"
    BY Believes DEF PayoutCommit, Committing, StillTrue
  <1>2. /\ status' = "WAITING" /\ clock' = Runs(Window)
        /\ UNCHANGED <<payoutHandler, assignmentCount, asg, ledger>>
        /\ Committed(p, {Window}, {Window}, FALSE)
    BY DEF PayoutCommit, outside
  <1>3. \A a \in AssignmentIds : ~Live(a)
    BY <1>1 DEF Live, SerialInv, Serial, SerialRows, AssignmentsOK
  <1>4. AssignmentsOK'
    BY <1>2, <1>3 DEF SerialInv, Serial, SerialRows, AssignmentsOK, Live, Banked
  <1>5. LedgerOK'
    BY <1>1, <1>2 DEF SerialInv, Serial, SerialRows, LedgerOK
  <1>6. CountsClosed'
    BY <1>1, <1>2 DEF SerialInv, Serial, SerialRows, CountsClosed, WithStatus
  <1> QED BY <1>2, <1>4, <1>5, <1>6, AfterCommit DEF Serial, SerialRows

\* adminCompletePayrollForAgency: the new WAITING assignment is the one live, and
\* the one it supersedes is counted.
LEMMA ManualCompleteCommitSerial ==
    ASSUME SerialInv, NoOverlap', NEW p \in Workers, ManualCompleteCommit(p)
    PROVE  Serial'
  <1> DEFINE a == proc[p].a
             b == proc[p].b
             superseded == {b} \ {a, None}
  <1>1. proc[p].pc = "commit" /\ proc[p].op = "manualComplete" /\ a \in AssignmentIds
    BY Committer DEF ManualCompleteCommit, Committing, OnAssignment, SerialInv
  <1>2. /\ Banked /\ status \in {"PENDING", "PENDING_PLATFORM"}
        /\ b \in AnyOf(Open) /\ (a = b \/ asg[a].status = "NONE")
    BY <1>1, Believes DEF StillTrue
  <1>3. /\ asg' = [i \in AssignmentIds |->
                     IF i = a THEN [status |-> "WAITING", agency |-> proc[p].ag]
                     ELSE IF i \in superseded
                     THEN [asg[i] EXCEPT !.status = "REJECTED"]
                     ELSE asg[i]]
        /\ assignmentCount' = IF superseded = {} THEN assignmentCount
                              ELSE assignmentCount + 1
        /\ clock' = Runs(Waiting(a)) /\ status' = "WAITING"
        /\ UNCHANGED <<payoutHandler, ledger>>
        /\ Committed(p, {Waiting(a)}, {Waiting(a)}, FALSE)
    BY DEF ManualCompleteCommit, outside
  <1>4. superseded \subseteq Open /\ a \notin superseded
    BY <1>2 DEF AnyOf
  <1>5. \A i \in AssignmentIds : Live(i) => i = b /\ asg[i].status = "PENDING"
    BY <1>2 DEF AnyOf, Open, Live, SerialInv, Serial, SerialRows, AssignmentsOK
  <1>6. clock[Window] = "unset"
    BY <1>2 DEF SerialInv, Serial, SerialRows, AssignmentsOK
  <1>7. \A i \in AssignmentIds \ {a} : i = b => i \in superseded
    BY NoneAssumption
  <1>8. superseded = {} \/ (superseded = {b} /\ b \in Open)
    BY <1>4
  <1> HIDE DEF superseded, a, b
  <1>9. /\ asg'[a].status = "WAITING"
        /\ \A i \in superseded : asg'[i].status = "REJECTED"
        /\ \A i \in AssignmentIds \ ({a} \cup superseded) : asg'[i] = asg[i]
        /\ clock'[Window] = "unset"
    <2>1. Window # Waiting(a)
      BY DEF Window, Waiting
    <2> QED BY <1>1, <1>3, <1>4, <1>6, <2>1, TimerFacts
            DEF SerialInv, IInv, RowsOK, RowsType, Runs, Open
  <1>10. asg[a].status \in {"NONE", "PENDING"}
    BY <1>1, <1>2, <1>5, NoneAssumption DEF AnyOf, Open, Live, a, b
  <1>11. \A i \in superseded : i \in AssignmentIds /\ asg[i].status = "PENDING"
    BY <1>4, <1>5 DEF Open, Live
  <1>12. \A i \in AssignmentIds \ {a} : ~Live(i)'
    BY <1>5, <1>7, <1>9 DEF Live
  <1>13. AssignmentsOK'
    BY <1>2, <1>3, <1>9, <1>12
       DEF SerialInv, Serial, SerialRows, AssignmentsOK, Live, Banked
  <1>14. LedgerOK'
    <2>1. \A i \in AssignmentIds : /\ asg[i].status # "COMPLETED"
                                   /\ asg'[i].status # "COMPLETED"
      BY <1>5, <1>9, <1>12 DEF Live
    <2> QED BY <1>2, <1>3, <2>1 DEF SerialInv, Serial, SerialRows, LedgerOK
  <1>15. CountsClosed'
    <2>1. Closed' = Closed \cup superseded
      BY <1>1, <1>9, <1>10, <1>11 DEF Closed, WithStatus
    <2>2. superseded \cap Closed = {}
      BY <1>11 DEF Closed, WithStatus
    <2>3. assignmentCount = Cardinality(Closed)
      BY <1>2 DEF SerialInv, Serial, SerialRows, CountsClosed, Closed
    <2>4. CASE superseded = {}
      BY <1>3, <2>1, <2>3, <2>4 DEF CountsClosed, Closed
    <2>5. CASE superseded = {b}
      <3>1. Closed' = Closed \cup {b} /\ b \notin Closed
        BY <2>1, <2>2, <2>5
      <3>2. assignmentCount' = assignmentCount + 1
        BY <1>3, <2>5
      <3> QED BY <2>3, <3>1, <3>2, ClosedFacts DEF CountsClosed, Closed
    <2> QED BY <1>8, <2>4, <2>5
  <1> QED BY <1>3, <1>13, <1>14, <1>15, AfterCommit DEF Serial, SerialRows

\* adminUpdatePayrollProof writes back what is there.
LEMMA ProofCommitSerial ==
    ASSUME SerialInv, NoOverlap', NEW p \in Workers, ProofCommit(p)
    PROVE  Serial'
  <1>1. proc[p].pc = "commit" /\ proc[p].op = "proof" /\ proc[p] \in Worker
    BY Committer DEF ProofCommit, SerialInv
  <1>2. proc[p].saw = IF proc[p].a = None THEN status ELSE asg[proc[p].a].status
    BY <1>1, Believes DEF StillTrue
  <1>3. UNCHANGED <<status, asg>>
    <2>1. CASE proc[p].a = None
      BY <1>2, <2>1 DEF ProofCommit
    <2>2. CASE proc[p].a # None
      <3>1. proc[p].a \in AssignmentIds
        BY <1>1, <2>2 DEF Worker
      <3>2. UNCHANGED status
            /\ asg' = [asg EXCEPT ![proc[p].a].status = asg[proc[p].a].status]
        BY <1>2, <2>2 DEF ProofCommit
      <3> QED BY <3>1, <3>2 DEF SerialInv, IInv, RowsOK, RowsType
    <2> QED BY <2>1, <2>2
  <1>4. /\ UNCHANGED <<payoutHandler, assignmentCount, clock, ledger>>
        /\ Committed(p, {}, {}, FALSE)
    BY DEF ProofCommit, outside
  <1>5. SerialRows'
    BY <1>3, <1>4
       DEF SerialInv, Serial, SerialRows, AssignmentsOK, LedgerOK, CountsClosed,
           Live, WithStatus, Banked
  <1> QED BY <1>4, <1>5, AfterCommit DEF Serial

\* An agency is credited: its assignment is the one live, and nobody else was.
LEMMA CreditCommitSerial ==
    ASSUME SerialInv, NoOverlap', NEW p \in Workers,
           AutoWaitCommit(p) \/ FavourAgentCommit(p)
    PROVE  Serial'
  <1> DEFINE a == proc[p].a
  <1>1. /\ proc[p].pc = "commit" /\ proc[p].op \in {"autoWait", "favourAgent"}
        /\ a \in AssignmentIds
    BY Committer
       DEF AutoWaitCommit, FavourAgentCommit, Committing, OnAssignment, SerialInv
  <1>2. asg[a].status = "WAITING"
    BY <1>1, Believes DEF StillTrue
  <1>3. /\ asg' = [asg EXCEPT ![a].status = "COMPLETED"]
        /\ status' = "PAID" /\ ledger' = ledger \cup {Payout(a)}
        /\ UNCHANGED <<payoutHandler, assignmentCount, clock>>
        /\ Committed(p, {}, {}, FALSE)
    BY DEF AutoWaitCommit, FavourAgentCommit, outside
  <1> HIDE DEF a
  <1>4. /\ status \in {"WAITING", "DISPUTED"} /\ Banked /\ clock[Window] = "unset"
        /\ \A i \in AssignmentIds \ {a} : ~Live(i)
    BY <1>1, <1>2 DEF Live, SerialInv, Serial, SerialRows, AssignmentsOK
  <1>5. /\ asg'[a].status = "COMPLETED"
        /\ \A i \in AssignmentIds \ {a} : asg'[i] = asg[i]
    BY <1>1, <1>3 DEF SerialInv, IInv, RowsOK, RowsType
  <1>6. AssignmentsOK'
    BY <1>3, <1>4, <1>5
       DEF SerialInv, Serial, SerialRows, AssignmentsOK, Live, Banked
  <1>7. LedgerOK'
    BY <1>2, <1>3, <1>4, <1>5, KeyFacts
       DEF SerialInv, Serial, SerialRows, LedgerOK, Live
  <1>8. Closed' = Closed
    BY <1>1, <1>2, <1>5 DEF Closed, WithStatus
  <1>9. CountsClosed'
    BY <1>3, <1>4, <1>8 DEF SerialInv, Serial, SerialRows, CountsClosed, Closed
  <1> QED BY <1>3, <1>6, <1>7, <1>9, AfterCommit DEF Serial, SerialRows

\* The window of a platform payout ends: no agency holds or has held a credit.
LEMMA AutoWindowCommitSerial ==
    ASSUME SerialInv, NoOverlap', NEW p \in Workers, AutoWindowCommit(p)
    PROVE  Serial'
  <1>1. status = "WAITING" /\ clock[Window] = "elapsed"
    BY Believes DEF AutoWindowCommit, Committing, StillTrue
  <1>2. /\ status' = "PAID"
        /\ ledger' = IF Banked THEN ledger \cup {Takeover} ELSE ledger
        /\ UNCHANGED <<payoutHandler, assignmentCount, asg, clock>>
        /\ Committed(p, {}, {}, FALSE)
    BY DEF AutoWindowCommit, outside
  <1>3. \A a \in AssignmentIds : ~Live(a)
    BY <1>1 DEF SerialInv, Serial, SerialRows, AssignmentsOK
  <1>4. AssignmentsOK'
    BY <1>2, <1>3 DEF SerialInv, Serial, SerialRows, AssignmentsOK, Live, Banked
  <1>5. LedgerOK'
    BY <1>1, <1>2, <1>3, KeyFacts DEF SerialInv, Serial, SerialRows, LedgerOK, Live
  <1>6. CountsClosed'
    BY <1>1, <1>2 DEF SerialInv, Serial, SerialRows, CountsClosed, WithStatus
  <1> QED BY <1>2, <1>4, <1>5, <1>6, AfterCommit DEF Serial, SerialRows

\* A dispute is raised while the payout waits or after it was settled.
LEMMA DisputeCommitSerial ==
    ASSUME SerialInv, NoOverlap', NEW p \in Workers, DisputeCommit(p)
    PROVE  Serial'
  <1>1. status \in {"WAITING", "PAID"}
    BY Believes DEF DisputeCommit, Committing, StillTrue
  <1>2. /\ status' = "DISPUTED"
        /\ UNCHANGED <<payoutHandler, assignmentCount, asg, clock, ledger>>
        /\ Committed(p, {}, {}, FALSE)
    BY DEF DisputeCommit, outside
  <1>3. AssignmentsOK'
    BY <1>1, <1>2 DEF SerialInv, Serial, SerialRows, AssignmentsOK, Live, Banked
  <1>4. LedgerOK'
    BY <1>1, <1>2 DEF SerialInv, Serial, SerialRows, LedgerOK
  <1>5. CountsClosed'
    BY <1>1, <1>2 DEF SerialInv, Serial, SerialRows, CountsClosed, WithStatus
  <1> QED BY <1>2, <1>3, <1>4, <1>5, AfterCommit DEF Serial, SerialRows

\* A platform dispute ends: such a withdrawal has no assignments.
LEMMA ResolveCommitSerial ==
    ASSUME SerialInv, NoOverlap', NEW p \in Workers, ResolveCommit(p)
    PROVE  Serial'
  <1>1. status = "DISPUTED" /\ ~Banked
    BY Believes, Committer
       DEF ResolveCommit, Committing, StillTrue, WorkerOK, SerialInv, Banked
  <1>2. /\ \/ status' = "PAID" /\ UNCHANGED ledger
           \/ status' = "FAILED" /\ ledger' = ledger \cup {Refund}
        /\ UNCHANGED <<payoutHandler, assignmentCount, asg, clock>>
        /\ Committed(p, {}, {}, FALSE)
    BY DEF ResolveCommit, outside
  <1>3. \A a \in AssignmentIds : asg[a].status = "NONE"
    BY <1>1 DEF SerialInv, Serial, SerialRows, AssignmentsOK
  <1>4. AssignmentsOK'
    BY <1>1, <1>2, <1>3
       DEF SerialInv, Serial, SerialRows, AssignmentsOK, Live, Banked
  <1>5. LedgerOK'
    BY <1>1, <1>2, <1>3, KeyFacts DEF SerialInv, Serial, SerialRows, LedgerOK
  <1>6. CountsClosed'
    BY <1>1, <1>2 DEF SerialInv, Serial, SerialRows, CountsClosed, WithStatus
  <1> QED BY <1>2, <1>4, <1>5, <1>6, AfterCommit DEF Serial, SerialRows

\* A dispute decided for the host closes the one live assignment and counts it;
\* it was never credited, so nothing is taken back.
LEMMA FavourHostCommitSerial ==
    ASSUME SerialInv, NoOverlap', NEW p \in Workers, FavourHostCommit(p)
    PROVE  Serial'
  <1> DEFINE a == proc[p].a
  <1>1. proc[p].pc = "commit" /\ proc[p].op = "favourHost" /\ a \in AssignmentIds
    BY Committer DEF FavourHostCommit, Committing, OnAssignment, SerialInv
  <1>2. status = "DISPUTED" /\ asg[a].status = "WAITING"
    BY <1>1, Believes DEF StillTrue
  <1>3. /\ asg' = [asg EXCEPT ![a].status = "REJECTED"]
        /\ status' = "PENDING" /\ assignmentCount' = assignmentCount + 1
        /\ ledger' = ledger \cup Reversed(a)
        /\ UNCHANGED <<payoutHandler, clock>>
        /\ Committed(p, {}, {}, TRUE)
    BY DEF FavourHostCommit, outside
  <1> HIDE DEF a
  <1>4. Reversed(a) = {}
    BY <1>1, <1>2 DEF Reversed, SerialInv, Serial, SerialRows, LedgerOK
  <1>5. /\ Banked /\ clock[Window] = "unset"
        /\ \A i \in AssignmentIds \ {a} : ~Live(i)
    BY <1>1, <1>2 DEF Live, SerialInv, Serial, SerialRows, AssignmentsOK
  <1>6. /\ asg'[a].status = "REJECTED"
        /\ \A i \in AssignmentIds \ {a} : asg'[i] = asg[i]
    BY <1>1, <1>3 DEF SerialInv, IInv, RowsOK, RowsType
  <1>7. AssignmentsOK'
    BY <1>3, <1>5, <1>6
       DEF SerialInv, Serial, SerialRows, AssignmentsOK, Live, Banked
  <1>8. LedgerOK'
    BY <1>2, <1>3, <1>4, <1>5, <1>6
       DEF SerialInv, Serial, SerialRows, LedgerOK, Live
  <1>9. Closed' = Closed \cup {a} /\ a \notin Closed
    BY <1>1, <1>2, <1>6 DEF Closed, WithStatus
  <1>10. CountsClosed'
    BY <1>2, <1>3, <1>9, ClosedFacts
       DEF SerialInv, Serial, SerialRows, CountsClosed, Closed
  <1> QED BY <1>3, <1>5, <1>7, <1>8, <1>10, AfterCommit
          DEF Serial, SerialRows, Banked

\* adminReverseWithdrawal closes what is open and takes back what was credited.
LEMMA ReverseCommitSerial ==
    ASSUME SerialInv, NoOverlap', NEW p \in Workers, ReverseCommit(p)
    PROVE  Serial'
  <1> DEFINE a == proc[p].a
             b == proc[p].b
  <1>1. /\ proc[p].pc = "commit" /\ proc[p].op \in {"reverse", "freeze"}
        /\ a \in AssignmentIds \cup {None}
    BY Committer DEF ReverseCommit, Committing, SerialInv, Worker
  <1>2. /\ status \in WithdrawalStatus \ {"FAILED"} /\ b \in AnyOf(Open)
        /\ \A i \in AssignmentIds : asg[i].status = "COMPLETED" => i = a
    BY <1>1, Believes DEF StillTrue
  <1>3. /\ asg' = [i \in AssignmentIds |->
                     IF i = b THEN [asg[i] EXCEPT !.status = "EXPIRED"]
                     ELSE asg[i]]
        /\ status' = "FAILED"
        /\ ledger' = ledger \cup {Refund} \cup Reversed(a)
        /\ UNCHANGED <<payoutHandler, clock>>
        /\ Committed(p, {}, {}, FALSE)
    BY DEF ReverseCommit, outside
  <1> HIDE DEF a, b
  <1>4. \A i \in AssignmentIds : i \in Open <=> i = b
    BY <1>2, NoneAssumption
       DEF AnyOf, Open, Live, SerialInv, Serial, SerialRows, AssignmentsOK
  <1>5. \A i \in AssignmentIds :
          /\ asg'[i].status = IF i = b THEN "EXPIRED" ELSE asg[i].status
          /\ asg'[i].status \notin {"PENDING", "WAITING"}
          /\ asg'[i].status = "COMPLETED" <=> asg[i].status = "COMPLETED"
    <2>1. \A i \in AssignmentIds :
            asg'[i].status = IF i = b THEN "EXPIRED" ELSE asg[i].status
      BY <1>3 DEF SerialInv, IInv, RowsOK, RowsType
    <2> QED BY <1>4, <2>1 DEF Open
  <1>6. AssignmentsOK'
    BY <1>3, <1>4, <1>5
       DEF SerialInv, Serial, SerialRows, AssignmentsOK, Live, Banked, Open
  <1>7. \A i \in AssignmentIds :
          Reversal(i) \in Reversed(a) <=> i = a /\ Payout(i) \in ledger
    BY NoneAssumption, KeyFacts DEF Reversed
  <1>8. LedgerOK'
    BY <1>1, <1>2, <1>3, <1>5, <1>7, ReversedFacts, KeyFacts
       DEF SerialInv, Serial, SerialRows, LedgerOK
  <1>9. CountsClosed'
    BY <1>3 DEF CountsClosed
  <1> QED BY <1>3, <1>6, <1>8, <1>9, AfterCommit DEF Serial, SerialRows

\* banAgencyByAdmin closes and counts the one open assignment, if the agency
\* holds it.
LEMMA BanCommitSerial ==
    ASSUME SerialInv, NoOverlap', NEW p \in Workers, BanCommit(p)
    PROVE  Serial'
  <1> DEFINE held == {a \in AssignmentIds : Sla(a) \in proc[p].rm}
  <1>1. held \subseteq Open
    BY Believes DEF BanCommit, Committing, StillTrue
  <1>2. /\ asg' = [a \in AssignmentIds |->
                     IF a \in held THEN [asg[a] EXCEPT !.status = "EXPIRED"]
                     ELSE asg[a]]
        /\ assignmentCount' = assignmentCount + Cardinality(held)
        /\ status' = IF held = {} THEN status ELSE "PENDING"
        /\ Committed(p, {}, {}, held # {})
        /\ UNCHANGED <<payoutHandler, clock, ledger>>
    BY DEF BanCommit, outside
  <1> HIDE DEF held
  <1>3. CASE held = {}
    <2>1. Cardinality(held) = 0
      BY <1>3, FS_EmptySet
    <2>2. asg' = asg /\ assignmentCount' = assignmentCount /\ status' = status
      BY <1>2, <1>3, <2>1 DEF SerialInv, IInv, RowsOK, RowsType
    <2>3. SerialRows'
      BY <1>2, <2>2
         DEF SerialInv, Serial, SerialRows, AssignmentsOK, LedgerOK, CountsClosed,
             Live, WithStatus, Banked
    <2> QED BY <1>2, <1>3, <2>3, AfterCommit DEF Serial
  <1>4. CASE held # {}
    <2>1. PICK a : a \in held
      BY <1>4
    <2>2. a \in AssignmentIds /\ asg[a].status \in {"PENDING", "WAITING"}
      BY <1>1, <2>1 DEF Open
    <2>3. held = {a}
      BY <1>1, <2>1, <2>2
         DEF Open, Live, SerialInv, Serial, SerialRows, AssignmentsOK
    <2>4. Cardinality(held) = 1
      BY <2>3, FS_Singleton
    <2>5. /\ asg'[a].status = "EXPIRED"
          /\ \A i \in AssignmentIds \ {a} : asg'[i] = asg[i]
      BY <1>2, <2>2, <2>3 DEF SerialInv, IInv, RowsOK, RowsType
    <2>6. /\ Banked /\ clock[Window] = "unset" /\ status # "FAILED"
          /\ status' = "PENDING" /\ assignmentCount' = assignmentCount + 1
          /\ \A i \in AssignmentIds \ {a} : ~Live(i)
      BY <1>2, <1>4, <2>2, <2>4
         DEF Live, SerialInv, Serial, SerialRows, AssignmentsOK
    <2>7. AssignmentsOK'
      BY <1>2, <2>5, <2>6
         DEF SerialInv, Serial, SerialRows, AssignmentsOK, Live, Banked
    <2>8. LedgerOK'
      <3>1. Takeover \notin ledger
        BY <2>6 DEF SerialInv, Serial, SerialRows, LedgerOK
      <3> QED BY <1>2, <2>2, <2>5, <2>6, <3>1
              DEF SerialInv, Serial, SerialRows, LedgerOK, Live
    <2>9. Closed' = Closed \cup {a} /\ a \notin Closed
      BY <2>2, <2>5 DEF Closed, WithStatus
    <2>10. CountsClosed'
      BY <2>6, <2>9, ClosedFacts
         DEF SerialInv, Serial, SerialRows, CountsClosed, Closed
    <2> QED BY <1>2, <2>6, <2>7, <2>8, <2>10, AfterCommit
            DEF Serial, SerialRows, Banked
  <1> QED BY <1>3, <1>4

(***************************************************************************)
(* The invariant                                                           *)
(***************************************************************************)

\* It holds before the withdrawal exists.
LEMMA SerialInit == Init => SerialInv
  <1> SUFFICES ASSUME Init PROVE SerialInv
    OBVIOUS
  <1>1. clock[Window] = "unset"
    BY TimerFacts DEF Init
  <1>2. /\ \A a \in AssignmentIds : asg[a].status = "NONE"
        /\ status = "NONE" /\ ledger = {} /\ assignmentCount = 0
    BY DEF Init
  <1>3. AssignmentsOK /\ LedgerOK
    BY <1>1, <1>2 DEF AssignmentsOK, LedgerOK, Live
  <1>4. WithStatus("EXPIRED") \cup WithStatus("REJECTED") = {}
    BY <1>2 DEF WithStatus
  <1>5. CountsClosed
    BY <1>2, <1>4, FS_EmptySet DEF CountsClosed
  <1>6. \A p \in Workers : SerialWorker(proc[p])
    BY DEF Init, Idle, SerialWorker
  <1> QED BY <1>3, <1>5, <1>6, InitOK DEF SerialInv, Serial, SerialRows

\* Every step of a handler that no other overlaps keeps it.
LEMMA SerialStep == SerialInv /\ NoOverlap /\ NoOverlap' /\ [Next]_vars => SerialInv'
  <1> SUFFICES ASSUME SerialInv, NoOverlap, NoOverlap', [Next]_vars PROVE Serial'
    BY NextOK DEF SerialInv
  <1>1. CASE UNCHANGED vars
    BY <1>1, SerialKept DEF vars, rows, SerialInv
  <1>2. ASSUME NEW t \in Timers, Elapse(t) \/ JobReturns(t)
        PROVE  Serial'
    BY <1>2, TimerStepSerial
  <1>3. ASSUME NEW p \in Workers, Read(p)
        PROVE  Serial'
    BY <1>3, CreateSerial, SelectSerial, PayoutReadSerial, ManualCompleteReadSerial,
       ProofReadSerial, DisputeReadSerial, ResolveReadSerial, FavourReadSerial,
       BanReadSerial, ReverseReadSerial, AgencyReadSerial DEF Read
  <1>4. ASSUME NEW p \in Workers, Commit(p)
        PROVE  Serial'
    BY <1>4, CloseCommitSerial, CompleteCommitSerial, PayoutCommitSerial,
       ManualCompleteCommitSerial, ProofCommitSerial, CreditCommitSerial,
       AutoWindowCommitSerial, DisputeCommitSerial, ResolveCommitSerial,
       FavourHostCommitSerial, ReverseCommitSerial, BanCommitSerial DEF Commit
  <1>5. ASSUME NEW p \in Workers,
               \/ RunJob(p) \/ LockRow(p) \/ Assign(p) \/ UpdateQueue(p)
               \/ TxReturns(p) \/ DebitRefused(p) \/ FreezeReturns(p)
               \/ SafetyNet(p) \/ Fail(p)
        PROVE  Serial'
    BY <1>5, RunJobSerial, LockRowSerial, AssignSerial, UpdateQueueSerial,
       TxReturnsSerial, EndsSerial, SafetyNetSerial
  <1> QED BY <1>1, <1>2, <1>3, <1>4, <1>5 DEF Next

\* So it always holds while handlers do not overlap.
LEMMA SerialAlways == Spec /\ []NoOverlap => []SerialInv
  BY SerialInit, SerialStep, PTL DEF Spec

(***************************************************************************)
(* The theorems                                                            *)
(***************************************************************************)

\* A set whose elements are equal has at most one.
LEMMA AtMostOne ==
    ASSUME NEW S, \A x, y \in S : x = y
    PROVE  Cardinality(S) \in 0..1
  <1>1. CASE S = {}
    BY <1>1, FS_EmptySet
  <1>2. CASE S # {}
    <2>1. PICK x : S = {x}
      BY <1>2
    <2> QED BY <2>1, FS_Singleton
  <1> QED BY <1>1, <1>2

\* As long as handlers do not overlap, assignToAgency, the agency's answers, the
\* SLA job, disputes, reversals and bans, crashes and retries included, never
\* leave a withdrawal with two open assignments.
THEOREM OneOpenSerially == Spec /\ []NoOverlap => []OneOpenAssignment
  <1>1. SerialInv => OneOpenAssignment
    <2> SUFFICES ASSUME SerialInv PROVE OneOpenAssignment
      OBVIOUS
    <2>1. \A a, b \in Open : a = b
      BY DEF Open, Live, SerialInv, Serial, SerialRows, AssignmentsOK
    <2>2. Cardinality(Open) \in 0..1
      BY <2>1, AtMostOne
    <2> QED BY <2>2 DEF OneOpenAssignment
  <1> QED BY <1>1, SerialAlways, PTL

\* As long as handlers do not overlap, no agency holds a BANK withdrawal that
\* the platform may pay or has paid itself.
THEOREM PlatformAloneSerially == Spec /\ []NoOverlap => []PlatformAlone
  <1>1. SerialInv => PlatformAlone
    BY DEF Open, Live, SerialInv, Serial, SerialRows, AssignmentsOK, PlatformAlone
  <1> QED BY <1>1, SerialAlways, PTL

\* As long as handlers do not overlap, incrementAssignmentCount has counted
\* every assignment that an agency lost, unless the withdrawal was reversed.
THEOREM CountsClosedSerially == Spec /\ []NoOverlap => []CountsClosed
  <1>1. SerialInv => CountsClosed
    BY DEF SerialInv, Serial, SerialRows
  <1> QED BY <1>1, SerialAlways, PTL

\* Who holds a credit, by the ledger: only the agency of the COMPLETED
\* assignment, and none once the host was refunded.
LEMMA CreditedAre ==
    ASSUME SerialInv
    PROVE  /\ Credited = IF status = "FAILED" THEN {} ELSE WithStatus("COMPLETED")
           /\ \A a, b \in Credited : a = b
           /\ Takeover \in ledger => Credited = {}
  <1>1. Credited = IF status = "FAILED" THEN {} ELSE WithStatus("COMPLETED")
    BY DEF Credited, WithStatus, Exists, SerialInv, Serial, SerialRows, LedgerOK
  <1>2. \A a, b \in WithStatus("COMPLETED") : a = b
    BY DEF WithStatus, Live, SerialInv, Serial, SerialRows, AssignmentsOK
  <1>3. Takeover \in ledger => WithStatus("COMPLETED") = {}
    BY DEF WithStatus, Live, SerialInv, Serial, SerialRows, AssignmentsOK, LedgerOK
  <1> QED BY <1>1, <1>2, <1>3

\* As long as handlers do not overlap, the points of the host are credited to
\* one agency or to the company or refunded, and the statuses say which.
THEOREM PointsInOnePlaceSerially == Spec /\ []NoOverlap => []PointsInOnePlace
  <1>1. SerialInv => PointsInOnePlace
    <2> SUFFICES ASSUME SerialInv PROVE PointsInOnePlace
      OBVIOUS
    <2>1. Cardinality(Credited) \in 0..1 /\ (Credited = {} => Cardinality(Credited) = 0)
      BY CreditedAre, AtMostOne, FS_EmptySet
    <2>2. Cardinality(Credited) + (IF Exists(Takeover) THEN 1 ELSE 0) <= 1
      BY <2>1, CreditedAre DEF Exists
    <2>3. Exists(Refund) <=> status = "FAILED"
      BY DEF Exists, SerialInv, Serial, SerialRows, LedgerOK
    <2>4. Banked /\ status = "PAID" => Credited # {} \/ Exists(Takeover)
      BY CreditedAre
         DEF Exists, WithStatus, RowsMatchLedger, RowsOK, IInv, SerialInv, Serial,
             SerialRows, LedgerOK
    <2> QED BY <2>2, <2>3, <2>4, CreditedAre DEF PointsInOnePlace
  <1> QED BY <1>1, SerialAlways, PTL

\* What one step does to the ledger.
Opens == status = "NONE" /\ ledger' = ledger \cup {Debit}
CreditsAgency(a) ==
    /\ ledger' = ledger \cup {Payout(a)}
    /\ asg[a].status = "WAITING"
    /\ clock[Waiting(a)] = "elapsed" \/ status = "DISPUTED"
CreditsCompany ==
    /\ ledger' = ledger \cup {Takeover}
    /\ status = "WAITING" /\ clock[Window] # "unset"
Refunds ==
    /\ Debit \in ledger
    /\ \E R \in SUBSET {Reversal(a) : a \in AssignmentIds} :
         ledger' = ledger \cup {Refund} \cup R

\* A commit leaves the ledger alone or credits one party or refunds the host.
LEMMA CommitLedger ==
    ASSUME SerialInv, NEW p \in Workers, Commit(p)
    PROVE  \/ UNCHANGED ledger \/ CreditsCompany \/ Refunds
           \/ \E a \in AssignmentIds : CreditsAgency(a)
  <1>1. CASE CloseCommit(p) \/ CompleteCommit(p) \/ PayoutCommit(p)
               \/ ManualCompleteCommit(p) \/ ProofCommit(p) \/ DisputeCommit(p)
               \/ BanCommit(p)
    BY <1>1 DEF CloseCommit, CompleteCommit, PayoutCommit, ManualCompleteCommit,
                ProofCommit, DisputeCommit, BanCommit
  <1>2. CASE AutoWaitCommit(p) \/ FavourAgentCommit(p)
    <2>1. /\ proc[p].pc = "commit" /\ proc[p].op \in {"autoWait", "favourAgent"}
          /\ proc[p].a \in AssignmentIds
      BY <1>2, Committer
         DEF AutoWaitCommit, FavourAgentCommit, Committing, OnAssignment, SerialInv
    <2>2. StillTrue(proc[p]) /\ ledger' = ledger \cup {Payout(proc[p].a)}
      BY <1>2, <2>1, Believes DEF AutoWaitCommit, FavourAgentCommit
    <2>3. CreditsAgency(proc[p].a)
      BY <2>1, <2>2 DEF StillTrue, CreditsAgency
    <2> QED BY <2>1, <2>3
  <1>3. CASE AutoWindowCommit(p)
    BY <1>3, Believes
       DEF AutoWindowCommit, Committing, StillTrue, CreditsCompany
  <1>4. CASE ResolveCommit(p)
    <2>1. Debit \in ledger
      BY <1>4, Committer DEF ResolveCommit, Committing, SerialInv
    <2>2. UNCHANGED ledger \/ ledger' = ledger \cup {Refund} \cup {}
      BY <1>4 DEF ResolveCommit
    <2> QED BY <2>1, <2>2 DEF Refunds
  <1>5. CASE FavourHostCommit(p)
    <2>1. proc[p].pc = "commit" /\ proc[p].op = "favourHost" /\ proc[p].a \in AssignmentIds
      BY <1>5, Committer DEF FavourHostCommit, Committing, OnAssignment, SerialInv
    <2>2. asg[proc[p].a].status = "WAITING"
      BY <2>1, Believes DEF StillTrue
    <2>3. Reversed(proc[p].a) = {}
      BY <2>1, <2>2 DEF Reversed, SerialInv, Serial, SerialRows, LedgerOK
    <2> QED BY <1>5, <2>3 DEF FavourHostCommit
  <1>6. CASE ReverseCommit(p)
    <2>1. Debit \in ledger /\ proc[p].a \in AssignmentIds \cup {None}
      BY <1>6, Committer DEF ReverseCommit, Committing, SerialInv, Worker
    <2>2. Reversed(proc[p].a) \in SUBSET {Reversal(a) : a \in AssignmentIds}
      BY <2>1 DEF Reversed
    <2> QED BY <1>6, <2>1, <2>2 DEF ReverseCommit, Refunds
  <1> QED BY <1>1, <1>2, <1>3, <1>4, <1>5, <1>6 DEF Commit

\* Only createWithdrawal and the commits write to the ledger.
LEMMA StepLedger ==
    ASSUME SerialInv, [Next]_vars
    PROVE  \/ UNCHANGED ledger \/ Opens \/ CreditsCompany \/ Refunds
           \/ \E a \in AssignmentIds : CreditsAgency(a)
  <1>1. CASE UNCHANGED vars
    BY <1>1 DEF vars
  <1>2. ASSUME NEW t \in Timers, Elapse(t) \/ JobReturns(t)
        PROVE  UNCHANGED ledger
    BY <1>2 DEF Elapse, JobReturns, rows
  <1>3. ASSUME NEW p \in Workers, Read(p)
        PROVE  UNCHANGED ledger \/ Opens
    <2>1. CASE CreateWithdrawal(p)
      BY <2>1 DEF CreateWithdrawal, Opens
    <2>2. CASE ~CreateWithdrawal(p)
      BY <1>3, <2>2
         DEF Read, ManualAssign, PayoutRead, ManualCompleteRead, ProofRead,
             DisputeRead, ResolveRead, FavourRead, Selects, BanRead, ReverseRead,
             RejectRead, CompleteRead, rows
    <2> QED BY <2>1, <2>2
  <1>4. ASSUME NEW p \in Workers, RunJob(p) \/ LockRow(p) \/ UpdateQueue(p)
        PROVE  UNCHANGED ledger
    BY <1>4 DEF RunJob, SlaRead, AutoWaitRead, AutoWindowRead, LockRow, UpdateQueue,
                rows
  <1>5. ASSUME NEW p \in Workers, Assign(p)
        PROVE  UNCHANGED ledger
    BY <1>5 DEF Assign, AssignNothing, AssignHeal, AssignExhausted, AssignNoAgency,
                AssignCreate, Unlocked
  <1>6. ASSUME NEW p \in Workers,
               \/ TxReturns(p) \/ DebitRefused(p) \/ FreezeReturns(p)
               \/ SafetyNet(p) \/ Fail(p)
        PROVE  UNCHANGED ledger
    BY <1>6 DEF TxReturns, DebitRefused, FreezeReturns, SafetyNet, Fail, rows
  <1> QED BY <1>1, <1>2, <1>3, <1>4, <1>5, <1>6, CommitLedger DEF Next

\* As long as handlers do not overlap, autoCompleteWaiting credits an agency only
\* after the whole waiting window and an admin only in a dispute, and no other
\* handler credits one.
THEOREM CreditAfterWindowSerially == Spec /\ []NoOverlap => CreditAfterWindow
  <1>1. SerialInv /\ [Next]_vars =>
          \A a \in AssignmentIds :
            Payout(a) \in ledger' \ ledger =>
              /\ asg[a].status = "WAITING"
              /\ clock[Waiting(a)] = "elapsed" \/ status = "DISPUTED"
    <2> SUFFICES ASSUME SerialInv, [Next]_vars, NEW a \in AssignmentIds,
                        Payout(a) \in ledger' \ ledger
                 PROVE  CreditsAgency(a)
      BY DEF CreditsAgency
    <2>1. ~Opens /\ ~CreditsCompany /\ ~Refunds
      BY KeyFacts DEF Opens, CreditsCompany, Refunds
    <2>2. PICK b \in AssignmentIds : CreditsAgency(b)
      BY <2>1, StepLedger
    <2> QED BY <2>2, KeyFacts DEF CreditsAgency
  <1> QED BY <1>1, SerialAlways, PTL DEF Spec, CreditAfterWindow

\* Where the points are, case by case.
HoldersFit ==
    /\ Exists(Debit) <=> status # "NONE"
    /\ status = "NONE" \/ status = "FAILED" => Holders = {"host"}
    /\ status \notin {"NONE", "FAILED"} =>
         /\ \A a \in AssignmentIds : asg[a].status = "COMPLETED" => Holders = {a}
         /\ Takeover \in ledger => Holders = {"company"}
         /\ Takeover \notin ledger /\ WithStatus("COMPLETED") = {} =>
              Holders = {"withdrawal"}

\* The mapping of the refinement, read off the status and the assignments.
LEMMA HoldersAre == SerialInv => HoldersFit
  <1> SUFFICES ASSUME SerialInv PROVE HoldersFit
    OBVIOUS
  <1>1. /\ Exists(Debit) <=> status # "NONE"
        /\ Exists(Refund) <=> status = "FAILED"
    BY DEF Exists, SerialInv, IInv, RowsOK, RowsMatchLedger, Serial, SerialRows,
           LedgerOK
  <1>2. status = "NONE" \/ status = "FAILED" => Holders = {"host"}
    BY <1>1, CreditedAre DEF Holders
  <1>3. ASSUME NEW a \in AssignmentIds, asg[a].status = "COMPLETED",
               status \notin {"NONE", "FAILED"}
        PROVE  Holders = {a}
    <2>1. a \in Credited
      BY <1>3, CreditedAre DEF WithStatus
    <2>2. Credited = {a} /\ ~Exists(Takeover)
      BY <2>1, CreditedAre DEF Exists
    <2> QED BY <1>1, <1>3, <2>2 DEF Holders
  <1>4. ASSUME Takeover \in ledger, status \notin {"NONE", "FAILED"}
        PROVE  Holders = {"company"}
    BY <1>1, <1>4, CreditedAre DEF Holders, Exists
  <1>5. ASSUME Takeover \notin ledger, WithStatus("COMPLETED") = {},
               status \notin {"NONE", "FAILED"}
        PROVE  Holders = {"withdrawal"}
    BY <1>1, <1>5, CreditedAre DEF Holders, Exists
  <1> QED BY <1>1, <1>2, <1>3, <1>4, <1>5 DEF HoldersFit

\* The same of the state after a step.
LEMMA HoldersThen == SerialInv' => HoldersFit'
  BY HoldersAre, PTL

\* Every step is Ask, Settle or Return for the points, or leaves them alone.
LEMMA SettlementStep ==
    ASSUME SerialInv, SerialInv', [Next]_vars
    PROVE  [Promised!Next]_Promised!settlementVars
  <1> USE DEF Promised!Next, Promised!settlementVars
  <1>1. HoldersFit /\ HoldersFit'
    BY HoldersAre, HoldersThen
  <1>2. CASE UNCHANGED ledger
    BY <1>2 DEF Holders, Credited, Exists
  <1>3. CASE Opens
    <2>1. ~Exists(Debit) /\ Exists(Debit)'
      BY <1>1, <1>3 DEF HoldersFit, Opens, Exists
    <2>2. /\ \A a \in AssignmentIds : Payout(a) \notin ledger
          /\ Takeover \notin ledger /\ Refund \notin ledger
      BY <1>3 DEF Opens, SerialInv, Serial, SerialRows, LedgerOK, AssignmentsOK
    <2>3. Holders' = {"withdrawal"}
      BY <1>3, <2>1, <2>2, KeyFacts DEF Opens, Holders, Credited, Exists
    <2> QED BY <2>1, <2>3 DEF Promised!Ask
  <1>4. CASE Refunds
    <2>1. Exists(Debit) /\ Exists(Debit)' /\ Exists(Refund)'
      BY <1>4 DEF Refunds, Exists
    <2>2. status' = "FAILED"
      BY <2>1 DEF Exists, SerialInv, Serial, SerialRows, LedgerOK
    <2>3. Holders' = {"host"}
      BY <1>1, <2>2 DEF HoldersFit
    <2> QED BY <2>1, <2>3 DEF Promised!Return
  <1>5. ASSUME NEW a \in AssignmentIds, CreditsAgency(a)
        PROVE  Promised!Settle(a)
    <2>1. status \in {"WAITING", "DISPUTED"}
      BY <1>5 DEF CreditsAgency, SerialInv, Serial, SerialRows, AssignmentsOK
    <2>2. Takeover \notin ledger /\ WithStatus("COMPLETED") = {}
      BY <1>5
         DEF CreditsAgency, WithStatus, Live, SerialInv, Serial, SerialRows,
             AssignmentsOK, LedgerOK
    <2>3. Holders = {"withdrawal"} /\ Exists(Debit)
      BY <1>1, <2>1, <2>2 DEF HoldersFit
    <2>4. /\ asg'[a].status = "COMPLETED" /\ status' # "FAILED"
          /\ Exists(Debit)'
      BY <1>5, <2>1, <2>3, KeyFacts
         DEF CreditsAgency, SerialInv, Serial, SerialRows, LedgerOK, Exists
    <2>5. Holders' = {a}
      BY <1>1, <2>4 DEF HoldersFit
    <2> QED BY <2>3, <2>4, <2>5 DEF Promised!Settle
  <1>6. CASE CreditsCompany
    <2>1. /\ status = "WAITING" /\ Takeover \notin ledger
          /\ WithStatus("COMPLETED") = {}
      BY <1>6
         DEF CreditsCompany, WithStatus, Live, SerialInv, Serial, SerialRows,
             AssignmentsOK, LedgerOK
    <2>2. Holders = {"withdrawal"} /\ Exists(Debit)
      BY <1>1, <2>1 DEF HoldersFit
    <2>3. Takeover \in ledger' /\ status' # "FAILED" /\ Exists(Debit)'
      BY <1>6, <2>1, <2>2, KeyFacts
         DEF CreditsCompany, SerialInv, Serial, SerialRows, LedgerOK, Exists
    <2>4. Holders' = {"company"}
      BY <1>1, <2>3 DEF HoldersFit
    <2>5. Promised!Settle("company")
      BY <2>2, <2>3, <2>4 DEF Promised!Settle
    <2> QED BY <2>5
  <1> QED BY <1>2, <1>3, <1>4, <1>5, <1>6, StepLedger

\* As long as handlers do not overlap, withdrawal.service.ts with its jobs,
\* crashes and retries settles a withdrawal as Settlement says: the points leave
\* the host once, go to one payer at most, and come back for good.
THEOREM PayrollImplementsSettlement ==
    Spec /\ []NoOverlap => ImplementsSettlement
  <1>1. Init => Promised!Init
    BY DEF Init, Promised!Init, Holders, Exists
  <1>2. SerialInv /\ SerialInv' /\ [Next]_vars
          => [Promised!Next]_Promised!settlementVars
    BY SettlementStep
  <1> QED BY <1>1, <1>2, SerialAlways, PTL
          DEF Spec, ImplementsSettlement, Promised!Spec


=============================================================================
