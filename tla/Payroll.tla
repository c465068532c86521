------------------------------- MODULE Payroll -------------------------------
(***************************************************************************)
(* The life of one withdrawal: src/services/withdrawal.service.ts, the     *)
(* repositories it writes through, the payroll queue and its jobs.         *)
(*                                                                         *)
(* A handler is an HTTP request or a queue job.  It runs in a worker as    *)
(* three kinds of step:                                                    *)
(*   read    what it reads before it writes, and its early returns;        *)
(*   commit  its database transaction, every write at once;                *)
(*   after   the queue calls and the assignToAgency call that follow.      *)
(* Between two steps of one worker the others may take theirs.  The        *)
(* transactions run under Read Committed: findUnique takes no lock and     *)
(* update({ where: { id } }) tests no status, so a commit applies to       *)
(* whatever the rows have become since the read.  Only assignToAgency      *)
(* locks the withdrawal row (SELECT ... FOR UPDATE); the commits of the    *)
(* others wait for that lock.                                              *)
(*                                                                         *)
(* Points are abstracted to which ledger keys exist: every key is UNIQUE   *)
(* and every credit or debit of one withdrawal is of one amount.  The pair *)
(* payroll-host-payout:<a>, payroll-reward:<a> is written and reversed     *)
(* together, so one key stands for both.                                   *)
(***************************************************************************)
EXTENDS Naturals, FiniteSets

CONSTANTS
    Workers,        \* threads of control: requests and jobs in flight at once
    AssignmentIds,  \* ids randomUUID() may return (bounds the assignments)
    Agencies,       \* agencies that may take payroll
    None,           \* null
    MaxAttempts,    \* payroll_config.maxAssignmentAttempts
    MaxFaults,      \* bound on crashes and transaction aborts
    MaxRequests,    \* bound on the requests of hosts, agents and admins
    Ops             \* the operations this instance offers

VARIABLES
    status,           \* withdrawals.status; "NONE" before the row exists
    payoutHandler,    \* withdrawals.payout_handler: AGENCY is BANK, PLATFORM EPAY
    assignmentCount,  \* withdrawals.assignment_count
    disputeTicketId,  \* withdrawals.dispute_ticket_id is set
    asg,              \* withdrawal_payroll_assignments, by id
    clock,            \* expiresAt and waitingExpiresAt of the rows
    jobs,             \* the payroll queue, by job id
    ledger,           \* idempotency keys present in point_ledger_entries
    banned,           \* agencies whose row banAgencyByAdmin deleted
    lock,             \* the worker holding the withdrawal row, or None
    proc,             \* what every worker is doing
    faults,           \* crashes and aborts so far
    requests          \* requests so far

vars == <<status, payoutHandler, assignmentCount, disputeTicketId, asg, clock, jobs,
          ledger, banned, lock, proc, faults, requests>>
budget == <<faults, requests>>
outside == <<payoutHandler, jobs, lock, faults, requests>>
rows == <<status, payoutHandler, assignmentCount, disputeTicketId, asg, clock,
          ledger, banned>>

WithdrawalStatus == {"PENDING", "PENDING_PLATFORM", "WAITING", "PAID",
                     "DISPUTED", "FAILED"}
AssignmentStatus == {"NONE", "PENDING", "WAITING", "COMPLETED", "REJECTED",
                     "EXPIRED"}
AllOps == {"create", "manualAssign", "sla", "reject", "complete", "payout",
           "takeover", "manualComplete", "proof", "autoWait", "autoWindow",
           "dispute", "resolvePaid", "resolveRefund", "favourAgent",
           "favourHost", "reverse", "freeze", "ban", "safetyNet"}

ASSUME NoneAssumption == None \notin AssignmentIds \cup Agencies \cup Workers
ASSUME BoundsAssumption == MaxAttempts \in Nat \ {0} /\ MaxFaults \in Nat
                             /\ MaxRequests \in Nat
ASSUME OpsAssumption == Ops \subseteq AllOps
ASSUME FiniteAssumption == IsFiniteSet(AssignmentIds)

(***************************************************************************)
(* Ledger keys, timers and the record of a worker                          *)
(***************************************************************************)
Debit == <<"withdrawal-debit", None>>
Refund == <<"withdrawal-refund", None>>
Takeover == <<"payroll-takeover", None>>
Payout(a) == <<"payroll-host-payout", a>>
Reversal(a) == <<"payroll-host-payout-reversal", a>>
Keys == {Debit, Refund, Takeover}
          \cup {Payout(a) : a \in AssignmentIds}
          \cup {Reversal(a) : a \in AssignmentIds}

\* A timer is a deadline of a row and also the id of the job that waits for it.
Sla(a) == <<"sla", a>>
Waiting(a) == <<"payroll-waiting", a>>
Window == <<"platform-waiting", None>>
Timers == {Sla(a) : a \in AssignmentIds} \cup {Waiting(a) : a \in AssignmentIds}
            \cup {Window}

Worker == [op : AllOps \cup {"idle"},
           pc : {"idle", "selected", "commit", "jobs", "lock", "locked"},
           a : AssignmentIds \cup {None},     \* the assignment it works on
           b : AssignmentIds \cup {None},     \* the open assignment it saw
           saw : WithdrawalStatus \cup AssignmentStatus \cup {None},
           ag : Agencies \cup {None},         \* the agency it was given
           rm : SUBSET Timers,                \* jobs to remove afterwards
           add : SUBSET Timers,               \* jobs to enqueue afterwards
           re : BOOLEAN,                      \* assignToAgency afterwards
           job : Timers \cup {None},          \* the job it is processing
           spans : SUBSET Timers]             \* deadlines set since it began

Idle == [op |-> "idle", pc |-> "idle", a |-> None, b |-> None, saw |-> None,
         ag |-> None, rm |-> {}, add |-> {}, re |-> FALSE, job |-> None,
         spans |-> {}]

Open == {a \in AssignmentIds : asg[a].status \in {"PENDING", "WAITING"}}
WithStatus(s) == {a \in AssignmentIds : asg[a].status = s}

\* findFirst: any row of the set, null when it is empty.
AnyOf(S) == IF S = {} THEN {None} ELSE S

\* Ids not used by a row and not drawn by a request in flight.
Fresh == {a \in WithStatus("NONE") : \A p \in Workers : proc[p].a # a}

Banked == payoutHandler = "AGENCY"

TypeOK ==
    /\ status \in WithdrawalStatus \cup {"NONE"}
    /\ payoutHandler \in {"AGENCY", "PLATFORM"}
    /\ assignmentCount \in Nat
    /\ disputeTicketId \in BOOLEAN
    /\ asg \in [AssignmentIds -> [status : AssignmentStatus,
                                  agency : Agencies \cup {None}]]
    /\ clock \in [Timers -> {"unset", "running", "elapsed"}]
    /\ jobs \in [Timers -> {"none", "queued", "active", "kept"}]
    /\ ledger \subseteq Keys
    /\ banned \subseteq Agencies
    /\ lock \in Workers \cup {None}
    /\ proc \in [Workers -> Worker]
    /\ faults \in Nat
    /\ requests \in Nat

Init ==
    /\ status = "NONE"
    /\ payoutHandler \in {"AGENCY", "PLATFORM"}
    /\ assignmentCount = 0
    /\ disputeTicketId = FALSE
    /\ asg = [a \in AssignmentIds |-> [status |-> "NONE", agency |-> None]]
    /\ clock = [t \in Timers |-> "unset"]
    /\ jobs = [t \in Timers |-> "none"]
    /\ ledger = {}
    /\ banned = {}
    /\ lock = None
    /\ proc = [p \in Workers |-> Idle]
    /\ faults = 0
    /\ requests = 0

(***************************************************************************)
(* Steps every handler is made of                                          *)
(***************************************************************************)

\* A request or a job begins in worker p: r is what it has read.
Jobs == {"sla", "autoWait", "autoWindow", "safetyNet"}
Begin(p, r) ==
    /\ proc[p].pc = "idle"
    /\ r.op \in Ops
    /\ r.op \in Jobs \/ requests < MaxRequests
    /\ proc' = [proc EXCEPT ![p] = r]
    /\ requests' = IF r.op \in Jobs THEN requests ELSE requests + 1

Request(op) == [Idle EXCEPT !.op = op, !.pc = "commit"]

\* Variant: the job is enqueued without its delay and runs at once.
TakeEarly(p, t, op) ==
    /\ jobs[t] = "queued"
    /\ Begin(p, [Request(op) EXCEPT !.a = t[2], !.job = t])
    /\ jobs' = [jobs EXCEPT ![t] = "active"]

\* The queue hands a due job to worker p.
Take(p, t, op) ==
    /\ jobs[t] = "queued"
    /\ clock[t] = "elapsed"
    /\ Begin(p, [Request(op) EXCEPT !.a = t[2], !.job = t])
    /\ jobs' = [jobs EXCEPT ![t] = "active"]

\* Worker p commits: its writes wait for the row lock of assignToAgency.
Committing(p, ops) ==
    /\ proc[p].op \in ops
    /\ proc[p].pc = "commit"
    /\ lock = None

\* After its commit p updates the queue and may call assignToAgency.  A request
\* or job attempt lasts seconds and a deadline lies hours ahead, so whatever is
\* in flight when a deadline is set ends before the deadline does.
Committed(p, opened, add, re) ==
    proc' = [q \in Workers |->
               IF q = p
               THEN [Idle EXCEPT !.op = proc[p].op, !.pc = "jobs",
                                 !.ag = proc[p].ag, !.rm = proc[p].rm,
                                 !.add = add, !.re = re, !.job = proc[p].job,
                                 !.spans = proc[p].spans \cup opened]
               ELSE IF proc[q].pc = "idle" THEN proc[q]
               ELSE [proc[q] EXCEPT !.spans = @ \cup opened]]

Runs(t) == [clock EXCEPT ![t] = "running"]

(***************************************************************************)
(* createWithdrawal: the debit and the row in one transaction, then the    *)
(* first assignment of a BANK withdrawal.                                  *)
(***************************************************************************)
CreateWithdrawal(p) ==
    /\ status = "NONE"
    /\ Begin(p, [Idle EXCEPT !.op = "create", !.pc = "jobs", !.re = Banked])
    /\ ledger' = ledger \cup {Debit}
    /\ status' = IF Banked THEN "PENDING" ELSE "PENDING_PLATFORM"
    /\ UNCHANGED <<payoutHandler, assignmentCount, disputeTicketId, asg, clock,
                   jobs, banned, lock, faults>>

(***************************************************************************)
(* assignToAgency: one transaction under the row lock.                     *)
(***************************************************************************)
ManualAssign(p) ==
    /\ Banked /\ status # "NONE"
    /\ \E g \in (Agencies \ banned) \cup {None} :
         Begin(p, [Idle EXCEPT !.op = "manualAssign", !.pc = "lock", !.ag = g])
    /\ UNCHANGED <<rows, jobs, lock, faults>>

\* Variant: SELECT without FOR UPDATE.
LockRowShared(p) ==
    /\ proc[p].pc = "lock"
    /\ lock' = p
    /\ \E o \in AnyOf(Open) :
         proc' = [proc EXCEPT ![p].pc = "locked", ![p].b = o]
    /\ UNCHANGED <<rows, jobs, budget>>

LockRow(p) ==
    /\ proc[p].pc = "lock"
    /\ lock = None
    /\ lock' = p
    /\ \E o \in AnyOf(Open) :
         proc' = [proc EXCEPT ![p].pc = "locked", ![p].b = o]
    /\ UNCHANGED <<rows, jobs, budget>>

Overriding(p) == proc[p].op \in {"manualAssign", "favourHost"} /\ proc[p].ag # None
BeyondCap(p) == proc[p].op \in {"manualAssign", "favourHost"}

\* Variant: the look for an open assignment is left out.
PickingBlind(p) ==
    /\ proc[p].pc = "locked"
    /\ status \in {"PENDING", "PENDING_PLATFORM"}
    /\ assignmentCount < MaxAttempts \/ BeyondCap(p)

\* Worker p has passed assignToAgency's early returns: it picks an agency.
Picking(p) ==
    /\ proc[p].pc = "locked"
    /\ status \in {"PENDING", "PENDING_PLATFORM"}
    /\ proc[p].b = None
    /\ assignmentCount < MaxAttempts \/ BeyondCap(p)

\* An end of assignToAgency that creates nothing.
Unlocked(p, s) ==
    /\ status' = s
    /\ lock' = None
    /\ Committed(p, {}, {}, FALSE)
    /\ UNCHANGED <<payoutHandler, assignmentCount, disputeTicketId, asg, clock,
                   ledger, banned, jobs, budget>>

AssignNothing(p) ==
    /\ proc[p].pc = "locked"
    /\ status \notin {"PENDING", "PENDING_PLATFORM"}
    /\ Unlocked(p, status)

AssignHeal(p) ==
    /\ proc[p].pc = "locked"
    /\ status \in {"PENDING", "PENDING_PLATFORM"}
    /\ proc[p].b # None
    /\ Unlocked(p, "PENDING")

AssignExhausted(p) ==
    /\ proc[p].pc = "locked"
    /\ status \in {"PENDING", "PENDING_PLATFORM"}
    /\ proc[p].b = None
    /\ assignmentCount >= MaxAttempts /\ ~BeyondCap(p)
    /\ Unlocked(p, "PENDING_PLATFORM")

\* No eligible agency, or every one of them locked by another assignment
\* (SKIP LOCKED).  A manual assignment to a named agency is refused instead.
AssignNoAgency(p) ==
    /\ Picking(p)
    /\ Unlocked(p, IF proc[p].op = "manualAssign" /\ Overriding(p)
                   THEN status ELSE "PENDING_PLATFORM")

AssignCreate(p) ==
    /\ Picking(p)
    /\ \E g \in Agencies \ banned, a \in Fresh :
         /\ Overriding(p) => g = proc[p].ag
         /\ asg' = [asg EXCEPT ![a] = [status |-> "PENDING", agency |-> g]]
         /\ clock' = Runs(Sla(a))
         /\ Committed(p, {Sla(a)}, {Sla(a)}, FALSE)
    /\ status' = "PENDING"
    /\ lock' = None
    /\ UNCHANGED <<payoutHandler, assignmentCount, disputeTicketId, ledger,
                   banned, jobs, budget>>

(***************************************************************************)
(* The assigned agency: processSlaExpiry, agentRejectPayroll,              *)
(* agentCompletePayroll                                                    *)
(***************************************************************************)
SlaRead(p, a) ==
    /\ asg[a].status = "PENDING"
    /\ Take(p, Sla(a), "sla")
    /\ UNCHANGED <<rows, lock, faults>>

RejectRead(p, a) ==
    /\ asg[a].status = "PENDING" /\ clock[Sla(a)] = "running"
    /\ Begin(p, [Request("reject") EXCEPT !.a = a, !.rm = {Sla(a)}])
    /\ UNCHANGED <<rows, jobs, lock, faults>>

CompleteRead(p, a) ==
    /\ asg[a].status = "PENDING" /\ clock[Sla(a)] = "running"
    /\ Begin(p, [Request("complete") EXCEPT !.a = a, !.rm = {Sla(a)}])
    /\ UNCHANGED <<rows, jobs, lock, faults>>

\* The assignment is closed; the withdrawal goes to the next agency, or to the
\* platform when the attempts are used up.
CloseCommit(p) ==
    /\ Committing(p, {"sla", "reject"})
    /\ asg' = [asg EXCEPT ![proc[p].a].status =
                 IF proc[p].op = "sla" THEN "EXPIRED" ELSE "REJECTED"]
    /\ assignmentCount' = assignmentCount + 1
    /\ status' = IF assignmentCount' >= MaxAttempts THEN "PENDING_PLATFORM"
                 ELSE status
    /\ Committed(p, {}, {}, assignmentCount' < MaxAttempts)
    /\ UNCHANGED <<disputeTicketId, clock, ledger, banned, outside>>

CompleteCommit(p) ==
    /\ Committing(p, {"complete"})
    /\ LET a == proc[p].a IN
         /\ asg' = [asg EXCEPT ![a].status = "WAITING"]
         /\ clock' = Runs(Waiting(a))
         /\ Committed(p, {Waiting(a)}, {Waiting(a)}, FALSE)
    /\ status' = "WAITING"
    /\ UNCHANGED <<assignmentCount, disputeTicketId, ledger, banned, outside>>

(***************************************************************************)
(* The platform: adminCompletePlatformPayout, adminCompletePayrollTakeover *)
(* and adminCompletePayrollForAgency                                       *)
(***************************************************************************)
\* Variant: the platform may pay while an agency still holds the payroll.
PayoutReadAnyPending(p) ==
    /\ status \in {"PENDING", "PENDING_PLATFORM"}
    /\ Begin(p, Request(IF Banked THEN "takeover" ELSE "payout"))
    /\ UNCHANGED <<rows, jobs, lock, faults>>

PayoutRead(p) ==
    /\ status = "PENDING_PLATFORM"
    /\ Begin(p, Request(IF Banked THEN "takeover" ELSE "payout"))
    /\ UNCHANGED <<rows, jobs, lock, faults>>

PayoutCommit(p) ==
    /\ Committing(p, {"payout", "takeover"})
    /\ status' = "WAITING"
    /\ clock' = Runs(Window)
    /\ Committed(p, {Window}, {Window}, FALSE)
    /\ UNCHANGED <<assignmentCount, disputeTicketId, asg, ledger,
                   banned, outside>>

\* a is the row that will be WAITING: the open assignment when the agency holds
\* it already, a new one otherwise.
ManualCompleteRead(p) ==
    /\ Banked
    /\ status \in {"PENDING", "PENDING_PLATFORM"}
    /\ \E g \in Agencies \ banned, o \in AnyOf(Open) :
         \E a \in IF o # None /\ asg[o].agency = g THEN {o} ELSE Fresh :
           Begin(p, [Request("manualComplete") EXCEPT !.a = a, !.b = o, !.ag = g,
                       !.rm = IF o # None /\ asg[o].status = "PENDING"
                              THEN {Sla(o)} ELSE {}])
    /\ UNCHANGED <<rows, jobs, lock, faults>>

ManualCompleteCommit(p) ==
    /\ Committing(p, {"manualComplete"})
    /\ LET a == proc[p].a
           superseded == {proc[p].b} \ {a, None}
       IN  /\ asg' = [i \in AssignmentIds |->
                        IF i = a THEN [status |-> "WAITING", agency |-> proc[p].ag]
                        ELSE IF i \in superseded
                        THEN [asg[i] EXCEPT !.status = "REJECTED"]
                        ELSE asg[i]]
           /\ assignmentCount' = IF superseded = {} THEN assignmentCount
                                 ELSE assignmentCount + 1
           /\ clock' = Runs(Waiting(a))
           /\ Committed(p, {Waiting(a)}, {Waiting(a)}, FALSE)
    /\ status' = "WAITING"
    /\ UNCHANGED <<disputeTicketId, ledger, banned, outside>>

(***************************************************************************)
(* adminUpdatePayrollProof: writes the status it read back with the proof. *)
(***************************************************************************)
ProofRead(p) ==
    /\ status # "NONE"
    /\ \/ \E a \in AssignmentIds \ WithStatus("NONE") :
            Begin(p, [Request("proof") EXCEPT !.a = a, !.saw = asg[a].status])
       \/ Begin(p, [Request("proof") EXCEPT !.saw = status])
    /\ UNCHANGED <<rows, jobs, lock, faults>>

\* The assignment row is not covered by the withdrawal's row lock.
ProofCommit(p) ==
    /\ proc[p].op = "proof" /\ proc[p].pc = "commit"
    /\ IF proc[p].a # None
       THEN /\ asg' = [asg EXCEPT ![proc[p].a].status = proc[p].saw]
            /\ UNCHANGED status
       ELSE /\ lock = None
            /\ status' = proc[p].saw
            /\ UNCHANGED asg
    /\ Committed(p, {}, {}, FALSE)
    /\ UNCHANGED <<assignmentCount, disputeTicketId, clock, ledger,
                   banned, outside>>

(***************************************************************************)
(* The waiting window ends: autoCompleteWaiting looks at the assignment    *)
(* only, autoCompletePlatformWaiting and autoCompleteTakeoverWaiting at    *)
(* the withdrawal only.                                                    *)
(***************************************************************************)
AutoWaitRead(p, a) ==
    /\ asg[a].status = "WAITING"
    /\ Take(p, Waiting(a), "autoWait")
    /\ UNCHANGED <<rows, lock, faults>>

\* Variant: the withdrawal is paid and the assignment stays as it is.
AutoWaitCommitPaysOnly(p) ==
    /\ Committing(p, {"autoWait"})
    /\ status' = "PAID"
    /\ ledger' = ledger \cup {Payout(proc[p].a)}
    /\ Committed(p, {}, {}, FALSE)
    /\ UNCHANGED <<asg, assignmentCount, disputeTicketId, clock, banned, outside>>

AutoWaitCommit(p) ==
    /\ Committing(p, {"autoWait"})
    /\ asg' = [asg EXCEPT ![proc[p].a].status = "COMPLETED"]
    /\ status' = "PAID"
    /\ ledger' = ledger \cup {Payout(proc[p].a)}
    /\ Committed(p, {}, {}, FALSE)
    /\ UNCHANGED <<assignmentCount, disputeTicketId, clock, banned, outside>>

AutoWindowRead(p) ==
    /\ status = "WAITING"
    /\ Take(p, Window, "autoWindow")
    /\ UNCHANGED <<rows, lock, faults>>

AutoWindowCommit(p) ==
    /\ Committing(p, {"autoWindow"})
    /\ status' = "PAID"
    /\ ledger' = IF Banked THEN ledger \cup {Takeover} ELSE ledger
    /\ Committed(p, {}, {}, FALSE)
    /\ UNCHANGED <<assignmentCount, disputeTicketId, asg, clock,
                   banned, outside>>

(***************************************************************************)
(* disputeWithdrawal and its four resolutions                              *)
(***************************************************************************)
DisputeRead(p) ==
    /\ ~disputeTicketId
    /\ \E a \in AnyOf(WithStatus("WAITING")) :
         /\ \/ status = "PAID"
            \/ status \in {"PENDING", "WAITING"} /\ a # None
            \/ status = "WAITING" /\ ~Banked
         /\ Begin(p, [Request("dispute") EXCEPT !.a = a,
                        !.rm = {Waiting(i) : i \in {a} \ {None}}
                                 \cup IF status = "WAITING" /\ ~Banked
                                      THEN {Window} ELSE {}])
    /\ UNCHANGED <<rows, jobs, lock, faults>>

DisputeCommit(p) ==
    /\ Committing(p, {"dispute"})
    /\ status' = "DISPUTED"
    /\ disputeTicketId' = TRUE
    /\ Committed(p, {}, {}, FALSE)
    /\ UNCHANGED <<assignmentCount, asg, clock, ledger, banned, outside>>

ResolveRead(p) ==
    /\ ~Banked
    /\ status = "DISPUTED"
    /\ \E op \in {"resolvePaid", "resolveRefund"} :
         Begin(p, [Request(op) EXCEPT !.rm = {Window}])
    /\ UNCHANGED <<rows, jobs, lock, faults>>

ResolveCommit(p) ==
    /\ Committing(p, {"resolvePaid", "resolveRefund"})
    /\ IF proc[p].op = "resolvePaid"
       THEN status' = "PAID" /\ UNCHANGED ledger
       ELSE status' = "FAILED" /\ ledger' = ledger \cup {Refund}
    /\ disputeTicketId' = FALSE
    /\ Committed(p, {}, {}, FALSE)
    /\ UNCHANGED <<assignmentCount, asg, clock, banned, outside>>

\* Both need a WAITING assignment.  favourHost names the next agency: the one
\* given, or the one that held the assignment.
FavourRead(p) ==
    /\ Banked
    /\ status = "DISPUTED"
    /\ \E a \in WithStatus("WAITING") :
         \/ Begin(p, [Request("favourAgent") EXCEPT !.a = a, !.rm = {Waiting(a)}])
         \/ \E g \in {asg[a].agency} \cup Agencies :
              Begin(p, [Request("favourHost") EXCEPT !.a = a, !.ag = g,
                          !.rm = {Waiting(a)}])
    /\ UNCHANGED <<rows, jobs, lock, faults>>

FavourAgentCommit(p) ==
    /\ Committing(p, {"favourAgent"})
    /\ asg' = [asg EXCEPT ![proc[p].a].status = "COMPLETED"]
    /\ status' = "PAID"
    /\ disputeTicketId' = FALSE
    /\ ledger' = ledger \cup {Payout(proc[p].a)}
    /\ Committed(p, {}, {}, FALSE)
    /\ UNCHANGED <<assignmentCount, clock, banned, outside>>

\* Variants: no credit is taken back; one is without asking whether it was made;
\* one is without asking whether there is an assignment at all.
ReversedNever(a) == {}
ReversedUnchecked(a) == {Reversal(i) : i \in {a} \ {None}}
ReversedAlways(a) == {Reversal(a)}

\* The credits of a that are taken back when they were made.
Reversed(a) == {Reversal(i) : i \in {j \in {a} \ {None} : Payout(j) \in ledger}}

\* Variant: incrementAssignmentCount is forgotten.
FavourHostUncounted(p) ==
    /\ Committing(p, {"favourHost"})
    /\ asg' = [asg EXCEPT ![proc[p].a].status = "REJECTED"]
    /\ status' = "PENDING"
    /\ disputeTicketId' = FALSE
    /\ ledger' = ledger \cup Reversed(proc[p].a)
    /\ Committed(p, {}, {}, TRUE)
    /\ UNCHANGED <<assignmentCount, clock, banned, outside>>

FavourHostCommit(p) ==
    /\ Committing(p, {"favourHost"})
    /\ asg' = [asg EXCEPT ![proc[p].a].status = "REJECTED"]
    /\ status' = "PENDING"
    /\ disputeTicketId' = FALSE
    /\ assignmentCount' = assignmentCount + 1
    /\ ledger' = ledger \cup Reversed(proc[p].a)
    /\ Committed(p, {}, {}, TRUE)
    /\ UNCHANGED <<clock, banned, outside>>

(***************************************************************************)
(* adminReverseWithdrawal, alone or from                                   *)
(* cancelUnsettledWithdrawalsForPointsFreeze: everything is read before    *)
(* the transaction and nothing is read again inside it.                    *)
(***************************************************************************)
Selects(p) ==
    /\ status \in {"PENDING", "PENDING_PLATFORM", "WAITING"}
    /\ Begin(p, [Idle EXCEPT !.op = "freeze", !.pc = "selected"])
    /\ UNCHANGED <<rows, jobs, lock, faults>>

ReverseRead(p) ==
    /\ status \in WithdrawalStatus \ {"FAILED"}
    /\ \E o \in AnyOf(Open),
          c \in IF WithStatus("WAITING") # {} THEN WithStatus("WAITING")
                ELSE AnyOf(WithStatus("COMPLETED")) :
         LET r == [Request("reverse") EXCEPT !.a = c, !.b = o,
                     !.rm = {Sla(i) : i \in {o} \ {None}}
                              \cup {Waiting(i) :
                                        i \in {o} \cap WithStatus("WAITING")}
                              \cup IF Banked THEN {} ELSE {Window}]
         IN  \/ Begin(p, r)
             \/ /\ proc[p].pc = "selected"
                /\ proc' = [proc EXCEPT ![p] = [r EXCEPT !.op = "freeze",
                                                      !.spans = proc[p].spans]]
                /\ UNCHANGED requests
    /\ UNCHANGED <<rows, jobs, lock, faults>>

\* The selected withdrawal has failed meanwhile: adminReverseWithdrawal returns.
FreezeReturns(p) ==
    /\ proc[p].pc = "selected"
    /\ status = "FAILED"
    /\ proc' = [proc EXCEPT ![p] = Idle]
    /\ UNCHANGED <<rows, jobs, lock, budget>>

ReverseCommit(p) ==
    /\ Committing(p, {"reverse", "freeze"})
    /\ ledger' = ledger \cup {Refund} \cup Reversed(proc[p].a)
    /\ asg' = [i \in AssignmentIds |->
                 IF i = proc[p].b THEN [asg[i] EXCEPT !.status = "EXPIRED"]
                 ELSE asg[i]]
    /\ status' = "FAILED"
    /\ Committed(p, {}, {}, FALSE)
    /\ UNCHANGED <<assignmentCount, disputeTicketId, clock, banned, outside>>

(***************************************************************************)
(* banAgencyByAdmin, as far as it touches this withdrawal                  *)
(***************************************************************************)
BanRead(p) ==
    /\ \E g \in Agencies \ banned :
         LET held == {a \in Open : asg[a].agency = g} IN
         Begin(p, [Request("ban") EXCEPT !.ag = g,
                     !.rm = {Sla(a) : a \in held}
                              \cup {Waiting(a) :
                                        a \in held \cap WithStatus("WAITING")}])
    /\ UNCHANGED <<rows, jobs, lock, faults>>

BanCommit(p) ==
    /\ Committing(p, {"ban"})
    /\ LET held == {a \in AssignmentIds : Sla(a) \in proc[p].rm} IN
         /\ asg' = [a \in AssignmentIds |->
                      IF a \in held THEN [asg[a] EXCEPT !.status = "EXPIRED"]
                      ELSE asg[a]]
         /\ assignmentCount' = assignmentCount + Cardinality(held)
         /\ status' = IF held = {} THEN status ELSE "PENDING"
         /\ Committed(p, {}, {}, held # {})
    /\ banned' = banned \cup {proc[p].ag}
    /\ UNCHANGED <<disputeTicketId, clock, ledger, outside>>

(***************************************************************************)
(* After the commit, and the ways a handler ends early                     *)
(***************************************************************************)

\* Re-reading inside the transaction finds the row changed: the callback
\* returns and the code after the transaction still runs.
StillValid(p) ==
    CASE proc[p].op = "sla" -> asg[proc[p].a].status = "PENDING"
      [] proc[p].op = "autoWait" -> asg[proc[p].a].status = "WAITING"
      [] proc[p].op = "autoWindow" -> status = "WAITING"
      [] proc[p].op \in {"resolvePaid", "resolveRefund"} -> status = "DISPUTED"
      [] proc[p].op \in {"favourAgent", "favourHost"} ->
           status = "DISPUTED" /\ asg[proc[p].a].status = "WAITING"
      [] OTHER -> TRUE

TxReturns(p) ==
    /\ proc[p].pc = "commit"
    /\ ~StillValid(p)
    /\ Committed(p, {}, {}, proc[p].op = "favourHost")
    /\ UNCHANGED <<rows, jobs, lock, budget>>

\* The debit that reverses an agency's credit is refused when the agency has
\* spent the points or is frozen: the transaction rolls back.
DebitRefused(p) ==
    /\ Committing(p, {"reverse", "freeze", "favourHost"})
    /\ Reversed(proc[p].a) \ ledger # {}
    /\ proc' = [proc EXCEPT ![p] = Idle]
    /\ UNCHANGED <<rows, jobs, lock, budget>>

\* What becomes of a job once its processor has returned.
Finished(t) == IF t[1] = "sla" THEN "kept" ELSE "none"

\* The queue calls after a transaction: remove() fails on an active job and
\* add() is ignored while a job with that id exists.
UpdateQueue(p) ==
    /\ proc[p].pc = "jobs"
    /\ LET w == proc[p]
           done == IF w.re THEN {} ELSE {w.job} \ {None}
       IN  /\ jobs' = [t \in Timers |->
                         IF t \in done THEN Finished(t)
                         ELSE IF t \in w.rm /\ jobs[t] # "active" THEN "none"
                         ELSE IF t \in w.add /\ jobs[t] = "none" THEN "queued"
                         ELSE jobs[t]]
           /\ proc' = [proc EXCEPT ![p] =
                         IF w.re THEN [w EXCEPT !.pc = "lock", !.re = FALSE,
                                                !.rm = {}, !.add = {}]
                                 ELSE Idle]
    /\ UNCHANGED <<rows, lock, budget>>

\* A due job whose first look at the row finds nothing to do.
JobReturns(t) ==
    /\ jobs[t] = "queued"
    /\ clock[t] = "elapsed"
    /\ CASE t[1] = "sla" -> asg[t[2]].status # "PENDING"
         [] t[1] = "payroll-waiting" -> asg[t[2]].status # "WAITING"
         [] OTHER -> status # "WAITING"
    /\ jobs' = [jobs EXCEPT ![t] = Finished(t)]
    /\ UNCHANGED <<rows, lock, proc, budget>>

\* A process dies or a transaction is aborted (deadlock victim, timeout).  A
\* request is gone; the queue retries a job (attempts: 3, more than MaxFaults).
Fail(p) ==
    /\ faults < MaxFaults
    /\ proc[p].pc # "idle"
    /\ faults' = faults + 1
    /\ proc' = [proc EXCEPT ![p] = Idle]
    /\ lock' = IF lock = p THEN None ELSE lock
    /\ jobs' = [t \in Timers |-> IF t = proc[p].job THEN "queued" ELSE jobs[t]]
    /\ UNCHANGED <<rows, requests>>

(***************************************************************************)
(* runPayrollSlaSafetyNet, hourly                                          *)
(***************************************************************************)
\* Variants: the sweep looks at one kind of deadline only.
OverdueWindowOnly ==
    IF status = "WAITING" /\ clock[Window] = "elapsed" THEN {Window} ELSE {}
OverdueSlaOnly ==
    {Sla(a) : a \in {i \in WithStatus("PENDING") : clock[Sla(i)] = "elapsed"}}

Overdue ==
    {Sla(a) : a \in {i \in WithStatus("PENDING") : clock[Sla(i)] = "elapsed"}}
      \cup IF status = "WAITING" /\ clock[Window] = "elapsed" THEN {Window} ELSE {}
StuckPending == Banked /\ status = "PENDING" /\ Open = {}

\* Variant: the sweep does not look for withdrawals without an assignment.
SafetyNetNoSweep(p) ==
    /\ IF Overdue # {}
       THEN Begin(p, [Idle EXCEPT !.op = "safetyNet", !.pc = "jobs",
                                  !.add = Overdue])
       ELSE proc[p].pc = "idle" /\ UNCHANGED <<proc, requests>>
    /\ UNCHANGED <<rows, jobs, lock, faults>>

SafetyNet(p) ==
    /\ IF StuckPending \/ Overdue # {}
       THEN Begin(p, [Idle EXCEPT !.op = "safetyNet", !.pc = "jobs",
                                  !.add = Overdue, !.re = StuckPending])
       ELSE proc[p].pc = "idle" /\ UNCHANGED <<proc, requests>>
    /\ UNCHANGED <<rows, jobs, lock, faults>>

(***************************************************************************)
(* A deadline passes that some handler will still compare with now.        *)
(***************************************************************************)
Elapse(t) ==
    /\ clock[t] = "running"
    /\ t[1] = "sla" => asg[t[2]].status = "PENDING"
    /\ t[1] = "payroll-waiting" => asg[t[2]].status = "WAITING"
    /\ \A p \in Workers : t \notin proc[p].spans
    /\ clock' = [clock EXCEPT ![t] = "elapsed"]
    /\ UNCHANGED <<status, assignmentCount, disputeTicketId, asg, ledger,
                   banned, proc, outside>>

Assign(p) ==
    \/ AssignNothing(p) \/ AssignHeal(p) \/ AssignExhausted(p)
    \/ AssignNoAgency(p) \/ AssignCreate(p)

Commit(p) ==
    \/ CloseCommit(p) \/ CompleteCommit(p) \/ PayoutCommit(p)
    \/ ManualCompleteCommit(p) \/ ProofCommit(p) \/ AutoWaitCommit(p)
    \/ AutoWindowCommit(p) \/ DisputeCommit(p) \/ ResolveCommit(p)
    \/ FavourAgentCommit(p) \/ FavourHostCommit(p) \/ ReverseCommit(p)
    \/ BanCommit(p)

Read(p) ==
    \/ CreateWithdrawal(p) \/ ManualAssign(p) \/ PayoutRead(p)
    \/ ManualCompleteRead(p) \/ ProofRead(p) \/ DisputeRead(p)
    \/ ResolveRead(p) \/ FavourRead(p) \/ Selects(p) \/ BanRead(p)
    \/ ReverseRead(p)
    \/ \E a \in AssignmentIds : RejectRead(p, a) \/ CompleteRead(p, a)

RunJob(p) ==
    \/ \E a \in AssignmentIds : SlaRead(p, a) \/ AutoWaitRead(p, a)
    \/ AutoWindowRead(p)

Next ==
    \/ \E p \in Workers :
         \/ Read(p) \/ RunJob(p) \/ Commit(p) \/ LockRow(p) \/ Assign(p)
         \/ UpdateQueue(p) \/ TxReturns(p) \/ DebitRefused(p)
         \/ FreezeReturns(p) \/ SafetyNet(p) \/ Fail(p)
    \/ \E t \in Timers : Elapse(t) \/ JobReturns(t)

Spec == Init /\ [][Next]_vars

\* A handler that has begun goes on (Postgres grants a row lock in turn), the
\* queue hands out every due job, deadlines pass and the hourly job runs.
\* Nothing obliges a host, an agent or an admin to act.
Progress(p) ==
    \/ Commit(p) \/ TxReturns(p) \/ DebitRefused(p) \/ LockRow(p) \/ Assign(p)
    \/ UpdateQueue(p) \/ FreezeReturns(p)
    \/ proc[p].pc = "selected" /\ ReverseRead(p)

Fairness ==
    /\ \A p \in Workers : SF_vars(Progress(p))
    /\ \A a \in AssignmentIds :
         /\ SF_vars(\E p \in Workers : SlaRead(p, a))
         /\ SF_vars(\E p \in Workers : AutoWaitRead(p, a))
    /\ SF_vars(\E p \in Workers : AutoWindowRead(p))
    /\ SF_vars(\E p \in Workers : SafetyNet(p))
    /\ \A t \in Timers : WF_vars(Elapse(t)) /\ WF_vars(JobReturns(t))

FairSpec == Spec /\ Fairness

(***************************************************************************)
(* What the ledger says                                                    *)
(***************************************************************************)
Exists(k) == k \in ledger

\* Assignments whose agency holds a credit that was not taken back.
Credited == {a \in AssignmentIds : Exists(Payout(a)) /\ ~Exists(Reversal(a))}

(***************************************************************************)
(* Properties of handlers that do not overlap (one worker, with crashes)   *)
(***************************************************************************)

\* At most one assignment of a withdrawal is open: what assignToAgency relies on
\* when it looks for "the" open assignment (withdrawal.service.ts:805-819).
OneOpenAssignment == Cardinality(Open) <= 1

\* While the platform may pay a BANK withdrawal itself, and once it has, no
\* agency holds it: nobody is asked to pay the host a second time.
PlatformAlone ==
    Banked /\ (status = "PENDING_PLATFORM" \/ clock[Window] # "unset") => Open = {}

\* The points of the host end in one place.  One party at most holds a credit
\* for them, a refunded host's agency holds none, FAILED is the status of the
\* refunded and PAID of a BANK withdrawal means that somebody was credited.
PointsInOnePlace ==
    /\ Cardinality(Credited) + (IF Exists(Takeover) THEN 1 ELSE 0) <= 1
    /\ Exists(Refund) => Credited = {}
    /\ Exists(Refund) <=> status = "FAILED"
    /\ Banked /\ status = "PAID" => Credited # {} \/ Exists(Takeover)

\* Every assignment an agency lost was counted once, so the cap on automatic
\* attempts counts what it should; only a reversal closes one uncounted.
CountsClosed ==
    \/ status = "FAILED"
    \/ assignmentCount =
         Cardinality(WithStatus("EXPIRED") \cup WithStatus("REJECTED"))

\* An agency is credited when its proof has stood for the whole waiting window
\* or when an admin decides the dispute for it, and in no other step.
CreditAfterWindow ==
    [][\A a \in AssignmentIds :
         Payout(a) \in ledger' \ ledger =>
           /\ asg[a].status = "WAITING"
           /\ clock[Waiting(a)] = "elapsed" \/ status = "DISPUTED"]_vars

\* Where the points are: with the host, with the agencies that hold a credit,
\* with the company, or withdrawn and not yet settled.
Holders ==
    IF ~Exists(Debit) THEN {"host"}
    ELSE LET settled == Credited \cup (IF Exists(Refund) THEN {"host"}
                                      ELSE IF Exists(Takeover) THEN {"company"}
                                      ELSE {})
         IN  IF settled = {} THEN {"withdrawal"} ELSE settled

Promised == INSTANCE Settlement WITH
    Payers <- AssignmentIds \cup {"company"},
    holders <- Holders,
    asked <- Exists(Debit)

\* Whatever is assigned, rejected, disputed, reversed, retried after a crash or
\* banned on the way, the points take the steps of a settlement and no other.
ImplementsSettlement == Promised!Spec

(***************************************************************************)
(* Properties of handlers that overlap                                     *)
(***************************************************************************)

\* Rows never claim money that did not move, however the handlers overlap: a
\* COMPLETED assignment was credited, FAILED means refunded, PAID of a BANK
\* withdrawal means that some agency or the company was credited, and only a
\* credit that was made is ever reversed.
RowsMatchLedger ==
    /\ status # "NONE" <=> Exists(Debit)
    /\ status = "FAILED" => Exists(Refund)
    /\ \A a \in AssignmentIds :
         /\ asg[a].status = "COMPLETED" => Exists(Payout(a))
         /\ Exists(Reversal(a)) => Exists(Payout(a))
    /\ Banked /\ status = "PAID" =>
         Exists(Takeover) \/ \E a \in AssignmentIds : Exists(Payout(a))

\* The row lock does its work: assignToAgency creates an assignment only while
\* no other is open, whatever else is in flight.
AssignAlone == [][\A p \in Workers : AssignCreate(p) => Open = {}]_vars

(***************************************************************************)
(* Liveness                                                                *)
(***************************************************************************)

\* A BANK withdrawal left PENDING without an open assignment (a crash between
\* closing one and assigning the next) is found by the hourly sweep.
StuckPendingHealed ==
    (Banked /\ status = "PENDING" /\ Open = {})
      ~> ~(status = "PENDING" /\ Open = {})

\* An agency that lets the SLA pass loses the assignment, even when the job for
\* it was never enqueued.
SlaEnforced ==
    \A a \in AssignmentIds :
      (asg[a].status = "PENDING" /\ clock[Sla(a)] = "elapsed")
        ~> asg[a].status # "PENDING"

\* A payout of the platform leaves WAITING, even when its job was lost.
WindowSettles ==
    (status = "WAITING" /\ clock[Window] # "unset") ~> status # "WAITING"

\* A WAITING assignment whose job is in the queue is settled, also when the
\* handler of that job crashes on the way, unless the host disputes it; handlers
\* do not overlap here.  (No sweep looks for one whose job was never enqueued.)
WaitingSettles ==
    \A a \in AssignmentIds :
      (asg[a].status = "WAITING" /\ jobs[Waiting(a)] \in {"queued", "active"})
        ~> (asg[a].status # "WAITING" \/ status = "DISPUTED")

(***************************************************************************)
(* What the comments in the code say and overlapping handlers do not do    *)
(***************************************************************************)

\* withdrawal.service.ts:1209-1210: "Agency credits ... happen only after the
\* waitingHours dispute window elapses without a dispute (autoCompleteWaiting)".
CreditWithoutDispute ==
    [][\A p \in Workers : AutoWaitCommit(p) => status # "DISPUTED"]_vars

=============================================================================
