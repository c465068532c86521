------------------------------ MODULE AgencyHosts ------------------------------
(***************************************************************************)
(* One host and the agencies, from src/services/agencyHost.service.ts and  *)
(* its repositories: joining, leaving by application, being removed or     *)
(* transferred, and the approval that comes by itself after seven days     *)
(* (src/jobs/agency-leave-auto-approve.job.ts).                            *)
(*                                                                         *)
(* The transactions run at Postgres's default isolation: what one reads is *)
(* not locked, and its writes meet what others committed meanwhile.  So a  *)
(* transaction is the step that reads the application, the step that reads *)
(* the membership, and the step that writes and commits.                   *)
(***************************************************************************)
EXTENDS Integers, FiniteSets, Functions

CONSTANTS
    Agencies,
    LeaveApps,    \* ids of leave applications
    AgRequests,   \* requests in flight at once
    AgWorkers,    \* handlers of the auto-approve queue at once
    NoAgency, NoLeave,
    MaxMoves,     \* bound on joins and transfers
    MaxAgFaults   \* bound on crashes

ASSUME AgAssumption ==
    /\ IsFiniteSet(Agencies)
    /\ NoAgency \notin Agencies /\ NoLeave \notin LeaveApps
    /\ MaxMoves \in Nat /\ MaxAgFaults \in Nat

VARIABLES
    member,     \* the agency of the host's row of agency_hosts
    current,    \* users.current_agency_id of the host
    hosts,      \* totalHostsCount of each agency
    leave,      \* each leave application: its agency and its status
    autoJob,    \* the applications whose auto-approve job is in the queue
    ripe,       \* the applications past autoApproveAt
    agTask,     \* what each request and each handler is doing
    moves,
    agFaults

agVars == <<member, current, hosts, leave, autoJob, ripe, agTask, moves, agFaults>>

LeaveStatus == {"none", "PENDING", "APPROVED", "AUTO_APPROVED", "REJECTED",
                "LATE_APPROVED", "CANCELLED"}

\* A task: its step, the application it resolves and the status it will give
\* it, the agency the host leaves and the one the host goes to.
NoTask == [pc |-> "idle", app |-> NoLeave, status |-> "none",
           from |-> NoAgency, to |-> NoAgency]

Task == [pc : {"idle", "join", "apply", "queue", "read", "member", "write"},
         app : LeaveApps \cup {NoLeave}, status : LeaveStatus,
         from : Agencies \cup {NoAgency}, to : Agencies \cup {NoAgency}]

\* Rows, jobs and tasks are of their kinds.
AgTypeOK ==
    /\ member \in Agencies \cup {NoAgency}
    /\ current \in Agencies \cup {NoAgency}
    /\ hosts \in [Agencies -> Int]
    /\ leave \in [LeaveApps -> [agency : Agencies \cup {NoAgency}, status : LeaveStatus]]
    /\ autoJob \subseteq LeaveApps /\ ripe \subseteq LeaveApps
    /\ agTask \in [AgRequests \cup AgWorkers -> Task]
    /\ moves \in 0..MaxMoves /\ agFaults \in 0..MaxAgFaults

AgInit ==
    /\ member = NoAgency /\ current = NoAgency
    /\ hosts = [a \in Agencies |-> 0]
    /\ leave = [l \in LeaveApps |-> [agency |-> NoAgency, status |-> "none"]]
    /\ autoJob = {} /\ ripe = {}
    /\ agTask = [t \in AgRequests \cup AgWorkers |-> NoTask]
    /\ moves = 0 /\ agFaults = 0

Free(t) == agTask[t].pc = "idle"
TaskGoes(t, task) == agTask' = [agTask EXCEPT ![t] = task]
TaskEnds(t) == TaskGoes(t, NoTask)

agRows == <<member, current, hosts>>
agBounds == <<moves, agFaults>>

\* applyToAgency and adminAddHost: the host is in no agency ...
JoinRead(t, a) ==
    /\ Free(t)
    /\ current = NoAgency
    /\ moves < MaxMoves
    /\ moves' = moves + 1
    /\ TaskGoes(t, [NoTask EXCEPT !.pc = "join", !.to = a])
    /\ UNCHANGED <<agRows, leave, autoJob, ripe, agFaults>>

\* ... and the insert, which the primary key refuses to a host with a row.
JoinWrite(t) ==
    /\ agTask[t].pc = "join"
    /\ LET a == agTask[t].to IN
       IF member = NoAgency
       THEN /\ member' = a /\ current' = a
            /\ hosts' = [hosts EXCEPT ![a] = @ + 1]
       ELSE UNCHANGED agRows
    /\ TaskEnds(t)
    /\ UNCHANGED <<leave, autoJob, ripe, agBounds>>

\* applyToLeave: a new or unverified member exits at once, others apply.
LeaveRead(t) ==
    /\ Free(t)
    /\ member # NoAgency
    /\ \A l \in LeaveApps : leave[l].status # "PENDING"
    /\ \E pc \in {"member", "apply"} :
            TaskGoes(t, [NoTask EXCEPT !.pc = pc, !.from = member])
    /\ UNCHANGED <<agRows, leave, autoJob, ripe, agBounds>>

\* The unique index on the pending application of a host.
LeaveCreate(t, l) ==
    /\ agTask[t].pc = "apply"
    /\ leave[l].status = "none"
    /\ IF \E k \in LeaveApps : leave[k].status = "PENDING"
       THEN TaskEnds(t) /\ UNCHANGED leave
       ELSE /\ leave' = [leave EXCEPT ![l] = [agency |-> agTask[t].from,
                                              status |-> "PENDING"]]
            /\ TaskGoes(t, [NoTask EXCEPT !.pc = "queue", !.app = l])
    /\ UNCHANGED <<agRows, autoJob, ripe, agBounds>>

LeaveEnqueue(t) ==
    /\ agTask[t].pc = "queue"
    /\ autoJob' = autoJob \cup {agTask[t].app}
    /\ TaskEnds(t)
    /\ UNCHANGED <<agRows, leave, ripe, agBounds>>

\* cancelLeaveApplication and acceptLeaveApplication drop the job first.  (A
\* job that runs cannot be dropped, but the safety net approves without one.)
LeaveUnqueue(t, l) ==
    /\ Free(t)
    /\ leave[l].status # "none"
    /\ \E s \in {"APPROVED", "CANCELLED"} :
        /\ s = "CANCELLED" => leave[l].status = "PENDING"
        /\ TaskGoes(t, [NoTask EXCEPT !.pc = "read", !.app = l, !.status = s])
    /\ autoJob' = autoJob \ {l}
    /\ UNCHANGED <<agRows, leave, ripe, agBounds>>

\* rejectLeaveApplication and lateAcceptLeaveApplication.
LeaveResolve(t, l) ==
    /\ Free(t)
    /\ leave[l].status # "none"
    /\ \E s \in {"REJECTED", "LATE_APPROVED"} :
            TaskGoes(t, [NoTask EXCEPT !.pc = "read", !.app = l, !.status = s])
    /\ UNCHANGED <<agRows, leave, autoJob, ripe, agBounds>>

\* The transaction reads the application: it must be open, or rejected for a
\* late approval.
LeaveCheck(t) ==
    /\ agTask[t].pc = "read"
    /\ LET task == agTask[t]
           row == leave[task.app]
           wanted == IF task.status = "LATE_APPROVED" THEN "REJECTED" ELSE "PENDING"
           next == IF task.status \in {"REJECTED", "CANCELLED"} THEN "write" ELSE "member"
       IN IF row.status = wanted
          THEN TaskGoes(t, [task EXCEPT !.pc = next, !.from = row.agency])
          ELSE TaskEnds(t)
    /\ UNCHANGED <<agRows, leave, autoJob, ripe, agBounds>>

\* removeHost, adminRemoveHostFromAgency, forceExitFromCS and the deletion of
\* the host's account read the membership and exit from it.
RemoveRead(t) ==
    /\ Free(t)
    /\ member # NoAgency
    /\ TaskGoes(t, [NoTask EXCEPT !.pc = "member", !.from = member])
    /\ UNCHANGED <<agRows, leave, autoJob, ripe, agBounds>>

\* adminTransferHosts.
TransferRead(t, a) ==
    /\ Free(t)
    /\ member # NoAgency /\ member # a
    /\ moves < MaxMoves
    /\ moves' = moves + 1
    /\ TaskGoes(t, [NoTask EXCEPT !.pc = "member", !.from = member, !.to = a])
    /\ UNCHANGED <<agRows, leave, autoJob, ripe, agFaults>>

\* finalizeAgencyHostExit reads the membership: another agency, no exit.
ExitRead(t) ==
    /\ agTask[t].pc = "member"
    /\ TaskGoes(t, [agTask[t] EXCEPT !.pc = "write",
                        !.from = IF member = @ THEN @ ELSE NoAgency])
    /\ UNCHANGED <<agRows, leave, autoJob, ripe, agBounds>>

\* Variant: a delete that finds no row is no error.
ExitFailsNever(task) == FALSE

\* The delete by hostUserId finds no row, or the insert after no exit finds
\* one: the transaction rolls back.
ExitFails(task) ==
    \/ task.from # NoAgency /\ task.status \notin {"REJECTED", "CANCELLED"}
            /\ member = NoAgency
    \/ task.from = NoAgency /\ task.to # NoAgency /\ member # NoAgency

Exits(task) ==
    /\ task.from # NoAgency \/ task.to # NoAgency
    /\ task.status \notin {"REJECTED", "CANCELLED"}

\* cancelPending updates a pending row only; the others update by id.
LeaveAfter(task) ==
    IF task.app = NoLeave
       \/ (task.status = "CANCELLED" /\ leave[task.app].status # "PENDING")
    THEN leave
    ELSE [leave EXCEPT ![task.app].status = task.status]

\* The writes of the transaction and its commit.  A late approval drops the
\* job that the rejection has left.
ExitWrite(t) ==
    /\ agTask[t].pc = "write"
    /\ LET task == agTask[t] IN
       IF ExitFails(task)
       THEN UNCHANGED <<agRows, leave, autoJob>>
       ELSE /\ leave' = LeaveAfter(task)
            /\ autoJob' = IF task.status = "LATE_APPROVED" THEN autoJob \ {task.app}
                          ELSE autoJob
            /\ IF Exits(task)
               THEN /\ member' = task.to
                    /\ current' = task.to
                    /\ hosts' = [a \in Agencies |-> hosts[a]
                            - (IF a = task.from THEN 1 ELSE 0)
                            + (IF a = task.to THEN 1 ELSE 0)]
               ELSE UNCHANGED agRows
    /\ TaskEnds(t)
    /\ UNCHANGED <<ripe, agBounds>>

\* processAutoApproveJob, from the delayed job ...
AutoTake(w, l) ==
    /\ Free(w)
    /\ l \in autoJob /\ l \in ripe
    /\ autoJob' = autoJob \ {l}
    /\ TaskGoes(w, [NoTask EXCEPT !.pc = "read", !.app = l, !.status = "AUTO_APPROVED"])
    /\ UNCHANGED <<agRows, leave, ripe, agBounds>>

\* Variant: the safety net trusts the queue.
OverdueQueued == {l \in ripe \cap autoJob : leave[l].status = "PENDING"}

\* getOverdueAutoApprovals.
OverdueLeaves == {l \in ripe : leave[l].status = "PENDING"}

\* ... or from the hourly safety net.
AutoSweep(w, l) ==
    /\ Free(w)
    /\ l \in OverdueLeaves
    /\ TaskGoes(w, [NoTask EXCEPT !.pc = "read", !.app = l, !.status = "AUTO_APPROVED"])
    /\ UNCHANGED <<agRows, leave, autoJob, ripe, agBounds>>

\* A process stops, and its transaction with it.
AgCrash(t) ==
    /\ ~Free(t)
    /\ agFaults < MaxAgFaults
    /\ agFaults' = agFaults + 1
    /\ TaskEnds(t)
    /\ UNCHANGED <<agRows, leave, autoJob, ripe, moves>>

Ripen(l) ==
    /\ leave[l].status # "none"
    /\ l \notin ripe
    /\ ripe' = ripe \cup {l}
    /\ UNCHANGED <<agRows, leave, autoJob, agTask, agBounds>>

AgTaskStep(t) ==
    \/ JoinWrite(t) \/ LeaveEnqueue(t) \/ LeaveCheck(t) \/ ExitRead(t) \/ ExitWrite(t)
    \/ \E l \in LeaveApps : LeaveCreate(t, l)

AgRequestStarts(t) ==
    \/ \E a \in Agencies : JoinRead(t, a) \/ TransferRead(t, a)
    \/ LeaveRead(t) \/ RemoveRead(t)
    \/ \E l \in LeaveApps : LeaveUnqueue(t, l) \/ LeaveResolve(t, l)

AgWorkerStarts(w) == \E l \in LeaveApps : AutoTake(w, l) \/ AutoSweep(w, l)

AgNext ==
    \/ \E t \in AgRequests : AgRequestStarts(t)
    \/ \E w \in AgWorkers : AgWorkerStarts(w)
    \/ \E t \in AgRequests \cup AgWorkers : AgTaskStep(t) \/ AgCrash(t)
    \/ \E l \in LeaveApps : Ripen(l)

\* A task goes on, the worker takes jobs and sweeps, time passes.
AgFairness ==
    /\ \A t \in AgRequests \cup AgWorkers : WF_agVars(AgTaskStep(t))
    /\ \A w \in AgWorkers : WF_agVars(AgWorkerStarts(w))
    /\ \A l \in LeaveApps : WF_agVars(Ripen(l))

AgSpec == AgInit /\ [][AgNext]_agVars /\ AgFairness

-----------------------------------------------------------------------------

\* The hosts the agencies count are the host's one membership, and the host's
\* user row knows whether there is one, however joins, exits and transfers of
\* the same host overlap: an exit whose row is gone rolls back whole.  (The
\* count of a single agency does drift: the delete is by host, so an exit from
\* one agency may take away the membership of the next.)
HostsAddUp ==
    /\ SumFunction(hosts) = (IF member = NoAgency THEN 0 ELSE 1)
    /\ current = member

\* A leave application does not stay open: the agent, the host, the delayed
\* job or the safety net resolves it, although the request that resolves it
\* has dropped the job before its transaction failed.
LeaveSettles ==
    \A l \in LeaveApps : leave[l].status = "PENDING" ~> leave[l].status # "PENDING"

=============================================================================
