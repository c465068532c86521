---------------------------- MODULE AccountDeletion ----------------------------
(***************************************************************************)
(* The deletion of one account, from src/services/account-deletion.service *)
(* and src/repositories/account-deletion.repository.ts: the owner asks for *)
(* it, the owner, an admin or a login cancels it, and the job of           *)
(* src/jobs/account-deletion.job.ts reminds and deletes.  The job runs     *)
(* from two schedules, so two runs of it may overlap; each works from a    *)
(* list that it read before.                                               *)
(***************************************************************************)
EXTENDS Integers

CONSTANTS
    DelRequests,   \* requests about the deletion in flight at once
    DelJobs,       \* runs of the job at once
    GraceDays, DeletionDays, ReminderLead,
    DelEnd,        \* bound on the clock
    MaxSchedules,  \* bound on how often the owner asks
    MaxDelFaults   \* bound on runs that fail

ASSUME DelAssumption ==
    /\ GraceDays \in Nat /\ DeletionDays \in Nat \ {0} /\ ReminderLead \in Nat
    /\ DelEnd \in Nat /\ MaxSchedules \in Nat /\ MaxDelFaults \in Nat

VARIABLES
    delNow,      \* the clock
    deletion,    \* the row of account_deletions
    account,     \* users.status
    notices,     \* how many reminders each schedule sent
    delRequest,  \* what each request is doing
    delJob,      \* what each run of the job is doing
    delFaults

delVars == <<delNow, deletion, account, notices, delRequest, delJob, delFaults>>

\* times counts the schedules: the model's name for the current one.
DeletionRow == [times : 0..MaxSchedules, until : Int, at : Int,
                cancelled : BOOLEAN, deleted : BOOLEAN, reminded : BOOLEAN]

\* The row, the account and the handlers are of their kinds.
DelTypeOK ==
    /\ delNow \in 0..DelEnd
    /\ deletion \in DeletionRow
    /\ account \in {"active", "deactivating", "deleted"}
    /\ notices \in [1..MaxSchedules -> Nat]
    /\ delRequest \in [DelRequests -> {"idle", "schedule", "deactivate",
                                       "cancel", "reactivate"}]
    /\ delJob \in [DelJobs -> {"idle", "claim", "list", "delete"}]
    /\ delFaults \in 0..MaxDelFaults

\* No row yet is a row of no schedule.
DelInit ==
    /\ delNow = 0
    /\ deletion = [times |-> 0, until |-> 0, at |-> 0, cancelled |-> FALSE,
                   deleted |-> FALSE, reminded |-> FALSE]
    /\ account = "active"
    /\ notices = [n \in 1..MaxSchedules |-> 0]
    /\ delRequest = [r \in DelRequests |-> "idle"]
    /\ delJob = [j \in DelJobs |-> "idle"]
    /\ delFaults = 0

Scheduled == deletion.times > 0 /\ ~deletion.cancelled /\ ~deletion.deleted

DelGoes(r, pc) == delRequest' = [delRequest EXCEPT ![r] = pc]
JobGoes(j, pc) == delJob' = [delJob EXCEPT ![j] = pc]

\* scheduleDeletion: the checks, the upsert, then the status and the sessions.
ScheduleRead(r) ==
    /\ delRequest[r] = "idle"
    /\ deletion.times = 0 \/ (deletion.cancelled /\ ~deletion.deleted)
    /\ DelGoes(r, "schedule")
    /\ UNCHANGED <<delNow, deletion, account, notices, delJob, delFaults>>

ScheduleWrite(r) ==
    /\ delRequest[r] = "schedule"
    /\ deletion.times < MaxSchedules
    /\ delNow + DeletionDays <= DelEnd
    /\ deletion' = [times |-> deletion.times + 1,
                    until |-> delNow + GraceDays, at |-> delNow + DeletionDays,
                    cancelled |-> FALSE, deleted |-> FALSE, reminded |-> FALSE]
    /\ DelGoes(r, "deactivate")
    /\ UNCHANGED <<delNow, account, notices, delJob, delFaults>>

ScheduleStatus(r) ==
    /\ delRequest[r] = "deactivate"
    /\ account' = "deactivating"
    /\ DelGoes(r, "idle")
    /\ UNCHANGED <<delNow, deletion, notices, delJob, delFaults>>

\* cancelDeletion, within the grace period.
CancelByOwner(r) ==
    /\ delRequest[r] = "idle"
    /\ Scheduled
    /\ deletion.until >= delNow
    /\ DelGoes(r, "cancel")
    /\ UNCHANGED <<delNow, deletion, account, notices, delJob, delFaults>>

\* cancelDeletionByAdmin, and cancelIfScheduledOnLogin of an account that may
\* log in: at any time.
CancelByAdmin(r) ==
    /\ delRequest[r] = "idle"
    /\ Scheduled
    /\ DelGoes(r, "cancel")
    /\ UNCHANGED <<delNow, deletion, account, notices, delJob, delFaults>>

CancelOnLogin(r) == account # "deleted" /\ CancelByAdmin(r)

\* cancelScheduledDeletion: the row, then the status.
CancelWrite(r) ==
    /\ delRequest[r] = "cancel"
    /\ deletion' = [deletion EXCEPT !.cancelled = TRUE]
    /\ DelGoes(r, "reactivate")
    /\ UNCHANGED <<delNow, account, notices, delJob, delFaults>>

CancelStatus(r) ==
    /\ delRequest[r] = "reactivate"
    /\ account' = "active"
    /\ DelGoes(r, "idle")
    /\ UNCHANGED <<delNow, deletion, notices, delJob, delFaults>>

\* findDueForReminder.
DueForReminder ==
    /\ Scheduled
    /\ ~deletion.reminded
    /\ deletion.at > delNow /\ deletion.at <= delNow + ReminderLead

\* runReminderJob reads who is due ...
RemindRead(j) ==
    /\ delJob[j] = "idle"
    /\ JobGoes(j, IF DueForReminder THEN "claim" ELSE "list")
    /\ UNCHANGED <<delNow, deletion, account, notices, delRequest, delFaults>>

\* Variant: the claim trusts the list.
ClaimableAlways == TRUE

\* claimReminder's conditions.
Claimable == Scheduled /\ ~deletion.reminded

\* ... claims the row, and sends the notice if the claim took it.
RemindClaim(j) ==
    /\ delJob[j] = "claim"
    /\ IF Claimable
       THEN /\ deletion' = [deletion EXCEPT !.reminded = TRUE]
            /\ notices' = [notices EXCEPT ![deletion.times] = @ + 1]
       ELSE UNCHANGED <<deletion, notices>>
    /\ JobGoes(j, "list")
    /\ UNCHANGED <<delNow, account, delRequest, delFaults>>

\* Variant: only what falls due now.
DueForDeletionNow == Scheduled /\ deletion.at = delNow

\* findForDeletion.
DueForDeletion == Scheduled /\ deletion.at <= delNow

\* runDeletionJob reads the list ...
DeleteRead(j) ==
    /\ delJob[j] = "list"
    /\ JobGoes(j, IF DueForDeletion THEN "delete" ELSE "idle")
    /\ UNCHANGED <<delNow, deletion, account, notices, delRequest, delFaults>>

\* ... and deleteAccountPermanently deletes each account of it.
DeleteWrite(j) ==
    /\ delJob[j] = "delete"
    /\ account' = "deleted"
    /\ deletion' = [deletion EXCEPT !.deleted = TRUE]
    /\ JobGoes(j, "idle")
    /\ UNCHANGED <<delNow, notices, delRequest, delFaults>>

\* The transaction fails, or the worker stops: the next run reads again.
JobStops(j) ==
    /\ delJob[j] # "idle"
    /\ delFaults < MaxDelFaults
    /\ delFaults' = delFaults + 1
    /\ JobGoes(j, "idle")
    /\ UNCHANGED <<delNow, deletion, account, notices, delRequest>>

\* A request does not last for days.  A run of the job may, by its list.
DelDay ==
    /\ delNow < DelEnd
    /\ \A r \in DelRequests : delRequest[r] \in {"idle", "schedule"}
    /\ delNow' = delNow + 1
    /\ UNCHANGED <<deletion, account, notices, delRequest, delJob, delFaults>>

DelRequestStep(r) ==
    \/ ScheduleRead(r) \/ ScheduleWrite(r) \/ ScheduleStatus(r)
    \/ CancelByOwner(r) \/ CancelByAdmin(r) \/ CancelOnLogin(r)
    \/ CancelWrite(r) \/ CancelStatus(r)

\* The steps of a request that has begun to write.
DelRequestGoesOn(r) == ScheduleStatus(r) \/ CancelWrite(r) \/ CancelStatus(r)

DelJobStep(j) == RemindRead(j) \/ RemindClaim(j) \/ DeleteRead(j) \/ DeleteWrite(j)

DelNext ==
    \/ \E r \in DelRequests : DelRequestStep(r)
    \/ \E j \in DelJobs : DelJobStep(j) \/ JobStops(j)
    \/ DelDay

\* A request goes on, the repeatable jobs keep running, and time passes.
DelFairness ==
    /\ \A r \in DelRequests : WF_delVars(DelRequestGoesOn(r))
    /\ \A j \in DelJobs : WF_delVars(DelJobStep(j))
    /\ WF_delVars(DelDay)

DelSpec == DelInit /\ [][DelNext]_delVars /\ DelFairness

-----------------------------------------------------------------------------

\* One schedule sends at most one reminder, although two runs of the job may
\* have read the row as due: claimReminder decides.
OneReminder == \A n \in 1..MaxSchedules : notices[n] <= 1

\* A scheduled deletion is cancelled or carried out in the end, whatever run
\* of the job fails in between.
DeletionSettles == Scheduled ~> ~Scheduled

\* cancelIfScheduledOnLogin says that a login cancels the deletion and keeps
\* the account: no run of the job deletes an account whose deletion has been
\* cancelled by then.
CancelKeepsAccount ==
    [][deletion.cancelled /\ ~deletion.deleted => ~deletion'.deleted]_delVars

=============================================================================
