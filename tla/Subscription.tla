---------------------------- MODULE Subscription ----------------------------
(***************************************************************************)
(* The subscription of one user to one creator:                            *)
(* src/services/subscription.service.ts with its repository and its two    *)
(* queues.                                                                 *)
(*                                                                         *)
(* Requests and job handlers read the row from the replica, act on it, and *)
(* write it by id.  The renewal job of a subscription always has the same  *)
(* jobId, and so has its grace job.  The balance at the moment of a debit  *)
(* depends on everything else the subscriber does, so whether it suffices  *)
(* is a choice.  The unit of time is the shortest life of the access key.  *)
(***************************************************************************)
EXTENDS JobQueue, Sequences

CONSTANTS
    SubRequests,  \* create, cancel and block requests in flight at once
    SubWorkers,   \* handlers of renewal and grace jobs running at once
    SubPeriod,    \* SUBSCRIPTION_PERIOD_MS
    SubGrace,     \* SUBSCRIPTION_GRACE_MS
    SubLag,       \* whether the replica may be one write behind
    SubEnd,       \* bound on the clock
    MaxSubAsked,  \* bound on the requests, blocks included
    MaxSubFaults  \* bound on stalled and crashed handlers

ASSUME SubAssumption ==
    /\ SubPeriod \in Nat \ {0}
    /\ SubGrace \in Nat \ {0}
    /\ SubLag \in BOOLEAN
    /\ SubEnd \in Nat
    /\ MaxSubAsked \in Nat
    /\ MaxSubFaults \in Nat

VARIABLES
    subNow,
    subRow,      \* the row of creator_subscriptions
    subOld,      \* the row before its last write
    subBlocked,  \* one of the two has blocked the other
    subDebits,   \* the debits, in order: the idempotency key and its period
    subAccess,   \* until when the Redis key grants access; 0 without a key
    renewJob,    \* job sub-renewal-<id>
    graceJob,    \* job sub-grace-<id>
    subRequest,  \* what each request is doing
    subWorker,   \* what each handler is doing
    subAsked,    \* requests so far
    subFaults    \* stalls and crashes so far

subBounds == <<subAsked, subFaults>>
subVars == <<subNow, subRow, subOld, subBlocked, subDebits, subAccess,
             renewJob, graceJob, subRequest, subWorker, subBounds>>

SubRow == [status : {"NONE", "ACTIVE", "GRACE", "CANCELLED", "EXPIRED"},
           next : Nat,    \* nextRenewalAt
           grace : Nat]   \* graceUntil; 0 for null
NoSub == [status |-> "NONE", next |-> 0, grace |-> 0]

\* An idempotency key names the kind of debit and the row it started from;
\* until is the end of the period that the debit pays for.
SubDebit == [kind : {"create", "renewal", "grace"}, key : Nat, until : Nat]

SubRequestState ==
    [pc : {"idle", "resume", "pay", "rejob", "add", "stop", "drop"},
     row : SubRow]
SubWorkerState ==
    [pc : {"idle", "debit", "write", "after", "short"},
     kind : {"renewal", "grace"},
     row : SubRow,
     holds : BOOLEAN]     \* the worker still holds the lock of its job

\* Rows, jobs, requests and handlers are of the kinds the code allows.
SubTypeOK ==
    /\ subNow \in 0..SubEnd
    /\ subRow \in SubRow
    /\ subOld \in SubRow
    /\ subBlocked \in BOOLEAN
    /\ subDebits \in Seq(SubDebit)
    /\ subAccess \in Nat
    /\ renewJob \in Job(Nat) /\ graceJob \in Job(Nat)
    /\ subRequest \in [SubRequests -> SubRequestState]
    /\ subWorker \in [SubWorkers -> SubWorkerState]
    /\ subAsked \in 0..MaxSubAsked
    /\ subFaults \in 0..MaxSubFaults

IdleRequest == [pc |-> "idle", row |-> NoSub]
IdleWorker == [pc |-> "idle", kind |-> "renewal", row |-> NoSub,
               holds |-> FALSE]

SubInit ==
    /\ subNow = 1
    /\ subRow = NoSub
    /\ subOld = NoSub
    /\ subBlocked = FALSE
    /\ subDebits = <<>>
    /\ subAccess = 0
    /\ renewJob = NoJob /\ graceJob = NoJob
    /\ subRequest = [r \in SubRequests |-> IdleRequest]
    /\ subWorker = [w \in SubWorkers |-> IdleWorker]
    /\ subAsked = 0
    /\ subFaults = 0

\* subscriptionRepository.updateById and the other writes of the row.
WriteSub(row) ==
    /\ subRow' = row
    /\ subOld' = subRow

\* Variant: the access key also covers the days of grace.
SetAccessLong(until) == subAccess' = until + SubGrace

\* setSubscriptionAccess: the key lives until then, and at least one second
\* from now (accessTtlSeconds).
SetAccess(until) == subAccess' = IF until > subNow THEN until ELSE subNow + 1
DelAccess == subAccess' = 0

\* What a read from the replica may return.
SubServed == IF SubLag THEN {subRow, subOld} ELSE {subRow}

Renewing == {"ACTIVE", "GRACE"}

\* coin_ledger_entries.idempotency_key is UNIQUE.
DebitUsed(kind, key) ==
    \E i \in 1..Len(subDebits) :
        subDebits[i].kind = kind /\ subDebits[i].key = key

Debit(kind, key, until) ==
    /\ ~DebitUsed(kind, key)
    /\ subDebits' = Append(subDebits, [kind |-> kind, key |-> key,
                                       until |-> until])

-----------------------------------------------------------------------------
(* createSubscription.                                                     *)

ToRequest(r, state) == subRequest' = [subRequest EXCEPT ![r] = state]

\* The checks on the row the replica answers with.
CreateRead(r) ==
    /\ subRequest[r].pc = "idle"
    /\ subAsked < MaxSubAsked
    /\ subAsked' = subAsked + 1
    /\ ~subBlocked
    /\ \E row \in SubServed :
         /\ row.status \notin Renewing
         /\ LET inPeriod == row.status = "CANCELLED" /\ row.next > subNow
            IN ToRequest(r, [pc |-> IF inPeriod THEN "resume" ELSE "pay",
                             row |-> row])
    /\ UNCHANGED <<subNow, subRow, subOld, subBlocked, subDebits, subAccess,
                   renewJob, graceJob, subWorker, subFaults>>

\* resumeCancelledWithinPeriod: updateMany where CANCELLED and in the period.
\* When it finds nothing the request goes on to a paid subscription.
CreateResume(r) ==
    /\ subRequest[r].pc = "resume"
    /\ IF subRow.status = "CANCELLED" /\ subRow.next > subNow
       THEN LET row == [subRow EXCEPT !.status = "ACTIVE", !.grace = 0]
            IN /\ WriteSub(row)
               /\ SetAccess(row.next)
               /\ ToRequest(r, [pc |-> "rejob", row |-> row])
       ELSE /\ ToRequest(r, [subRequest[r] EXCEPT !.pc = "pay"])
            /\ UNCHANGED <<subRow, subOld, subAccess>>
    /\ UNCHANGED <<subNow, subBlocked, subDebits, renewJob, graceJob,
                   subWorker, subBounds>>

\* cancelSubscriptionRenewalJob fails the request while the job runs.
CreateRejob(r) ==
    /\ subRequest[r].pc = "rejob"
    /\ IF JobRemovable(renewJob)
       THEN /\ renewJob' = NoJob
            /\ ToRequest(r, [subRequest[r] EXCEPT !.pc = "add"])
       ELSE /\ ToRequest(r, IdleRequest)
            /\ UNCHANGED renewJob
    /\ UNCHANGED <<subNow, subRow, subOld, subBlocked, subDebits, subAccess,
                   graceJob, subWorker, subBounds>>

\* The transaction: debit, upsert of the row as ACTIVE, credit of the creator.
\* A key already used, or too few coins, rolls back; after a key conflict the
\* code runs again from the start, as another request would.
CreatePay(r) ==
    /\ subRequest[r].pc = "pay"
    /\ LET until == subNow + SubPeriod
           row == [status |-> "ACTIVE", next |-> until, grace |-> 0]
       IN \/ /\ Debit("create", subRequest[r].row.next, until)
             /\ WriteSub(row)
             /\ SetAccess(until)
             /\ ToRequest(r, [pc |-> "add", row |-> row])
          \/ /\ ToRequest(r, IdleRequest)
             /\ UNCHANGED <<subRow, subOld, subDebits, subAccess>>
    /\ UNCHANGED <<subNow, subBlocked, renewJob, graceJob, subWorker, subBounds>>

\* enqueueSubscriptionRenewal.
CreateAdd(r) ==
    /\ subRequest[r].pc = "add"
    /\ renewJob' = JobAdd(renewJob, subRequest[r].row.next)
    /\ ToRequest(r, IdleRequest)
    /\ UNCHANGED <<subNow, subRow, subOld, subBlocked, subDebits, subAccess,
                   graceJob, subWorker, subBounds>>

-----------------------------------------------------------------------------
(* cancelSubscription and stopRenewalsDueToBlock.                          *)

\* The row that findByPair returns must be ACTIVE or GRACE.
StopRead(r) ==
    /\ subRequest[r].pc = "idle"
    /\ subAsked < MaxSubAsked
    /\ subAsked' = subAsked + 1
    /\ \E row \in SubServed :
         /\ row.status \in Renewing
         /\ ToRequest(r, [pc |-> "stop", row |-> row])
    /\ UNCHANGED <<subNow, subRow, subOld, subBlocked, subDebits, subAccess,
                   renewJob, graceJob, subWorker, subFaults>>

\* stopRenewalKeepingAccess: the row first, by id.
StopWrite(r) ==
    /\ subRequest[r].pc = "stop"
    /\ WriteSub([subRow EXCEPT !.status = "CANCELLED", !.grace = 0])
    /\ ToRequest(r, [subRequest[r] EXCEPT !.pc = "drop"])
    /\ UNCHANGED <<subNow, subBlocked, subDebits, subAccess, renewJob, graceJob,
                   subWorker, subBounds>>

\* Then the two jobs, either of which fails the caller while it runs and is
\* left as it is; then the access key, until the end of the period read.
DropJobs(next, renewLeft, graceLeft) ==
    /\ renewJob' = IF JobRemovable(renewJob) THEN NoJob ELSE renewLeft
    /\ IF JobRemovable(renewJob) /\ JobRemovable(graceJob)
       THEN /\ graceJob' = NoJob
            /\ subAccess' = IF next > subNow THEN next ELSE 0
       ELSE /\ graceJob' = graceLeft
            /\ UNCHANGED subAccess

StopDrop(r) ==
    /\ subRequest[r].pc = "drop"
    /\ DropJobs(subRequest[r].row.next, renewJob, graceJob)
    /\ ToRequest(r, IdleRequest)
    /\ UNCHANGED <<subNow, subRow, subOld, subBlocked, subDebits, subWorker,
                   subBounds>>

\* blockUser writes the block before it stops the renewals; a block may be
\* lifted at any time.
Block ==
    /\ subAsked < MaxSubAsked
    /\ subAsked' = subAsked + 1
    /\ subBlocked' = ~subBlocked
    /\ UNCHANGED <<subNow, subRow, subOld, subDebits, subAccess, renewJob,
                   graceJob, subRequest, subWorker, subFaults>>

\* checkAccessBulk without the key: the rows with paidAccessWhere set it, an
\* ACTIVE row also when its period is over.
CheckAccess ==
    /\ subAccess <= subNow
    /\ \E row \in SubServed :
         /\ \/ row.status = "ACTIVE"
            \/ row.status = "CANCELLED" /\ row.next > subNow
         /\ SetAccess(row.next)
    /\ UNCHANGED <<subNow, subRow, subOld, subBlocked, subDebits, renewJob,
                   graceJob, subRequest, subWorker, subBounds>>

-----------------------------------------------------------------------------
(* processRenewalJob and processGraceJob.                                  *)

ToWorker(w, state) == subWorker' = [subWorker EXCEPT ![w] = state]

\* The end of a handler: a job that completes is removed, one that fails is
\* kept under its id.  A worker that has lost its lock changes nothing.
Finish(w, job, state) ==
    IF subWorker[w].holds
    THEN [job EXCEPT !.state = state, !.due = IF state = "none" THEN 0 ELSE @]
    ELSE job

\* A worker takes the renewal job; a row that is not ACTIVE ends it.
RenewTake(w) ==
    /\ subWorker[w].pc = "idle"
    /\ JobReady(renewJob, subNow)
    /\ \E row \in SubServed :
         IF row.status = "ACTIVE"
         THEN /\ renewJob' = JobTaken(renewJob)
              /\ ToWorker(w, [pc |-> "debit", kind |-> "renewal", row |-> row,
                              holds |-> TRUE])
         ELSE /\ renewJob' = NoJob
              /\ UNCHANGED subWorker
    /\ UNCHANGED <<subNow, subRow, subOld, subBlocked, subDebits, subAccess,
                   graceJob, subRequest, subBounds>>

\* A worker takes the grace job; a row that is not GRACE, or whose grace has
\* not ended, ends it.
GraceTake(w) ==
    /\ subWorker[w].pc = "idle"
    /\ JobReady(graceJob, subNow)
    /\ \E row \in SubServed :
         IF row.status = "GRACE" /\ row.grace # 0 /\ row.grace <= subNow
         THEN /\ graceJob' = JobTaken(graceJob)
              /\ ToWorker(w, [pc |-> "debit", kind |-> "grace", row |-> row,
                              holds |-> TRUE])
         ELSE /\ graceJob' = NoJob
              /\ UNCHANGED subWorker
    /\ UNCHANGED <<subNow, subRow, subOld, subBlocked, subDebits, subAccess,
                   renewJob, subRequest, subBounds>>

\* The end of a handler on the job of its kind.
FinishJobs(w, state) ==
    IF subWorker[w].kind = "renewal"
    THEN renewJob' = Finish(w, renewJob, state) /\ UNCHANGED graceJob
    ELSE graceJob' = Finish(w, graceJob, state) /\ UNCHANGED renewJob

\* isBlockedEitherWay: stopRenewalDueToBlockKeepingAccess reads the row once
\* more and stops the renewals, which fails on the job of its own handler.
WorkBlocked(w) ==
    /\ subWorker[w].pc = "debit"
    /\ subBlocked
    /\ \E row \in SubServed :
         IF row.status \in Renewing
         THEN /\ WriteSub([subRow EXCEPT !.status = "CANCELLED", !.grace = 0])
              /\ IF subWorker[w].kind = "renewal"
                 THEN DropJobs(row.next, Finish(w, renewJob, "kept"), graceJob)
                 ELSE DropJobs(row.next, renewJob, Finish(w, graceJob, "kept"))
         ELSE /\ FinishJobs(w, "none")
              /\ UNCHANGED <<subRow, subOld, subAccess>>
    /\ ToWorker(w, IdleWorker)
    /\ UNCHANGED <<subNow, subBlocked, subDebits, subRequest, subBounds>>

\* Variant: the key of a renewal is made from the moment of the renewal.
DebitKeyNow(w) == subNow

DebitKey(w) == IF subWorker[w].kind = "renewal" THEN subWorker[w].row.next
               ELSE subWorker[w].row.grace

\* A renewal continues the period, a recovery from grace starts a new one.
PaidUntil(w) == (IF subWorker[w].kind = "renewal" THEN subWorker[w].row.next
                 ELSE subNow) + SubPeriod

\* The transaction of debit and credit: committed, refused for want of coins,
\* or failed on a key already used, which fails the job.
WorkDebit(w) ==
    /\ subWorker[w].pc = "debit"
    /\ ~subBlocked
    /\ \/ /\ Debit(subWorker[w].kind, DebitKey(w), PaidUntil(w))
          /\ ToWorker(w, [subWorker[w] EXCEPT !.pc = "write"])
          /\ UNCHANGED <<renewJob, graceJob>>
       \/ /\ ToWorker(w, [subWorker[w] EXCEPT !.pc = "short"])
          /\ UNCHANGED <<subDebits, renewJob, graceJob>>
       \/ /\ DebitUsed(subWorker[w].kind, DebitKey(w))
          /\ FinishJobs(w, "kept")
          /\ ToWorker(w, IdleWorker)
          /\ UNCHANGED subDebits
    /\ UNCHANGED <<subNow, subRow, subOld, subBlocked, subAccess, subRequest,
                   subBounds>>

\* After the commit the row is written by id.  The period that a recovery
\* pays for starts here, not at its debit.
WorkWrite(w) ==
    /\ subWorker[w].pc = "write"
    /\ subDebits' = [i \in 1..Len(subDebits) |->
                        IF /\ subDebits[i].kind = subWorker[w].kind
                           /\ subDebits[i].key = DebitKey(w)
                        THEN [subDebits[i] EXCEPT !.until = PaidUntil(w)]
                        ELSE subDebits[i]]
    /\ WriteSub([status |-> "ACTIVE", next |-> PaidUntil(w), grace |-> 0])
    /\ ToWorker(w, [subWorker[w] EXCEPT !.pc = "after", !.row.next = PaidUntil(w)])
    /\ UNCHANGED <<subNow, subBlocked, subAccess, renewJob, graceJob,
                   subRequest, subBounds>>

\* The rest of a renewal: the grace job is removed, access is granted, and
\* the next renewal is added under the jobId of the handler's own job, which
\* then completes.
RenewAfter(w) ==
    /\ subWorker[w].pc = "after" /\ subWorker[w].kind = "renewal"
    /\ IF JobRemovable(graceJob)
       THEN /\ graceJob' = NoJob
            /\ SetAccess(subWorker[w].row.next)
            /\ renewJob' = Finish(w, JobAdd(renewJob, subWorker[w].row.next), "none")
       ELSE /\ renewJob' = Finish(w, renewJob, "kept")
            /\ UNCHANGED <<graceJob, subAccess>>
    /\ ToWorker(w, IdleWorker)
    /\ UNCHANGED <<subNow, subRow, subOld, subBlocked, subDebits, subRequest,
                   subBounds>>

\* The rest of a recovery: access, the renewal job, and the removal of the
\* grace job, which fails when it is the handler's own.
GraceAfter(w) ==
    /\ subWorker[w].pc = "after" /\ subWorker[w].kind = "grace"
    /\ SetAccess(subWorker[w].row.next)
    /\ renewJob' = JobAdd(renewJob, subWorker[w].row.next)
    /\ graceJob' = IF JobRemovable(graceJob) THEN NoJob
                   ELSE Finish(w, graceJob, "kept")
    /\ ToWorker(w, IdleWorker)
    /\ UNCHANGED <<subNow, subRow, subOld, subBlocked, subDebits, subRequest,
                   subBounds>>

\* Too few coins at a renewal: GRACE, no access, and then the removal of the
\* renewal job, which fails when it is the handler's own; only after it comes
\* the grace job.
RenewShort(w) ==
    /\ subWorker[w].pc = "short" /\ subWorker[w].kind = "renewal"
    /\ LET until == subNow + SubGrace
       IN /\ WriteSub([subRow EXCEPT !.status = "GRACE", !.grace = until])
          /\ IF JobRemovable(renewJob)
             THEN renewJob' = NoJob /\ graceJob' = JobAdd(graceJob, until)
             ELSE renewJob' = Finish(w, renewJob, "kept") /\ UNCHANGED graceJob
    /\ DelAccess
    /\ ToWorker(w, IdleWorker)
    /\ UNCHANGED <<subNow, subBlocked, subDebits, subRequest, subBounds>>

\* Too few coins at the end of grace: EXPIRED.
GraceShort(w) ==
    /\ subWorker[w].pc = "short" /\ subWorker[w].kind = "grace"
    /\ WriteSub([subRow EXCEPT !.status = "EXPIRED", !.grace = 0])
    /\ DelAccess
    /\ graceJob' = IF JobRemovable(graceJob) THEN NoJob
                   ELSE Finish(w, graceJob, "kept")
    /\ ToWorker(w, IdleWorker)
    /\ UNCHANGED <<subNow, subBlocked, subDebits, renewJob, subRequest, subBounds>>

\* The lock of a running job runs out: the queue hands the job out again,
\* while the first handler goes on, or is gone with its process.
WorkStall(w) ==
    /\ subFaults < MaxSubFaults
    /\ subWorker[w].pc # "idle" /\ subWorker[w].holds
    /\ FinishJobs(w, "delayed")
    /\ \/ ToWorker(w, [subWorker[w] EXCEPT !.holds = FALSE])
       \/ ToWorker(w, IdleWorker)
    /\ subFaults' = subFaults + 1
    /\ UNCHANGED <<subNow, subRow, subOld, subBlocked, subDebits, subAccess,
                   subRequest, subAsked>>

SubTime ==
    /\ subNow < SubEnd
    /\ subNow' = subNow + 1
    /\ UNCHANGED <<subRow, subOld, subBlocked, subDebits, subAccess, renewJob,
                   graceJob, subRequest, subWorker, subBounds>>

SubNext ==
    \/ \E r \in SubRequests :
         \/ CreateRead(r) \/ CreateResume(r) \/ CreateRejob(r) \/ CreatePay(r)
         \/ CreateAdd(r) \/ StopRead(r) \/ StopWrite(r) \/ StopDrop(r)
    \/ \E w \in SubWorkers :
         \/ RenewTake(w) \/ GraceTake(w) \/ WorkBlocked(w) \/ WorkDebit(w)
         \/ WorkWrite(w) \/ RenewAfter(w) \/ GraceAfter(w) \/ RenewShort(w)
         \/ GraceShort(w) \/ WorkStall(w)
    \/ Block \/ CheckAccess \/ SubTime

SubSpec == SubInit /\ [][SubNext]_subVars

-----------------------------------------------------------------------------

\* The period that a renewal pays for is paid once: a handler that runs again
\* after a stall or a crash, next to the first or after it, or on a stale row,
\* does not charge it again.
RenewalPaidOnce ==
    \A i, j \in 1..Len(subDebits) :
        /\ subDebits[i].kind = "renewal" /\ subDebits[j].kind = "renewal"
        /\ subDebits[i].until = subDebits[j].until
        => i = j

\* Apart from the one second that every key is given, the access key never
\* outlives a period that was charged, whatever stale row it was set from.
\* (That second is given again at each check that finds an ACTIVE row, also
\* when its period is over.)
AccessIsPaid ==
    subAccess > subNow + 1 =>
        \E i \in 1..Len(subDebits) : subDebits[i].until >= subAccess

\* paidAccessWhere calls an ACTIVE subscription "renewing": when no request
\* and no handler is at work, it has a renewal to come.
ActiveRenews ==
    /\ subRow.status = "ACTIVE"
    /\ \A r \in SubRequests : subRequest[r].pc = "idle"
    /\ \A w \in SubWorkers : subWorker[w].pc = "idle"
    => renewJob.state = "delayed"

=============================================================================
