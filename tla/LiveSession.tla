------------------------------ MODULE LiveSession ------------------------------
(***************************************************************************)
(* The live sessions of one host, from src/services/liveSession.service.ts *)
(* with its repository and queue: webhooks start and end a session, and a  *)
(* session whose end never comes is interrupted, by its own delayed job or *)
(* by the cron of src/workers/general.family.ts.  The row is in Postgres,  *)
(* the key that says the host is live in Redis.                            *)
(***************************************************************************)
EXTENDS Integers

CONSTANTS
    LiveIds,        \* the sessions of the host
    Webhooks,       \* webhook requests in flight at once
    LiveWorkers,    \* handlers of the queue at once
    MaxLiveFaults   \* bound on crashes and failed jobs

ASSUME LiveAssumption == MaxLiveFaults \in Nat

NotLive == "none"
ASSUME NotLiveAssumption == NotLive \notin LiveIds

VARIABLES
    liveRow,      \* status of the row of each session
    liveKey,      \* liveActiveSession of the host
    counted,      \* how often the duration of each went into the daily earnings
    netJob,       \* the sessions whose safety-net job is waiting
    overdue,      \* the sessions past LIVE_SESSION_TIMEOUT_HOURS
    hook,         \* what each request is doing, and for which session
    liveWorker,   \* what each handler is doing, and for which session
    liveFaults

liveVars == <<liveRow, liveKey, counted, netJob, overdue, hook, liveWorker, liveFaults>>

LiveStep == {"idle", "create", "key", "net", "check", "end", "count", "del"}
LiveIdle == [pc |-> "idle", id |-> NotLive]

\* Rows, keys and handlers are of their kinds.
LiveTypeOK ==
    /\ liveRow \in [LiveIds -> {"none", "ACTIVE", "ENDED", "INTERRUPTED"}]
    /\ liveKey \in LiveIds \cup {NotLive}
    /\ counted \in [LiveIds -> Nat]
    /\ netJob \subseteq LiveIds /\ overdue \subseteq LiveIds
    /\ hook \in [Webhooks -> [pc : LiveStep, id : LiveIds \cup {NotLive}]]
    /\ liveWorker \in [LiveWorkers -> [pc : LiveStep, id : LiveIds \cup {NotLive}]]
    /\ liveFaults \in 0..MaxLiveFaults

LiveInit ==
    /\ liveRow = [s \in LiveIds |-> "none"]
    /\ liveKey = NotLive
    /\ counted = [s \in LiveIds |-> 0]
    /\ netJob = {} /\ overdue = {}
    /\ hook = [h \in Webhooks |-> LiveIdle]
    /\ liveWorker = [w \in LiveWorkers |-> LiveIdle]
    /\ liveFaults = 0

HookGoes(h, pc, s) == hook' = [hook EXCEPT ![h] = [pc |-> pc, id |-> s]]
WorkerGoes(w, pc, s) == liveWorker' = [liveWorker EXCEPT ![w] = [pc |-> pc, id |-> s]]

\* handleSessionStart: the key says that the host is live already, or not.
StartRead(h) ==
    /\ hook[h].pc = "idle"
    /\ liveKey = NotLive
    /\ HookGoes(h, "create", NotLive)
    /\ UNCHANGED <<liveRow, liveKey, counted, netJob, overdue, liveWorker, liveFaults>>

\* The unique index on the active session of a host turns a second one away.
StartCreate(h, s) ==
    /\ hook[h].pc = "create"
    /\ liveRow[s] = "none"
    /\ IF \E t \in LiveIds : liveRow[t] = "ACTIVE"
       THEN HookGoes(h, "idle", NotLive) /\ UNCHANGED liveRow
       ELSE /\ liveRow' = [liveRow EXCEPT ![s] = "ACTIVE"]
            /\ HookGoes(h, "key", s)
    /\ UNCHANGED <<liveKey, counted, netJob, overdue, liveWorker, liveFaults>>

StartKey(h) ==
    /\ hook[h].pc = "key"
    /\ liveKey' = hook[h].id
    /\ HookGoes(h, "net", hook[h].id)
    /\ UNCHANGED <<liveRow, counted, netJob, overdue, liveWorker, liveFaults>>

StartNet(h) ==
    /\ hook[h].pc = "net"
    /\ netJob' = netJob \cup {hook[h].id}
    /\ HookGoes(h, "idle", NotLive)
    /\ UNCHANGED <<liveRow, liveKey, counted, overdue, liveWorker, liveFaults>>

\* handleSessionEnd reads the active session of the room and updates it by id.
EndRead(h, s) ==
    /\ hook[h].pc = "idle"
    /\ liveRow[s] = "ACTIVE"
    /\ HookGoes(h, "end", s)
    /\ UNCHANGED <<liveRow, liveKey, counted, netJob, overdue, liveWorker, liveFaults>>

EndWrite(h) ==
    /\ hook[h].pc = "end"
    /\ liveRow' = [liveRow EXCEPT ![hook[h].id] = "ENDED"]
    /\ HookGoes(h, "count", hook[h].id)
    /\ UNCHANGED <<liveKey, counted, netJob, overdue, liveWorker, liveFaults>>

\* upsertLiveDuration: an increment of the day's earnings of the host.
EndCount(h) ==
    /\ hook[h].pc = "count"
    /\ counted' = [counted EXCEPT ![hook[h].id] = @ + 1]
    /\ HookGoes(h, "del", hook[h].id)
    /\ UNCHANGED <<liveRow, liveKey, netJob, overdue, liveWorker, liveFaults>>

EndDel(h) ==
    /\ hook[h].pc = "del"
    /\ liveKey' = NotLive
    /\ HookGoes(h, "idle", NotLive)
    /\ UNCHANGED <<liveRow, counted, netJob, overdue, liveWorker, liveFaults>>

\* The safety-net job of a session, once its delay is over.
NetTake(w, s) ==
    /\ liveWorker[w].pc = "idle"
    /\ s \in netJob /\ s \in overdue
    /\ netJob' = netJob \ {s}
    /\ IF liveRow[s] = "ACTIVE" THEN WorkerGoes(w, "check", s)
                                ELSE UNCHANGED liveWorker
    /\ UNCHANGED <<liveRow, liveKey, counted, overdue, hook, liveFaults>>

\* Variant: the cron looks for what the key still shows.
StaleSessionsByKey == {s \in overdue : liveRow[s] = "ACTIVE" /\ liveKey = s}

\* findStaleActiveSessions.
StaleSessions == {s \in overdue : liveRow[s] = "ACTIVE"}

CronTake(w, s) ==
    /\ liveWorker[w].pc = "idle"
    /\ s \in StaleSessions
    /\ WorkerGoes(w, "check", s)
    /\ UNCHANGED <<liveRow, liveKey, counted, netJob, overdue, hook, liveFaults>>

\* interruptStaleSession: looks again, updates by id, drops the key.
InterruptCheck(w) ==
    /\ liveWorker[w].pc = "check"
    /\ IF liveRow[liveWorker[w].id] = "ACTIVE"
       THEN WorkerGoes(w, "end", liveWorker[w].id)
       ELSE WorkerGoes(w, "idle", NotLive)
    /\ UNCHANGED <<liveRow, liveKey, counted, netJob, overdue, hook, liveFaults>>

InterruptWrite(w) ==
    /\ liveWorker[w].pc = "end"
    /\ liveRow' = [liveRow EXCEPT ![liveWorker[w].id] = "INTERRUPTED"]
    /\ WorkerGoes(w, "count", liveWorker[w].id)
    /\ UNCHANGED <<liveKey, counted, netJob, overdue, hook, liveFaults>>

InterruptCount(w) ==
    /\ liveWorker[w].pc = "count"
    /\ counted' = [counted EXCEPT ![liveWorker[w].id] = @ + 1]
    /\ WorkerGoes(w, "del", liveWorker[w].id)
    /\ UNCHANGED <<liveRow, liveKey, netJob, overdue, hook, liveFaults>>

InterruptDel(w) ==
    /\ liveWorker[w].pc = "del"
    /\ liveKey' = NotLive
    /\ WorkerGoes(w, "idle", NotLive)
    /\ UNCHANGED <<liveRow, counted, netJob, overdue, hook, liveFaults>>

\* A process stops in a request or in a job, which has one attempt.
HookCrash(h) ==
    /\ hook[h].pc # "idle"
    /\ liveFaults < MaxLiveFaults
    /\ liveFaults' = liveFaults + 1
    /\ HookGoes(h, "idle", NotLive)
    /\ UNCHANGED <<liveRow, liveKey, counted, netJob, overdue, liveWorker>>

WorkerCrash(w) ==
    /\ liveWorker[w].pc # "idle"
    /\ liveFaults < MaxLiveFaults
    /\ liveFaults' = liveFaults + 1
    /\ WorkerGoes(w, "idle", NotLive)
    /\ UNCHANGED <<liveRow, liveKey, counted, netJob, overdue, hook>>

\* Hours pass: a session is overdue.
Overdue(s) ==
    /\ liveRow[s] # "none"
    /\ s \notin overdue
    /\ overdue' = overdue \cup {s}
    /\ UNCHANGED <<liveRow, liveKey, counted, netJob, hook, liveWorker, liveFaults>>

\* The key has a longer life than the timeout, and then goes by itself.
KeyExpires ==
    /\ liveKey \in overdue
    /\ liveKey' = NotLive
    /\ UNCHANGED <<liveRow, counted, netJob, overdue, hook, liveWorker, liveFaults>>

HookStep(h) ==
    \/ (\E s \in LiveIds : StartCreate(h, s)) \/ StartKey(h) \/ StartNet(h)
    \/ EndWrite(h) \/ EndCount(h) \/ EndDel(h)

LiveWorkerStep(w) ==
    \/ \E s \in LiveIds : NetTake(w, s) \/ CronTake(w, s)
    \/ InterruptCheck(w) \/ InterruptWrite(w) \/ InterruptCount(w) \/ InterruptDel(w)

LiveNext ==
    \/ \E h \in Webhooks : \/ StartRead(h) \/ HookStep(h) \/ HookCrash(h)
                           \/ \E s \in LiveIds : EndRead(h, s)
    \/ \E w \in LiveWorkers : LiveWorkerStep(w) \/ WorkerCrash(w)
    \/ \E s \in LiveIds : Overdue(s)
    \/ KeyExpires

\* A request goes on, the queue's worker works, keys and delays run out.
LiveFairness ==
    /\ \A h \in Webhooks : WF_liveVars(HookStep(h))
    /\ \A w \in LiveWorkers : WF_liveVars(LiveWorkerStep(w))
    /\ \A s \in LiveIds : WF_liveVars(Overdue(s))
    /\ WF_liveVars(KeyExpires)

LiveSpec == LiveInit /\ [][LiveNext]_liveVars /\ LiveFairness

-----------------------------------------------------------------------------

\* A session that has begun comes to an end, row and key, although its end
\* webhook never comes, its safety-net job was never queued, or the process
\* that was closing it stops.
SessionCloses ==
    \A s \in LiveIds :
        (liveRow[s] = "ACTIVE" \/ liveKey = s) ~> (liveRow[s] # "ACTIVE" /\ liveKey # s)

=============================================================================
