----------------------------- MODULE MCRecovery -----------------------------
(* What the components must get done in the end, after crashes, lost jobs    *)
(* and outages.  As in MCPlatform, focus picks the one that moves; fairness  *)
(* is that of each component, for the component that moves.                  *)
EXTENDS Messaging, CircuitBreaker, AccountDeletion, LiveSession, AgencyHosts

VARIABLE focus

Init ==
    /\ focus \in {"msg", "breaker", "del", "live", "ag"}
    /\ MsgInit /\ BrInit /\ DelInit /\ LiveInit /\ AgInit

Next ==
    \/ /\ focus = "msg" /\ MsgNext
       /\ UNCHANGED <<focus, brVars, delVars, liveVars, agVars>>
    \/ /\ focus = "breaker" /\ BrNext
       /\ UNCHANGED <<focus, msgVars, delVars, liveVars, agVars>>
    \/ /\ focus = "del" /\ DelNext
       /\ UNCHANGED <<focus, msgVars, brVars, liveVars, agVars>>
    \/ /\ focus = "live" /\ LiveNext
       /\ UNCHANGED <<focus, msgVars, brVars, delVars, agVars>>
    \/ /\ focus = "ag" /\ AgNext
       /\ UNCHANGED <<focus, msgVars, brVars, delVars, liveVars>>

vars == <<focus, msgVars, brVars, delVars, liveVars, agVars>>

\* The repeatable sweep runs every 5 seconds, rows grow older, and a request
\* or a job that has begun goes on unless it crashes.
MsgFairness ==
    /\ WF_msgVars(focus = "msg" /\ RowsAge)
    /\ WF_msgVars(focus = "msg" /\ Sweep)
    /\ \A s \in Senders : WF_msgVars(focus = "msg" /\ MsgSteps(s))
    /\ \A p \in Publishers : WF_msgVars(focus = "msg" /\ JobSteps(p))

\* Time passes, calls keep coming and return, and of the calls that reach a
\* healthy dependency again and again some succeed.
BreakerFairness ==
    /\ WF_brVars(focus = "breaker" /\ BrTick)
    /\ \A c \in Callers : /\ WF_brVars(focus = "breaker" /\ BrTry(c))
                          /\ WF_brVars(focus = "breaker" /\ BrFails(c))
                          /\ SF_brVars(focus = "breaker" /\ BrSucceeds(c))

\* The daily job runs every day, and days pass.
DeletionFairness ==
    /\ \A r \in DelRequests : WF_delVars(focus = "del" /\ DelRequestGoesOn(r))
    /\ \A j \in DelJobs : WF_delVars(focus = "del" /\ DelJobStep(j))
    /\ WF_delVars(focus = "del" /\ DelDay)

\* The sweep of stale sessions runs every few minutes, and keys expire.
SessionFairness ==
    /\ \A h \in Webhooks : WF_liveVars(focus = "live" /\ HookStep(h))
    /\ \A w \in LiveWorkers : WF_liveVars(focus = "live" /\ LiveWorkerStep(w))
    /\ \A s \in LiveIds : WF_liveVars(focus = "live" /\ Overdue(s))
    /\ WF_liveVars(focus = "live" /\ KeyExpires)

\* The workers take jobs and run the hourly sweep, and deadlines pass.
AgencyFairness ==
    /\ \A t \in AgRequests \cup AgWorkers : WF_agVars(focus = "ag" /\ AgTaskStep(t))
    /\ \A w \in AgWorkers : WF_agVars(focus = "ag" /\ AgWorkerStarts(w))
    /\ \A l \in LeaveApps : WF_agVars(focus = "ag" /\ Ripen(l))

Spec ==
    /\ Init /\ [][Next]_vars
    /\ MsgFairness /\ BreakerFairness /\ DeletionFairness
    /\ SessionFairness /\ AgencyFairness
=============================================================================
