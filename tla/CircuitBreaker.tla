---------------------------- MODULE CircuitBreaker ----------------------------
(***************************************************************************)
(* The in-memory breaker of src/utils/circuitBreaker.ts with the callers   *)
(* that share it, as withCircuitBreaker of src/config/database.ts uses it: *)
(* ask shouldSkip, await the call, record how it went.  Calls overlap, so  *)
(* an answer may come when the breaker has moved on.                       *)
(***************************************************************************)
EXTENDS Integers

CONSTANTS
    Callers,      \* calls in flight at once
    Threshold,    \* failureThreshold
    OpenFor,      \* openDurationMs, in ticks of the model's clock
    HalfOpenFor   \* halfOpenTimeoutMs, in ticks

ASSUME BrAssumption ==
    /\ Threshold \in Nat \ {0}
    /\ OpenFor \in Nat \ {0} /\ HalfOpenFor \in Nat \ {0}

VARIABLES
    brState,      \* state
    brFailures,   \* failures
    sinceFail,    \* now - lastFailureAt, up to OpenFor
    sinceProbe,   \* now - halfOpenProbeAt, up to HalfOpenFor
    healthy,      \* whether the dependency answers
    brCall        \* the call of each caller: one the outage hit will fail

brVars == <<brState, brFailures, sinceFail, sinceProbe, healthy, brCall>>

\* The breaker's fields are in their ranges.
BrTypeOK ==
    /\ brState \in {"closed", "open", "half-open"}
    /\ brFailures \in 0..Threshold
    /\ sinceFail \in 0..OpenFor /\ sinceProbe \in 0..HalfOpenFor
    /\ healthy \in BOOLEAN
    /\ brCall \in [Callers -> {"none", "good", "bad"}]

BrInit ==
    /\ brState = "closed" /\ brFailures = 0
    /\ sinceFail = OpenFor /\ sinceProbe = HalfOpenFor
    /\ healthy = TRUE
    /\ brCall = [c \in Callers |-> "none"]

\* getState: an open breaker whose cooldown is over turns half-open.
Cooled == brState = "open" /\ sinceFail >= OpenFor

\* shouldSkip, by the state and the probe time that getState leaves.
Passes ==
    \/ brState = "closed"
    \/ brState = "half-open" /\ sinceProbe >= HalfOpenFor

\* A call that begins, or is skipped.
BrTry(c) ==
    /\ brCall[c] = "none"
    /\ IF Cooled
       THEN /\ brState' = "half-open" /\ sinceProbe' = 0
            /\ UNCHANGED brCall
       ELSE /\ Passes
            /\ brCall' = [brCall EXCEPT ![c] = IF healthy THEN "good" ELSE "bad"]
            /\ UNCHANGED <<brState, sinceProbe>>
    /\ UNCHANGED <<brFailures, sinceFail, healthy>>

\* Variant: a success counts only in the closed state.
RecordSuccessClosed ==
    /\ brFailures' = IF brState = "closed" THEN 0 ELSE brFailures
    /\ UNCHANGED brState

RecordSuccess ==
    /\ brState' = IF brState = "half-open" THEN "closed" ELSE brState
    /\ brFailures' = IF brState = "open" THEN brFailures ELSE 0

RecordFailure ==
    /\ sinceFail' = 0
    /\ brFailures' = IF brState = "closed" THEN brFailures + 1 ELSE brFailures
    /\ brState' = IF brState = "half-open" \/ brFailures' >= Threshold THEN "open"
                  ELSE brState

BrSucceeds(c) ==
    /\ brCall[c] = "good"
    /\ RecordSuccess
    /\ brCall' = [brCall EXCEPT ![c] = "none"]
    /\ UNCHANGED <<sinceFail, sinceProbe, healthy>>

BrFails(c) ==
    /\ brCall[c] = "bad"
    /\ RecordFailure
    /\ brCall' = [brCall EXCEPT ![c] = "none"]
    /\ UNCHANGED <<sinceProbe, healthy>>

\* An error that does not speak of the dependency is not recorded.
BrOtherError(c) ==
    /\ brCall[c] = "good"
    /\ brCall' = [brCall EXCEPT ![c] = "none"]
    /\ UNCHANGED <<brState, brFailures, sinceFail, sinceProbe, healthy>>

\* The dependency goes away, under the calls in flight, and comes back.
Outage ==
    /\ healthy
    /\ healthy' = FALSE
    /\ brCall' = [c \in Callers |-> IF brCall[c] = "none" THEN "none" ELSE "bad"]
    /\ UNCHANGED <<brState, brFailures, sinceFail, sinceProbe>>

Recovery ==
    /\ ~healthy
    /\ healthy' = TRUE
    /\ UNCHANGED <<brState, brFailures, sinceFail, sinceProbe, brCall>>

BrTick ==
    /\ sinceFail < OpenFor \/ sinceProbe < HalfOpenFor
    /\ sinceFail' = IF sinceFail < OpenFor THEN sinceFail + 1 ELSE sinceFail
    /\ sinceProbe' = IF sinceProbe < HalfOpenFor THEN sinceProbe + 1 ELSE sinceProbe
    /\ UNCHANGED <<brState, brFailures, healthy, brCall>>

BrNext ==
    \/ \E c \in Callers : BrTry(c) \/ BrSucceeds(c) \/ BrFails(c) \/ BrOtherError(c)
    \/ Outage \/ Recovery \/ BrTick

-----------------------------------------------------------------------------

\* Once the dependency is back for good the breaker closes for good: late
\* failures of old calls only put that off.  This rests on calls that keep
\* coming, for the breaker has no timer of its own.
BreakerRecovers == <>[]healthy => <>[](brState = "closed")

=============================================================================
