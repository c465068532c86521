------------------------------ MODULE VideoCall ------------------------------
(***************************************************************************)
(* Paid video calls: videoCallSessionService of                            *)
(* src/services/video-call.service.ts, the session part of                 *)
(* src/repositories/video-call.repository.ts, and callAccept and           *)
(* callMinute of src/services/internalLedger.service.ts.                   *)
(*                                                                         *)
(* A call is billed in one of two ways.  A call that Live-server rings is  *)
(* billed by Live-server, which asks for minute 1 with the accept and for  *)
(* each later minute by its number: charge and count are one transaction   *)
(* under the lock of the row.  A call made here is billed by ticks; but    *)
(* nothing in the row says which way is meant, and both serve any call.    *)
(*                                                                         *)
(* The client of the caller posts a tick each minute.  A tick reads the    *)
(* session row from the read replica, charges the next minute in one       *)
(* transaction, and only after the commit adds the minute to the row.      *)
(* Ticks of one call overlap when a client retries, calls are ended at any *)
(* moment by either participant, by the sweep of stale calls or by a tick, *)
(* and a process may stop between the commit and the count.                *)
(*                                                                         *)
(* The replica answers with the row as it was at any earlier moment.  The  *)
(* balance cache may be stale, so what it says of the next minute is a     *)
(* choice.  A minute costs one unit of coins.                              *)
(***************************************************************************)
EXTENDS Integers, Sequences

CONSTANTS
    Calls,      \* ids of video_call_sessions between one caller and one host
    Ticks,      \* tick requests in flight at once
    CallCoins,  \* coins the caller starts with, in minutes
    MaxTopUps   \* bound on the coins added during the calls

ASSUME CallAssumption == Calls # {} /\ CallCoins \in Nat /\ MaxTopUps \in Nat

VARIABLES
    session,  \* [status, minsCharged] of each row
    served,   \* the values of the row a replica may still answer with
    minutes,  \* the committed debits (and credits) of each call, in order
    coins,    \* the caller's ledger balance
    frozen,   \* the caller's personal coins are frozen
    topUps,   \* coins added so far
    tick,     \* what each request is doing
    atEnd     \* minutes charged when the call first ended (history)

callVars == <<session, served, minutes, coins, frozen, topUps, tick, atEnd>>

CallStatus == {"NONE", "RINGING", "ACTIVE", "ENDED", "INSUFFICIENT_COINS", "MISSED"}
Ended == {"ENDED", "INSUFFICIENT_COINS", "MISSED"}
SessionRow == [status : CallStatus, minsCharged : Nat]

\* A charged minute: who asked for it, and its number.
Minute == [by : {"tick", "live"}, n : Nat]

Tick == [pc : {"idle", "frozen", "charge", "count", "afford"},
         call : Calls, minute : Nat]

\* Rows, requests and balances are of the kinds the schema allows.
CallTypeOK ==
    /\ session \in [Calls -> SessionRow]
    /\ served \in [Calls -> SUBSET SessionRow]
    /\ minutes \in [Calls -> Seq(Minute)]
    /\ coins \in Nat
    /\ frozen \in BOOLEAN
    /\ topUps \in 0..MaxTopUps
    /\ tick \in [Ticks -> Tick]
    /\ atEnd \in [Calls -> Nat]

NoRow == [status |-> "NONE", minsCharged |-> 0]
IdleTick == [pc |-> "idle", call |-> CHOOSE c \in Calls : TRUE, minute |-> 0]

CallInit ==
    /\ session = [c \in Calls |-> NoRow]
    /\ served = [c \in Calls |-> {NoRow}]
    /\ minutes = [c \in Calls |-> <<>>]
    /\ coins = CallCoins
    /\ frozen = FALSE
    /\ topUps = 0
    /\ tick = [t \in Ticks |-> IdleTick]
    /\ atEnd = [c \in Calls |-> 0]

\* prisma.videoCallSession.update: the row, now and for the replica.
WriteSession(c, row) ==
    /\ session' = [session EXCEPT ![c] = row]
    /\ served' = [served EXCEPT ![c] = @ \cup {row}]

\* endSession writes the status by id, whatever the status was.
EndSession(c, status) ==
    /\ WriteSession(c, [session[c] EXCEPT !.status = status])
    /\ atEnd' = [atEnd EXCEPT ![c] = IF session[c].status = "ACTIVE"
                                     THEN Len(minutes[c]) ELSE @]

\* initiate.  The test for another active call reads the replica and the
\* test for the first minute reads the cache: neither holds back a call.
\* The room has been created; a failure to create it leaves no row.
Initiate(c) ==
    /\ session[c].status = "NONE"
    /\ ~frozen
    /\ WriteSession(c, [NoRow EXCEPT !.status = "ACTIVE"])
    /\ UNCHANGED <<minutes, coins, frozen, topUps, tick, atEnd>>

\* Variant: tick does not test the status.
TickReadAny(t, c) ==
    /\ tick[t].pc = "idle"
    /\ \E row \in served[c] :
         tick' = [tick EXCEPT ![t] = [pc |-> "frozen", call |-> c,
                                      minute |-> row.minsCharged + 1]]
    /\ UNCHANGED <<session, served, minutes, coins, frozen, topUps, atEnd>>

\* tick: the row must be ACTIVE, as far as the replica knows.
TickRead(t, c) ==
    /\ tick[t].pc = "idle"
    /\ \E row \in served[c] :
         /\ row.status = "ACTIVE"
         /\ tick' = [tick EXCEPT ![t] = [pc |-> "frozen", call |-> c,
                                         minute |-> row.minsCharged + 1]]
    /\ UNCHANGED <<session, served, minutes, coins, frozen, topUps, atEnd>>

\* assertCoinDebitAllowed: frozen coins end the call.
CheckFrozen(t) ==
    /\ tick[t].pc = "frozen"
    /\ IF frozen
       THEN /\ EndSession(tick[t].call, "ENDED")
            /\ tick' = [tick EXCEPT ![t] = IdleTick]
       ELSE /\ tick' = [tick EXCEPT ![t].pc = "charge"]
            /\ UNCHANGED <<session, served, atEnd>>
    /\ UNCHANGED <<minutes, coins, frozen, topUps>>

\* Variant: the rows of a minute have no idempotency key.
FreshAlways(c, m) == TRUE

\* The keys videocall-<id>-min-<n>-coin and -point of a tick, and
\* call-<id>-min-<n>-coins and -points of Live-server, are UNIQUE.
FreshMinute(c, m) == \A i \in 1..Len(minutes[c]) : minutes[c][i] # m

\* The debit of the caller and the credit of the host.
Bill(c, m) ==
    /\ minutes' = [minutes EXCEPT ![c] = Append(@, m)]
    /\ coins' = coins - 1

\* The transaction: both wallets locked, the balance tested on the ledger,
\* then the caller's debit, the host's credit and the agent's commission.
\* A balance too low or a key already used rolls all of it back.
Charge(t) ==
    /\ tick[t].pc = "charge"
    /\ LET c == tick[t].call
           m == [by |-> "tick", n |-> tick[t].minute]
       IN IF coins >= 1 /\ FreshMinute(c, m)
          THEN /\ Bill(c, m)
               /\ tick' = [tick EXCEPT ![t].pc = "count"]
          ELSE /\ tick' = [tick EXCEPT ![t] = IdleTick]
               /\ UNCHANGED <<minutes, coins>>
    /\ UNCHANGED <<session, served, frozen, topUps, atEnd>>

\* incrementMinute, by id, after the commit.
CountMinute(t) ==
    /\ tick[t].pc = "count"
    /\ WriteSession(tick[t].call,
                    [session[tick[t].call] EXCEPT !.minsCharged = @ + 1])
    /\ tick' = [tick EXCEPT ![t].pc = "afford"]
    /\ UNCHANGED <<minutes, coins, frozen, topUps, atEnd>>

\* canContinue, read through the balance cache.
CheckNext(t) ==
    /\ tick[t].pc = "afford"
    /\ \/ EndSession(tick[t].call, "INSUFFICIENT_COINS")
       \/ UNCHANGED <<session, served, atEnd>>
    /\ tick' = [tick EXCEPT ![t] = IdleTick]
    /\ UNCHANGED <<minutes, coins, frozen, topUps>>

\* end, by a participant, or closeSession of the sweep.  A row that is not
\* ACTIVE for the replica is left alone.  Deleting the room is best effort.
\* Live-server ends its calls in the same way.
End(c) ==
    /\ \E row \in served[c] : row.status = "ACTIVE"
    /\ EndSession(c, "ENDED")
    /\ UNCHANGED <<minutes, coins, frozen, topUps, tick>>

-----------------------------------------------------------------------------
(* Live-server's calls.                                                    *)

\* Live-server creates the row.
Ring(c) ==
    /\ session[c].status = "NONE"
    /\ WriteSession(c, [NoRow EXCEPT !.status = "RINGING"])
    /\ UNCHANGED <<minutes, coins, frozen, topUps, tick, atEnd>>

\* A call not taken is closed, by a row that is RINGING for the replica.
Miss(c) ==
    /\ \E row \in served[c] : row.status = "RINGING"
    /\ EndSession(c, "MISSED")
    /\ UNCHANGED <<minutes, coins, frozen, topUps, tick>>

\* billMinute and the count, in one transaction.  Frozen coins, a balance too
\* low or a key already used rolls all of it back.
BillLive(c, n) ==
    /\ ~frozen /\ coins >= 1
    /\ FreshMinute(c, [by |-> "live", n |-> n])
    /\ Bill(c, [by |-> "live", n |-> n])
    /\ WriteSession(c, [status |-> "ACTIVE", minsCharged |-> n])
    /\ UNCHANGED <<frozen, topUps, tick, atEnd>>

\* Under lockSession: a call that rings is accepted with its first minute.
CallAccept(c) ==
    /\ session[c].status = "RINGING"
    /\ BillLive(c, 1)

\* Under lockSession: the minute asked for, at least 2, is the next one.  One
\* already counted changes nothing; one further on, or of a call that is no
\* longer ACTIVE, is refused.
CallMinute(c) ==
    /\ session[c].status = "ACTIVE"
    /\ session[c].minsCharged >= 1
    /\ BillLive(c, session[c].minsCharged + 1)

-----------------------------------------------------------------------------

\* The process of a request stops.
TickCrash(t) ==
    /\ tick[t].pc # "idle"
    /\ tick' = [tick EXCEPT ![t] = IdleTick]
    /\ UNCHANGED <<session, served, minutes, coins, frozen, topUps, atEnd>>

\* An administrator freezes or releases the caller's coins.
Freeze ==
    /\ frozen' = ~frozen
    /\ UNCHANGED <<session, served, minutes, coins, topUps, tick, atEnd>>

TopUp ==
    /\ topUps < MaxTopUps
    /\ topUps' = topUps + 1
    /\ coins' = coins + 1
    /\ UNCHANGED <<session, served, minutes, frozen, tick, atEnd>>

CallNext ==
    \/ \E c \in Calls : \/ Initiate(c) \/ End(c)
                        \/ Ring(c) \/ Miss(c) \/ CallAccept(c) \/ CallMinute(c)
    \/ \E t \in Ticks, c \in Calls : TickRead(t, c)
    \/ \E t \in Ticks : CheckFrozen(t) \/ Charge(t) \/ CountMinute(t)
                        \/ CheckNext(t) \/ TickCrash(t)
    \/ Freeze
    \/ TopUp

CallSpec == CallInit /\ [][CallNext]_callVars

-----------------------------------------------------------------------------

\* The call has been billed in this way only.
BilledBy(c, way) == \A i \in 1..Len(minutes[c]) : minutes[c][i].by = way

\* The minutes charged to a call that is billed in one way are 1..k without a
\* gap: a retried, late or overlapping request never charges a minute twice or
\* skips one.  minsCharged never runs ahead of the ledger: it is k, or k - 1
\* when the minute of a tick is not counted (yet).
MinutesInOrder ==
    \A c \in Calls :
        LET k == Len(minutes[c])
        IN /\ BilledBy(c, "tick") \/ BilledBy(c, "live")
                => \A i \in 1..k : minutes[c][i].n = i
           /\ BilledBy(c, "tick") => k - session[c].minsCharged \in {0, 1}
           /\ BilledBy(c, "live") => session[c].minsCharged = k

\* A call that has ended is charged at most one more minute, by a tick that
\* saw it active, however many ticks are in flight and however stale the
\* replica is; and nothing more when Live-server bills it.
OneMinuteAfterEnd ==
    \A c \in Calls : session[c].status \in Ended =>
        /\ BilledBy(c, "tick") => Len(minutes[c]) <= atEnd[c] + 1
        /\ BilledBy(c, "live") => Len(minutes[c]) = atEnd[c]

=============================================================================
