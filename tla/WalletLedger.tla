---------------------------- MODULE WalletLedger ----------------------------
(***************************************************************************)
(* The ledger of one wallet: creditInTransaction and debit of              *)
(* src/services/point-wallet.service.ts, credit and debit of               *)
(* coin-wallet.service.ts, and the repositories below them.                *)
(*                                                                         *)
(* The balance of a wallet is not stored.  Each row carries the running    *)
(* balance, and the row with the greatest created_at is taken for the last *)
(* one.  A transaction may write several rows (the payout and the reward   *)
(* of a payroll); it takes the wallet lock at its first row and keeps it   *)
(* to its end.  Looking for the idempotency key comes before the lock.     *)
(*                                                                         *)
(* created_at is given by @default(now()): the clock of the server that    *)
(* runs the statement, or the start of the transaction, in milliseconds,   *)
(* and not the order in which the lock was granted.  Lag bounds by how     *)
(* many rows it may fall behind that order: 0 when clocks agree and rows   *)
(* are a millisecond apart, 1 when two rows may have one time, 2 and more  *)
(* when they may be swapped.                                               *)
(***************************************************************************)
EXTENDS Integers, Sequences, FiniteSets

CONSTANTS
    Workers,    \* transactions in flight at once
    Keys,       \* idempotency keys
    Delta,      \* what the row of a key adds to the balance: credit > 0 > debit
    Txs,        \* the transactions: the keys each writes, in order
    None,       \* null
    Lag,        \* see above
    MaxStarts   \* bound on the transactions begun, retries included

VARIABLES
    rows,     \* committed rows of point_ledger_entries or coin_ledger_entries
    sum,      \* the direction-adjusted sum over rows
    inserts,  \* rows inserted so far, also by transactions rolled back
    lock,     \* the worker holding the wallet row, or None
    proc,     \* what every worker is doing
    starts    \* transactions begun so far

vars == <<rows, sum, inserts, lock, proc, starts>>

ASSUME DeltaAssumption == Delta \in [Keys -> Int \ {0}]
ASSUME TxsAssumption == Txs \subseteq Seq(Keys) \ {<<>>}
ASSUME LagAssumption == Lag \in Nat /\ MaxStarts \in Nat
ASSUME NoneAssumption == None \notin Workers

\* at is created_at; seq, which no column holds, numbers the inserts.
Row == [key : Keys, balanceAfter : Int, at : Int, seq : Nat]

Worker == [pc : {"idle", "lookup", "lock", "insert", "commit"},
           tx : Seq(Keys),     \* the keys still to write
           new : SUBSET Row,   \* rows written and not committed
           sum : Int]          \* their sum

Idle == [pc |-> "idle", tx |-> <<>>, new |-> {}, sum |-> 0]

\* The wallet lock is held by a transaction that has not ended.
TypeOK ==
    /\ rows \subseteq Row
    /\ sum \in Int
    /\ inserts \in Nat
    /\ lock \in {p \in Workers : proc[p].pc # "idle"} \cup {None}
    /\ proc \in [Workers -> Worker]
    /\ starts \in Nat

Init ==
    /\ rows = {}
    /\ sum = 0
    /\ inserts = 0
    /\ lock = None
    /\ proc = [p \in Workers |-> Idle]
    /\ starts = 0

HasKey(R, k) == \E r \in R : r.key = k

\* findFirst({ orderBy: { createdAt: 'desc' } }): any of the newest rows.
Newest(R) == {r \in R : \A s \in R : s.at <= r.at}
Balances(R) == IF R = {} THEN {0} ELSE {r.balanceAfter : r \in Newest(R)}

\* Variant: the tail is read outside the transaction, without its own rows.
VisibleCommitted(p) == rows

\* What transaction p sees of the ledger.
Visible(p) == rows \cup proc[p].new

\* A debit is refused when the balance does not cover it.
Covers(b, k) == b + Delta[k] >= 0 \/ Delta[k] > 0

\* Variant: no UNIQUE constraint on the key.
UniqueNever(p, k) == TRUE

\* The UNIQUE constraint on idempotency_key.
Unique(p, k) == ~HasKey(Visible(p), k)

CreatedAt == (inserts + 1 - Lag)..(inserts + 1)

After(s) == IF s = <<>> THEN "commit" ELSE "lookup"

Begin(p) ==
    /\ proc[p].pc = "idle"
    /\ starts < MaxStarts
    /\ \E t \in Txs : proc' = [proc EXCEPT ![p] = [Idle EXCEPT !.pc = "lookup",
                                                               !.tx = t]]
    /\ starts' = starts + 1
    /\ UNCHANGED <<rows, sum, inserts, lock>>

\* findByIdempotencyKey: a key that exists has been applied before.
Lookup(p) ==
    /\ proc[p].pc = "lookup"
    /\ LET s == proc[p].tx IN
         proc' = [proc EXCEPT ![p] =
                    IF HasKey(Visible(p), Head(s))
                    THEN [@ EXCEPT !.pc = After(Tail(s)), !.tx = Tail(s)]
                    ELSE [@ EXCEPT !.pc = "lock"]]
    /\ UNCHANGED <<rows, sum, inserts, lock, starts>>

\* Variant: SELECT without FOR UPDATE.
LockWalletShared(p) ==
    /\ proc[p].pc = "lock"
    /\ lock' = p
    /\ proc' = [proc EXCEPT ![p].pc = "insert"]
    /\ UNCHANGED <<rows, sum, inserts, starts>>

\* lockForUpdate
LockWallet(p) ==
    /\ proc[p].pc = "lock"
    /\ lock \in {None, p}
    /\ lock' = p
    /\ proc' = [proc EXCEPT ![p].pc = "insert"]
    /\ UNCHANGED <<rows, sum, inserts, starts>>

\* The tail, the test and the insert, under the lock.
Insert(p) ==
    /\ proc[p].pc = "insert"
    /\ LET s == proc[p].tx
           k == Head(s)
       IN  /\ Unique(p, k)
           /\ \E b \in Balances(Visible(p)), at \in CreatedAt :
                /\ Covers(b, k)
                /\ proc' = [proc EXCEPT ![p] =
                     [pc |-> After(Tail(s)), tx |-> Tail(s),
                      new |-> @.new \cup {[key |-> k, balanceAfter |-> b + Delta[k],
                                           at |-> at, seq |-> inserts + 1]},
                      sum |-> @.sum + Delta[k]]]
    /\ inserts' = inserts + 1
    /\ UNCHANGED <<rows, sum, lock, starts>>

\* Variant: the rows written so far stay.
RollbackKeeps(p) ==
    /\ rows' = rows \cup proc[p].new
    /\ sum' = sum + proc[p].sum
    /\ proc' = [proc EXCEPT ![p] = Idle]
    /\ lock' = IF lock = p THEN None ELSE lock
    /\ UNCHANGED <<inserts, starts>>

\* Variant: the lock is not released.
RollbackHoldsLock(p) ==
    /\ proc' = [proc EXCEPT ![p] = Idle]
    /\ UNCHANGED <<rows, sum, inserts, lock, starts>>

Rollback(p) ==
    /\ proc' = [proc EXCEPT ![p] = Idle]
    /\ lock' = IF lock = p THEN None ELSE lock
    /\ UNCHANGED <<rows, sum, inserts, starts>>

\* The insert hits the key of a transaction that committed after the lookup.
Duplicate(p) ==
    /\ proc[p].pc = "insert"
    /\ ~Unique(p, Head(proc[p].tx))
    /\ Rollback(p)

\* INSUFFICIENT_POINTS, INSUFFICIENT_COINS, or a frozen wallet.
Refuse(p) ==
    /\ proc[p].pc = "insert"
    /\ Delta[Head(proc[p].tx)] < 0
    /\ Rollback(p)

\* A crash, a timeout, a serialization abort, or an error later in the handler.
Abort(p) ==
    /\ proc[p].pc # "idle"
    /\ Rollback(p)

Commit(p) ==
    /\ proc[p].pc = "commit"
    /\ rows' = rows \cup proc[p].new
    /\ sum' = sum + proc[p].sum
    /\ proc' = [proc EXCEPT ![p] = Idle]
    /\ lock' = IF lock = p THEN None ELSE lock
    /\ UNCHANGED <<inserts, starts>>

Next ==
    \E p \in Workers :
      \/ Begin(p) \/ Lookup(p) \/ LockWallet(p) \/ Insert(p) \/ Duplicate(p)
      \/ Refuse(p) \/ Abort(p) \/ Commit(p)

Spec == Init /\ [][Next]_vars

(***************************************************************************)
(* Properties                                                              *)
(***************************************************************************)

\* coin-ledger.repository.ts:68-69 (computeBalance): "the newest row's snapshot
\* equals the direction-adjusted SUM over the whole ledger".
TailIsSum == Balances(rows) = {sum}

\* created_at follows the order of the inserts among these rows: what the code
\* takes for granted when it orders by created_at alone.
InOrder(R) == \A r, s \in R : r.seq < s.seq => r.at < s.at

\* Debits that overlap never spend more than was credited.
NeverOverdrawn == sum >= 0 /\ \A r \in rows : r.balanceAfter >= 0

\* An operation that is delivered twice, or retried after an answer was lost,
\* moves the balance once.
AppliedOnce == \A r, s \in rows : r.key = s.key => r = s

\* The rows of one transaction are all there or not at all: an agency never
\* has the payout without the reward.
AllOrNothing ==
    \A t \in Txs : \A i, j \in DOMAIN t : HasKey(rows, t[i]) => HasKey(rows, t[j])

(***************************************************************************)
(* Refinement: the transaction that holds the wallet lock is the one that  *)
(* is in progress on the abstract account, and the balance is the one a    *)
(* reader finds on the newest row.                                         *)
(***************************************************************************)
KeysOf(R) == {r.key : r \in R}
Elements(s) == {s[i] : i \in 1..Len(s)}
TailBalance == CHOOSE b \in Balances(rows) : TRUE

Abstract == INSTANCE Account WITH
    Transactions <- {Elements(t) : t \in Txs},
    balance <- TailBalance,
    applied <- KeysOf(rows),
    posted <- IF lock = None THEN {} ELSE KeysOf(proc[lock].new),
    change <- IF lock = None THEN 0 ELSE proc[lock].sum

\* Overlapping transactions, with their lookups before the lock, their aborts
\* and their retries, look to every reader like transactions run in turn.
ImplementsAccount == Abstract!Spec

=============================================================================
