------------------------ MODULE WalletLedgerProofs ------------------------
(***************************************************************************)
(* The properties of the ledger for any number of workers, keys and        *)
(* transactions, and any Lag of the clocks.  AppliedOnce holds whatever    *)
(* the clocks do; TailIsSum and NeverOverdrawn hold of every ledger whose  *)
(* rows have the times of the order of their inserts.                      *)
(***************************************************************************)
EXTENDS WalletLedger, SumTheorems

TypeInv ==
    /\ rows \subseteq Row
    /\ sum \in Int
    /\ inserts \in Nat
    /\ lock \in Workers \cup {None}
    /\ proc \in [Workers -> Worker]
    /\ starts \in Nat

\* The lock: who may insert, and who has inserted, holds it.
LockInv ==
    /\ lock # None => proc[lock].pc # "idle"
    /\ \A p \in Workers :
         /\ proc[p].pc = "insert" => lock = p
         /\ proc[p].new # {} => lock = p
         /\ proc[p].pc \in {"lookup", "lock", "insert"} => proc[p].tx # <<>>

\* Keys are unique in what a transaction sees, its own rows included.
KeyInv ==
    /\ AppliedOnce
    /\ \A p \in Workers : \A r, s \in rows \cup proc[p].new : r.key = s.key => r = s

BaseInv == TypeInv /\ LockInv /\ KeyInv

(***************************************************************************)
(* Types and the lock, with any clocks                                     *)
(***************************************************************************)

\* What is left of a transaction after its first key, and where it goes on.
LEMMA TailFacts ==
    ASSUME NEW s \in Seq(Keys), s # <<>>
    PROVE  /\ Head(s) \in Keys /\ Tail(s) \in Seq(Keys)
           /\ After(Tail(s)) \in {"lookup", "commit"}
           /\ After(Tail(s)) = "lookup" => Tail(s) # <<>>
  BY DEF After

\* The worker of a transaction that has ended, or not begun.
LEMMA IdleFacts ==
    /\ Idle \in Worker /\ Idle.pc = "idle" /\ Idle.new = {} /\ Idle.sum = 0
  BY DEF Idle, Worker

\* The row Insert writes, and the record it leaves.
LEMMA InsertFacts ==
    ASSUME BaseInv, NEW p \in Workers, Insert(p)
    PROVE  \E b \in Balances(Visible(p)), at \in CreatedAt :
             LET k == Head(proc[p].tx)
                 x == [key |-> k, balanceAfter |-> b + Delta[k], at |-> at,
                       seq |-> inserts + 1]
             IN  /\ k \in Keys /\ x \in Row /\ b \in Int /\ at \in Int
                 /\ Unique(p, k) /\ Covers(b, k)
                 /\ lock = p /\ UNCHANGED <<rows, sum, lock, starts>>
                 /\ inserts' = inserts + 1
                 /\ proc' \in [Workers -> Worker]
                 /\ \A q \in Workers \ {p} : proc'[q] = proc[q]
                 /\ proc'[p].new = proc[p].new \cup {x}
                 /\ proc'[p].sum = proc[p].sum + Delta[k]
                 /\ proc'[p].pc \in {"lookup", "commit"}
                 /\ proc'[p].pc = "lookup" => proc'[p].tx # <<>>
  <1> DEFINE s == proc[p].tx
             k == Head(s)
  <1>1. /\ proc \in [Workers -> Worker] /\ proc[p] \in Worker /\ proc[p].pc = "insert"
        /\ rows \subseteq Row /\ inserts \in Nat
    BY DEF BaseInv, TypeInv, Insert
  <1>2. lock = p /\ s # <<>> /\ s \in Seq(Keys) /\ proc[p].new \subseteq Row
          /\ proc[p].sum \in Int
    BY <1>1 DEF BaseInv, LockInv, Worker
  <1>3. /\ k \in Keys /\ Tail(s) \in Seq(Keys) /\ After(Tail(s)) \in {"lookup", "commit"}
        /\ After(Tail(s)) = "lookup" => Tail(s) # <<>>
    BY <1>2, TailFacts
  <1>4. PICK b \in Balances(Visible(p)), at \in CreatedAt :
          /\ Unique(p, k) /\ Covers(b, k)
          /\ proc' = [proc EXCEPT ![p] =
               [pc |-> After(Tail(s)), tx |-> Tail(s),
                new |-> @.new \cup {[key |-> k, balanceAfter |-> b + Delta[k],
                                     at |-> at, seq |-> inserts + 1]},
                sum |-> @.sum + Delta[k]]]
    BY DEF Insert
  <1>5. at \in Int
    BY <1>1, LagAssumption DEF CreatedAt
  <1>6. b \in Int
    BY <1>1, <1>2 DEF Balances, Newest, Visible, Row
  <1>7. Delta[k] \in Int
    BY <1>3, DeltaAssumption
  <1> DEFINE x == [key |-> k, balanceAfter |-> b + Delta[k], at |-> at,
                   seq |-> inserts + 1]
             w == [pc |-> After(Tail(s)), tx |-> Tail(s),
                   new |-> proc[p].new \cup {x}, sum |-> proc[p].sum + Delta[k]]
  <1>8. x \in Row
    BY <1>1, <1>3, <1>5, <1>6, <1>7 DEF Row
  <1>9. proc' = [proc EXCEPT ![p] = w]
    BY <1>4
  <1>10. proc[p].new \cup {x} \in SUBSET Row /\ proc[p].sum + Delta[k] \in Int
    BY <1>2, <1>7, <1>8
  <1> HIDE DEF x, k
  <1>11. w \in Worker
    BY <1>3, <1>10 DEF Worker
  <1>12. /\ w.pc = After(Tail(s)) /\ w.tx = Tail(s) /\ w.new = proc[p].new \cup {x}
         /\ w.sum = proc[p].sum + Delta[k]
    OBVIOUS
  <1> HIDE DEF w
  <1>13. /\ proc' \in [Workers -> Worker] /\ proc'[p] = w
         /\ \A q \in Workers \ {p} : proc'[q] = proc[q]
    BY <1>1, <1>9, <1>11
  <1>14. UNCHANGED <<rows, sum, lock, starts>> /\ inserts' = inserts + 1
    BY DEF Insert
  <1> QED BY <1>2, <1>3, <1>4, <1>5, <1>6, <1>8, <1>12, <1>13, <1>14 DEF x, k

\* A transaction ends, with or without its rows, and gives the lock back.
LEMMA EndBase ==
    ASSUME BaseInv, NEW p \in Workers, proc' = [proc EXCEPT ![p] = Idle],
           lock' = IF lock = p THEN None ELSE lock, UNCHANGED <<inserts, starts>>,
           \/ UNCHANGED <<rows, sum>>
           \/ rows' = rows \cup proc[p].new /\ sum' = sum + proc[p].sum
    PROVE  BaseInv'
  <1>1. proc \in [Workers -> Worker] /\ proc[p] \in Worker /\ None \notin Workers
    BY NoneAssumption DEF BaseInv, TypeInv
  <1>2. proc[p].new \subseteq Row /\ proc[p].sum \in Int
    BY <1>1 DEF Worker
  <1>3. /\ proc' \in [Workers -> Worker] /\ proc'[p] = Idle
        /\ \A q \in Workers \ {p} : proc'[q] = proc[q]
    BY <1>1, IdleFacts
  <1>4. TypeInv'
    BY <1>2, <1>3 DEF BaseInv, TypeInv
  <1>5. LockInv'
    BY <1>1, <1>3, IdleFacts DEF BaseInv, LockInv, TypeInv
  <1>6. \A q \in Workers : rows' \cup proc'[q].new \subseteq rows \cup proc[q].new
                             \/ rows' \cup proc'[q].new \subseteq rows \cup proc[p].new
    <2>1. CASE proc[p].new = {}
      BY <1>3, <2>1, IdleFacts
    <2>2. CASE proc[p].new # {}
      <3>1. \A q \in Workers \ {p} : proc[q].new = {}
        BY <2>2 DEF BaseInv, LockInv
      <3> QED BY <1>3, <3>1, IdleFacts
    <2> QED BY <2>1, <2>2
  <1>7. KeyInv'
    BY <1>6 DEF BaseInv, KeyInv, AppliedOnce
  <1> QED BY <1>4, <1>5, <1>7 DEF BaseInv

\* Every step keeps the types, the lock discipline and the uniqueness of keys.
LEMMA BaseStep == BaseInv /\ [Next]_vars => BaseInv'
  <1> SUFFICES ASSUME BaseInv, [Next]_vars PROVE BaseInv'
    OBVIOUS
  <1>0. /\ proc \in [Workers -> Worker] /\ None \notin Workers
        /\ TypeInv /\ LockInv /\ KeyInv
    BY NoneAssumption DEF BaseInv, TypeInv
  <1>1. CASE UNCHANGED vars
    BY <1>0, <1>1 DEF vars, BaseInv, TypeInv, LockInv, KeyInv, AppliedOnce
  <1>2. ASSUME NEW p \in Workers, Begin(p)
        PROVE  BaseInv'
    <2>1. PICK t \in Txs : proc' = [proc EXCEPT ![p] = [Idle EXCEPT !.pc = "lookup",
                                                                   !.tx = t]]
      BY <1>2 DEF Begin
    <2> DEFINE w == [Idle EXCEPT !.pc = "lookup", !.tx = t]
    <2>2. t \in Seq(Keys) /\ t # <<>> /\ UNCHANGED <<rows, sum, inserts, lock>>
      BY <1>2, TxsAssumption DEF Begin
    <2>2a. /\ w \in Worker /\ w.pc = "lookup" /\ w.tx = t /\ w.new = {}
      BY <2>2, IdleFacts DEF Worker
    <2> HIDE DEF w
    <2>3. /\ proc' \in [Workers -> Worker] /\ proc'[p] = w
          /\ \A q \in Workers \ {p} : proc'[q] = proc[q]
      BY <1>0, <2>1, <2>2a DEF w
    <2>4. TypeInv'
      BY <1>0, <1>2, <2>3 DEF TypeInv, Begin
    <2>5. LockInv'
      BY <1>0, <1>2, <2>2, <2>2a, <2>3 DEF LockInv, TypeInv, Begin
    <2>6. KeyInv'
      BY <1>0, <2>2, <2>2a, <2>3 DEF KeyInv, AppliedOnce
    <2> QED BY <2>4, <2>5, <2>6 DEF BaseInv
  <1>3. ASSUME NEW p \in Workers, Lookup(p)
        PROVE  BaseInv'
    <2> DEFINE s == proc[p].tx
               w == IF HasKey(Visible(p), Head(s))
                    THEN [proc[p] EXCEPT !.pc = After(Tail(s)), !.tx = Tail(s)]
                    ELSE [proc[p] EXCEPT !.pc = "lock"]
    <2>1. proc[p] \in Worker /\ proc[p].pc = "lookup" /\ s \in Seq(Keys) /\ s # <<>>
      BY <1>0, <1>3 DEF Lookup, LockInv, Worker
    <2>2. /\ Tail(s) \in Seq(Keys) /\ After(Tail(s)) \in {"lookup", "commit"}
          /\ After(Tail(s)) = "lookup" => Tail(s) # <<>>
      BY <2>1, TailFacts
    <2>3. /\ w \in Worker /\ w.new = proc[p].new /\ w.pc \in {"lookup", "lock", "commit"}
          /\ w.pc \in {"lookup", "lock"} => w.tx # <<>>
      BY <2>1, <2>2 DEF Worker
    <2>4. proc' = [proc EXCEPT ![p] = w] /\ UNCHANGED <<rows, sum, inserts, lock, starts>>
      BY <1>3 DEF Lookup
    <2> HIDE DEF w
    <2>5. /\ proc' \in [Workers -> Worker] /\ proc'[p] = w
          /\ \A q \in Workers \ {p} : proc'[q] = proc[q]
      BY <1>0, <2>3, <2>4
    <2>6. TypeInv'
      BY <1>0, <2>4, <2>5 DEF TypeInv
    <2>7. LockInv'
      BY <1>0, <2>1, <2>3, <2>4, <2>5 DEF LockInv, TypeInv
    <2>8. KeyInv'
      BY <1>0, <2>3, <2>4, <2>5 DEF KeyInv, AppliedOnce
    <2> QED BY <2>6, <2>7, <2>8 DEF BaseInv
  <1>4. ASSUME NEW p \in Workers, LockWallet(p)
        PROVE  BaseInv'
    <2> DEFINE w == [proc[p] EXCEPT !.pc = "insert"]
    <2>1. proc[p] \in Worker /\ proc[p].pc = "lock" /\ proc[p].tx # <<>>
      BY <1>0, <1>4 DEF LockWallet, LockInv
    <2>2. /\ w \in Worker /\ w.new = proc[p].new /\ w.pc = "insert" /\ w.tx = proc[p].tx
      BY <2>1 DEF Worker
    <2>3. proc' = [proc EXCEPT ![p] = w]
      BY <1>0, <1>4 DEF LockWallet
    <2> HIDE DEF w
    <2>4. /\ proc' \in [Workers -> Worker] /\ proc'[p] = w
          /\ \A q \in Workers \ {p} : proc'[q] = proc[q]
      BY <1>0, <2>2, <2>3
    <2>5. TypeInv'
      BY <1>0, <1>4, <2>4 DEF TypeInv, LockWallet
    <2>6. LockInv'
      BY <1>0, <1>4, <2>1, <2>2, <2>4 DEF LockInv, LockWallet
    <2>7. KeyInv'
      BY <1>0, <1>4, <2>2, <2>4 DEF KeyInv, AppliedOnce, LockWallet
    <2> QED BY <2>5, <2>6, <2>7 DEF BaseInv
  <1>5. ASSUME NEW p \in Workers, Insert(p)
        PROVE  BaseInv'
    <2>1. PICK x \in Row :
            /\ Unique(p, x.key) /\ lock = p /\ UNCHANGED <<rows, sum, lock, starts>>
            /\ inserts' = inserts + 1 /\ proc' \in [Workers -> Worker]
            /\ \A q \in Workers \ {p} : proc'[q] = proc[q]
            /\ proc'[p].new = proc[p].new \cup {x}
            /\ proc'[p].pc \in {"lookup", "commit"}
            /\ proc'[p].pc = "lookup" => proc'[p].tx # <<>>
      BY <1>5, InsertFacts
    <2>2. TypeInv'
      BY <1>0, <2>1 DEF TypeInv
    <2>3. LockInv'
      BY <1>0, <2>1 DEF LockInv
    <2>4. KeyInv'
      BY <1>0, <2>1 DEF KeyInv, AppliedOnce, Unique, HasKey, Visible
    <2> QED BY <2>2, <2>3, <2>4 DEF BaseInv
  <1>6. ASSUME NEW p \in Workers,
               Duplicate(p) \/ Refuse(p) \/ Abort(p) \/ Commit(p)
        PROVE  BaseInv'
    BY <1>6, EndBase DEF Duplicate, Refuse, Abort, Commit, Rollback
  <1> QED BY <1>1, <1>2, <1>3, <1>4, <1>5, <1>6 DEF Next

\* No row, no lock, no transaction.
LEMMA BaseInit == Init => BaseInv
  BY IdleFacts DEF Init, BaseInv, TypeInv, LockInv, KeyInv, AppliedOnce

\* The wallet lock is held by a live transaction, and every variable keeps its
\* type, whatever order workers and clocks give.
THEOREM TypeCorrect == Spec => []TypeOK
  <1>1. BaseInv => TypeOK
    BY NoneAssumption DEF BaseInv, TypeInv, LockInv, TypeOK
  <1> QED BY <1>1, BaseInit, BaseStep, PTL DEF Spec

\* findByIdempotencyKey runs before the lock, yet with the UNIQUE constraint an
\* operation is applied at most once, with any clocks.
THEOREM AppliedOnceAlways == Spec => []AppliedOnce
  <1>1. BaseInv => AppliedOnce
    BY DEF BaseInv, KeyInv
  <1> QED BY <1>1, BaseInit, BaseStep, PTL DEF Spec

(***************************************************************************)
(* Balances.  created_at need not follow the order of the inserts; what is *)
(* said of the tail is said of every set of rows in which it does.         *)
(***************************************************************************)

\* No row has a number still to be given.
SeqInv ==
    /\ \A r \in rows : r.seq <= inserts
    /\ \A p \in Workers : \A r \in proc[p].new : r.seq <= inserts

\* No row shows a negative balance.  Where the times are in order the tail is
\* the sum, for everybody and for each transaction on its own.
TailInv ==
    /\ InOrder(rows) => Balances(rows) = {sum}
    /\ \A p \in Workers : /\ InOrder(Visible(p)) => Balances(Visible(p)) = {sum + proc[p].sum}
                          /\ proc[p].new = {} => proc[p].sum = 0
                          /\ \A r \in Visible(p) : r.balanceAfter >= 0
    /\ \A r \in rows : r.balanceAfter >= 0

LedgerInv == BaseInv /\ SeqInv /\ TailInv

\* A row later than all the others is the tail.
LEMMA LaterRowIsTail ==
    ASSUME NEW R \in SUBSET Row, NEW x \in Row, \A s \in R : s.at < x.at
    PROVE  Balances(R \cup {x}) = {x.balanceAfter}
  <1>1. x.at \in Int /\ \A s \in R : s.at \in Int
    BY DEF Row
  <1>2. Newest(R \cup {x}) = {x}
    BY <1>1 DEF Newest
  <1> QED BY <1>2 DEF Balances

\* A balance that is read is not negative when no row shows a negative one.
LEMMA BalanceNotNegative ==
    ASSUME NEW R \in SUBSET Row, \A r \in R : r.balanceAfter >= 0,
           NEW b \in Balances(R)
    PROVE  b \in Int /\ b >= 0
  BY DEF Balances, Newest, Row

\* A transaction that ends keeps what is said of times and balances.
LEMMA EndLedger ==
    ASSUME LedgerInv, NEW p \in Workers, proc' = [proc EXCEPT ![p] = Idle],
           UNCHANGED inserts,
           \/ UNCHANGED <<rows, sum>>
           \/ rows' = rows \cup proc[p].new /\ sum' = sum + proc[p].sum
    PROVE  SeqInv' /\ TailInv'
  <1>1. proc \in [Workers -> Worker] /\ sum \in Int /\ \A q \in Workers : proc[q].sum \in Int
    BY DEF LedgerInv, BaseInv, TypeInv, Worker
  <1>2. /\ proc'[p] = Idle
        /\ \A q \in Workers \ {p} : proc'[q] = proc[q]
    BY <1>1
  <1>3. CASE UNCHANGED <<rows, sum>>
    <2>1. SeqInv'
      BY <1>2, <1>3, IdleFacts DEF LedgerInv, SeqInv
    <2>3. ASSUME NEW q \in Workers
          PROVE  /\ InOrder(Visible(q)') => Balances(Visible(q))' = {sum' + proc'[q].sum}
                 /\ proc'[q].new = {} => proc'[q].sum = 0
                 /\ \A r \in Visible(q)' : r.balanceAfter >= 0
      <3>1. CASE q = p
        <4>1. Visible(q)' = rows /\ proc'[q].sum = 0
          BY <1>2, <1>3, <3>1, IdleFacts DEF Visible
        <4>2. Balances(Visible(q))' = Balances(rows) /\ sum' + proc'[q].sum = sum
          BY <1>1, <1>3, <4>1 DEF Balances, Newest
        <4> QED BY <1>3, <4>1, <4>2 DEF LedgerInv, TailInv, Visible
      <3>2. CASE q # p
        <4>1. Visible(q)' = Visible(q) /\ proc'[q] = proc[q]
          BY <1>2, <1>3, <3>2 DEF Visible
        <4>2. Balances(Visible(q))' = Balances(Visible(q))
          BY <4>1 DEF Balances, Newest
        <4> QED BY <1>3, <4>1, <4>2 DEF LedgerInv, TailInv
      <3> QED BY <3>1, <3>2
    <2>4. InOrder(rows') => Balances(rows)' = {sum'}
      BY <1>3 DEF LedgerInv, TailInv, Balances, Newest
    <2> QED BY <1>3, <2>1, <2>3, <2>4 DEF LedgerInv, TailInv, InOrder
  <1>4. CASE rows' = Visible(p) /\ sum' = sum + proc[p].sum /\ proc[p].new # {}
    <2>1. \A q \in Workers : proc'[q].new = {} /\ proc'[q].sum = 0
      <3>1. \A q \in Workers \ {p} : proc[q].new = {}
        BY <1>4 DEF LedgerInv, BaseInv, LockInv
      <3> QED BY <1>2, <3>1, IdleFacts DEF LedgerInv, TailInv
    <2>2. \A q \in Workers : Visible(q)' = Visible(p)
      BY <1>4, <2>1 DEF Visible
    <2>3. SeqInv'
      BY <1>4, <2>1 DEF LedgerInv, SeqInv, Visible
    <2>4. (InOrder(Visible(p)) => Balances(Visible(p)) = {sum'}) /\ sum' \in Int
            /\ \A r \in Visible(p) : r.balanceAfter >= 0
      BY <1>1, <1>4 DEF LedgerInv, TailInv
    <2>5. InOrder(rows') => Balances(rows)' = {sum'}
      BY <1>4, <2>4 DEF Balances, Newest
    <2>6. \A q \in Workers : /\ InOrder(Visible(q)') => Balances(Visible(q))' = {sum' + proc'[q].sum}
                             /\ \A r \in Visible(q)' : r.balanceAfter >= 0
      <3>1. \A q \in Workers : sum' + proc'[q].sum = sum'
        BY <2>1, <2>4
      <3>2. \A q \in Workers : Balances(Visible(q))' = Balances(Visible(p))
        BY <2>2 DEF Balances, Newest
      <3> QED BY <2>2, <2>4, <3>1, <3>2
    <2> QED BY <1>4, <2>1, <2>3, <2>4, <2>5, <2>6 DEF TailInv, InOrder
  <1>5. CASE rows' = Visible(p) /\ sum' = sum + proc[p].sum /\ proc[p].new = {}
    <2>1. rows' = rows /\ proc[p].sum = 0
      BY <1>5 DEF Visible, LedgerInv, TailInv
    <2>2. sum' = sum
      BY <1>1, <1>5, <2>1
    <2> QED BY <1>3, <2>1, <2>2
  <1> QED BY <1>3, <1>4, <1>5 DEF Visible

\* A row added under the lock, if its time is in order, is newer than what is
\* there, and its balance is the old sum and its own amount.
LEMMA InsertLedger ==
    ASSUME LedgerInv, NEW p \in Workers, Insert(p)
    PROVE  SeqInv' /\ TailInv'
  <1>1. BaseInv /\ SeqInv /\ TailInv
    BY DEF LedgerInv
  <1>2. PICK b \in Balances(Visible(p)), at \in CreatedAt :
          LET k == Head(proc[p].tx)
              x == [key |-> k, balanceAfter |-> b + Delta[k], at |-> at,
                    seq |-> inserts + 1]
          IN  /\ k \in Keys /\ x \in Row /\ Covers(b, k) /\ lock = p
              /\ UNCHANGED <<rows, sum, lock>> /\ inserts' = inserts + 1
              /\ \A q \in Workers \ {p} : proc'[q] = proc[q]
              /\ proc'[p].new = proc[p].new \cup {x}
              /\ proc'[p].sum = proc[p].sum + Delta[k]
    BY <1>1, InsertFacts
  <1> DEFINE k == Head(proc[p].tx)
             x == [key |-> k, balanceAfter |-> b + Delta[k], at |-> at,
                   seq |-> inserts + 1]
  <1>3. /\ inserts \in Nat /\ sum \in Int /\ rows \subseteq Row
        /\ \A q \in Workers : proc[q].sum \in Int /\ proc[q].new \subseteq Row
    BY <1>1 DEF BaseInv, TypeInv, Worker
  <1>4. Delta[k] \in Int
    BY <1>2, DeltaAssumption
  <1>5. Visible(p) \in SUBSET Row /\ \A r \in Visible(p) : r.balanceAfter >= 0
    BY <1>1, <1>3 DEF Visible, TailInv
  <1>6. b \in Int /\ b >= 0 /\ (InOrder(Visible(p)) => b = sum + proc[p].sum)
    <2>1. b \in Int /\ b >= 0
      BY <1>5, BalanceNotNegative
    <2> QED BY <1>1, <1>2, <2>1 DEF TailInv
  <1>7. x.balanceAfter = b + Delta[k] /\ b + Delta[k] >= 0
    BY <1>2, <1>4, <1>6 DEF Covers
  <1>8. x \in Row /\ x.seq = inserts + 1 /\ inserts' = inserts + 1
    BY <1>2
  <1>9. /\ proc'[p].new = proc[p].new \cup {x} /\ proc'[p].sum = proc[p].sum + Delta[k]
        /\ \A q \in Workers \ {p} : proc'[q] = proc[q]
        /\ rows' = rows /\ sum' = sum
    BY <1>2
  <1> HIDE DEF x, k
  <1>10. \A r \in Visible(p) : r.seq \in Int /\ r.seq <= inserts /\ r.seq < x.seq
    BY <1>1, <1>3, <1>5, <1>8 DEF Visible, SeqInv, Row
  <1>11. SeqInv'
    <2>1. \A r \in rows' : r.seq <= inserts'
      BY <1>3, <1>8, <1>9, <1>10 DEF Visible
    <2>2. ASSUME NEW q \in Workers, NEW r \in proc'[q].new
          PROVE  r.seq <= inserts'
      <3>1. CASE q = p /\ r = x
        BY <1>3, <1>8, <3>1
      <3>2. CASE r \in proc[q].new
        BY <1>1, <1>3, <1>8, <3>2 DEF SeqInv, Row
      <3> QED BY <1>9, <2>2, <3>1, <3>2
    <2> QED BY <2>1, <2>2 DEF SeqInv
  <1>12. Visible(p)' = Visible(p) \cup {x}
    BY <1>9 DEF Visible
  <1>13. ASSUME InOrder(Visible(p)')
         PROVE  Balances(Visible(p))' = {sum' + proc'[p].sum}
    <2>1. InOrder(Visible(p)) /\ \A r \in Visible(p) : r.at < x.at
      BY <1>10, <1>12, <1>13 DEF InOrder
    <2>2. Balances(Visible(p) \cup {x}) = {x.balanceAfter}
      BY <1>5, <1>8, <2>1, LaterRowIsTail
    <2>3. Balances(Visible(p))' = Balances(Visible(p) \cup {x})
      BY <1>12 DEF Balances, Newest
    <2>4. x.balanceAfter = sum' + proc'[p].sum
      BY <1>3, <1>4, <1>6, <1>7, <1>9, <2>1
    <2> QED BY <2>2, <2>3, <2>4
  <1>15. ASSUME NEW q \in Workers
         PROVE  /\ InOrder(Visible(q)') => Balances(Visible(q))' = {sum' + proc'[q].sum}
                /\ proc'[q].new = {} => proc'[q].sum = 0
                /\ \A r \in Visible(q)' : r.balanceAfter >= 0
    <2>1. CASE q = p
      BY <1>5, <1>7, <1>9, <1>12, <1>13, <2>1
    <2>2. CASE q # p
      <3>1. Visible(q)' = Visible(q) /\ proc'[q] = proc[q]
        BY <1>9, <2>2 DEF Visible
      <3>2. Balances(Visible(q))' = Balances(Visible(q))
        BY <3>1 DEF Balances, Newest
      <3> QED BY <1>1, <1>9, <3>1, <3>2 DEF TailInv
    <2> QED BY <2>1, <2>2
  <1>16. InOrder(rows') => Balances(rows)' = {sum'}
    BY <1>1, <1>9 DEF TailInv, Balances, Newest
  <1> QED BY <1>1, <1>9, <1>11, <1>15, <1>16 DEF TailInv, InOrder

\* A step that writes no row keeps numbers and balances.
LEMMA QuietLedger ==
    ASSUME LedgerInv, UNCHANGED <<rows, sum, inserts>>,
           \A q \in Workers : proc'[q].new = proc[q].new /\ proc'[q].sum = proc[q].sum
    PROVE  SeqInv' /\ TailInv'
  <1>1. SeqInv'
    BY DEF LedgerInv, SeqInv
  <1>2. \A q \in Workers : Visible(q)' = Visible(q)
    BY DEF Visible
  <1>3. \A q \in Workers : Balances(Visible(q))' = Balances(Visible(q))
    BY <1>2 DEF Balances, Newest
  <1>4. Balances(rows)' = Balances(rows)
    BY DEF Balances, Newest
  <1>5. TailInv'
    BY <1>2, <1>3, <1>4 DEF LedgerInv, TailInv, InOrder
  <1> QED BY <1>1, <1>5

\* LedgerInv is inductive.
LEMMA LedgerStep == LedgerInv /\ [Next]_vars => LedgerInv'
  <1> SUFFICES ASSUME LedgerInv, [Next]_vars PROVE LedgerInv'
    OBVIOUS
  <1>1. BaseInv'
    BY BaseStep DEF LedgerInv
  <1>2. proc \in [Workers -> Worker] /\ LockInv
    BY DEF LedgerInv, BaseInv, TypeInv
  <1>3. CASE UNCHANGED vars
    BY <1>1, <1>3, QuietLedger DEF vars, LedgerInv
  <1>4. ASSUME NEW p \in Workers, Begin(p) \/ Lookup(p) \/ LockWallet(p)
        PROVE  SeqInv' /\ TailInv'
    <2>1. UNCHANGED <<rows, sum, inserts>>
      BY <1>4 DEF Begin, Lookup, LockWallet
    <2>2. \A q \in Workers \ {p} : proc'[q] = proc[q]
      BY <1>2, <1>4 DEF Begin, Lookup, LockWallet
    <2>3. proc'[p].new = proc[p].new /\ proc'[p].sum = proc[p].sum
      <3>1. CASE Begin(p)
        <4>1. proc[p].new = {}
          BY <1>2, <3>1, NoneAssumption DEF Begin, LockInv
        <4>2. proc[p].sum = 0
          BY <4>1 DEF LedgerInv, TailInv
        <4>3. proc'[p].new = Idle.new /\ proc'[p].sum = Idle.sum
          BY <1>2, <3>1 DEF Begin, Idle
        <4> QED BY <4>1, <4>2, <4>3, IdleFacts
      <3>2. CASE Lookup(p)
        BY <1>2, <3>2 DEF Lookup, Worker
      <3>3. CASE LockWallet(p)
        BY <1>2, <3>3 DEF LockWallet, Worker
      <3> QED BY <1>4, <3>1, <3>2, <3>3
    <2> QED BY <2>1, <2>2, <2>3, QuietLedger
  <1>5. ASSUME NEW p \in Workers, Insert(p)
        PROVE  SeqInv' /\ TailInv'
    BY <1>5, InsertLedger
  <1>6. ASSUME NEW p \in Workers,
               Duplicate(p) \/ Refuse(p) \/ Abort(p) \/ Commit(p)
        PROVE  SeqInv' /\ TailInv'
    BY <1>6, EndLedger DEF Duplicate, Refuse, Abort, Commit, Rollback
  <1> QED BY <1>1, <1>3, <1>4, <1>5, <1>6 DEF Next, LedgerInv

\* An empty ledger sums to nothing.
LEMMA LedgerInit == Init => LedgerInv
  <1> SUFFICES ASSUME Init PROVE LedgerInv
    OBVIOUS
  <1>1. BaseInv
    BY BaseInit
  <1>2. \A p \in Workers : proc[p].new = {} /\ proc[p].sum = 0
    BY IdleFacts DEF Init
  <1>3. SeqInv /\ TailInv
    BY <1>2 DEF Init, SeqInv, TailInv, Visible, Balances
  <1> QED BY <1>1, <1>3 DEF LedgerInv

\* computeBalance: the newest row is the sum over the ledger, whatever the
\* clocks, as long as the committed rows have the times of their order.
\* (WalletLedgerTie.cfg shows that the premise is needed: two rows of one time.)
THEOREM TailIsSumAlways == Spec => [](InOrder(rows) => TailIsSum)
  <1>1. LedgerInv => (InOrder(rows) => TailIsSum)
    BY DEF LedgerInv, TailInv, TailIsSum
  <1> QED BY <1>1, LedgerInit, LedgerStep, PTL DEF Spec

\* Overlapping debits never take the wallet below zero, as long as the committed
\* rows have the times of their order: each debit reads the tail under the lock.
THEOREM NeverOverdrawnAlways == Spec => [](InOrder(rows) => NeverOverdrawn)
  <1>1. ASSUME LedgerInv, InOrder(rows) PROVE NeverOverdrawn
    <2>1. rows \in SUBSET Row /\ \A r \in rows : r.balanceAfter >= 0
      BY <1>1 DEF LedgerInv, BaseInv, TypeInv, TailInv, Visible
    <2>2. sum \in Balances(rows)
      BY <1>1 DEF LedgerInv, TailInv
    <2>3. sum >= 0
      BY <2>1, <2>2, BalanceNotNegative
    <2> QED BY <2>1, <2>3 DEF NeverOverdrawn
  <1>2. LedgerInv => (InOrder(rows) => NeverOverdrawn)
    BY <1>1
  <1> QED BY <1>2, LedgerInit, LedgerStep, PTL DEF Spec

(***************************************************************************)
(* The ledger of a wallet implements Account, for any number of workers,   *)
(* keys and transactions, in every behaviour in which the rows that are    *)
(* there, committed or about to be, have the times of their order.  The    *)
(* balance follows from LedgerInv; that a transaction takes effect as a    *)
(* whole needs PlanInv besides, and gives AllOrNothing with any clocks.    *)
(***************************************************************************)

\* The rows the holder of the lock works on.
Seen == rows \cup (IF lock = None THEN {} ELSE proc[lock].new)

\* t is the transaction p runs: its rows are keys of t, and each key of t is in
\* the ledger, among those rows, or still to be written.
Runs(p, t) ==
    /\ KeysOf(proc[p].new) \subseteq Elements(t)
    /\ Elements(proc[p].tx) \subseteq Elements(t)
    /\ Elements(t) \subseteq KeysOf(rows) \cup KeysOf(proc[p].new) \cup Elements(proc[p].tx)

\* A transaction that has begun runs one of Txs, and commits when nothing of it
\* is left.
PlanInv ==
    \A p \in Workers : /\ proc[p].pc # "idle" => \E t \in Txs : Runs(p, t)
                       /\ proc[p].pc = "commit" => proc[p].tx = <<>>

RefineInv == LedgerInv /\ PlanInv

\* The keys of a sequence are its first one and those of the rest.
LEMMA ElementsFacts ==
    /\ Elements(<<>>) = {}
    /\ \A s \in Seq(Keys) : s # <<>> => Elements(s) = {Head(s)} \cup Elements(Tail(s))
  <1>1. Elements(<<>>) = {}
    BY DEF Elements
  <1>2. ASSUME NEW s \in Seq(Keys), s # <<>>
        PROVE  Elements(s) = {Head(s)} \cup Elements(Tail(s))
    <2>1. /\ Len(s) \in Nat /\ Len(s) >= 1 /\ Head(s) = s[1] /\ Len(Tail(s)) = Len(s) - 1
          /\ \A i \in 1..(Len(s) - 1) : Tail(s)[i] = s[i + 1]
      BY <1>2
    <2>2. ASSUME NEW e \in Elements(s) PROVE e \in {Head(s)} \cup Elements(Tail(s))
      <3>1. PICK i \in 1..Len(s) : e = s[i]
        BY DEF Elements
      <3>2. CASE i = 1
        BY <2>1, <3>1, <3>2
      <3>3. CASE i # 1
        <4>1. i - 1 \in 1..(Len(s) - 1) /\ (i - 1) + 1 = i
          BY <2>1, <3>3
        <4>2. Tail(s)[i - 1] = e
          BY <2>1, <3>1, <4>1
        <4> QED BY <2>1, <4>1, <4>2 DEF Elements
      <3> QED BY <3>2, <3>3
    <2>3. ASSUME NEW e \in Elements(Tail(s)) PROVE e \in Elements(s)
      <3>1. PICK i \in 1..(Len(s) - 1) : e = Tail(s)[i]
        BY <2>1 DEF Elements
      <3>2. i + 1 \in 1..Len(s) /\ e = s[i + 1]
        BY <2>1, <3>1
      <3> QED BY <3>2 DEF Elements
    <2>4. Head(s) \in Elements(s)
      BY <2>1 DEF Elements
    <2> QED BY <2>2, <2>3, <2>4
  <1> QED BY <1>1, <1>2

\* KeysOf and unions.
LEMMA KeysOfFacts ==
    /\ KeysOf({}) = {}
    /\ \A R, S : KeysOf(R \cup S) = KeysOf(R) \cup KeysOf(S)
    /\ \A R : KeysOf(R) = {} => R = {}
  BY DEF KeysOf

\* Nothing has begun.
LEMMA PlanInit == Init => PlanInv
  BY IdleFacts DEF Init, PlanInv

\* The plan of a worker that does not move stays: the ledger only grows.
LEMMA PlanKept ==
    ASSUME PlanInv, NEW q \in Workers, rows \subseteq rows', proc'[q] = proc[q]
    PROVE  /\ proc'[q].pc # "idle" => \E t \in Txs : Runs(q, t)'
           /\ proc'[q].pc = "commit" => proc'[q].tx = <<>>
  <1>1. KeysOf(rows) \subseteq KeysOf(rows')
    BY DEF KeysOf
  <1>2. ASSUME NEW t \in Txs, Runs(q, t)
        PROVE  Runs(q, t)'
    <2>1. KeysOf(proc'[q].new) = KeysOf(proc[q].new) /\ Elements(proc'[q].tx) = Elements(proc[q].tx)
      OBVIOUS
    <2> QED BY <1>1, <1>2, <2>1 DEF Runs
  <1> QED BY <1>2 DEF PlanInv

\* Where a worker is after each of its steps, and what it has left to write.
LEMMA PlanStep == BaseInv /\ PlanInv /\ [Next]_vars => PlanInv'
  <1> SUFFICES ASSUME BaseInv, PlanInv, [Next]_vars PROVE PlanInv'
    OBVIOUS
  <1>0. proc \in [Workers -> Worker] /\ LockInv /\ \A p \in Workers : proc[p].tx \in Seq(Keys)
    BY DEF BaseInv, TypeInv, Worker
  <1>1. CASE UNCHANGED vars
    BY <1>1, PlanKept DEF vars, PlanInv
  <1>2. ASSUME NEW p \in Workers, Begin(p)
        PROVE  PlanInv'
    <2>1. PICK t \in Txs : proc' = [proc EXCEPT ![p] = [Idle EXCEPT !.pc = "lookup",
                                                                   !.tx = t]]
      BY <1>2 DEF Begin
    <2>2. proc'[p].pc = "lookup" /\ proc'[p].tx = t /\ proc'[p].new = {}
      BY <1>0, <2>1 DEF Idle
    <2>3. rows' = rows /\ \A q \in Workers \ {p} : proc'[q] = proc[q]
      BY <1>0, <1>2, <2>1 DEF Begin
    <2>4. KeysOf(proc'[p].new) = {} /\ Elements(proc'[p].tx) = Elements(t)
      BY <2>2, KeysOfFacts
    <2>5. Runs(p, t)'
      BY <2>4 DEF Runs
    <2> QED BY <2>2, <2>3, <2>5, PlanKept DEF PlanInv
  <1>3. ASSUME NEW p \in Workers, Lookup(p)
        PROVE  PlanInv'
    <2> DEFINE s == proc[p].tx
    <2>1. rows' = rows /\ \A q \in Workers \ {p} : proc'[q] = proc[q]
      BY <1>0, <1>3 DEF Lookup
    <2>2. proc[p].pc = "lookup" /\ s \in Seq(Keys) /\ s # <<>>
      BY <1>0, <1>3 DEF Lookup, LockInv
    <2>3. PICK t \in Txs : Runs(p, t)
      BY <2>2 DEF PlanInv
    <2>4. Elements(s) = {Head(s)} \cup Elements(Tail(s))
      BY <2>2, ElementsFacts
    <2>5. CASE HasKey(Visible(p), Head(s))
      <3>1. /\ proc'[p].pc = After(Tail(s)) /\ proc'[p].tx = Tail(s)
            /\ proc'[p].new = proc[p].new
        BY <1>0, <1>3, <2>5 DEF Lookup, Worker
      <3>2. Head(s) \in KeysOf(rows) \cup KeysOf(proc[p].new)
        BY <2>5 DEF HasKey, Visible, KeysOf
      <3>3. /\ KeysOf(proc'[p].new) = KeysOf(proc[p].new) /\ KeysOf(rows') = KeysOf(rows)
            /\ Elements(proc'[p].tx) = Elements(Tail(s))
        BY <2>1, <3>1
      <3>4. Runs(p, t)'
        BY <2>3, <2>4, <3>2, <3>3 DEF Runs
      <3>5. proc'[p].pc = "commit" => proc'[p].tx = <<>>
        BY <3>1 DEF After
      <3> QED BY <2>1, <3>4, <3>5, PlanKept DEF PlanInv
    <2>6. CASE ~HasKey(Visible(p), Head(s))
      <3>1. proc'[p].pc = "lock" /\ proc'[p].tx = s /\ proc'[p].new = proc[p].new
        BY <1>0, <1>3, <2>6 DEF Lookup, Worker
      <3>2. /\ KeysOf(proc'[p].new) = KeysOf(proc[p].new) /\ KeysOf(rows') = KeysOf(rows)
            /\ Elements(proc'[p].tx) = Elements(s)
        BY <2>1, <3>1
      <3>3. Runs(p, t)'
        BY <2>3, <3>2 DEF Runs
      <3> QED BY <2>1, <3>1, <3>3, PlanKept DEF PlanInv
    <2> QED BY <2>5, <2>6
  <1>4. ASSUME NEW p \in Workers, LockWallet(p)
        PROVE  PlanInv'
    <2>1. rows' = rows /\ \A q \in Workers \ {p} : proc'[q] = proc[q]
      BY <1>0, <1>4 DEF LockWallet
    <2>2. /\ proc[p].pc = "lock" /\ proc'[p].pc = "insert" /\ proc'[p].tx = proc[p].tx
          /\ proc'[p].new = proc[p].new
      BY <1>0, <1>4 DEF LockWallet, Worker
    <2>3. PICK t \in Txs : Runs(p, t)
      BY <2>2 DEF PlanInv
    <2>4. /\ KeysOf(proc'[p].new) = KeysOf(proc[p].new) /\ KeysOf(rows') = KeysOf(rows)
          /\ Elements(proc'[p].tx) = Elements(proc[p].tx)
      BY <2>1, <2>2
    <2>5. Runs(p, t)'
      BY <2>3, <2>4 DEF Runs
    <2> QED BY <2>1, <2>2, <2>5, PlanKept DEF PlanInv
  <1>5. ASSUME NEW p \in Workers, Insert(p)
        PROVE  PlanInv'
    <2> DEFINE s == proc[p].tx
    <2>1. PICK x \in Row :
            /\ x.key = Head(s) /\ rows' = rows
            /\ \A q \in Workers \ {p} : proc'[q] = proc[q]
            /\ proc'[p].new = proc[p].new \cup {x}
      BY <1>5, InsertFacts
    <2>2. proc[p].pc = "insert" /\ s \in Seq(Keys) /\ s # <<>>
      BY <1>0, <1>5 DEF Insert, LockInv
    <2>3. proc'[p].pc = After(Tail(s)) /\ proc'[p].tx = Tail(s)
      BY <1>0, <1>5 DEF Insert
    <2>4. PICK t \in Txs : Runs(p, t)
      BY <2>2 DEF PlanInv
    <2>5. Elements(s) = {Head(s)} \cup Elements(Tail(s))
      BY <2>2, ElementsFacts
    <2>6. /\ KeysOf(proc'[p].new) = KeysOf(proc[p].new) \cup {Head(s)}
          /\ KeysOf(rows') = KeysOf(rows) /\ Elements(proc'[p].tx) = Elements(Tail(s))
      BY <2>1, <2>3 DEF KeysOf
    <2>7. Runs(p, t)'
      BY <2>4, <2>5, <2>6 DEF Runs
    <2>8. proc'[p].pc = "commit" => proc'[p].tx = <<>>
      BY <2>3 DEF After
    <2> QED BY <2>1, <2>7, <2>8, PlanKept DEF PlanInv
  <1>6. ASSUME NEW p \in Workers,
               Duplicate(p) \/ Refuse(p) \/ Abort(p) \/ Commit(p)
        PROVE  PlanInv'
    <2>1. /\ rows \subseteq rows' /\ proc'[p] = Idle
          /\ \A q \in Workers \ {p} : proc'[q] = proc[q]
      BY <1>0, <1>6 DEF Duplicate, Refuse, Abort, Commit, Rollback
    <2> QED BY <2>1, IdleFacts, PlanKept DEF PlanInv
  <1> QED BY <1>1, <1>2, <1>3, <1>4, <1>5, <1>6 DEF Next

(***************************************************************************)
(* The refinement                                                          *)
(***************************************************************************)

\* The variables of the account, as WalletLedger maps them.
Posted == IF lock = None THEN {} ELSE KeysOf(proc[lock].new)
Change == IF lock = None THEN 0 ELSE proc[lock].sum

\* Rows in order, and the tail is the sum.
OrderedInv == LedgerInv /\ InOrder(Seen)

\* The tail a reader finds is the sum.
LEMMA TailBalanceIsSum == OrderedInv => TailBalance = sum
  <1> SUFFICES ASSUME OrderedInv PROVE TailBalance = sum
    OBVIOUS
  <1>1. InOrder(rows)
    BY DEF OrderedInv, Seen, InOrder
  <1>2. Balances(rows) = {sum}
    BY <1>1 DEF OrderedInv, LedgerInv, TailInv
  <1>3. TailBalance \in Balances(rows)
    BY <1>2 DEF TailBalance
  <1> QED BY <1>2, <1>3

\* The same after a step.
LEMMA TailBalanceIsSumThen == OrderedInv' => TailBalance' = sum'
  <1>1. OrderedInv' => (TailBalance = sum)'
    BY TailBalanceIsSum, PTL
  <1> QED BY <1>1

\* A step after which rows, sum, the rows of the lock's holder and their sum are
\* what they were is a stutter of the account.
LEMMA Stutters ==
    ASSUME OrderedInv, OrderedInv', rows' = rows, sum' = sum,
           Posted' = Posted, Change' = Change
    PROVE  UNCHANGED Abstract!accountVars
  <1>1. TailBalance' = TailBalance
    BY TailBalanceIsSum, TailBalanceIsSumThen
  <1>2. KeysOf(rows)' = KeysOf(rows)
    BY DEF KeysOf
  <1> QED BY <1>1, <1>2 DEF Abstract!accountVars, Posted, Change

\* A transaction without the lock has written nothing.
LEMMA WithoutLock ==
    ASSUME LedgerInv, NEW p \in Workers, lock # p
    PROVE  proc[p].new = {} /\ proc[p].sum = 0
  BY DEF LedgerInv, BaseInv, LockInv, TailInv

\* An insert posts its key.
LEMMA InsertPosts ==
    ASSUME RefineInv, OrderedInv, OrderedInv', NEW p \in Workers, Insert(p)
    PROVE  Abstract!Next
  <1>1. BaseInv /\ TailInv /\ sum \in Int /\ proc[p].sum \in Int /\ None \notin Workers
    BY NoneAssumption DEF RefineInv, LedgerInv, BaseInv, TypeInv, Worker
  <1> DEFINE k == Head(proc[p].tx)
  <1>2. PICK b \in Balances(Visible(p)), x \in Row :
          /\ k \in Keys /\ b \in Int /\ x.key = k /\ Unique(p, k) /\ Covers(b, k)
          /\ lock = p /\ UNCHANGED <<rows, sum, lock>>
          /\ proc'[p].new = proc[p].new \cup {x}
          /\ proc'[p].sum = proc[p].sum + Delta[k]
    BY <1>1, InsertFacts
  <1> HIDE DEF k
  <1>3. b = sum + proc[p].sum
    <2>1. InOrder(Visible(p))
      BY <1>1, <1>2 DEF OrderedInv, Seen, Visible
    <2> QED BY <1>1, <1>2, <2>1 DEF TailInv
  <1>4. b >= 0
    <2>1. Visible(p) \in SUBSET Row /\ \A r \in Visible(p) : r.balanceAfter >= 0
      BY <1>1 DEF Visible, TailInv, BaseInv, TypeInv, Worker
    <2> QED BY <1>2, <2>1, BalanceNotNegative
  <1>5. Delta[k] \in Int
    BY <1>2, DeltaAssumption
  <1>6. sum + proc[p].sum + Delta[k] >= 0
    BY <1>1, <1>2, <1>3, <1>4, <1>5 DEF Covers
  <1>7. /\ Posted = KeysOf(proc[p].new) /\ Change = proc[p].sum
        /\ Posted' = KeysOf(proc[p].new) \cup {k} /\ Change' = proc[p].sum + Delta[k]
    BY <1>1, <1>2 DEF Posted, Change, KeysOf
  <1>8. TailBalance = sum /\ TailBalance' = sum
    BY <1>2, TailBalanceIsSum, TailBalanceIsSumThen
  <1>9. k \notin KeysOf(rows) \cup Posted
    BY <1>2, <1>7 DEF Unique, HasKey, Visible, KeysOf
  <1>10. KeysOf(rows)' = KeysOf(rows)
    BY <1>2 DEF KeysOf
  <1>11. Abstract!Post(k)
    BY <1>6, <1>7, <1>8, <1>9, <1>10 DEF Abstract!Post, Posted, Change
  <1> QED BY <1>2, <1>11 DEF Abstract!Next

\* The holder of the lock commits or rolls back; a transaction that wrote
\* nothing ends without a trace.
LEMMA EndMaps ==
    ASSUME RefineInv, OrderedInv, OrderedInv', NEW p \in Workers,
           Duplicate(p) \/ Refuse(p) \/ Abort(p) \/ Commit(p)
    PROVE  [Abstract!Next]_Abstract!accountVars
  <1>1. /\ LedgerInv /\ proc \in [Workers -> Worker] /\ lock \in Workers \cup {None}
        /\ None \notin Workers /\ sum \in Int /\ proc[p].sum \in Int
    BY NoneAssumption DEF RefineInv, LedgerInv, BaseInv, TypeInv, Worker
  <1>2. proc' = [proc EXCEPT ![p] = Idle] /\ lock' = IF lock = p THEN None ELSE lock
    BY DEF Duplicate, Refuse, Abort, Commit, Rollback
  <1>3. \/ UNCHANGED <<rows, sum>>
        \/ Commit(p) /\ rows' = rows \cup proc[p].new /\ sum' = sum + proc[p].sum
    BY DEF Duplicate, Refuse, Abort, Commit, Rollback
  <1>4. CASE lock # p
    <2>1. proc[p].new = {} /\ proc[p].sum = 0
      BY <1>1, <1>4, WithoutLock
    <2>2. rows' = rows /\ sum' = sum
      BY <1>1, <1>3, <2>1
    <2>3. lock' = lock /\ (lock # None => proc'[lock] = proc[lock])
      BY <1>1, <1>2, <1>4
    <2>4. Posted' = Posted /\ Change' = Change
      BY <2>3 DEF Posted, Change
    <2> QED BY <1>1, <2>2, <2>4, Stutters
  <1>5. CASE lock = p
    <2>1. /\ Posted = KeysOf(proc[p].new) /\ Change = proc[p].sum
          /\ Posted' = {} /\ Change' = 0
      BY <1>1, <1>2, <1>5 DEF Posted, Change
    <2>2. TailBalance = sum /\ TailBalance' = sum'
      BY <1>1, TailBalanceIsSum, TailBalanceIsSumThen
    <2>3. CASE UNCHANGED <<rows, sum>>
      <3>1. KeysOf(rows)' = KeysOf(rows)
        BY <2>3 DEF KeysOf
      <3>2. Abstract!Abort
        BY <2>1, <2>2, <2>3, <3>1 DEF Abstract!Abort, Posted, Change
      <3> QED BY <3>2 DEF Abstract!Next
    <2>4. CASE Commit(p) /\ rows' = rows \cup proc[p].new /\ sum' = sum + proc[p].sum
      <3>1. KeysOf(rows)' = KeysOf(rows) \cup KeysOf(proc[p].new)
        BY <2>4 DEF KeysOf
      <3>2. PICK t \in Txs : Runs(p, t)
        BY <2>4 DEF RefineInv, PlanInv, Commit
      <3>3. Elements(proc[p].tx) = {}
        BY <2>4, ElementsFacts DEF RefineInv, PlanInv, Commit
      <3>4. \E u \in {Elements(v) : v \in Txs} :
              Posted \subseteq u /\ u \subseteq KeysOf(rows) \cup Posted
        BY <2>1, <3>2, <3>3 DEF Runs
      <3>5. Abstract!Commit
        BY <2>1, <2>2, <2>4, <3>1, <3>4 DEF Abstract!Commit, Posted, Change
      <3> QED BY <3>5 DEF Abstract!Next
    <2> QED BY <1>3, <2>3, <2>4
  <1> QED BY <1>4, <1>5

\* Every step of the ledger is a step of the account, or none.
LEMMA RefineStep ==
    RefineInv /\ OrderedInv /\ OrderedInv' /\ [Next]_vars
      => [Abstract!Next]_Abstract!accountVars
  <1> SUFFICES ASSUME RefineInv, OrderedInv, OrderedInv', [Next]_vars
               PROVE  [Abstract!Next]_Abstract!accountVars
    OBVIOUS
  <1>1. /\ LedgerInv /\ proc \in [Workers -> Worker] /\ lock \in Workers \cup {None}
        /\ None \notin Workers /\ LockInv
    BY NoneAssumption DEF RefineInv, LedgerInv, BaseInv, TypeInv
  <1>2. CASE UNCHANGED vars
    <2>1. rows' = rows /\ sum' = sum /\ Posted' = Posted /\ Change' = Change
      BY <1>2 DEF vars, Posted, Change
    <2> QED BY <1>1, <2>1, Stutters
  <1>3. ASSUME NEW p \in Workers, Begin(p)
        PROVE  UNCHANGED Abstract!accountVars
    <2>1. rows' = rows /\ sum' = sum /\ lock' = lock
      BY <1>3 DEF Begin
    <2>2. lock # p
      BY <1>1, <1>3 DEF Begin, LockInv
    <2>3. lock # None => proc'[lock] = proc[lock]
      BY <1>1, <1>3, <2>2 DEF Begin
    <2>4. Posted' = Posted /\ Change' = Change
      BY <2>1, <2>3 DEF Posted, Change
    <2> QED BY <1>1, <2>1, <2>4, Stutters
  <1>4. ASSUME NEW p \in Workers, Lookup(p)
        PROVE  UNCHANGED Abstract!accountVars
    <2>1. rows' = rows /\ sum' = sum /\ lock' = lock
      BY <1>4 DEF Lookup
    <2>2. proc'[p].new = proc[p].new /\ proc'[p].sum = proc[p].sum
      BY <1>1, <1>4 DEF Lookup, Worker
    <2>3. \A q \in Workers \ {p} : proc'[q] = proc[q]
      BY <1>1, <1>4 DEF Lookup
    <2>4. lock # None => proc'[lock].new = proc[lock].new /\ proc'[lock].sum = proc[lock].sum
      BY <1>1, <2>2, <2>3
    <2>5. Posted' = Posted /\ Change' = Change
      BY <2>1, <2>4 DEF Posted, Change
    <2> QED BY <1>1, <2>1, <2>5, Stutters
  <1>5. ASSUME NEW p \in Workers, LockWallet(p)
        PROVE  UNCHANGED Abstract!accountVars
    <2>1. rows' = rows /\ sum' = sum /\ lock' = p /\ lock \in {None, p}
      BY <1>5 DEF LockWallet
    <2>2. proc'[p].new = proc[p].new /\ proc'[p].sum = proc[p].sum
      BY <1>1, <1>5 DEF LockWallet, Worker
    <2>3. Posted' = KeysOf(proc[p].new) /\ Change' = proc[p].sum
      BY <1>1, <2>1, <2>2 DEF Posted, Change
    <2>4. Posted = KeysOf(proc[p].new) /\ Change = proc[p].sum
      <3>1. CASE lock = p
        BY <1>1, <3>1 DEF Posted, Change
      <3>2. CASE lock = None
        <4>1. proc[p].new = {} /\ proc[p].sum = 0
          BY <1>1, <3>2, WithoutLock
        <4> QED BY <3>2, <4>1, KeysOfFacts DEF Posted, Change
      <3> QED BY <2>1, <3>1, <3>2
    <2> QED BY <1>1, <2>1, <2>3, <2>4, Stutters
  <1>6. ASSUME NEW p \in Workers, Insert(p)
        PROVE  Abstract!Next
    BY <1>6, InsertPosts
  <1>7. ASSUME NEW p \in Workers,
               Duplicate(p) \/ Refuse(p) \/ Abort(p) \/ Commit(p)
        PROVE  [Abstract!Next]_Abstract!accountVars
    BY <1>7, EndMaps
  <1> QED BY <1>2, <1>3, <1>4, <1>5, <1>6, <1>7 DEF Next

\* The empty ledger is the empty account.
LEMMA RefineInit == Init => Abstract!Init
  <1> SUFFICES ASSUME Init PROVE Abstract!Init
    OBVIOUS
  <1>1. TailBalance = sum
    <2>1. OrderedInv
      BY LedgerInit DEF Init, OrderedInv, Seen, InOrder
    <2> QED BY <2>1, TailBalanceIsSum
  <1>2. sum = 0 /\ KeysOf(rows) = {} /\ lock = None
    BY KeysOfFacts DEF Init
  <1> QED BY <1>1, <1>2 DEF Abstract!Init

\* creditInTransaction and debit, with the idempotency lookup before the lock,
\* retries and aborts, are to every reader an account on which transactions run
\* in turn, each as a whole, each key once and no debit beyond the balance, in
\* every behaviour in which no row gets a time out of order.
THEOREM LedgerImplementsAccount == Spec /\ []InOrder(Seen) => ImplementsAccount
  <1>1. Init => RefineInv
    BY LedgerInit, PlanInit DEF RefineInv
  <1>2. RefineInv /\ [Next]_vars => RefineInv'
    BY LedgerStep, PlanStep DEF RefineInv, LedgerInv
  <1>3. RefineInv /\ InOrder(Seen) => OrderedInv
    BY DEF RefineInv, OrderedInv
  <1> QED BY <1>1, <1>2, <1>3, RefineInit, RefineStep, PTL
          DEF Spec, ImplementsAccount, Abstract!Spec

(***************************************************************************)
(* Transactions as a whole, with any clocks                                *)
(***************************************************************************)

\* The idempotency keys of one operation belong to no other.
KeysApart == \A t, u \in Txs : Elements(t) \cap Elements(u) # {} => Elements(t) = Elements(u)

\* AllOrNothing, said of the sets of keys.
LEMMA WholeSets ==
    AllOrNothing <=> \A t \in Txs : Elements(t) \cap KeysOf(rows) # {}
                                      => Elements(t) \subseteq KeysOf(rows)
  <1>1. \A t \in Txs : DOMAIN t = 1..Len(t)
    BY TxsAssumption
  <1>2. \A k : HasKey(rows, k) <=> k \in KeysOf(rows)
    BY DEF HasKey, KeysOf
  <1> QED BY <1>1, <1>2 DEF AllOrNothing, Elements

\* A commit adds the missing rows of its transaction, and all of them.
LEMMA WholeStep ==
    ASSUME KeysApart
    PROVE  BaseInv /\ PlanInv /\ AllOrNothing /\ [Next]_vars => AllOrNothing'
  <1> SUFFICES ASSUME BaseInv, PlanInv, AllOrNothing, [Next]_vars PROVE AllOrNothing'
    OBVIOUS
  <1>1. CASE rows' = rows
    BY <1>1 DEF AllOrNothing, HasKey
  <1>2. ASSUME NEW p \in Workers, Commit(p)
        PROVE  AllOrNothing'
    <2>1. rows' = rows \cup proc[p].new /\ proc[p].pc = "commit"
      BY <1>2 DEF Commit
    <2>2. PICK u \in Txs : Runs(p, u)
      BY <2>1 DEF PlanInv
    <2>3. Elements(proc[p].tx) = {}
      BY <2>1, ElementsFacts DEF PlanInv
    <2>4. KeysOf(rows') = KeysOf(rows) \cup KeysOf(proc[p].new)
      BY <2>1 DEF KeysOf
    <2>5. Elements(u) \subseteq KeysOf(rows') /\ KeysOf(proc[p].new) \subseteq Elements(u)
      BY <2>2, <2>3, <2>4 DEF Runs
    <2>6. ASSUME NEW t \in Txs, Elements(t) \cap KeysOf(rows') # {}
          PROVE  Elements(t) \subseteq KeysOf(rows')
      <3>1. CASE Elements(t) \cap KeysOf(rows) # {}
        BY <2>4, <3>1, WholeSets
      <3>2. CASE Elements(t) \cap KeysOf(rows) = {}
        <4>1. Elements(t) \cap Elements(u) # {}
          BY <2>4, <2>5, <2>6, <3>2
        <4> QED BY <2>5, <4>1 DEF KeysApart
      <3> QED BY <3>1, <3>2
    <2>7. \A t \in Txs : DOMAIN t = 1..Len(t)
      BY TxsAssumption
    <2>8. \A k : HasKey(rows', k) <=> k \in KeysOf(rows')
      BY DEF HasKey, KeysOf
    <2> QED BY <2>6, <2>7, <2>8 DEF AllOrNothing, Elements
  <1>3. rows' = rows \/ \E p \in Workers : Commit(p)
    BY DEF Next, vars, Begin, Lookup, LockWallet, Insert, Duplicate, Refuse, Abort, Rollback
  <1> QED BY <1>1, <1>2, <1>3

\* The payout and the reward of a payroll, and every other pair of rows one
\* transaction writes, are in the ledger together or not at all, with any
\* clocks, aborts and retries.
THEOREM AllOrNothingAlways == ASSUME KeysApart PROVE Spec => []AllOrNothing
  <1>1. Init => AllOrNothing
    BY DEF Init, AllOrNothing, HasKey
  <1>2. BaseInv /\ PlanInv /\ AllOrNothing /\ [Next]_vars => AllOrNothing'
    BY WholeStep
  <1> QED BY <1>1, <1>2, BaseInit, BaseStep, PlanInit, PlanStep, PTL DEF Spec


(***************************************************************************)
(* What sum is: the amounts of the keys in the ledger, added up.           *)
(***************************************************************************)

\* The direction-adjusted sum over some rows.
Total(R) == SumFunctionOnSet(Delta, KeysOf(R))

\* The rows of a transaction are finitely many, are none of the committed ones,
\* and add up to its change.
PartInv(R, W, s) == /\ IsFiniteSet(KeysOf(W)) /\ s = Total(W)
                    /\ KeysOf(R) \cap KeysOf(W) = {}
SumInv ==
    /\ IsFiniteSet(KeysOf(rows)) /\ sum = Total(rows)
    /\ \A p \in Workers : PartInv(rows, proc[p].new, proc[p].sum)

\* No rows.
LEMMA NoRows == \A R : PartInv(R, {}, 0)
  BY SumOfNothing, FS_EmptySet DEF PartInv, Total, KeysOf

\* Amounts are integers.
LEMMA KeysHaveAmounts ==
    ASSUME NEW R \in SUBSET Row
    PROVE  \A k \in KeysOf(R) : k \in Keys /\ Delta[k] \in Int
  BY DeltaAssumption DEF KeysOf, Row

\* A step that changes no row.
LEMMA SumKept ==
    ASSUME SumInv, UNCHANGED <<rows, sum>>,
           \A q \in Workers :
             \/ proc'[q].new = proc[q].new /\ proc'[q].sum = proc[q].sum
             \/ proc'[q].new = {} /\ proc'[q].sum = 0
    PROVE  SumInv'
  <1>1. \A q \in Workers : PartInv(rows', proc'[q].new, proc'[q].sum)
    BY NoRows DEF SumInv
  <1>2. IsFiniteSet(KeysOf(rows')) /\ sum' = Total(rows')
    BY DEF SumInv
  <1> QED BY <1>1, <1>2 DEF SumInv, PartInv, Total, KeysOf

\* A row more.
LEMMA SumInserts ==
    ASSUME BaseInv, SumInv, NEW p \in Workers, Insert(p)
    PROVE  SumInv'
  <1>1. PICK x \in Row :
          /\ Unique(p, x.key) /\ UNCHANGED <<rows, sum>>
          /\ \A q \in Workers \ {p} : proc'[q] = proc[q]
          /\ proc'[p].new = proc[p].new \cup {x}
          /\ proc'[p].sum = proc[p].sum + Delta[x.key]
    BY InsertFacts
  <1> DEFINE W == proc[p].new
             k == x.key
  <1>2. k \in Keys /\ Delta[k] \in Int /\ k \notin KeysOf(rows) /\ k \notin KeysOf(W)
    BY <1>1, DeltaAssumption DEF Row, Unique, HasKey, Visible, KeysOf
  <1>3. KeysOf(W \cup {x}) = KeysOf(W) \cup {k}
    BY DEF KeysOf
  <1>4. W \in SUBSET Row
    BY DEF BaseInv, TypeInv, Worker
  <1>5. PartInv(rows, W, proc[p].sum)
    BY DEF SumInv
  <1>6. \A j \in KeysOf(W) : Delta[j] \in Int
    BY <1>4, KeysHaveAmounts
  <1> HIDE DEF W, k
  <1>7. IsFiniteSet(KeysOf(W) \cup {k})
    BY <1>5, FS_AddElement DEF PartInv
  <1>8. Total(W \cup {x}) = Total(W) + Delta[k]
    <2>1. PICK S : S = KeysOf(W)
      OBVIOUS
    <2>2. IsFiniteSet(S) /\ k \notin S /\ \A j \in S : Delta[j] \in Int
      BY <1>2, <1>5, <1>6, <2>1 DEF PartInv
    <2>3. SumFunctionOnSet(Delta, S \cup {k}) = SumFunctionOnSet(Delta, S) + Delta[k]
      BY <1>2, <2>2, SumAdds
    <2> QED BY <1>3, <2>1, <2>3 DEF Total
  <1>9. PartInv(rows, W \cup {x}, proc[p].sum + Delta[k])
    BY <1>2, <1>3, <1>5, <1>7, <1>8 DEF PartInv
  <1>10. \A q \in Workers : PartInv(rows', proc'[q].new, proc'[q].sum)
    BY <1>1, <1>9 DEF SumInv, W, k
  <1>11. IsFiniteSet(KeysOf(rows')) /\ sum' = Total(rows')
    BY <1>1 DEF SumInv
  <1> QED BY <1>10, <1>11 DEF SumInv, PartInv, Total, KeysOf

\* A transaction commits its rows.
LEMMA SumCommits ==
    ASSUME BaseInv, SumInv, NEW p \in Workers, Commit(p)
    PROVE  SumInv'
  <1> DEFINE W == proc[p].new
  <1>1. /\ rows' = rows \cup W /\ sum' = sum + proc[p].sum
        /\ proc \in [Workers -> Worker] /\ proc' = [proc EXCEPT ![p] = Idle]
    BY DEF Commit, BaseInv, TypeInv
  <1>2. proc'[p] = Idle /\ \A q \in Workers \ {p} : proc'[q] = proc[q]
    BY <1>1
  <1>3. W \in SUBSET Row /\ rows \in SUBSET Row /\ PartInv(rows, W, proc[p].sum)
    BY DEF BaseInv, TypeInv, Worker, SumInv
  <1>4. KeysOf(rows \cup W) = KeysOf(rows) \cup KeysOf(W)
    BY DEF KeysOf
  <1>5. \A k \in KeysOf(rows) \cup KeysOf(W) : Delta[k] \in Int
    BY <1>3, KeysHaveAmounts
  <1>6. ASSUME NEW q \in Workers
        PROVE  PartInv(rows \cup W, proc'[q].new, proc'[q].sum)
    <2>1. CASE q = p
      BY <1>2, <2>1, IdleFacts, NoRows
    <2>2. CASE q # p /\ W = {}
      <3>1. rows \cup W = rows
        BY <2>2
      <3> QED BY <1>2, <2>2, <3>1 DEF SumInv
    <2>3. CASE q # p /\ W # {}
      <3>1. proc'[q].new = {} /\ PartInv(rows, proc'[q].new, proc'[q].sum)
        BY <1>2, <2>3 DEF BaseInv, LockInv, SumInv
      <3> QED BY <3>1, NoRows DEF PartInv
    <2> QED BY <2>1, <2>2, <2>3
  <1> HIDE DEF W
  <1>7. IsFiniteSet(KeysOf(rows)) /\ IsFiniteSet(KeysOf(W))
          /\ KeysOf(rows) \cap KeysOf(W) = {}
    BY <1>3 DEF SumInv, PartInv
  <1>8. IsFiniteSet(KeysOf(rows \cup W))
    BY <1>4, <1>7, FS_Union
  <1>9. Total(rows \cup W) = Total(rows) + Total(W)
    <2>1. PICK A, B : A = KeysOf(rows) /\ B = KeysOf(W)
      OBVIOUS
    <2>2. IsFiniteSet(A) /\ IsFiniteSet(B) /\ A \cap B = {}
            /\ \A j \in A \cup B : Delta[j] \in Int
      BY <1>5, <1>7, <2>1
    <2>3. SumFunctionOnSet(Delta, A \cup B)
            = SumFunctionOnSet(Delta, A) + SumFunctionOnSet(Delta, B)
      BY <2>2, SumUnion
    <2> QED BY <1>4, <2>1, <2>3 DEF Total
  <1>10. sum' = Total(rows') /\ IsFiniteSet(KeysOf(rows'))
    BY <1>1, <1>3, <1>8, <1>9 DEF SumInv, PartInv
  <1> QED BY <1>1, <1>6, <1>10 DEF SumInv, PartInv, Total, KeysOf

\* Every step.
LEMMA SumStep == BaseInv /\ SumInv /\ [Next]_vars => SumInv'
  <1> SUFFICES ASSUME BaseInv, SumInv, [Next]_vars PROVE SumInv'
    OBVIOUS
  <1>0. proc \in [Workers -> Worker]
    BY DEF BaseInv, TypeInv
  <1>1. CASE UNCHANGED vars
    BY <1>1, SumKept DEF vars
  <1>2. ASSUME NEW p \in Workers, Begin(p)
        PROVE  SumInv'
    <2>1. PICK t \in Txs : proc' = [proc EXCEPT ![p] = [Idle EXCEPT !.pc = "lookup",
                                                                   !.tx = t]]
      BY <1>2 DEF Begin
    <2> DEFINE w == [Idle EXCEPT !.pc = "lookup", !.tx = t]
    <2>2. w.new = {} /\ w.sum = 0
      BY DEF Idle
    <2> HIDE DEF w
    <2>3. proc'[p] = w /\ \A q \in Workers \ {p} : proc'[q] = proc[q]
      BY <1>0, <2>1 DEF w
    <2> QED BY <1>2, <2>2, <2>3, SumKept DEF Begin
  <1>3. ASSUME NEW p \in Workers, Lookup(p) \/ LockWallet(p)
        PROVE  SumInv'
    <2>1. proc[p] \in Worker
      BY <1>0
    <2>2. PICK w : /\ proc' = [proc EXCEPT ![p] = w]
                   /\ w.new = proc[p].new /\ w.sum = proc[p].sum
      <3>1. CASE Lookup(p)
        <4> DEFINE s == proc[p].tx
                   w == IF HasKey(Visible(p), Head(s))
                        THEN [proc[p] EXCEPT !.pc = After(Tail(s)), !.tx = Tail(s)]
                        ELSE [proc[p] EXCEPT !.pc = "lock"]
        <4>1. w.new = proc[p].new /\ w.sum = proc[p].sum
          BY <2>1 DEF Worker
        <4>2. proc' = [proc EXCEPT ![p] = w]
          BY <3>1 DEF Lookup
        <4> HIDE DEF w
        <4> QED BY <4>1, <4>2
      <3>2. CASE LockWallet(p)
        <4> DEFINE w == [proc[p] EXCEPT !.pc = "insert"]
        <4>1. w.new = proc[p].new /\ w.sum = proc[p].sum
          BY <2>1 DEF Worker
        <4>2. proc' = [proc EXCEPT ![p] = w]
          BY <1>0, <3>2 DEF LockWallet
        <4> HIDE DEF w
        <4> QED BY <4>1, <4>2
      <3> QED BY <1>3, <3>1, <3>2
    <2>3. proc'[p] = w /\ \A q \in Workers \ {p} : proc'[q] = proc[q]
      BY <1>0, <2>2
    <2> QED BY <1>3, <2>2, <2>3, SumKept DEF Lookup, LockWallet
  <1>4. ASSUME NEW p \in Workers, Duplicate(p) \/ Refuse(p) \/ Abort(p)
        PROVE  SumInv'
    <2>1. /\ proc' = [proc EXCEPT ![p] = Idle]
          /\ UNCHANGED <<rows, sum>>
      BY <1>4 DEF Duplicate, Refuse, Abort, Rollback
    <2>2. proc'[p] = Idle /\ \A q \in Workers \ {p} : proc'[q] = proc[q]
      BY <1>0, <2>1
    <2> QED BY <2>1, <2>2, SumKept, IdleFacts
  <1> QED BY <1>1, <1>2, <1>3, <1>4, SumInserts, SumCommits DEF Next

\* The balance a reader finds is the amounts of the applied keys, added up.
TailIsTotal == Balances(rows) = {Total(rows)}

\* Init.
LEMMA SumInit == Init => SumInv
  <1> SUFFICES ASSUME Init PROVE SumInv
    OBVIOUS
  <1>1. PartInv({}, {}, 0)
    BY NoRows
  <1>2. \A p \in Workers : proc[p].new = {} /\ proc[p].sum = 0
    BY IdleFacts DEF Init
  <1> QED BY <1>1, <1>2 DEF Init, SumInv, PartInv

\* sum, which the model keeps beside the ledger, is the sum over the committed
\* rows, with any clocks.
THEOREM SumIsTotal == Spec => [](sum = Total(rows))
  <1>1. SumInv => sum = Total(rows)
    BY DEF SumInv
  <1> QED BY <1>1, BaseInit, BaseStep, SumInit, SumStep, PTL DEF Spec

\* computeBalance, said without the model's sum: the balance on the newest row
\* is the direction-adjusted sum over every operation ever applied, each once,
\* as long as the committed rows have the times of their order.
THEOREM TailIsTotalAlways == Spec => [](InOrder(rows) => TailIsTotal)
  <1>1. LedgerInv /\ SumInv => (InOrder(rows) => TailIsTotal)
    BY DEF LedgerInv, TailInv, SumInv, TailIsTotal
  <1>2. LedgerInv => BaseInv
    BY DEF LedgerInv
  <1> QED BY <1>1, <1>2, LedgerInit, LedgerStep, SumInit, SumStep, PTL DEF Spec

=============================================================================
