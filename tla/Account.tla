------------------------------- MODULE Account -------------------------------
(* What the ledger of a wallet promises to its callers: an account on which  *)
(* transactions run one after another.  A transaction posts keys, each at    *)
(* most once in the life of the account and each debit covered by what is    *)
(* there at that moment, and then takes effect as a whole or not at all.     *)
EXTENDS Integers

CONSTANTS
    Keys,          \* the operations
    Delta,         \* what each adds to the balance
    Transactions   \* the sets of operations that go together

VARIABLES
    balance,  \* what the account holds
    applied,  \* the keys that have taken effect
    posted,   \* the keys of the transaction in progress
    change    \* their sum

accountVars == <<balance, applied, posted, change>>

Init ==
    /\ balance = 0
    /\ applied = {}
    /\ posted = {}
    /\ change = 0

Post(k) ==
    /\ k \notin applied \cup posted
    /\ balance + change + Delta[k] >= 0
    /\ posted' = posted \cup {k}
    /\ change' = change + Delta[k]
    /\ UNCHANGED <<balance, applied>>

\* The transaction is complete: whatever of it was not posted now had taken
\* effect before.
Commit ==
    /\ \E t \in Transactions : posted \subseteq t /\ t \subseteq applied \cup posted
    /\ balance' = balance + change
    /\ applied' = applied \cup posted
    /\ posted' = {}
    /\ change' = 0

Abort ==
    /\ posted' = {}
    /\ change' = 0
    /\ UNCHANGED <<balance, applied>>

Next == Commit \/ Abort \/ \E k \in Keys : Post(k)

Spec == Init /\ [][Next]_accountVars
=============================================================================
