----------------------------- MODULE Settlement -----------------------------
(* What a withdrawal promises to the parties: the points a host asks to have *)
(* paid out leave the host's wallet once, are in one place at any time, and  *)
(* either settle the debt to whoever paid the host or come back for good.    *)
CONSTANT Payers  \* whoever may have paid the host and be credited for it

VARIABLES
    holders,  \* where the points are
    asked     \* whether the host has asked

settlementVars == <<holders, asked>>

Init == holders = {"host"} /\ asked = FALSE

Ask ==
    /\ ~asked
    /\ asked' = TRUE
    /\ holders' = {"withdrawal"}

Settle(payer) ==
    /\ holders = {"withdrawal"}
    /\ holders' = {payer}
    /\ UNCHANGED asked

Return ==
    /\ asked
    /\ holders' = {"host"}
    /\ UNCHANGED asked

Next == Ask \/ Return \/ \E payer \in Payers : Settle(payer)

Spec == Init /\ [][Next]_settlementVars
=============================================================================
