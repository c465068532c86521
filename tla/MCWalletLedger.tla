--------------------------- MODULE MCWalletLedger ---------------------------
(* A payroll that credits twice, two debits that cannot both be covered by   *)
(* what one credit brings, and one more credit.                              *)
EXTENDS WalletLedger, TLC

CONSTANTS payout, reward, spend, gift, topup

MCKeys == {payout, reward, spend, gift, topup}
MCDelta == payout :> 3 @@ reward :> 1 @@ spend :> -3 @@ gift :> -2 @@ topup :> 2
MCTxs == {<<payout, reward>>, <<spend>>, <<gift>>, <<topup>>}

Symmetry == Permutations(Workers)
=============================================================================
