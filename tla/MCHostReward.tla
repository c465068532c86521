---------------------------- MODULE MCHostReward ----------------------------
(* Small ladders for NormalHostReward.                                       *)
EXTENDS NormalHostReward

\* Two tiers on one ladder, the higher of them alone on the other.
LowTier == [threshold |-> 1, rate |-> 1, cap |-> 1, window |-> 1]
HighTier == [threshold |-> 2, rate |-> 2, cap |-> 1, window |-> 1]
MCFirstLadder == {LowTier, HighTier}
MCLadders == {MCFirstLadder, {HighTier}}
=============================================================================
