----------------------------- MODULE MCPlatform -----------------------------
(* The components that share no rows with each other, checked together:      *)
(* focus picks, in the initial state, the one that moves, so that their      *)
(* state spaces add up instead of multiplying.                               *)
EXTENDS VideoCall, VipMembership, Subscription, Store, RareIds, Messaging,
        AccountDeletion, AgencyHosts, MCHostReward, TLC

VARIABLE focus

Components == {"call", "vip", "sub", "store", "rare", "msg", "del", "ag", "reward"}

MCVipDays == [t \in VipTiers |-> 1]

Init ==
    /\ focus \in Components
    /\ CallInit /\ VipInit /\ SubInit /\ StoreInit /\ RareInit
    /\ MsgInit /\ DelInit /\ AgInit /\ RewardInit

Next ==
    \/ /\ focus = "call" /\ CallNext
       /\ UNCHANGED <<focus, vipVars, subVars, storeVars, rareVars, msgVars, delVars, agVars, rewardVars>>
    \/ /\ focus = "vip" /\ VipNext
       /\ UNCHANGED <<focus, callVars, subVars, storeVars, rareVars, msgVars, delVars, agVars, rewardVars>>
    \/ /\ focus = "sub" /\ SubNext
       /\ UNCHANGED <<focus, callVars, vipVars, storeVars, rareVars, msgVars, delVars, agVars, rewardVars>>
    \/ /\ focus = "store" /\ StoreNext
       /\ UNCHANGED <<focus, callVars, vipVars, subVars, rareVars, msgVars, delVars, agVars, rewardVars>>
    \/ /\ focus = "rare" /\ RareNext
       /\ UNCHANGED <<focus, callVars, vipVars, subVars, storeVars, msgVars, delVars, agVars, rewardVars>>
    \/ /\ focus = "msg" /\ MsgNext
       /\ UNCHANGED <<focus, callVars, vipVars, subVars, storeVars, rareVars, delVars, agVars, rewardVars>>
    \/ /\ focus = "del" /\ DelNext
       /\ UNCHANGED <<focus, callVars, vipVars, subVars, storeVars, rareVars, msgVars, agVars, rewardVars>>
    \/ /\ focus = "ag" /\ AgNext
       /\ UNCHANGED <<focus, callVars, vipVars, subVars, storeVars, rareVars, msgVars, delVars, rewardVars>>
    \/ /\ focus = "reward" /\ RewardNext
       /\ UNCHANGED <<focus, callVars, vipVars, subVars, storeVars, rareVars, msgVars, delVars, agVars>>

vars == <<focus, callVars, vipVars, subVars, storeVars, rareVars,
          msgVars, delVars, agVars, rewardVars>>

Spec == Init /\ [][Next]_vars

\* Every component has the same two requests and the same two workers, and
\* within each set any two are interchangeable.
Symmetry == Permutations(RewardReqs) \cup Permutations(SubWorkers)
=============================================================================
