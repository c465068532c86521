-------------------------------- MODULE Store --------------------------------
(***************************************************************************)
(* Cosmetic items of one user in one category: purchase, equip, unequip    *)
(* and expiry, from src/services/store.service.ts and                      *)
(* src/repositories/store.repository.ts.                                   *)
(*                                                                         *)
(* A row of user_store_items is known by the idempotency key of its        *)
(* purchase, which is UNIQUE.  The row that user_active_store_items names  *)
(* is the slot.  Every transaction on the slot holds the advisory lock of  *)
(* (user, category), so each is one step; what a request read before it is *)
(* not under the lock.                                                     *)
(***************************************************************************)
EXTENDS JobQueue

CONSTANTS
    ItemKeys,       \* idempotency keys of purchases, and the rows they make
    StoreRequests,  \* requests in flight at once
    ItemDays,       \* validityDays
    StoreEnd,       \* bound on the clock
    NoItem          \* the slot is empty

ASSUME StoreAssumption ==
    /\ ItemDays \in Nat \ {0}
    /\ StoreEnd \in Nat
    /\ NoItem \notin ItemKeys

VARIABLES
    storeNow,
    item,      \* the row of each key
    slot,      \* userStoreItemId of the slot
    idem,      \* the Redis marker of each key
    itemJob,   \* job store-expiry-<id> of each row
    storeReq   \* what each request is doing

storeVars == <<storeNow, item, slot, idem, itemJob, storeReq>>

ItemRow == [bought : BOOLEAN, active : BOOLEAN, applied : BOOLEAN,
            wasApplied : BOOLEAN,  \* history: a replica may still say applied
            until : Nat]
NoItemRow == [bought |-> FALSE, active |-> FALSE, applied |-> FALSE,
              wasApplied |-> FALSE, until |-> 0]

StoreReq == [pc : {"idle", "buy", "enqueue", "resolve", "equip", "unequip"},
             key : ItemKeys]
IdleReq == [pc |-> "idle", key |-> CHOOSE k \in ItemKeys : TRUE]

\* Rows, markers and requests are of the kinds the schema allows.
StoreTypeOK ==
    /\ storeNow \in 0..StoreEnd
    /\ item \in [ItemKeys -> ItemRow]
    /\ slot \in ItemKeys \cup {NoItem}
    /\ idem \in [ItemKeys -> {"none", "processing", "answer"}]
    /\ itemJob \in [ItemKeys -> Job(Nat)]
    /\ storeReq \in [StoreRequests -> StoreReq]

StoreInit ==
    /\ storeNow = 0
    /\ item = [k \in ItemKeys |-> NoItemRow]
    /\ slot = NoItem
    /\ idem = [k \in ItemKeys |-> "none"]
    /\ itemJob = [k \in ItemKeys |-> NoJob]
    /\ storeReq = [r \in StoreRequests |-> IdleReq]

ToReq(r, pc, k) == storeReq' = [storeReq EXCEPT ![r] = [pc |-> pc, key |-> k]]
EndReq(r) == storeReq' = [storeReq EXCEPT ![r] = IdleReq]

-----------------------------------------------------------------------------
(* The writes on rows and slot.                                            *)

\* The row in the slot is marked as not applied.
Unapplied(rows) ==
    [k \in ItemKeys |-> IF k = slot THEN [rows[k] EXCEPT !.applied = FALSE]
                        ELSE rows[k]]

\* The tail of a purchase for oneself, and activateItem.
Equip(k, rows) ==
    /\ item' = [Unapplied(rows) EXCEPT ![k].applied = TRUE,
                                       ![k].wasApplied = TRUE]
    /\ slot' = k

\* deactivateItem: the row of the request, and the slot whatever it holds.
Unequip(k) ==
    /\ item' = [item EXCEPT ![k].applied = FALSE]
    /\ slot' = NoItem

\* Variant: expiry leaves the slot to be cleaned up by the display.
SlotAfterExpiryKept(k) == slot

\* expireItem empties the slot when the row was applied.
SlotAfterExpiry(k) == IF item[k].applied THEN NoItem ELSE slot

-----------------------------------------------------------------------------
(* purchaseItem.                                                           *)

\* acquireIdemKey; a marker that is there gives the stored answer or 409.
BuyAcquire(r, k) ==
    /\ storeReq[r].pc = "idle"
    /\ idem[k] = "none"
    /\ idem' = [idem EXCEPT ![k] = "processing"]
    /\ ToReq(r, "buy", k)
    /\ UNCHANGED <<storeNow, item, slot, itemJob>>

\* The transaction of debit, row and slot.  A gift leaves the slot alone; a
\* key already used is a unique violation, which keeps the marker; any other
\* error releases it.
BuyCommit(r) ==
    /\ storeReq[r].pc = "buy"
    /\ LET k == storeReq[r].key
           rows == [item EXCEPT ![k] = [NoItemRow EXCEPT
                        !.bought = TRUE, !.active = TRUE,
                        !.until = storeNow + ItemDays]]
       IN \/ /\ ~item[k].bought
             /\ Equip(k, rows) \/ (item' = rows /\ UNCHANGED slot)
             /\ ToReq(r, "enqueue", k)
             /\ UNCHANGED idem
          \/ /\ item[k].bought
             /\ EndReq(r)
             /\ UNCHANGED <<item, slot, idem>>
          \/ /\ ~item[k].bought
             /\ EndReq(r)
             /\ idem' = [idem EXCEPT ![k] = "none"]
             /\ UNCHANGED <<item, slot>>
    /\ UNCHANGED <<storeNow, itemJob>>

\* enqueueStoreItemExpiry; when it fails the request fails, after the commit.
BuyEnqueue(r) ==
    /\ storeReq[r].pc = "enqueue"
    /\ LET k == storeReq[r].key
       IN \/ /\ itemJob' = [itemJob EXCEPT ![k] = JobAdd(@, item[k].until)]
             /\ ToReq(r, "resolve", k)
             /\ UNCHANGED idem
          \/ /\ EndReq(r)
             /\ idem' = [idem EXCEPT ![k] = "none"]
             /\ UNCHANGED itemJob
    /\ UNCHANGED <<storeNow, item, slot>>

\* resolveIdemKey, whose failure is ignored.
BuyResolve(r) ==
    /\ storeReq[r].pc = "resolve"
    /\ \/ idem' = [idem EXCEPT ![storeReq[r].key] = "answer"]
       \/ UNCHANGED idem
    /\ EndReq(r)
    /\ UNCHANGED <<storeNow, item, slot, itemJob>>

\* WALLET_IDEM_TTL runs out.
IdemExpires(k) ==
    /\ idem[k] # "none"
    /\ idem' = [idem EXCEPT ![k] = "none"]
    /\ UNCHANGED <<storeNow, item, slot, itemJob, storeReq>>

-----------------------------------------------------------------------------
(* activateOwnedItem, deactivateOwnedItem and setActiveItems.              *)

\* The checks, on a row of the replica.  A row is inactive only after its
\* expiry, which the request tests as well.
EquipRead(r, k) ==
    /\ storeReq[r].pc = "idle"
    /\ item[k].bought /\ item[k].until > storeNow
    /\ ToReq(r, "equip", k)
    /\ UNCHANGED <<storeNow, item, slot, idem, itemJob>>

EquipWrite(r) ==
    /\ storeReq[r].pc = "equip"
    /\ Equip(storeReq[r].key, item)
    /\ EndReq(r)
    /\ UNCHANGED <<storeNow, idem, itemJob>>

UnequipRead(r, k) ==
    /\ storeReq[r].pc = "idle"
    /\ item[k].wasApplied
    /\ ToReq(r, "unequip", k)
    /\ UNCHANGED <<storeNow, item, slot, idem, itemJob>>

UnequipWrite(r) ==
    /\ storeReq[r].pc = "unequip"
    /\ Unequip(storeReq[r].key)
    /\ EndReq(r)
    /\ UNCHANGED <<storeNow, idem, itemJob>>

\* clearActiveCategory.
ClearSlot ==
    /\ slot # NoItem
    /\ item' = Unapplied(item)
    /\ slot' = NoItem
    /\ UNCHANGED <<storeNow, idem, itemJob, storeReq>>

-----------------------------------------------------------------------------

\* processExpiryJob; the row is read again under the lock.
ExpireItem(k) ==
    /\ JobReady(itemJob[k], storeNow)
    /\ IF item[k].active /\ item[k].until <= storeNow
       THEN /\ item' = [item EXCEPT ![k].active = FALSE, ![k].applied = FALSE]
            /\ slot' = SlotAfterExpiry(k)
       ELSE UNCHANGED <<item, slot>>
    /\ itemJob' = [itemJob EXCEPT ![k] = NoJob]
    /\ UNCHANGED <<storeNow, idem, storeReq>>

\* The process of a request stops after it has taken its marker.
StoreCrash(r) ==
    /\ storeReq[r].pc \in {"buy", "enqueue", "resolve"}
    /\ EndReq(r)
    /\ UNCHANGED <<storeNow, item, slot, idem, itemJob>>

StoreDay ==
    /\ storeNow < StoreEnd
    /\ storeNow' = storeNow + 1
    /\ UNCHANGED <<item, slot, idem, itemJob, storeReq>>

StoreNext ==
    \/ \E r \in StoreRequests, k \in ItemKeys :
         BuyAcquire(r, k) \/ EquipRead(r, k) \/ UnequipRead(r, k)
    \/ \E r \in StoreRequests :
         \/ BuyCommit(r) \/ BuyEnqueue(r) \/ BuyResolve(r)
         \/ EquipWrite(r) \/ UnequipWrite(r) \/ StoreCrash(r)
    \/ \E k \in ItemKeys : ExpireItem(k) \/ IdemExpires(k)
    \/ ClearSlot
    \/ StoreDay

StoreSpec == StoreInit /\ [][StoreNext]_storeVars

-----------------------------------------------------------------------------

\* The slot never names an item whose applied flag is off, however purchases,
\* equips, unequips and expiries interleave: getActiveItemsForUser, which wants
\* both, shows what the slot names.  The converse does not hold: an unequip that
\* read the slot before another item was equipped, or the late expiry of an item
\* whose flag was left on, empties the slot of the item equipped since.
SlotIsApplied == slot # NoItem => item[slot].applied

=============================================================================
