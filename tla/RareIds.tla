------------------------------- MODULE RareIds -------------------------------
(***************************************************************************)
(* Leases of one rare public id: executePurchaseRareId,                    *)
(* activateOwnedRarePublicId, deactivateOwnedRarePublicId and              *)
(* processRareIdExpiryJob of src/services/store.service.ts.                *)
(*                                                                         *)
(* A purchase sells the row of vip_public_ids under its row lock, creates  *)
(* an assignment (the lease) and, for oneself, puts the id on the user.    *)
(* When the lease ends a job makes the id available again.  Equipping an   *)
(* owned id writes the user from an assignment read before.                *)
(* users.current_vip_public_id is unique: a write that would give the id   *)
(* to a second user fails, also when the first one's time is over.         *)
(*                                                                         *)
(* The handler of the job tests the assignment before its transaction,     *)
(* which writes by id.  A worker that stalls loses the job to another, and *)
(* may still write later.                                                  *)
(***************************************************************************)
EXTENDS JobQueue

CONSTANTS
    RareUsers,   \* users who buy, receive or equip the id
    Leases,      \* ids of user_vip_assignments
    RareReqs,    \* requests in flight at once
    RareDays,    \* STORE_RARE_ID_DURATION_DAYS
    RareEnd,     \* bound on the clock
    MaxRareStalls \* bound on the handlers that lose their job and go on

ASSUME RareAssumption ==
    /\ RareUsers # {} /\ Leases # {}
    /\ RareDays \in Nat \ {0} /\ RareEnd \in Nat /\ MaxRareStalls \in Nat

VARIABLES
    rareNow,
    available,  \* isAvailable of the row of vip_public_ids
    lease,      \* the rows of user_vip_assignments
    overlay,    \* of each user: vipPublicIdExpiresAt while the user has the
                \* id as currentVipPublicId; 0 without it
    leaseJob,   \* job rare-id-expiry-<assignmentId>; while it is active its
                \* handler has found the lease active and not yet written
    late,       \* of each lease: the handlers that lost the job, not yet done
    rareStalls, \* how many handlers have lost their job
    rareReq     \* what each request is doing

rareVars == <<rareNow, available, lease, overlay, leaseJob, late,
              rareStalls, rareReq>>

SomeRareUser == CHOOSE u \in RareUsers : TRUE
SomeLease == CHOOSE l \in Leases : TRUE

Lease == [state : {"none", "active", "over"}, user : RareUsers, until : Nat]
NoLease == [state |-> "none", user |-> SomeRareUser, until |-> 0]

RareReq == [pc : {"idle", "buy", "enqueue", "equip"}, user : RareUsers,
            lease : Leases, until : Nat]
IdleRare == [pc |-> "idle", user |-> SomeRareUser, lease |-> SomeLease, until |-> 0]

\* Rows, jobs and requests are of the kinds the schema allows.
RareTypeOK ==
    /\ rareNow \in 0..RareEnd
    /\ available \in BOOLEAN
    /\ lease \in [Leases -> Lease]
    /\ overlay \in [RareUsers -> Nat]
    /\ leaseJob \in [Leases -> Job(Nat)]
    /\ late \in [Leases -> Nat]
    /\ rareStalls \in 0..MaxRareStalls
    /\ rareReq \in [RareReqs -> RareReq]

RareInit ==
    /\ rareNow = 0
    /\ available = TRUE
    /\ lease = [l \in Leases |-> NoLease]
    /\ overlay = [u \in RareUsers |-> 0]
    /\ leaseJob = [l \in Leases |-> NoJob]
    /\ late = [l \in Leases |-> 0]
    /\ rareStalls = 0
    /\ rareReq = [r \in RareReqs |-> IdleRare]

\* The checks on the replica say that the id is free: it is, or was.  The end
\* of the lease is fixed before the transaction.
RareBuy(r, u) ==
    /\ rareReq[r].pc = "idle"
    /\ rareReq' = [rareReq EXCEPT ![r] = [IdleRare EXCEPT !.pc = "buy", !.user = u,
                                              !.until = rareNow + RareDays]]
    /\ UNCHANGED <<rareNow, available, lease, overlay, leaseJob, late, rareStalls>>

\* Variant: the transaction trusts the check made before it.
StillAvailableAlways == TRUE

\* isAvailable, read again under lockVipPublicIdRow.
StillAvailable == available

\* The unique index: no other user has the id, not even past its end.
OverlayFree(u) == \A v \in RareUsers : v # u => overlay[v] = 0

\* The transaction of debit, sale, lease and, unless it is a gift, overlay.
\* It rolls back when the id is gone, the coins do not suffice, or another
\* user still has the id (reported as a duplicate purchase).
RareCommit(r, l) ==
    /\ rareReq[r].pc = "buy"
    /\ lease[l].state = "none"
    /\ LET u == rareReq[r].user
           until == rareReq[r].until
       IN \/ /\ StillAvailable
             /\ available' = FALSE
             /\ lease' = [lease EXCEPT ![l] = [state |-> "active", user |-> u,
                                               until |-> until]]
             /\ \/ /\ OverlayFree(u)
                   /\ overlay' = [overlay EXCEPT ![u] = until]
                \/ UNCHANGED overlay
             /\ rareReq' = [rareReq EXCEPT ![r].pc = "enqueue", ![r].lease = l]
          \/ /\ rareReq' = [rareReq EXCEPT ![r] = IdleRare]
             /\ UNCHANGED <<available, lease, overlay>>
    /\ UNCHANGED <<rareNow, leaseJob, late, rareStalls>>

\* enqueueRareIdAssignmentExpiry, or the process stops before it.
RareEnqueue(r) ==
    /\ rareReq[r].pc = "enqueue"
    /\ LET l == rareReq[r].lease
       IN \/ leaseJob' = [leaseJob EXCEPT ![l] = JobAdd(@, lease[l].until)]
          \/ UNCHANGED leaseJob
    /\ rareReq' = [rareReq EXCEPT ![r] = IdleRare]
    /\ UNCHANGED <<rareNow, available, lease, overlay, late, rareStalls>>

\* activateOwnedRarePublicId reads the assignment from the replica: it is
\* not over yet by the clock, and was active.
RareEquipRead(r, l) ==
    /\ rareReq[r].pc = "idle"
    /\ lease[l].state # "none" /\ lease[l].until > rareNow
    /\ rareReq' = [rareReq EXCEPT ![r] = [IdleRare EXCEPT !.pc = "equip", !.lease = l,
                                              !.user = lease[l].user]]
    /\ UNCHANGED <<rareNow, available, lease, overlay, leaseJob, late, rareStalls>>

\* Variant: the overlay's own period starts when the id is equipped.
OverlayUntilNow(l) == rareNow + RareDays

\* The overlay ends with the lease.
OverlayUntil(l) == lease[l].until

\* The user is written later, by id and without another test; the write fails
\* while another user has the id.
RareEquipWrite(r) ==
    /\ rareReq[r].pc = "equip"
    /\ LET u == rareReq[r].user
       IN overlay' = IF OverlayFree(u)
                     THEN [overlay EXCEPT ![u] = OverlayUntil(rareReq[r].lease)]
                     ELSE overlay
    /\ rareReq' = [rareReq EXCEPT ![r] = IdleRare]
    /\ UNCHANGED <<rareNow, available, lease, leaseJob, late, rareStalls>>

\* deactivateOwnedRarePublicId, and rareIdAssignmentId: null.
RareUnequip(u) ==
    /\ overlay[u] # 0
    /\ overlay' = [overlay EXCEPT ![u] = 0]
    /\ UNCHANGED <<rareNow, available, lease, leaseJob, late, rareStalls, rareReq>>

\* processRareIdExpiryJob: an assignment that is not active ends the job.
LeaseEndRead(l) ==
    /\ JobReady(leaseJob[l], rareNow)
    /\ leaseJob' = [leaseJob EXCEPT ![l] =
                       IF lease[l].state = "active" THEN JobTaken(@) ELSE NoJob]
    /\ UNCHANGED <<rareNow, available, lease, overlay, late, rareStalls, rareReq>>

\* Its transaction: the lease is over, the overlay goes if it shows this id,
\* and the id is available again.
EndLease(l) ==
    /\ lease' = [lease EXCEPT ![l].state = "over"]
    /\ overlay' = [overlay EXCEPT ![lease[l].user] = 0]
    /\ available' = TRUE

LeaseEndWrite(l) ==
    /\ leaseJob[l].state = "active"
    /\ EndLease(l)
    /\ leaseJob' = [leaseJob EXCEPT ![l] = NoJob]
    /\ UNCHANGED <<rareNow, late, rareStalls, rareReq>>

\* The transaction of a handler that has lost its job in the meantime.
LeaseEndLate(l) ==
    /\ late[l] > 0
    /\ EndLease(l)
    /\ late' = [late EXCEPT ![l] = @ - 1]
    /\ UNCHANGED <<rareNow, leaseJob, rareStalls, rareReq>>

\* The attempt fails, or its worker dies: the job is retried, or is left as
\* failed when it has no attempt left.
LeaseEndFails(l) ==
    /\ leaseJob[l].state = "active"
    /\ \E s \in {"delayed", "kept"} : leaseJob' = [leaseJob EXCEPT ![l].state = s]
    /\ UNCHANGED <<rareNow, available, lease, overlay, late, rareStalls, rareReq>>

\* The worker stalls: the job goes to another, and the handler is not stopped.
LeaseEndStalls(l) ==
    /\ leaseJob[l].state = "active"
    /\ rareStalls < MaxRareStalls
    /\ rareStalls' = rareStalls + 1
    /\ late' = [late EXCEPT ![l] = @ + 1]
    /\ leaseJob' = [leaseJob EXCEPT ![l].state = "delayed"]
    /\ UNCHANGED <<rareNow, available, lease, overlay, rareReq>>

RareDay ==
    /\ rareNow < RareEnd
    /\ rareNow' = rareNow + 1
    /\ UNCHANGED <<available, lease, overlay, leaseJob, late, rareStalls, rareReq>>

RareNext ==
    \/ \E r \in RareReqs, u \in RareUsers : RareBuy(r, u)
    \/ \E r \in RareReqs, l \in Leases : RareCommit(r, l) \/ RareEquipRead(r, l)
    \/ \E r \in RareReqs : RareEnqueue(r) \/ RareEquipWrite(r)
    \/ \E u \in RareUsers : RareUnequip(u)
    \/ \E l \in Leases : \/ LeaseEndRead(l) \/ LeaseEndWrite(l) \/ LeaseEndLate(l)
                         \/ LeaseEndFails(l) \/ LeaseEndStalls(l)
    \/ RareDay

RareSpec == RareInit /\ [][RareNext]_rareVars

-----------------------------------------------------------------------------

\* The id is sold to one at a time, as long as no handler of an expiry goes on
\* after it has lost its job: at most one lease is active, and while one is,
\* nobody can buy the id.
OneLease ==
    rareStalls = 0 =>
      /\ \A l, m \in Leases : lease[l].state = "active" /\ lease[m].state = "active"
                              => l = m
      /\ available => \A l \in Leases : lease[l].state # "active"

\* The id as getActiveItemsForUser shows it: an overlay past its end is not
\* shown.
ShowsId(u) == overlay[u] > rareNow

\* A user shows the id only during a lease of their own, and no longer than it:
\* also when a request to equip it is written after its lease has ended and the
\* id has been sold again, or when a handler ends a lease late.
ShownIsLeased ==
    \A u \in RareUsers : ShowsId(u) =>
        \E l \in Leases : /\ lease[l].state = "active" /\ lease[l].user = u
                          /\ lease[l].until = overlay[u]

=============================================================================
