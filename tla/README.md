# TLA+ specifications of ol-node

ol-node is the backend of a live-streaming application: Fastify handlers over
Postgres (through Prisma), Redis and BullMQ queues. These specifications model the
parts of it where money, paid time and memberships change under concurrency, and
check and prove what those parts promise. All paths below are relative to the repository's root.

## The parts of the system

| Part | Source | Module |
|---|---|---|
| Withdrawals and payroll assignment | `src/services/withdrawal.service.ts`, its repositories, `payrollAdmin.service.ts` | `Payroll` |
| Payroll queue, jobs, hourly safety net | `src/queues/payroll.queue.ts`, `src/jobs/payroll-sla.job.ts` | `Payroll` |
| Agency ban, points freeze | `agencyAdmin.service.ts`, `withdrawal.service.ts` | `Payroll`, as far as they touch a withdrawal |
| Point and coin ledgers | `point-wallet.service.ts`, `coin-wallet.service.ts`, ledger repositories | `WalletLedger` |
| Paid video calls | `video-call.service.ts`; `callAccept`, `callMinute` of `internalLedger.service.ts` | `VideoCall` |
| VIP membership | `vip-membership.service.ts` | `VipMembership` |
| Creator subscriptions, stop by block | `subscription.service.ts` | `Subscription` |
| Store items; rare public ids | `store.service.ts` | `Store`; `RareIds` |
| Messaging outbox | `messaging.service.ts`, `messaging-outbox.service.ts` | `Messaging` |
| Circuit breaker of the database | `src/utils/circuitBreaker.ts` | `CircuitBreaker` |
| Account deletion | `account-deletion.service.ts` | `AccountDeletion` |
| Live session bookkeeping | `liveSession.service.ts` | `LiveSession` |
| Agency membership of hosts | `agencyHost.service.ts`, `agency-leave-auto-approve.job.ts` | `AgencyHosts` |
| Daily rewards of normal hosts | `normal-host-reward.service.ts` | `NormalHostReward` |
| BullMQ, as the queues use it | external | `JobQueue` |
| Everything else | see `PROJECT.json`, "components" | not modelled, with the reason |

A host asks for a withdrawal. The points leave the host's wallet at once (a row in
the point ledger). An EPAY withdrawal is paid by the platform. A BANK withdrawal is
offered to an agency, which has an SLA of some hours to pay the host and upload a
proof; an agency that rejects or lets the SLA pass loses it to the next one, and
after `maxAssignmentAttempts` the platform takes over. After a proof a waiting
window of some hours runs, in which the host may open a dispute. When it ends
undisturbed the agency is credited. The deadlines are delayed jobs in a queue; an
hourly job looks for the ones that were lost. The credits and debits all go through
the ledger of a wallet, whose balance is the one recorded in its newest row.

The other parts spend from the same ledgers (calls, VIP, subscriptions, the store) or
credit them (daily grants, host rewards), and share one shape: a request reads,
commits a transaction, and then updates a cache or a queue outside it; a delayed job
does later what must happen at a certain time; a repeated job looks for what was lost.
They share no fields with each other but the wallet, whose ledger `WalletLedger` covers, so
in the other modules a debit is one step that succeeds, finds its key used, or is refused.

## Payroll

`Payroll.tla` is the life of one withdrawal. State and code:

| Variable | Code |
|---|---|
| `status`, `payoutHandler`, `assignmentCount`, `disputeTicketId` | columns of `withdrawals` |
| `asg` | rows of `withdrawal_payroll_assignments` (status, agency) |
| `clock` | `expiresAt` and `waitingExpiresAt`: unset, running or elapsed |
| `jobs` | the payroll queue by job id: none, queued, active, or kept after completion |
| `ledger` | the idempotency keys present in `point_ledger_entries` |
| `banned` | agencies removed by `banAgencyByAdmin` |
| `lock` | who holds `SELECT ... FOR UPDATE` on the withdrawal |
| `proc` | the handlers in flight: what each has read and what it still has to do |

A handler is three kinds of step. `...Read` is what it reads before it writes, with
its early returns; `...Commit` is its transaction; `UpdateQueue`, and then `LockRow`
and `Assign...` when it calls `assignToAgency`, is what follows. Other handlers may run in
between. The transactions run under Read Committed, `findUnique` takes no lock and
`update({ where: { id } })` tests no status, so a commit writes on top of whatever
has happened since the read. A transaction that reads a row again and returns is
`TxReturns`; the commit stays possible in the same state, because the second read
too may come before the other commit. Reads through the replica (`prismaRead`) may be
late as well, which the gap between read and commit covers. `Fail` is a crash or an
aborted transaction at any step; the queue retries a job and nobody retries a request.

| Handler | Actions |
|---|---|
| `executeCreateWithdrawal` | `CreateWithdrawal`, then `LockRow`, `Assign...` |
| `assignToAgency`, `manuallyAssignWithdrawal` | `ManualAssign`, `LockRow`, `AssignNothing`, `AssignHeal`, `AssignExhausted`, `AssignNoAgency`, `AssignCreate` |
| `processSlaExpiry`, `agentRejectPayroll` | `SlaRead`, `RejectRead`, `CloseCommit` |
| `agentCompletePayroll` | `CompleteRead`, `CompleteCommit` |
| `adminCompletePlatformPayout`, `adminCompletePayrollTakeover` | `PayoutRead`, `PayoutCommit` |
| `adminCompletePayrollForAgency` | `ManualCompleteRead`, `ManualCompleteCommit` |
| `adminUpdatePayrollProof` | `ProofRead`, `ProofCommit` |
| `autoCompleteWaiting` | `AutoWaitRead`, `AutoWaitCommit` |
| `autoCompletePlatformWaiting`, `autoCompleteTakeoverWaiting` | `AutoWindowRead`, `AutoWindowCommit` |
| `disputeWithdrawal` | `DisputeRead`, `DisputeCommit` |
| `adminResolvePlatformDispute...`, `adminResolveDispute...` | `ResolveRead`, `ResolveCommit`, `FavourRead`, `FavourAgentCommit`, `FavourHostCommit` |
| `adminReverseWithdrawal`, `cancelUnsettledWithdrawalsForPointsFreeze` | `Selects`, `ReverseRead`, `FreezeReturns`, `ReverseCommit` |
| `banAgencyByAdmin` | `BanRead`, `BanCommit` |
| `runPayrollSlaSafetyNet` | `SafetyNet` |

Abstractions. Points are which ledger keys exist: the keys are unique and the amounts
of one withdrawal are fixed when it is created. The payout and the reward of an
agency are written and reversed together, so one key stands for both. Age limits on
disputes and reversals are left open: the model allows them at any time. Which agency
is eligible (country, pause, privilege) is a free choice. Withdrawals created by older
versions (soft escrow) are left out, and so are messages, audit rows and caches. The
idempotency of `createWithdrawal` is left out: the withdrawal is created once.

One timing assumption: a request or a job attempt lasts seconds and a window hours, so
a handler in flight when a deadline is set ends before the deadline passes (`spans`).

## WalletLedger

`WalletLedger.tla` is the ledger of one wallet, as `creditInTransaction`, `debit` and
`credit` write it: look the idempotency key up (`Lookup`), lock the wallet row
(`LockWallet`), read the newest row, test the balance and insert (`Insert`), several
rows in one transaction, then `Commit`, or `Duplicate`, `Refuse` and `Abort`. `sum` is
the direction-adjusted sum of the committed rows, kept to compare with the balance the
code reads. The functions that lock without looking the key up first
(`debitForCreatorSubscription` and its like) behave as one whose lookup found nothing.
`escrow` has no caller, so no points are ever unconfirmed.

`created_at` is `@default(now())`, and not the order in which the lock was granted.
`Lag` says by how many rows it may fall behind: 0 follows the order, 1 allows two rows
with one time, 2 and more let rows be swapped. `InOrder` says of a set of rows that their times
follow the order of the inserts.

## The abstract specifications

`Account.tla` is what a ledger promises: transactions that run one after another, each
key applied at most once, each debit covered, and each transaction taking effect as a
whole or not at all. `WalletLedger` implements it while times are in order (`ImplementsAccount`): the balance is the
newest row's, and the transaction in progress is that of the lock's holder.

`Settlement.tla` is what a withdrawal promises: the points leave the wallet once, are in
one place at any time, and are settled with whoever paid or come back for good. `Payroll`
implements it when handlers do not overlap (`ImplementsSettlement`), with the place of the
points read off the ledger keys. The mapping puts a refund before a takeover: a reversal
after the company has been credited for a takeover refunds the host and leaves the
company its credit (`adminReverseWithdrawal` reverses the credit of an assignment only).

## The other components

`JobQueue.tla` is one BullMQ job: `add` under an id in use does nothing, also when the id
is that of the running job; `remove` fails on an active job; a job is taken when its delay
is over. In all modules a request or a handler is a record with a `pc`, and its
steps are the points between which others run; where the code reads through
`prismaRead`, the model may answer with an earlier row.

| Module | State | Actions and the code |
|---|---|---|
| `VideoCall` | session row, what a replica may answer, minutes debited, coins, ticks | `Initiate`; a tick is `TickRead`, `CheckFrozen`, `Charge` (the transaction), `CountMinute` (`incrementMinute`), `CheckNext`; `End`; `TickCrash`; the calls that Live-server rings are `Ring`, `Miss`, `CallAccept`, `CallMinute` |
| `VipMembership` | expiry and flag on the user, purchases and their place in the list, cache, expiry job, daily claims | a purchase is `PreRead`, `Pay`, `Refresh`, `Remove`, `Enqueue`; a daily claim is `DailyCheck` (`hasActive`), `DailyToday`, `DailyGrant`; the job is `ExpiryRead`, `ExpiryWrite`. `DisplayTier` is `resolveVipDisplayState` |
| `Subscription` | the row and the one before it, debits, access key, renewal and grace job | `CreateRead` to `CreateAdd`; `StopRead`, `StopWrite`, `StopDrop`; `Block`; the two job handlers from `RenewTake` and `GraceTake` through `WorkDebit`, `WorkWrite` to `RenewAfter`, `GraceAfter` or `...Short`; `WorkStall` runs a handler a second time |
| `Store` | rows, slot, Redis marker and expiry job of each purchase | `BuyAcquire`, `BuyCommit`, `BuyEnqueue`, `BuyResolve`; `Equip...`, `Unequip...`, `ClearSlot`, `ExpireItem` |
| `RareIds` | availability of one id, leases, the id on each user, jobs, handlers that lost theirs | `RareBuy`, `RareCommit`, `RareEnqueue`; `RareEquipRead`, `RareEquipWrite`, `RareUnequip`; `LeaseEndRead`, `LeaseEndWrite`, `LeaseEndFails`; `LeaseEndStalls` and then `LeaseEndLate` are a handler that goes on without its job |
| `Messaging` | messages, outbox rows (published, marked, old), jobs | `Send`, `InlinePublish`, `InlineMark`, `InlineEnqueue`; `JobTake`, `JobPublish`, `JobMark`; `Sweep` |
| `CircuitBreaker` | state, failures, time since failure and probe | `BrTry` (`shouldSkip`), `BrSucceeds`, `BrFails`, `BrOtherError`; `Outage`, `Recovery` |
| `AccountDeletion` | the row, the account's status, reminders sent | `Schedule...`, `Cancel...`; a run of the job is `RemindRead`, `RemindClaim`, `DeleteRead`, `DeleteWrite`; `JobStops` |
| `LiveSession` | rows, Redis key, safety-net jobs | `Start...`, `End...` (webhooks); `NetTake`, `CronTake`, `Interrupt...` |
| `AgencyHosts` | membership, user row, count of each agency, leave applications, jobs | `Join...`, `Leave...`, `RemoveRead`, `TransferRead`, `ExitRead`, `ExitWrite`; `AutoTake`, `AutoSweep` |
| `NormalHostReward` | receiving and hours per day, ladder, floor per day, claims, credits | `RewardAsk`, `RewardNow`, `FloorRead`, `FloorInsert`, `ClaimCheck`, `ClaimCommit`; `TierJobRead`, `TierJobInsert`; `LadderEdited` |

What they leave out. Amounts are units (a minute, a day, a period), and whether a balance
suffices is a choice except in `VideoCall`. Cached configuration is read fresh. In
`NormalHostReward` the basic reward is enabled and asks for one hour. What Live-server does
to a call beyond `callAccept` and `callMinute` (the RINGING row, its end) is taken from how
the code uses the row. In `VipMembership` `createdAt` puts a purchase after those committed
before its transaction began; where it comes among those that overlap with it is a choice.

## Runs

| Run | Instance | Checks | Result |
|---|---|---|---|
| `payroll_serial` | 1 worker, 2 assignments, 2 agencies, 1 crash, 6 requests, all operations | `OneOpenAssignment`, `PlatformAlone`, `PointsInOnePlace`, `CountsClosed`, `CreditAfterWindow`, `ImplementsSettlement` | hold; 446,027 states |
| `payroll_race` | 2 workers, 2 assignments, 2 agencies, 4 requests, all but proof edits | `TypeOK`, `RowsMatchLedger`, `AssignAlone` | hold; 1,135,710 states |
| `payroll_live` | 1 worker, 2 assignments, 1 agency, 1 crash, 3 requests, fairness, all but proof edits | `StuckPendingHealed`, `SlaEnforced`, `WindowSettles`, `WaitingSettles` | hold; 10,881 states |
| `payroll_two_open` | 2 workers: create, SLA, complete, safety net | `OneOpenAssignment` | violated |
| `payroll_dispute` | 2 workers: create, complete, window end, dispute, safety net | `CreditWithoutDispute` | violated |
| `wallet_ledger` | 3 workers, 5 keys, 4 transactions, 6 starts, `Lag` 0 | `TypeOK`, `TailIsSum`, `NeverOverdrawn`, `AppliedOnce`, `AllOrNothing`, `ImplementsAccount` | hold; 92,136 states |
| `wallet_ledger_tie` | 2 workers, 4 starts, `Lag` 1 | `TailIsSum` | violated |
| `platform` | nine components in turn, 2 requests and 1 or 2 handlers each | the sixteen invariants below | hold; 835,245 states |
| `recovery` | five components in turn, fairness, crashes | the five liveness properties below | hold; 145,194 states |
| `subscription_renews` | 2 requests, 2 handlers, no fault, no replica lag | `ActiveRenews` | violated |
| `deletion_cancelled` | 2 requests, 1 run of the job, no fault | `CancelKeepsAccount` | violated |
| `host_tier_drops` | 1 request, 2 ladders, 2 days | `TierNeverDrops` | violated |

`MCPlatform` and `MCRecovery` extend the components and add `focus`, chosen in the initial
state: only that component moves. The state spaces add up instead of multiplying, which
loses nothing because the components share no variable. The properties:

| Property | What it says |
|---|---|
| `MinutesInOrder`, `OneMinuteAfterEnd` | the minutes of a call billed by ticks, or by Live-server, are charged in order and once; the count is at most one behind, or exact; an ended call is charged at most one more, or none |
| `VipNotCutShort`, `VipStacks` | the expiry job never ends a membership with time left; concurrent purchases lose no day and no key pays twice |
| `BadgeMatchesExpiry`, `GrantsArePaid` | no badge without time left, and when the SVIP purchases are listed as they were stacked the badge lasts as long as the time; a daily grant was checked at a covered moment, no later than its day |
| `RenewalPaidOnce`, `AccessIsPaid` | no period is charged twice by renewals; the access key never outlives a charged period but for the one second that is always given |
| `SlotIsApplied` | the item a slot names is applied (the converse does not hold) |
| `OneLease`, `ShownIsLeased` | a rare id is leased to one at a time as long as no handler goes on without its job; a user shows it only during their own lease, with such handlers too |
| `MarkedWasPublished` | an outbox row is marked only after its message was published |
| `OneReminder` | one schedule sends one reminder although two runs of the job overlap |
| `HostsAddUp` | the counts of the agencies add up to the memberships, and the user row agrees |
| `TierNotBelowFloor`, `PaidAtFloor` | no request works below the recorded floor of its day; what is credited is the rate of a tier not below it, or the basic reward of a day that began without one |
| `OutboxDrains` | every committed message is marked as published in the end |
| `BreakerRecovers` | when the database is back for good, the breaker closes for good |
| `DeletionSettles` | a scheduled deletion is cancelled or carried out |
| `SessionCloses` | a live session ends, row and key, without its end webhook |
| `LeaveSettles` | a leave application does not stay open |

What they show:

- When handlers do not overlap, the points of a withdrawal end in one place whatever
  sequence of operations and whatever single crash there was. This is
  a statement about the sequence of operations, not about races.
- When two handlers overlap, the statuses still never claim money that did not move,
  and `assignToAgency` still never assigns on top of an open assignment. What
  does not survive is the rest: an agency that completes while its SLA job runs leaves
  two open assignments (`payroll_two_open`), a dispute does not stop a waiting job that
  has begun (`payroll_dispute`), and a proof edit writes back the status it read
  (`ProofCommit`; `AssignAlone` fails with it, so `payroll_race` leaves proof edits out).
- The hourly job heals what a crash lost, except the job of an agency's waiting window:
  no sweep looks for it, so `WaitingSettles` is stated of windows whose job was queued, and
  a crash of the job's handler is among what it covers. With two
  workers it would not hold either: a completion that overlaps the expiry may leave the
  withdrawal WAITING with an EXPIRED assignment.
- The ledger is sound as long as `created_at` follows the lock order. Two rows with one
  time are enough to make the balance ambiguous (`wallet_ledger_tie`).
- In the other components the unique keys, the row locks and the conditional updates carry
  the invariants through stale reads, overlaps and repeated handlers. What is lost is lost
  where a handler changes its own job (`subscription_renews`), acts on a list it read
  earlier (`deletion_cancelled`), or computes anew what it had shown before
  (`host_tier_drops`).

Bounds. Two assignments are the fewest with a reassignment, and with `MaxAttempts` 2
they reach the cap. Two agencies are the fewest with a change of agency. Two workers
are the fewest that overlap. Six requests reach create, complete, dispute, a
resolution, a reversal and a ban in one behaviour. The wallet instance has a
transaction of two rows, two debits that one credit cannot both cover, and more starts
than transactions, so that retries meet their own earlier attempt. Workers,
assignment ids and agencies are interchangeable, hence the symmetry sets; the liveness
runs use none. `platform` gives each component two requests and its handlers, one or two
of them; VIP periods are one day, so that two purchases stack up to exactly `VipCap` 2, in
either order of the list. A subscription's period is two units and a grace period one:
`SubEnd` 5 leaves room for a first period, a renewal, a grace period and what is set after
them, and the unit, which stands for the shortest access given, is less than a period. Two
leases of a rare id are one that ends and the next, which a late request for the first, or
one stalled handler of it (`MaxRareStalls` 1), then meets. `SweepBatch` 1 makes two outbox rows compete for a sweep. The ladders
are one with two tiers and one that has lost the lower. Clocks, faults and requests are
bounded by the constants named `...End`, `Max...`. The requests, which all components share,
are interchangeable, and so are the workers. `CHECK_DEADLOCK FALSE` stands where requests
or clocks are bounded and the system then stops; `Payroll` never stops, the hourly job being
always enabled.

Fairness. In `Payroll` (`FairSpec`) a handler that has begun goes on: Postgres grants a lock in turn
and Node runs what is ready. The queue hands out every due job: BullMQ workers poll
for ever. Deadlines pass and the hourly job runs. It is strong where a worker may be
busy in between. Hosts, agents and admins are never obliged to act. In `MCRecovery` it is the
same in kind: what has begun goes on unless it crashes, repeated jobs run (the outbox sweep
every 5 seconds, the daily deletion job, the cron over stale sessions, the sweep over leave
applications), and deadlines and key lifetimes pass. The breaker has no timer of its own,
so `BreakerRecovers` also takes it that calls keep coming, and that of the calls which reach
a healthy database again and again some succeed (strong fairness of `BrSucceeds`).

## Proofs

Checked by TLAPS, for any number of workers, assignments, agencies, keys and
transactions. Every invariant, action property and refinement of a passing run has a
theorem. The assumptions are the `ASSUME`s of the modules (`None` is none of the other
values, bounds are naturals, the assignment ids and the agencies of `AgencyHosts` are finitely
many, a delta is not zero, a transaction writes at least one row, periods are positive, a part
of a ladder has a highest tier), and what a theorem itself assumes, named below.

`PayrollProofs.tla`, however handlers overlap and crash:

- `TypeCorrect`: `Spec => []TypeOK`.
- `RowsMatchLedgerAlways`: `Spec => []RowsMatchLedger`, proof edits included.
- `AssignAloneAlways`: `Spec => AssignAlone`, when `"proof" \notin Ops`.

`RowsMatchLedger` is not inductive: a handler in flight writes what it read earlier.
`IInv` adds what a worker may rely on when it commits (`WorkerOK`), for instance that the status
a proof edit will write back is one the ledger still justifies. It does, because ledger
keys are never removed; that monotonicity carries the argument. The step is proved action by action,
and each lemma says which conjuncts its action can disturb.

`AssignAlone` rests on `LockInv`: a worker under the row lock is alone there, and the open
assignment it saw is one now, none if it saw none. The commits of the other handlers write the
withdrawal and so wait for the lock. The exception is the proof edit of an assignment, which
writes that row alone and may write an open status back; hence the hypothesis.

`PayrollSerialProofs.tla`, as `Spec /\ []NoOverlap => ...` (two handlers are never in flight at
once; any number of workers, crashes, retries, proof edits):

- `OneOpenSerially`, `PlatformAloneSerially`, `CountsClosedSerially`, `PointsInOnePlaceSerially`:
  the four invariants of `payroll_serial`.
- `CreditAfterWindowSerially`: its action property.
- `PayrollImplementsSettlement`: the refinement, `Init` and each step.

`payroll_serial` checks the six on an instance with one worker, where `NoOverlap` holds. The
hypothesis is on the behaviour, not on the code: the code does not keep handlers from overlapping, and `payroll_two_open` shows what then happens. On top of `IInv`, `SerialRows` says how the status
of the withdrawal, the one live assignment, the platform's window, the count and the ledger
determine each other: an agency has been credited exactly if its assignment is COMPLETED,
the refund exists exactly if the withdrawal is FAILED, and so on. `StillTrue` says
that what a handler has read is true until it commits. In between lie only its own
steps, deadlines that pass and crashes.

`SumTheorems.tla` holds what the sums of the ledger and of the host counts need: `SumFunctionOnSet` of
the community modules does not depend on the order in which it picks, and adding an element, changing a value or joining
two disjoint sets changes it as expected. The induction is over the subsets of a finite set,
by a least counterexample (`LeastSubset`, from the well-foundedness of strict inclusion).

`WalletLedgerProofs.tla`:

- `TypeCorrect`: `Spec => []TypeOK`; the lock is held by a running transaction only.
- `AppliedOnceAlways`: `Spec => []AppliedOnce`, for every `Lag`.
- `TailIsSumAlways`, `NeverOverdrawnAlways`: for every `Lag`, in every state in which the times
  of the committed rows are in order (`InOrder(rows)`).
- `LedgerImplementsAccount`: for every `Lag`, `ImplementsAccount` of every behaviour in which the
  rows that are committed or being written stay in order (`[]InOrder(Seen)`).
- `AllOrNothingAlways`: for every `Lag`, when no two different transactions share a key
  (`KeysApart`); the payout and the reward of one payroll, for one, are only written together.
- `SumIsTotal`: for every `Lag`, the variable `sum` is the sum over the committed rows. The
  model adds to it at each commit, the database has no such column; so `TailIsSum`
  means what it seems to mean.
- `TailIsTotalAlways`: `TailIsSumAlways` with that sum in place of the variable.

The order is a fact of the clocks, which no code ensures; so it is a premise on the state or the
behaviour and not a restriction of `Lag`. `LockInv` says that only the holder of the lock has
uncommitted rows, and `SeqInv` that a new row has the highest number: where times are in order it is
the newest one (`LaterRowIsTail`). `TailInv` then relates, for each set of rows that is in order, the
newest balance to the committed sum and a transaction's own. A debit is tested against that balance,
hence `NeverOverdrawn`. `wallet_ledger_tie` shows that the premise is needed.
`PlanInv` follows each transaction through its plan: every key of it is in the ledger, among
its own rows, or still to be written. `SumInv` says that a transaction's rows are none of the
committed ones and add up to its change.

The other components, for any number of requests, handlers and rows:

| Module | Component | Theorems | The inductive invariant |
|---|---|---|---|
| `HostEarningsProofs` | video calls | `MinutesInOrderAlways`, `OneMinuteAfterEndAlways` | of a call billed in one way: a replica is never ahead of the row, a tick aims at most one minute past the count, between the commit of a minute and its count no other minute commits, and Live-server's count is the ledger's |
| `HostEarningsProofs` | normal host reward | `TierNotBelowFloorAlways`, `PaidAtFloorAlways` | a floor once recorded does not change, and a claim about to commit has passed the conditions of its slot with a tier not below the floor |
| `PurchaseProofs` | VIP membership | `VipNotCutShortAlways`, `VipStacksAlways`, `BadgeMatchesExpiryAlways`, `GrantsArePaidAlways` | the ends of the purchases rise, the stored expiry is the last of them, cache and replica hold the end of some purchase, the list has a last SVIP purchase wherever one is put, and a claim in flight was checked at a covered moment |
| `PurchaseProofs` | store | `SlotIsAppliedAlways` | the slot holds a row that is bought and applied, and an equip is of a bought row |
| `PurchaseProofs` | rare ids | `OneLeaseAlways`, `ShownIsLeasedAlways` | no handler of an expiry, on time, retried or late, runs before the end of its lease; what is shown is leased; and without stalls a running handler has an active lease |
| `SubscriptionProofs` | subscriptions | `RenewalPaidOnceAlways`, `AccessIsPaidAlways` | every copy of the row, in flight or stale, has a period that was charged; the debits only grow |
| `PlatformProofs` | messaging | `MarkedWasPublishedAlways` | a request or a handler about to mark a row has delivered it |
| `PlatformProofs` | account deletion | `OneReminderAlways` | a schedule to come has no notice, and the current one has one only when its row says reminded |
| `PlatformProofs` | agency hosts | `HostsAddUpAlways` | the property itself, with the agencies a task names being agencies: a join wants no membership and an exit a row, in the transaction that counts |

`SerialInv` and the `LockInv` of `PayrollProofs` were model-checked, on the instances of
`payroll_serial` and `payroll_race`, before they were proved.

Model-checked only: all liveness (`payroll_live`, `recovery`), which is out of the prover's reach, as
is `ENABLED`. A violated property has a counterexample and no proof.

## Findings

`PROJECT.json` quotes, for each violated property, the comment in the code that states
it and the line where the code departs from it.

Other behaviours met while modelling, which the properties allow for and a reader should know:

- Video call: a crash between the commit of a minute and its count leaves `minsCharged` one
  behind. Later ticks meet the used key, and the call is not charged again.
- Video call: nothing in the row says whether a call is billed by ticks or by Live-server, and
  the keys differ; a call billed in both ways pays for a minute twice.
- VIP: the queue is updated after the commit, so an older purchase may replace the expiry job
  of a newer one. The handler looks at the stored expiry again.
- VIP: two overlapping SVIP purchases may be listed the other way round than they were stacked;
  the badge then ends with the earlier of them. A daily claim reads its day after the check, and
  may be paid for a day that began in between.
- Subscription: a cancellation that commits while a renewal runs is overwritten with ACTIVE;
  a handler that finds too few coins fails when it removes its own job, before it has
  queued the grace job. A renewal that crashes after its charge meets its used key when it is
  retried, and the charged period is never granted. A check of access that finds an ACTIVE row
  gives one more second also when the period is over.
- Store: unequipping empties the slot whatever it holds, so a row may be applied without the
  slot; its later expiry then empties a slot that another item has taken.
- Rare ids: `resolveDisplayPublicId` does not look at the expiry; `ShownIsLeased` is stated of what
  `getActiveItemsForUser` shows. An id equipped late stays on the user after its lease, not shown;
  since the column is unique, whoever next buys the id for themselves is refused with "Duplicate
  purchase (already processed)" until it is taken off. A handler of the expiry that stalls and goes
  on later ends its lease a second time and makes the id available while someone else leases it.
- Circuit breaker: its header speaks of one probe; after `halfOpenTimeoutMs` every caller passes.
- Live session: the end webhook and the safety net may both find the row ACTIVE and count the
  duration twice, and a crash after the row is closed loses it.
- Agency hosts: an exit deletes by host, so one that overlaps a transfer removes the new
  membership; the sum of the counts stays right and the count of one agency does not.
- Payroll: a BANK withdrawal that is disputed after PAID has no WAITING assignment, so only a
  reversal ends the dispute.

## Not modelled

`PROJECT.json` lists every part with its status. The map covers a small share of the
repository: most of it is routes, schemas, validation, presentation, administration screens
and reports, which read or write single rows and hold no protocol to check. Beyond those:

- Guardians and royal hosts, diamonds, coin trading and exchange, gifts and commission: further
  tables with the patterns of the modules above. The order in which a gift locks several
  wallets is a hazard without a property.
- Coin top-up and payment callbacks: the promises of the provider are not in the repository.
- Sessions, tokens and sign-in: authentication is not part of this development.
- Lucky gifts and games: random outcomes and an external provider.
- In the modelled parts: the legacy escrow of old withdrawals, the balance cache, the catalogue
  of the store, the pool of rare ids, agency deletion and join cooldowns, deprecated join
  applications.

## Running

    tlc -config PayrollSerial.cfg MCPayroll
    tlc -config Platform.cfg MCPlatform
    tlapm PayrollProofs.tla
    tlapm PayrollSerialProofs.tla
