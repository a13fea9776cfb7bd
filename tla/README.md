# Verification of the Zalo expense bot

TLA+ models of the parts of the bot that run concurrently or have to survive
failures, TLC configurations that check them on small instances, and TLAPS
proofs that hold for every instance. Source paths are relative to the
repository root.

## 1. The system

A Vietnamese expense bot for Zalo. `cmd/api`, by webhook or by its poll loop, turns provider updates into events; receipt images are
processed by `cmd/receipt-worker`, messages are sent by
`cmd/notification-worker`. All processes share one PostgreSQL database and one
object store. There is no other communication between them: work is handed over
through rows of `queue_jobs`.

| Part | State it keeps | Operations | Depends on |
|---|---|---|---|
| job queue, `internal/platform/queue` | `queue_jobs`: status, attempts, claim token, `run_after`, `visible_at` | Enqueue, Dequeue, Heartbeat, Ack, Nack | PostgreSQL row locks |
| worker lanes, `internal/worker` | the job in hand, a heartbeat goroutine | Run, loop, runWithHeartbeat | job queue |
| outbox, `internal/notify`, `internal/store/outbound.go` | `outbound_messages`, two usage counters | Reply, DeletionConfirmation, Sender.Handle | job queue, user lock, provider |
| receipt pipeline, `internal/receipt/processor.go` | `receipt_documents`, originals, drafts, OCR counter | prepare, load, arm, Extract, finish | job queue, user lock, object store, extractor, outbox |
| retention sweep, `internal/receipt/sweeper.go` | none of its own | list, delete object, mark row, clear key | object store; takes no user lock |
| review, `internal/bot/text.go`, `internal/store/transactions.go` | `transactions`, `pending_actions` | confirm, discard, edit, manual entry, delete recent | user lock |
| account deletion, `internal/account`, `internal/store/account.go` | `users.status` | mark deleting, delete objects, purge | user lock, object store |
| inbound messages, `internal/bot/bot.go`, `internal/store/messages.go`, `cmd/api` | `provider_messages`, `users`, `user_identities` | claim, redact, resolve user, route, mark | user lock |
| user lock, `internal/platform/postgres/userlock.go` | advisory locks, a semaphore per pool | WithUserLock | connection pool |
| scheduled summaries, `internal/summaryschedule` | `scheduled_summary_preferences` | `/tongket`, `/settings`, list due, reply, advance | user lock, outbox |
| categorisation, `internal/categorisation`, `internal/store/merchants.go` | merchants, aliases, learned rules | resolve, suggest, learn | called by the bot and the pipeline |
| insights and export, `internal/insight`, `internal/account/export.go` | insight rows, export files | summary and export commands | transactions |
| conversation, extraction and Zalo adapters | the offset of getUpdates | pure functions and HTTP calls | |

What makes the system hard to get right:

* **Leases.** A claim is a lease that may lapse while its lane still works. Two
  lanes can then handle one job, and the older one will Ack or Nack late.
* **Many commits per handler.** A handler is a chain of transactions with network
  calls between them; the process can die between any two, and the retry has to
  resume from what was committed.
* **Calls that cannot be repeated.** The provider has no idempotency key and OCR is
  paid for; both are capped by monthly counters.
* **Partial locking.** Almost everything of one user runs under an advisory lock,
  but downloads, OCR calls and the sweep do not.
* **Messages that come again.** The provider repeats what was not answered with 200,
  in any order; a repeated "yes" meets whatever question is open by then.
* **Lists that age.** The sweep and the summary runner act on rows they listed
  before, while their users change or delete them.
* **Errors with the wrong class.** The worker Nacks only `CodeTransient`; every
  other error is Acked, so each handler must know what it has made durable.

What correctness means, part by part: the queue loses no job, hands none to two
live lanes and never lets a stale claim change a row; the outbox calls the provider
at most once per message, within the quota, records what really happened and is
silent towards deleted users; the pipeline settles every receipt, keeps status,
draft and original consistent, detects duplicates, stays within the OCR limit and
answers the user; the sweep deletes exactly what is due; every message is handled
and answered, an answer settles what was asked and nothing else, nothing is stored
before consent and nothing is left after deletion; callers of the user lock exclude
one another and never all wait; a summary comes once per period, for the latest
period, when the user asked for it. `PROJECT.json` lists the hazards line by line under "hazards".

## 2. Modules

| Module | Models | Composition |
|---|---|---|
| `LeaseContract` | what users of the queue may rely on | abstract specification |
| `JobQueue` | queue and lanes | implements `LeaseContract` (INSTANCE, mapping `StageOf`, `HolderOf`) |
| `Outbox` | Enqueuer, Sender, outbox store, purge | EXTENDS `JobQueue`; a row and its job are one member of `Jobs` |
| `Receipts` | pipeline, review, sweep, account deletion of one user | EXTENDS `JobQueue`; a receipt and its job are one member of `Jobs` |
| `Inbound` | messages up to the user lock: delivery, claim, identity, owner, mark | state and actions, composed in `Chat` |
| `Learning` | merchant, rule, insight rows, export files | EXTENDS `Inbound`; operators used by `Chat` |
| `Chat` | what a message does under the user lock, and the review card of the receipt worker | EXTENDS `Learning`; composes inbound handling, conversation, learning, image registration and deletion |
| `UserLock` | semaphore, pool, advisory lock | stands alone; the other modules use a lock |
| `Calendar` | delivery instants and periods | operators |
| `Schedules` | schedules, runners, commands of one user | EXTENDS `Calendar` |
| `JobQueueProofs`, `OutboxProofs`, `ReceiptsProofs`, `ChatProofs`, `ChatAnswersProofs`, `ChatRecordsProofs`, `UserLockProofs`, `SchedulesProofs` | theorems | EXTEND the module they are about |
| `MCJobQueue`, `MCOutbox`, `MCReceipts`, `MCChat`, `MCUserLock`, `MCSchedules` | values of constants for TLC | EXTEND the module they instantiate |

### JobQueue

Per row: `status`, `attempts`, `token`, `created`, and `due`, one bit that says
whether the deadline guarding the next Dequeue has passed (`run_after` of a queued
row, `visible_at` of a running one). Times are compared nowhere else, so one bit
suffices; `BackoffElapses` and `LeaseExpires` set it. A claim token is a fresh
uuid; the model uses the number of the claim, which is fresh because the UPDATE that
writes the token also increments `attempts`. Per lane: `phase` (where `loop`
stands), the job in hand, its token, and whether the heartbeat goroutine runs.

Actions: `Enqueue`, `Dequeue`, `Poll`, `Heartbeat`, `Return` (the handler is done),
`Ack`, `Nack`, `Delete` (the DELETEs of other components). Faults: `Stall` (a lane
sleeps past its lease), `HeartbeatFails`, `Crash` (also a shutdown whose Ack ran on
a cancelled context). Nack's read and update are one action: the update repeats the
conditions of the read, and `attempts` does not change while they hold. `lost` counts
the faults met by the claims of a row; `MaxFaults` bounds it. Deleted rows stay as
`"deleted"`, which the unique index and Dequeue do not see.

### Outbox

`EnqueueOutbound` and `EnqueueJob` are the two statements of `Enqueuer.enqueue`; a
crash between them is a behaviour that has not taken the second yet, and a replay of
the reply is the second. The Sender is cut at its commits: `Inspect` (take the lock,
read row and user, decide), `BeginOutboundAttempt`, `Send`, `CompleteOutboundSend`,
`MarkOutboundStatus`, `PurgeOutboundAndJob`, `DeleteQueueJob`, `HandlerReturns`.
`Send` has the three outcomes of the provider; after a retryable error the message
may or may not have been delivered. `calls` and `delivered` are history variables.
Faults: those of the queue, `StoreError` (a statement or the lock fails, the worker
Acks), `LockLost` (the session that holds the advisory lock dies while the callback
runs on over other connections) and `LaneCrash`.

### Receipts

`Processor.Handle` runs three blocks under the user lock with the load and the OCR
call between them. Each commit is an action: `Prepare`, `StartDownload`;
`ReadStored` or `FetchAndPut`; `LoadFailed`; `Arm`, `SetReceiptStored`,
`MarkStored`, `MarkExtracting`, `ChargeOCR`; `Extract`; `Finish`; and the reply,
`Answer`, or `Refuse` when armExtraction makes it. The user acts through `ConfirmTx`,
`DiscardTx` and `PendingExpires`, the sweep through `ListReceiptsPendingDeletion`,
`SweepObject`, `SweepRow` and `ClearReceiptStorageKey` on the records it has read,
and account deletion through `BeginAccountDeletion`, `DeleteOriginal` and
`PurgeAccountData`. A stored original that is too large on the second reading fails for
good (`ReadStored`). Faults: crashes and lapsing leases of the queue, failing external
calls (`errors`), failing statements (`storeErrors`), those of `fail` and of `ackPolicy`'s
own read included. `told` is set when card or
notice reached the outbox, `ocrCalls` counts OCR calls; both are history.

The user lock is a perfect lock here. One user and one month are modelled: other
users share only the OCR counter, which further receipts of the same user exercise
as well. Registration is the row and its job; retries of it and the daily limit are in
`Chat`. All rows of a listing are swept in one pass (no batch limit).

### Inbound, Learning and Chat

One sender, whose texts and events are numbers with a kind of content (what
`conversation.Parse` makes of a text, as far as the handlers differ). A row of
`provider_messages` is `msg[m]`: a generation (`id`, since the purge may remove a row
and a repeat insert it again), status, whether its two-minute lease still runs, the
owner, and whether its payload is kept, redacted or gone. An *attempt* is one call of
`HandleEvent` with its locals: `Deliver` (the read that decides on redaction),
`ClaimProviderMessage` (insert, reclaim, absorb, or refuse a repeat whose payload is not
the recorded one), `ResolveUser`,
`CreateUserWithIdentity`, `SetProviderMessageUser`, `Enter` (the user lock and the
reads of route), the steps of the handler, and `MarkProviderMessage`, which answers
200 or 500. Users are numbered: a sender who comes back after a deletion is a new one.

Delivery is the webhook (any unanswered message, two at a time) or the poll loop (one
at a time, never past one that failed; `Quarantine` moves past an update that cannot
be read).

Under the lock there is one action per statement that writes: consent; `RegisterImage`,
`IncrementUsage`, `RefuseImage`, `QueueImage`, `EnqueueReceiptJob`,
`DeleteReceivedReceipt`; `ResolveMerchant`, `AddMerchantAlias`, `CreateManualDraft`, or
`RejectEntry` for an amount that fits in VND, which the parser tries, and overflows in the
user's currency, on every attempt alike;
`ConfirmTransaction`, `SettleReceipt`, `Learn`; `DiscardReceipt`, `DiscardTransaction`;
`AskEdit`, `ApplyEdit`, `ShowAgain`; `AskDeleteRecent`, `DeleteRecent`; `Recategorise`;
`PersistInsight`, `WriteExport`; `AskDelete`, `BeginAccountDeletion`,
`RemoveExportArtifacts`, `PurgeAccountData`, `DeletionConfirmation`; and the reply,
which adds an outbound row unless its idempotency key exists. The reads belong to
`Enter`, because nobody else writes the user's rows before the lock is released. The
receipt worker takes part with `FinalizeReceiptReview` and `SendReviewCard` under the
same lock; the rest of the pipeline is in `Receipts`.

All entries name one merchant. `LatestConfirmedTransaction` orders by a date that
users edit and receipts print, so any confirmed entry may be the newest. A value typed
for an edit may be invalid or any value of its field.

Faults: `Crash`, `AnswerLost`, `StatementFails` and `LockedStatementFails` (with the
errors the code ignores), `ClaimOutlived` (an attempt works past its lease),
`DeleteExpiredTombstone` (the sweep removes the tombstone of a deletion after 24 hours, and
the provider still repeats the message; no attempt works that long, so it waits for those
under way) and `PendingExpires`. History variables: `handled`, `answered`, `acted`, `asked`,
`lessons`, `erasedBy`, `reopenedBy`, `consented`.

### UserLock

`slots`, `sessions` and `queries` say who occupies the semaphore and the connections
of each pool, `owner` who holds the advisory lock of each user. A caller goes through
`WithUserLock`, `TakeSlot`, `Acquire`, `Grant`, the callback with queries on a second
connection (`WantQuery`, `BeginQuery`, `EndQuery`), `CallbackReturns` and `Unlock`;
`Cancel` is its context ending while it waits, perhaps just as the lock is granted, and
`UnlockFails` the failing unlock after which `Hijack` takes the connection out of the pool;
the lock goes when the session ends (`SessionEnds`). `SessionLost` is a lock session that
ends while the callback runs: the lock is free, the caller (now in `dead`) goes on, and its
own unlock finds the connection broken (`UnlockGone`). A nested call for the same user
takes no step.

### Calendar and Schedules

Instants are hours of UTC counted from a Monday; a zone has an offset that changes at
one instant. `Date` and `AddDays` follow Go's `time` library (external), the rest is
`NextDelivery`, `LatestDelivery` and the periods. Delivery times are full hours;
minutes add nothing but states. A pass of a runner is the instant it started at and the
rows it listed; each is processed under the user lock, in one action
(`ProcessLocked`), with `ProcessFails` for every place where it can be cut short. A
row carries the instant for which its next delivery was computed (history).
`SettingsFail` stores the zone and some of the recalculated rows; the message is
delivered again (`SettingsAgain`), by the webhook perhaps after other commands. One failed
message at a time is followed.

## 3. Runs

Every cfg names its bounds. TLC finishes each passing run in under three minutes.

| Run | Shows | Bounds |
|---|---|---|
| `JobQueue` | exclusive claims, stale claimants harmless, receives accounted for, refinement of `LeaseContract`, every job settles | 2 lanes, 2 rows, 2 attempts, 2 faults per row: enough for two stale claimants of one row and for an attempt after each fault |
| `Outbox` | at most one provider call per message, calls within the quota, honest outcomes, silence towards deleted users, confirmation removed, every message decided | 2 lanes, a reply and a deletion confirmation of one user, limit 1 (reached), a fault per job, a failing statement, a lost lock (which lets two lanes of one user charge and call at the same time) |
| `ReceiptsOverlap` | status, draft and original consistent under overlap | 1 receipt, 2 lanes, 2 faults (lapses included), 1 failing call, 1 failing statement |
| `ReceiptsDuplicate` | duplicates detected, OCR limit kept, refusals answered | 2 receipts of one image, 2 lanes, a crash each, limit 1; symmetric in lanes and receipts |
| `ReceiptsLiveness` | done jobs are durable, receipts settle, originals recorded and removed | 1 receipt, 2 lanes, 2 crashes, 1 failing call |
| `ReceiptsUncappedOCR` (violation) | OCR called although refused | 1 failing statement |
| `ReceiptsErased` (violation) | an original outlives its account | no fault at all |
| `ReceiptsDeletionStuck` (violation) | a failed deletion is never resumed | 1 failing call |
| `Chat` | no message lost, settled twice or left without an answer; answers meet their questions; consent, daily limit, learning and deletion hold; every message is acknowledged unless its error comes back with every repeat | 30 conversations of up to 4 messages, 2 attempts at once, up to 2 faults, 2 users, limit 1 (reached) |
| `UserLock` | mutual exclusion of live sessions, no gridlock, every call returns | 4 callers, 2 users, pools of 2 and 4 connections (1 and 2 slots), a failing unlock or a lost session |
| `Schedules` | next deliveries as asked, one summary per period and only the latest, repair before advance, due rows served | 2 runners, batches of 2, 5 instants around evening, night, week and month ends and a clock change, 2 zones, up to 2 commands, 1 fault |
| `SchedulesMidnight` (violation) | an hour reported on twice where a clock change skips midnight | 1 runner, a daily summary on the two evenings around the change in Santiago |

`MCChat` lists the conversations: they lead through every handler, and those by webhook
into the races of two attempts (a first contact, two images at the limit, an answer
and the next entry, a deletion and whatever else is under way). `CHECK_DEADLOCK` is off
for `Chat` and `Schedules`, where a conversation and the instants come to an end.

Bounds are small because the actors of every hazard are few: two lanes on one
job, two receipts of one image, one deletion. The faults are bounded so that a run
ends; each bound allows the fault twice where a second one meets a state the first
has left.

Some promises hold only under conditions, which the properties state:
`ReceivesAccounted` bounds receives by `max_attempts` plus lost claims, because
Dequeue reclaims expired rows without looking at the limit; `NeverSilent` excludes
receipts whose own claim was lost, because card and notice are enqueued after the
settling commit and a retry skips settled receipts; `ConfirmationRemoved` excludes a
crash between a quota refusal and the purge; `OriginalsAreTracked` excludes
duplicates, whose original is stored before the duplicate check and whose key is
never recorded; `DoneIsDurable` is checked without overlapping lanes, because
`conflictAsDone` Acks while the other lane may have failed; `StatusIsHonest` needs the
user lock, because `MarkOutboundStatus` looks at no status; `EveryMessageDecided`
excludes failing statements, because the Sender returns the errors of its
statements and of the lock (`internal/notify/notify.go:117`) without `CodeTransient`
and the worker Acks them, so that the message stays queued or sending for ever;
`DailyLimitHolds` allows one image more for each crash or failure between the row and
its charge; `AnswerMeetsQuestion` is stated without faults, since a card that was
never sent leaves a pending action the sender has not seen; `OneEntryPerAnswer` holds of the
poll loop only, since a webhook may repeat a "yes" after the next entry;
`SettledStays` excludes outlived leases, because `MarkProviderMessage` has no claim
token; `ErasureIsFinal` excludes them, tombstones that the sweep has removed and failing
statements, because a farewell that cannot be enqueued marks the tombstone failed, and its
repeat meets a new user for whom "yes" is consent; `EveryMessageAcked` excludes the
messages whose error comes back with every repeat, an entry that overflows in the user's
currency (`internal/bot/commands.go:379`) and a repeat with another payload
(`internal/store/messages.go:89`), and under the poll loop those behind them, which it
holds up for ever; `MutualExclusion` excludes callers whose lock session has ended, because
`WithUserLock` does not look at the connection while the callback runs; `NextIsFirst` and `LatestPeriodOnly` exclude the hours a clock change
skips or repeats (`Regular`, which looks at the day of the change and its neighbours).

The violation runs state what a comment or document claims and the code does not do;
`PROJECT.json` quotes the lines. Two more comments are not what the code does, without a
run of their own:

* Two comments contradict each other about learning. `categorisation.go:43` says
  "cautious after one correction", line 250 that user rules and corrections override the
  guess of `GuessCategoryKey` "after one confirmation". A rule of one sample has confidence
  0.6 and is applied from 0.7 on, so the first is right and the second is wrong;
  `LessonsLearned` states the first (one decision alone changes no suggestion).
* `userlock.go:17` says that `WithUserLock` "serializes all work that can mutate one user's
  data". It does not once a lock session ends under its callback (`SessionLost`): the lock
  passes on while the callback runs. `MutualExclusion` states what remains true. `Outbox`
  has this loss as a fault; `Receipts` and `Chat` take the lock to be perfect, so their
  results speak of behaviours in which no lock session is lost.

### Fairness

Weak fairness for each lane (the loop polls for ever and external calls have
timeouts), each heartbeat, the passing of deadlines, the sweep (hourly) and a
deletion that was begun. Strong fairness for the steps that take the user lock:
PostgreSQL queues the waiters of an advisory lock. In `Chat` the provider (or the poll
loop) delivers what is unanswered (strong, since a free attempt comes and goes),
attempts go on (weak), take the user lock in turn (strong), and leases and pending
actions expire (weak). In `UserLock` a caller makes progress (strong: semaphore,
pool and lock queue their waiters), callbacks return (they run under a context with a
deadline) and the session behind a failed unlock ends. `Hijack` does not close its
connection: pgconn has closed it when the statement timed out or its I/O failed, and
otherwise nothing refers to it any more and Go's finalizer closes the socket, some time. In `Schedules` the ticker starts a
pass, a pass goes through its rows, and a message that failed is delivered again. No
fault, no user and no producer is forced to act.

## 4. Proofs

The theorems hold for every value of the constants that satisfies the named
assumptions: finitely many rows (`JobsFinite`), `NoJob` is neither a row nor a lane
(`NoJobIsNew`), `MaxAttemptsPositive`; for the outbox also `LimitType`. The bounds
on faults, errors and lock losses are arbitrary. For the user lock: finitely many
callers (`CallersFinite`), each with a user and a pool (`CallerType`), and pools of at
least two connections (`MaxConnsType`; with one, a callback could never query). `Tabulated`
of `Schedules` states what the operator `@@` of TLC's module comes to, because the prover
has no definition of it; TLC evaluates it on every run.

`JobQueueProofs`:

* `QueueTypeSafe` and `SettledRowsStay` need the type invariant only.
* `LatestClaimSafe`. `LatestClaimKeepsJob` is not inductive: a lane could hold the
  number of a claim still to be made, or share one with another lane. `ClaimInv`
  adds that the token of a running row is its latest claim, that a busy lane holds a
  claim really made, that no two lanes hold the same one and that only a lane with a
  handler has a heartbeat. `ClaimStep` goes through the actions one by one.
* `ReceivesSafe`. `ReceiveInv` adds `MayBeReceived`: a row that can be handed out
  again (queued, expired, or running with nobody to renew it) still has a receive
  left. Each fault pays for the receive it makes possible, each `Nack` below the
  limit leaves one.
* `QueueImplementsLease`. `Mapping` reads the stage off the status and shows that
  the holder `CHOOSE` picks is the only owner; `LeaseStep` maps each action to the
  action of the contract it implements, or to a stutter.
* `ExclusiveHandlingSafe`. Each further lane in the handler of a row is paid for by a
  fault of an earlier claim; a row that is handed out has lost as many claims as it has
  old handlers.

`OutboxProofs`:

* `OutboxUsesQueue`: every step of the outbox is a step of the queue or leaves it
  alone, so `OutboxSpec => Spec` and the theorems above hold of its jobs. It needs
  `LaneInv`, that a lane inside the Sender runs a handler and so holds a row.
* `OutboxTypeSafe`.
* `AtMostOneCallSafe`. The strengthening is `CallInv`: a row that is still queued
  was never called and nobody is about to call it, and the lane between the commit
  of `BeginOutboundAttempt` and `Provider.Send` is alone there and the first. All
  steps but these two are dealt with by one lemma, `OtherStepsKeepCalls`.
* `CallsWithinQuotaSafe`. A crash may fall between charge and call, so the calls are
  bounded through `Charged`, the rows called or about to be called, whose number
  never exceeds the counter.
* `StatusIsHonestSafe`, `DeletedUserIsSilentSafe`, `ConfirmationRemovedSafe`. These
  rely on the user lock, so the properties speak of the time before a lock session is
  lost (`lockLosses = 0`), the last also before a statement fails (`errors = 0`). The
  conditions are variables of the model, not assumptions on the constants: a behaviour
  with a loss is covered up to the loss. The theorems above do not rely on the lock and
  hold with losses.

`ReceiptsProofs`. `ReceiptsUseQueue` is the counterpart of `OutboxUsesQueue`, and
`ReceiptsTypeSafe` the type invariant. Every safety property of `Receipts` is proved:

* `DraftMatchesReceiptSafe`, `OriginalAvailableSafe`, `SweptOnlyWhenDueSafe`,
  `OneReceiptPerImageSafe` and `NeverSilentSafe` hold whatever fails and however the
  leases lapse.
* `OCRWithinLimitSafe`, while no statement has failed (`storeErrors = 0`). `BudgetInv`
  bounds the calls by the counter and the lanes between charge and call. The condition
  is needed: after a failed load the code goes on to OCR uncharged, which the run
  `ReceiptsUncappedOCR` shows.
* `DoneIsDurableSafe` and `OriginalsAreTrackedSafe`, while no statement has failed and
  where leases outlive their handlers (`~LeasesLapse`). `CalmInv` says that then
  nobody but the holder of the job writes its receipt, `DurableInv` follows a receipt
  from claim to acknowledgement, `ErasedInv` follows the account that is being deleted.
  With lapsing leases `DoneIsDurable` is false of the code: a lane that lost its lease
  writes `failed_transient` under the latest claimant, whose `FinalizeReceiptReview`
  then fails its compare-and-set and is acknowledged all the same.

`UserLockProofs`. The inductive invariant is `LockInv`, a conjunction of three:
`UserLockTypeOK` ties slots and connections to the steps of their callers, `OwnerInv`
says that the locks as PostgreSQL keeps them and as the callers see them agree, and
`SlotInv` that the semaphore is never overdrawn. `TypeStep`, `OwnerStep` and
`SlotStep` go through the actions, and `LockInvariant` joins them.

* `MutualExclusionHolds` follows from `OwnerInv`: two callers past the lock of one
  user whose sessions live are both its owner. It covers the behaviours with lost
  sessions: a caller in `dead` owns nothing, and its late unlock frees nothing.
* `HalfOfPoolLeftHolds`: a session has a slot, and slots are half of the pool.
* `NoGridlockHolds`: suppose nobody can go on. Then nobody is at a query, so every
  connection in use is a lock session; these are half of the pool, so nobody waits
  for a connection, and nobody is in a callback; whoever waits for a lock waits for an
  owner, who is none of these; so no slot is taken, and nobody waits for one either.

`ChatProofs`. Everything rests on `ChatCoreSafe`: `CoreInv` is the type invariant and five
parts that say what an attempt may rely on at each of its steps. `LockInv`: whoever is
past `enter` has the lock of the user of the message, and nobody else has. `UserInv`: one
user at a time stands behind the sender, and under the lock that user is in the state the
gate saw. `HandInv` and `QuestionInv`: the message in hand and the open question the
attempt deals with fit the rows. `Numbered`: users are numbered in the order of their
creation, so a new one has no rows yet.
`StepKinds` sorts the actions of `Next`
into a few kinds (ordinary steps under the lock, entering, the purge, the worker and
what happens outside the lock), and each later proof goes through these kinds instead of
every action. `LoneHolder` is the use of the lock: no other attempt is at a locked step of
the same user.

* `NoContentBeforeConsentSafe`. `ContentInv` follows the raw text from the webhook,
  where it is redacted or not, through the claim and the retry.
* `ErasedUserHasNothingSafe`. `OrdinaryFootprint` shows that an ordinary step writes rows
  of its own user only, `OutsideRows` that the steps outside the lock write rows of no
  user; `PurgedRows` says what the purge leaves. `ErasedInv` joins them.
* `SettledStaysSafe`, an action property: a processed message is not opened again.
  `ClaimInv` ties the attempt that works on a message to its claim.
* `ErasureIsFinalSafe`: a message that deleted an account never gives consent for the
  next one. The order matters: one confirmation may give consent, be delivered again
  after the mark was lost, and then answer the prompt of a deletion asked for meanwhile
  (the setting `<<"confirm", "delete_data">>` of `MCChat`), which reopens nothing. So the
  history variable `reopenedBy` records the messages that gave consent *after* they
  deleted an account. The strengthening is `TombInv`: a message that erased an account
  keeps its tombstone, so a repeated delivery finds it settled.

`SettledStays` speaks of behaviours in which no attempt outlived its lease and no tombstone
expired (`lapses` counts both), `ErasureIsFinal` also of behaviours without failing statements; the condition is part of the property.

`ChatRecordsProofs` and `ChatAnswersProofs` build on `CoreInv`.

* `NoMessageLostSafe`. An acknowledged message was handled; what is hard is that handling
  it led to an outbound row, because the row of a card has the key of its entry and
  version, and a reply whose key exists adds nothing. `SaidInv`: every key in the outbox
  answers the message it names and names no later version than there is (`KeysInv`), and
  a card an attempt is about to send is new, that of its own message, or a repeat for a
  value (`Prepared`). `HandledInv` carries this from the reply through the mark and the
  200 to the provider.
* `DailyLimitSafe`. Rows are registered before they are charged, so counting admitted
  images is not inductive. `BudgetInv` counts an image from its charge, or from the
  moment the attempt that was to charge it is gone, and compares with the smaller of
  counter and limit plus the faults: a charge within the limit raises both sides, a
  refused one neither, and a fault pays for the image it leaves behind.
* `LessonsLearnedSafe`. Between the commit of a decision and `LearnFromConfirmation` the
  rule lags one sample behind; `OweInv` says that the attempt in between owes exactly
  that lesson and will read its category from the entry decided, `RuleInv` that without
  faults nobody else does and that a rule below the threshold has fewer than two samples,
  `DraftInv` that an entry of version one is a draft.
* `OneEntryPerAnswerSafe`. An answer that is retried after its decision was committed could
  meet the question of the next entry. `FitInv` ties each step to the kind of message it is
  made for, `TurnInv` says that the poll loop works on one update at a time and in order,
  and `AnswerInv` that as long as an answer that settled an entry is not past, no question
  about another entry is open: a new one would need a later message.
* `AnswerMeetsQuestionSafe`. The pending action is written before the card or prompt that
  puts its question is enqueued, so the two differ for a while. `MeetInv`: the open question
  has been put, or the attempt that holds the lock, or the review card of the worker, is
  about to put it. The card is sent under a key, and a key that exists puts nothing; so
  `DoneInv` says that whatever was sent for a message or can be asked about its entry comes
  from an attempt that is at its reply or done, hence the key is new. `MarkInv` and
  `FarewellInv` deal with the mark of the message and the farewell of a deleted account.

`SchedulesProofs`. `InstantsType` lets the clock tick (every set of instants has a first),
`ZoneType` bounds the change of a clock to less than a day.

* `SchedulesTypeSafe` and `AdvancedMeansQueuedSafe` need no more.
* `OneSummaryPerPeriodSafe`. `SummaryInv` says that a summary in the outbox carries the
  period its key is made of and that no two have the same key; what remains is that
  periods with different starts do not overlap. `PeriodShape` shows that a period runs
  from the midnight of one day to that of another, a day, a Monday week or a month on,
  `SpansApart` that such spans do not overlap, and `FromMidnight` that midnights are in
  the order of their days. Two hypotheses: the calendar goes on in both directions
  (`MonthsGoOn`), and every day has its midnight (`MidnightsExist`). The second cannot be
  dropped: the proof fails at `FromMidnight` for a zone whose clocks skip midnight, and
  the run `SchedulesMidnight` shows the overlap.
* `LatestPeriodOnlySafe`, under the same two hypotheses, and `NextIsFirstSafe`, under
  `MonthsGoOn`. Both compare the arithmetic of `schedule.go` with the reference
  `Deliveries`. `ShownOnce` and `RegularHour` turn `Regular` into a fact about every day:
  the reading of the hour lies before or behind the change of the clock (`Plain`).
  `PlainReading`: then `Date` finds the instant that shows it, and instants and readings
  are in the same order. With that `NextShape` and `LatestShape` show, for each
  frequency, that the two functions find the first and the last delivery, and
  `OneDelivery` that none lies between the end of the period and the pass but the one
  reported on.
* The part of `NextIsFirstSafe` about the runners is `NextInv`. `AdvanceSummarySchedule`
  compares `next_delivery_at` only and takes the hour from its list. The row may have been
  replaced since, with another hour or for another zone. It was then computed at or after
  the pass began, so what is next for it is later than the pass, while the listed row was
  due: the two never agree on `next_delivery_at` unless they agree on the hour.

So every invariant and every action property that a passing run checks is also a theorem.
Out of the prover's reach and left to TLC: the liveness properties `EveryJobSettles`,
`EveryMessageDecided`, `EveryReceiptSettles`, `ExpiredOriginalsGo`, `EveryMessageAcked`,
`EveryCallReturns` and `DueIsServed`, which depend on fairness.

## 5. Not modelled

`PROJECT.json` gives the reason for every component. Pure functions on strings
(Vietnamese parsing and reply texts), HTTP adapters (modelled by the outcomes of
their calls), configuration, logging, exports and process wiring have no state that
an interleaving could spoil; that export files are written and removed is in `Chat`,
and the offset of the poll loop in `Inbound`. `Drain` serves local harnesses only. Of the modelled
handlers, the attempts log, threshold warnings, the possible-duplicate hint and the
card layout are left out; none of them is read by the code that is modelled.

## 6. Plan

1. *Done*: `JobQueue` with its contract and proofs, `Outbox` with its first proofs,
   `Receipts`; `Inbound`, `Learning` and `Chat`; `UserLock` with its proofs;
   `Calendar` and `Schedules`.
2. *Done*: proofs of the safety properties of `Outbox`, `Receipts`, `UserLock`, `Chat` and
   `Schedules`.
3. Abstract specifications of the chat and of the schedules, and the steps that implement
   them.
4. Pure operators: amounts and dates of `extraction/normalise`, sums of `insight`.
