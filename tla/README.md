# A verification project for the fintech API

TLA+ modules that model the core of this repository (a NestJS API and worker
over PostgreSQL, Redis and BullMQ), TLC configurations that check them on small
instances, and TLAPS proofs for every size. Paths are relative to the
repository's root unless they start with `src/prisma` or `src/src`, which is how
`PROJECT.json` writes them.

## 1. The system

| Component | State | Operations | What makes it hard |
|---|---|---|---|
| **Ledger** (`src/ledger`, ledger migrations) | `LedgerAccount.balanceMinor`, sealed `LedgerTransaction`s with `LedgerPosting`s | `post`, `postWithinTransaction` | balances computed from a SERIALIZABLE snapshot, row locks in id order, triggers that write other tables, conflicts (40001, P2002) at any statement |
| **Wallets** (`src/wallets`) | `Wallet.status`, `currentBalanceMinor` (copied from the ledger by a trigger) | `create`, `close`, freezing by an operator | `close` runs READ COMMITTED next to SERIALIZABLE posts |
| **Transfers** and idempotency (`src/transfers`) | `IdempotencyRecord`, `Transfer`, `AuditLog`, `OutboxEvent` | `create` with replay, stored failures and race recovery | repeated and concurrent calls under one key, lost answers, crashes around the commit |
| **Reversals** and audit (`src/reversals`, `src/audit`) | `TransferReversal` | `create` | two reversals of a transfer under different keys |
| **Beneficiaries** (`src/beneficiaries`) | soft-deleted rows | create or restore, remove | used by a transfer while being removed |
| **Outbox** and notifications (`src/async`) | `OutboxEvent.status` and claim times, BullMQ jobs, `Notification` | claim, publish, retry, take over, persist | crashes between queue and row, workers that lost their claim, at-least-once delivery |
| **Payments** (`src/payments`, payment migrations) | `Payment`, `PaymentCheckout`, `ProviderEvent` | create with replay, initialise with Paystack, receive events of both providers, settle, reconcile | duplicate, contradicting and reordered events, callbacks racing with reconciliation, retries on the contended clearing account, a provider that acts and does not answer |
| **Webhooks** (`src/webhooks`, webhook migrations) | subscriptions, deliveries with leases, attempts, BullMQ jobs | subscribe, disable, fan out, claim, start, send, finish | late finishes after a lost lease, duplicate jobs, a disable that races with everything else at READ COMMITTED |
| **Auth and users** (`src/auth`, `src/users`, `src/operations`) | users with their first wallet, a rate window in Redis | register, login, count a request | two registrations of one email, a counter that must expire, Redis not answering |
| Health, metrics, configuration, controllers, mappers, scripts | none of their own | read, validate, format | - |

How they interact: transfers, reversals and payments call
`LedgerService.postWithinTransaction` inside their own SERIALIZABLE
transaction, which also writes the domain rows, the audit row, the outbox event
and the idempotency record, so one commit publishes all. Wallet closing and
freezing share the account and wallet rows with them. The worker process reads
the outbox table and hands each event to BullMQ, whose consumers write the
notifications. The insert of an outbox event also fires the trigger
`fan_out_webhook_event`, which inserts a webhook delivery per enabled
subscription in that same transaction; the webhook worker polls the deliveries
and has a queue of its own. Registration inserts a user, an account and a wallet
in one transaction. Nothing else is shared.

Correctness, per component:

* Ledger: every balance is the sum of its postings; no overdraft, overflow or
  lost update; a reference is posted once; each post is valid for the balances
  and statuses at the moment of its commit.
* Wallets: a wallet shows its ledger balance; one wallet per user and currency;
  a closed wallet is empty for ever.
* Transfers and reversals: a key is decided once; an answer never changes; a
  failure moves nothing; a transfer is reversed once, by its sender.
* Outbox: no event is marked published that no consumer is given, a publication
  is not undone, every event is published and then notified unless its job used
  up its attempts, and the queue comes to rest.
* Payments: a key makes one payment; a payment is credited once if it succeeded and else never, whatever
  events arrive; what a provider was told stays true; a reference is initialised
  with Paystack at most once; what a customer paid is credited in the end.
* Webhooks: delivery and attempts tell one story; a recorded success is the
  receiver's answer to that attempt; an attempt sends once; an ended delivery
  stays ended; every delivery ends.
* Auth: one account per email, with one initial wallet; a token for the right
  password only; the limit holds over all replicas and no client is locked out
  for ever.
* Everywhere: nobody waits in a circle, and every call ends.

## 2. The modules

| Module | Models |
|---|---|
| `LedgerRules` | constants and their assumptions; `normalizeLedgerTransactionInput`, the CHECKs, the commit-time trigger, the opening balances of the migration |
| `LedgerBook` | the abstract specification: balances, statuses and a journal, changed atomically |
| `Ledger` | `LedgerService` and `WalletsService`, statement by statement, over PostgreSQL |
| `LedgerProofs` | the inductive invariant of `Ledger`, that it implements `LedgerBook`, and what the services that use it may rely on |
| `BooksProofs` | sums over finite sets, and that the books balance |
| `DeadlockProofs` | that calls on the ledger never wait in a circle |
| `TransferBook` | the abstract promise of the transfer and reversal endpoints, over `LedgerBook` |
| `Transfers` | `TransfersService`, `ReversalsService`, `BeneficiariesService`; extends `Ledger` and reuses its `PostStep` as `postWithinTransaction` |
| `Outbox`, `OutboxProofs` | `AsyncWorkerService`, `NotificationService` and what they need of BullMQ; proofs |
| `TransferProofs` | the inductive invariant of `Transfers`, over that of `Ledger`, and its refinement of `TransferBook` |
| `PaymentBook` | the abstract promise of the payment endpoints, over `LedgerBook` |
| `Payments` | `PaymentsService`, `MockPaymentProvider`, `PaystackProvider`; extends `Ledger` and reuses its `PostStep`, and its close and freeze of wallets |
| `PaymentProofs` | the inductive invariant of `Payments`, over that of `Ledger`, and its refinement of `PaymentBook` |
| `Webhooks` | `WebhooksService`, `WebhookDeliveryService`, `WebhookWorkerService`, the fan-out trigger, and what they need of BullMQ and a receiver; proofs in `WebhookProofs` |
| `Access` | `AuthService`, `UsersService.createWithInitialWallet`, `AuthRateGuard`; proofs in `AccessProofs` |
| `MCLedger`, `MCTransfers`, `MCOutbox`, `MCPayments`, `MCWebhooks`, `MCAccess` | instances for TLC |

Each action is preceded by the operator that a mutation replaces it with, where
there is one (`\* Mutant of ...`); these are not used by any specification.

### Ledger

A *session* is a database connection that serves one call. `pc` is the next
statement; `tx` is its transaction: isolation, snapshot, locked account and
wallet rows, rows known to have changed since the snapshot, and what it is
doing. A transaction's own writes are not in the tables until it commits:
`PublishEntry` makes them visible at once.

| Code | Actions |
|---|---|
| `post`, `postWithinTransaction` | `BeginPost`, `LockAccount` (one row of the `FOR UPDATE`), `CheckPostings`, `InsertEntry`, `UpdateAccount` (one row, with its trigger), `Seal`, `CommitPost`, `FailPost` |
| `WalletsService.create` | `InsertWallet`, `CommitCreate` |
| `WalletsService.close` | `FindToClose`, `CloseLockAccount`, `CloseLockWallet`, `CommitClose` or `RefuseClose` |
| operator, failures | `SetFrozen`, `Abandon` |

What is assumed of PostgreSQL is listed at the head of `Ledger.tla`. It is
deliberately less than SSI: only snapshots, first-updater-wins on rows and
unique indexes are relied on, so what is shown does not depend on predicate
locks. Failures beyond these may strike at any statement (`Abandon`).

A wallet and its ledger account have one identity, since triggers keep them
paired for ever; the order of account numbers is the order of UUIDs (the seeded
clearing accounts come first). Amounts are integers in a scaled-down BIGINT
range. Descriptions, timestamps and wording are left out, and so is the
`app.*_write` session variable: every write that is modelled sets it.

### Transfers

A session's call claims its key (`Claim`), locks the transfer row if it is a
reversal (`LockTransfer`), reads what it needs from the snapshot (`Lookup`), runs
`PostStep`, inserts the records (`RecordResult`) and commits (`CommitCall`,
with the two integrity triggers). A 4xx is stored and committed
(`PersistFailure`); a conflict rolls back and reads the record again
(`FailCall`, `AbortCall`, `ReplayAfterRace`); anything else is `LoseCall`. A
client may send any call at any time, as often as it likes; each answer reaches
it or is lost (`Answer`), and `answers` remembers what clients were told.
`UUID`s are small numbers taken in order.

### Outbox

`row` is the status of an event and `ripe` the set of rows whose time has come
(backoff over, or claim five minutes old): time is an action, `Ripen`, that may
happen at any moment, so a worker may lose its claim at every statement. A call
to Redis or PostgreSQL may fail (`AddFails` with or without effect,
`MarkFails`), and `Abort` ends a dispatch anywhere: a crash, a database outage,
or the CHECK that refuses PENDING over PUBLISHED. `attempts` of a row only sets
the length of the backoff and is left out. Jobs are records of state, tries,
stalls and owner. `EvictJob` is `removeOnComplete` and `removeOnFail`: it drops a
job that completed or failed, at any moment, since the model does not count the
jobs that ended after it. What is dropped with it is how the job ended, so a
history variable, `exhausted`, remembers the events of which a job used up its
attempts or stalls. `notifications` is a set, the `outboxEventId` being unique.

### Payments

| Code | Actions |
|---|---|
| `create` | `FindIntent` (the reads of its transaction, and the replay of a key), `InsertIntent` (insert and commit, or P2002 and replay) |
| `initializePaystack` | `ClaimCheckout` (`createMany` with `skipDuplicates`), `Initialize` (the request, which arrives or not, and its answer), `SaveUrl` |
| `receive`, `receivePaystack`, `reconcile` | `ReceiveMock`, `ReceivePaystack`, `Reconcile`, then `Verify` or `VerifyFails` |
| `settleVerified`, `settle` | `BeginSettle`, `LockPayment`, `InsertEvidence`, the ledger's `PostStep`, `CommitSettle`, `AcknowledgeKnown`, `RefuseSettle`; `FailSettle` and `AbortSettle` start the transaction again while there are tries |
| provider, failures, other calls | `Pay`, `LoseCall`, `WalletStep` |

A session is that of `Ledger`; `request` holds what the call has read: the row of
the payment and the provider events of its snapshot. The decisions on an event
are made from that snapshot (`EventVerdict`), while the lock and the unique index
look at the tables, as in PostgreSQL. The amount of an event stands for amount
and currency, and its `hash` for the fingerprint of its content. `charge` is
Paystack's side of a reference and is external: it charges only what was
initialised, and once, but perhaps another amount. `Modes` lets processes with
both values of `PAYMENT_PROVIDER` run at a time. `acks` and `asked` are history.
`ImplementsFunding` maps intents and statuses to `PaymentBook`, in which a key of
a user makes one payment, and a payment is settled at one instant with exactly
its credit and its outbox event.

### Webhooks

All transactions are READ COMMITTED and begin by locking the row of a delivery.
Each is a step that locks and reads and a step that commits, and they matter in
this order because the subscription that is read in between is not locked.
`claimBatch` reads it row by row (`ClaimSelect`, `ClaimRow`, `ClaimCommit`).
`disable` is three statements, each with a view of its own (`DisableFind`,
`DisableDeliveries`, `DisableAttempts`, `DisableCommit`). A consumer takes a job
(`StartLock`, `StartCommit`), sends (`Send`, `SendNothing`) and finishes
(`FinishLock`, `FinishCommit`); a failed `queue.add` finishes its attempt by the
same statements, as `publicationFailed` does.

Time is the set `due`: the deliveries whose `availableAt` or `leaseUntil` is
past. `Expire` may happen at any moment, so a lease may be lost at every
statement. Lease tokens are drawn afresh by each claim, and each claim counts
one attempt, so the number of the attempt stands for the token. BullMQ never
forgets a job in the model, and may run it any number of times or not at all: its
retries, stalls and removals are among that. `sent` and `accepted` are history.

### Access

`Admit`, `TooMany` and `Unavailable` are the guard's script in Redis with its
three outcomes; `WindowEnds` is the expiry. The counter stops one above the
limit, since any count above it has the same effect. `Find`, `InsertUser`,
`EmailTaken`, `CommitUser` and `Answer` are `register` and `login`. `Canonical` is
`normalizeEmail`, given as a map from what is typed. A password stands for its
hash: scrypt is assumed to accept the right one and no other.

## 3. What TLC checks

| Run | Instance | Properties |
|---|---|---|
| `ledger` | 2 sessions; a clearing account, alice's wallet (opening balance 1), two ids for bob's wallet; payments both ways, funding up to the range's limit, one malformed input | `TypeOK`, `IndInv`, `WalletMirrorsAccount`, `NeverBroken`, `ClosedIsEmpty`, `NoDeadlock`, refinement `ImplementsBook` |
| `circle` | 3 sessions, 3 accounts, payments in a circle | `BooksReconcile`, `NoDeadlock` |
| `ledger_live` | 2 sessions, 2 wallets with payments both ways, fair | `EveryCallEnds` |
| `reversals` | 2 sessions; a key with two requests, a transfer reversed under two keys | `AnswersAreFinal`, `EveryMovementAccounted`, `NoCallDeadlock`, refinement `ImplementsPromise` |
| `transfers` | 2 sessions; alice pays a beneficiary, bob pays back, wallets frozen and closed | `TransferTypeOK`, `ImplementsPromise` |
| `outbox` | 2 workers, 2 consumers, 1 event, fair | `OutboxInv` (with `OutboxTypeOK`), `PublishedIsHandedOver`, `PublishedIsFinal`, `EveryEventPublished`, `EveryEventSettles`, `PublishedComesToRest` |
| `payments_mock` | 2 sessions, 2 payments of one wallet; two successes and a failure for one payment, an event id used for two payments, a wrong amount; 3 tries; the wallet frozen and closed | `EverySettlementAccounted`, `AcksAreFinal`, `NoPaymentDeadlock`, refinement `ImplementsFunding` |
| `payments_paystack` | 2 sessions, both modes side by side; a key used for two requests, an amount above `MAX_SAFE_INTEGER`, a charge of another amount, fair | `PaymentTypeOK`, `InitializedOnce`, `EverySettlementAccounted`, `PaidIsCredited` |
| `webhooks` | 1 delivery, 2 dispatchers, 2 consumers, 2 attempts, disable at any time | `WebhookTypeOK`, `AttemptsAgree`, `ResultsAreGenuine`, `OneRequestPerAttempt`, `TerminalIsFinal` |
| `webhooks_live` | 1 delivery, 1 dispatcher, 1 consumer, 2 attempts, fair | `EveryDeliverySettles` |
| `webhooks_disable` | as `webhooks_live`, 2 consumers | `NothingStartsOnceDisabled`, **violated**, see below |
| `access` | 2 requests at a time, 2 clients who want one email, limit 2 | `OneAccountWithItsWallet`, `TokensAreOwned`, `LimitHolds`, `BlockedIsReadmitted` |

All but `webhooks_disable` pass. That run shows a disagreement with the
repository's README (lines 513-514), which says that the checks at claim and
before a send cancel any row that raced with a disable. The check before a send
reads the subscription without locking it, in a transaction that commits later:
an event fans out while `disable` is open, so `disable` does not see its
delivery; the delivery is claimed and its start reads `enabled`; `disable`
commits; the start commits SENDING and the request is made. It is one request,
and the delivery is cancelled when the attempt finishes.

The observations worth keeping:

* A post and a close of the same wallet are kept apart only by the Wallet row
  that the balance trigger writes. `close` releases the account row unchanged,
  so a SERIALIZABLE post that waited for it goes on with its old snapshot;
  without the conflict on the wallet row (`UpdateStaleWallet`) money reaches a
  closed wallet.
* The row lock on `Transfer` in a reversal makes the second of two reversals
  wait but, the row never being updated, does not fail it, and its snapshot does
  not show the first. What refuses it is the conflict on the account rows, and
  behind it the unique `transferId`.
* PUBLISHED stays final although workers write by id only, because
  `OutboxEvent_state_check` refuses PENDING while `publishedAt` is set
  (`AlwaysRetry` shows the opposite). The refusal ends the dispatch, and the rest
  of that batch waits five minutes. Without it two workers could also go on for
  ever, each putting back what the other has published and adding its job again
  after it was evicted (`PublishedComesToRest`).
* PUBLISHED does not mean notified. A job that has used up its attempts is not
  tried again, and `removeOnFail` drops it after 5000 later failures: the event
  is then PUBLISHED with neither job nor notification. `PublishedIsHandedOver`
  says that this, a job that was run to its last attempt, is the only way there:
  no crash or failing call between the queue and the row leads to it.
  docs/OPERATIONS.md counts such events (`fintech_notification_unpersisted`) and
  tells operators to replay them; where it says to inspect the failed jobs, the
  job may be gone.
* That racing creates under one key make one payment rests on the unique
  `(userId, idempotencyKey)`: both find none in their transaction
  (`InsertIntentAgain`).
* That one provider event is not evidence of two payments rests on the unique
  `(provider, eventId)` alone: settlements of two payments lock two rows and
  neither sees the other's event in its snapshot (`InsertEvidenceAgain`).
* A payment whose wallet was closed after the intent stays PENDING although the
  customer has paid: every callback is refused by the ledger, for ever. While the
  wallet is frozen it waits likewise, and is credited once the wallet is active
  and the provider calls again. `PaidIsCredited` says so in its premise.
* A checkout that was claimed and has no URL is never initialised again, which is
  what makes `InitializedOnce` true (`ClaimUncertain`). The owner has no page then,
  but if Paystack did open one, its callback is still settled
  (`ReceiveKnownCheckout` shows what would be lost).
* `disable` cancels an attempt that is SENDING. If its delivery was not among the
  rows it locked, the delivery stays PROCESSING with a cancelled attempt until
  its lease expires and the next claim cancels it; this is why `AttemptsAgree`
  allows that pair.

Bounds. Two sessions are enough for every pairwise conflict over snapshots,
locks and unique keys; circular waits of three are what `circle` is for. Amounts
are 0 to 3 with the limits of the range within reach, so overdraft and overflow
both occur. `Ids` bounds how many transfers and reversals can be made (each key
makes one at most). Two wallet ids with one owner let two creates race. In
`outbox` a job has two attempts and one stall, so it is retried, and redelivered
while its first consumer still runs. It has one event, so its batches never have
a rest and `LIMIT` never cuts: the liveness properties are not checked there for
an event that is left behind because of another one. The safety properties are
proved for any number of events and any batch size. With `Events = {1, 2}`,
`BatchSize = 2`, `MaxAttempts = 1`, `MaxStalls = 0`, one worker and one consumer
(90,000 states) all properties of the run hold as well; two workers on two events
are 1.6 million states, within reach of the invariants but not of liveness.
In `payments_mock` a settlement has the code's three tries; `payments_paystack` has
two, the last and one before it. Two payments and two sessions give every pair
of events a race, and `MaxSafe` and `MaxMinor` are small enough to be exceeded. A
delivery has two attempts instead of five: a first, a retry and the limit. One
delivery is enough, because deliveries share no row and a dispatcher that has
claimed several treats them one by one; only the subscription is common to them,
and it can change between any two reads of it. Two ids are as many users as
two emails could give; the one canonical email makes them compete.
`CHECK_DEADLOCK FALSE` is set for the outbox and the webhooks only: when all
events and deliveries are settled the polls find nothing and the system rests.

Symmetry is over sessions, and over dispatchers and consumers; the runs with
liveness use none.

Fairness. `Ledger`: `SF` on a session's steps. A call goes on by itself, and
PostgreSQL queues the waiters of a row or key, so one that is free again and
again is granted; `Abandon`, the operator and new calls are not fair.
`Outbox`: time passes; the poll timer fires and a dispatch goes on (`WF`);
outages end, so `queue.add` and the update of the row, tried again and again,
succeed at some time (`SF`); consumers take and finish jobs; the lock of a job
whose consumer is gone expires. `Payments`: as the ledger for the steps of a
call; Paystack repeats a callback that was not answered 2xx, and its verification
endpoint answers now and then (`SF`). Lost calls and PostgreSQL's own aborts are
not ruled out; `PaidIsCredited` only asks that they cease some time (from then on
every step is `Undisturbed`), as it asks of wallets that they end up active.
Failed verifications, conflicts and refusals need not cease. `Webhooks`: time passes (`WF`); a transaction that waits for a row gets it
in its turn, dispatchers poll on a timer, and a delivery is not locked by
someone else at each poll (`SF`). BullMQ owes nothing: a job that never runs is
made up for by the lease. `EveryDeliverySettles` asks that dispatchers are not
killed in the midst of a claim for ever. `Access`: Redis' clock goes on (`WF` on the
expiry). No fairness is asked of crashes or failures.

## 4. What is proved

Every safety property that a run checks is also proved, for every value of the
constants, from the `ASSUME`s of the modules. Two kinds of theorem ask that a
set is finite: `Sessions` for deadlock (over infinitely many a chain of waits
need not end) and `Accounts` for sums. Each component has one inductive
invariant, since no property of interest is inductive alone.

**Ledger** (`LedgerProofs`), for any accounts, wallets, currencies, users,
sessions and inputs:

* `Inductive`: `Spec => []IndInv`. The invariant adds to the properties that
  locks are exclusive, that a snapshot agrees with the tables on every row not
  known to be stale, that no locked row is stale (`SnapshotsHold`), and what a
  transaction has locked and written at each statement. The argument: the rows a
  post has locked are current, so what it computed from its snapshot is right
  when it commits.
* `TypeCorrect`, `ClosedWalletsAreEmpty`, `WalletsMirrorAccounts`,
  `SnapshotsAreConsistent` (`NeverBroken`) follow.
* `LedgerImplementsBook`: under the invariant every commit is a step of
  `LedgerBook` and every other step leaves the book alone.

**Books** (`BooksProofs`): `BooksAlwaysReconcile`. Sums are folds over sets that
grow, so the module first proves, for sums over any finite set, that the order
does not matter, that one more element adds its value, that sums add up term by
term and that zeros do not count. Induction over finite sets is put in a form the
provers can use: a *set* of subsets takes the place of the property, and a
smallest subset outside it is refuted (`SubsetInduction`). Then: the migration's
opening balances reconcile, by induction over the wallets it migrates; what
`validateLedgerTransactionAtCommit` accepts sums to zero in every currency; and
each step of the book adds one such entry to journal and balances, or neither.
`TransfersKeepTheBooks` and `PaymentsKeepTheBooks` are the same for the
specifications of the services. It uses that the clearing account of a currency
is in that currency, which the seed of the ledger migration gives.

**Deadlock** (`DeadlockProofs`): `LedgerNeverDeadlocks`. Among sessions that wait
for an account, one wants the greatest id; who holds that account wants a greater
one, a wallet row or nothing. Who waits for a wallet row or a unique key waits
for one whose accounts are all locked. `CallsNeverDeadlock` and
`PaymentsNeverDeadlock` put the claim of a key and the row of a transfer, and the
row of a payment and its event, before that order.

**Transfers** (`TransferProofs`): `TransferInductive`, for any calls, keys, ids
and beneficiaries. `TransferInv` is `IndInv` and: while a call has claimed its
key, the key has no record (`CallOK`); two calls never have one key claimed, one
fresh id, or one transfer recorded as reversed (`Apart`); a key is open, failed, or
completed by something that was done (`RecordOK`); journal, rows and keys agree
one to one (`MovementsOK`). The steps inside `postWithinTransaction` are those of
`Ledger`, so the ledger's lemmas are cited and not proved again. From it:
`TransferTypeCorrect`, `AnswersStayFinal`, `MovementsAreAccounted`,
`CallsNeverDeadlock`, `TransfersKeepTheBooks`, and `TransfersImplementPromise`: a
commit is one `Transfer` or `Reverse` of `TransferBook`, a stored failure its `Fail`.

**Payments** (`PaymentProofs`): `PaymentInductive`, for any intents, callbacks and
payments. `PaymentInv` is `IndInv` and: from the lock of the payment to the
commit, the row that was read is the row in the table (`CallOK`); two settlements
never hold one payment or one event, and a checkout has one claimant (`Apart`); a
payment has the entry, the outbox event and the evidence its status asks for
(`PaymentOK`, `RecordsOK`). From it: `PaymentTypeCorrect`,
`AcknowledgementsAreFinal`, `PaystackAskedOnce`, `SettlementsAreAccounted`,
`PaymentsNeverDeadlock`, `PaymentsKeepTheBooks` and `PaymentsImplementFunding`.
`CallbacksAssumption` is the schema of a mock event, and that SHA-256 tells bodies
apart: without it an event with another's hash would pass for a repetition.

**Webhooks** (`WebhookProofs`): `WebhookInductive`, for any subscriptions, events,
workers and limit of attempts. A worker knows what it knows of rows it has locked
(`Own`), locks are exclusive among workers and disables (`RowLocks`), and the
number of the last attempt is the lease: who comes late finds another number.
`SentOK` says that an attempt is sent by the one that moved it to SENDING. From it
`WebhookTypeCorrect`, `AttemptsAlwaysAgree`, `SuccessIsGenuine`,
`AtMostOneRequest`, and `TerminalStaysFinal`, a property of steps.

**Outbox** (`OutboxProofs`), for any events, workers, consumers and limits:
`OutboxInductive` (which includes `OutboxTypeOK`). A job leaves the live states
only behind a persisted notification or into `exhausted`, so what a worker has
added stays handed over through completion, failure and eviction until it marks
the row. From it `NoEventLost` (`PublishedIsHandedOver`) and `PublishedForGood`.

**Access** (`AccessProofs`), for any requests, clients, emails and limit:
`AccessInductive` (an uncommitted user holds its email and id; who is about to be
answered has a committed account with that password), and from it `OneAccount`,
`TokensForOwners` and `RateLimited`.

Three things were put right in the models while proving. `EventVerdict` was a
`CASE` whose guards overlap, which leaves the choice open; it is now the code's
chain of conditions. `CallWaits` lacked the wait for the unique `transferId` of a
reversal, which its comment promised. And the assumptions that inputs have their
types were in the instances only.

Only model-checked: liveness (`EveryCallEnds`, `EveryEventPublished`,
`EveryEventSettles`, `PublishedComesToRest`, `PaidIsCredited`,
`EveryDeliverySettles`, `BlockedIsReadmitted`), since fairness is out of the prover's reach, and the
violation of `NothingStartsOnceDisabled`.

Deadlock freedom is not claimed for webhooks. `disable` locks several deliveries in
the order the table gives them, and so does a claim, but a claim skips rows that
are locked; what can wait for what is only the attempts, and a transaction that
waits too long ends by the timeout of its transaction (`DisableAbort`, `Crash`).

## 5. Not modelled

* Cryptography: scrypt, JWTs and the guard that reads them, HMAC signatures of
  callbacks and webhooks, the encryption of webhook secrets. A callback with a
  bad signature, and a token that does not verify, change nothing.
* Transport: HTTP to Paystack and to receivers, with its DNS pinning, size and
  time limits; what is modelled of it is the set of its outcomes.
* Health and metrics (read-only), configuration and its validation (once, before
  anything runs), controllers, DTOs and mappers (no state), operational scripts
  (run by hand on a database of their own).
* The loss of Redis' data, which the code does not handle either
  (docs/OPERATIONS.md tells operators what to look at).
* The composition of payments with transfers and of the fan-out with either in
  one state space: they meet in rows that `Ledger` already has two arbitrary
  calls race for, and in the commit of the outbox event, which `Webhooks` takes as
  a transaction that may commit at any time after its trigger.

## 6. Plan

1. Done: `LedgerRules`, `LedgerBook`, `Ledger`; `TransferBook` and `Transfers`;
   `Outbox`; `PaymentBook` and `Payments`; `Webhooks`; `Access`; and the proofs of
   all their safety properties and refinements.
2. Worth adding: that `normalizeLedgerTransactionInput` accepts exactly what the
   commit-time trigger would (`Normalizable` against `ValidAtCommit` of
   `Normalize`, now within reach of the sums of `BooksProofs`); step properties of
   the ledger (the journal only grows, a closed wallet stays closed) from
   `LedgerImplementsBook`.
