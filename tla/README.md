# Verification of the Sevo marketplace

Sevo is a Persian marketplace of many small stores.  The repository is a pnpm
monorepo: a NestJS API (`apps/api`), a worker of polling loops (`apps/worker`),
a web application (`apps/web`) and shared packages, of which `packages/outbox`
carries events between modules and `packages/database` the PostgreSQL schema.
This directory holds TLA+ models of the parts whose correctness depends on the
order of events, the TLC runs that check them and machine-checked proofs of
their central properties.

## 1. Inventory

Every module keeps its state in its own PostgreSQL schema.  An operation is one
database transaction that locks the rows it writes; modules call each other
inside that transaction through ports, or later through the outbox.

| Part | State | Operations | What makes it correct | Modules here |
|---|---|---|---|---|
| **Direct payment** (`payments`) | attempts, provider observations, operational alerts | prepare, claim dispatch, record initiation, mark unknown, apply provider result, recover expired attempts, claim and run reconciliation | one success per order; verdicts are final; every attempt ends; a success is never lost | `DirectPayment` |
| **Inventory** (`inventory`) | on-hand levels, reservations with lines | reserve, hold for payment, review or conflict, consume, release, restock, replace the on-hand counts | promised stock never exceeds the stock there is; a reservation has one owner | `DirectPayment`, `Settlement`, `ProductEditing` |
| **Refund and fulfillment** | refunds and their results; status, version and timeline of an order | request, record a result; project, advance, cancel | no shipment of a cancelled order; goods return once | `Settlement`, `OrderOutcome` |
| **Problem follow-up** | disputes, their events | open, respond, decide, reopen | only sent goods are disputed, nobody decides over a seller who still has time | `Disputes` |
| **Related buyers, reporting** (worker) | status projections | project an event | what is shown is the newest state known | `AfterSaleViews` |
| **Conversations** | threads, messages, claims of keys | open, send | a key sends one message | `MessageSending` |
| **Media** | upload contexts, objects, rows | issue a context, upload | a picture answered with can be read; limits hold | `Uploads` |
| **Cart** (`orders`) | carts, lines, tokens, stored answers | change, remove, review, replace, attach at login, resolve | a key changes a cart once; nothing is merged unseen | `Cart`, `CartCommands` |
| **Checkout, purchase groups** (`orders`) | preparations, orders, groups, group attempts, keys | prepare, create, pay, settle, expire | a cart is bought once and as it was shown; a group is settled as a whole | `Checkout`, `PurchaseGroup` |
| **Outbox** (`packages/outbox`) | events, deliveries per consumer | publish, claim, consume, acknowledge, fail, replay | each consumer's effect happens once per event; nothing is lost | `OutboxDelivery`, `EventDelivery` |
| **Platform access** (`identity-access`) | superadmins, duties, grants, uses | request, approve, activate, use, end, expire, review | nobody has what nobody agreed to; nothing ends while it is relied on | `AccessRoles`, `PlatformAccess` |
| **Seller applications** | applications, approval recoveries | submit, decide, resubmit, withdraw, approve, recover | who became a seller was approved, on the version decided | `SellerApplications` |
| **Accounts, second factors** | codes, sessions, passwords; factors, proofs, recoveries | verify, log in, reset, end; enrol, prove, approve, replace | a reset ends everything that began before it; a factor is vouched for | `Accounts`, `StaffFactors` |
| **Product, store** | products, offers, publications, stores, their terms, keys | save, price, count, publish, withdraw | revisions move forward; no blind overwrite; a revision of a term has one text | `Storefront`, `ProductEditing`, `StoreEditing` |
| **Content, discovery, following** | links, feeds, counts | publish, follow, project, rebuild | projections agree with their producers in any order of events | `SalesContent`, `PublicFeed`, `StoreFollowing` |
| **Web application** | the state of the product's and of the store's editor | load, save, review a conflict, preview, publish | what is written and published was shown to the seller | `ProductEditing`, `StoreEditing` |
| **Worker** | none | timers that call the handlers | every due row is handled | fairness of `DirectPayment` and `OutboxDelivery` |

How the parts interact.  A buyer fills a cart, prepares a checkout and creates an
order, which reserves stock, or a group of orders.  Paying runs `createAttempt`:
a transaction that draws the attempt and takes the reservation, one that claims
the right to call the provider, the call itself outside any transaction, and one
that stores the provider's reference or puts the attempt in review.  Callbacks
and the worker's sweeps settle it later.  A paid order reaches the seller by
`OrderBecameActionable` through the outbox; fulfillment, refunds, disputes and
conversations start from there and feed the views.  The seller's store, products
and contents feed the public projections by events as well.  Who of the staff may
look at or change any of this is the platform's access module, whose grants other
modules check inside their own transactions.

What is hard here: several workers, the buyer's requests, the seller's editor and
the provider act on the same rows; processes die between two transactions of one
operation; callbacks, events and requests are lost, repeated and late; keys and
revisions must turn that into one effect; and many deadlines run out in any order.
`PROJECT.json` lists each of these hazards at its line, with the properties that
watch it.

## 2. Plan

The order followed what hurts most when it goes wrong: money and stock
(`DirectPayment`), the outbox under everything else (`OutboxDelivery`), what
follows a payment (`Settlement`, `Disputes`, `AfterSaleViews`), what precedes it
(`Cart`, `Checkout`, `PurchaseGroup`), who may do what (`AccessRoles` and what is
built on it), the projections (`Storefront` and its three consumers), the commands
with claims and keys (`MessageSending`, `Uploads`, `CartCommands`), the accounts
and second factors, and the two editors.

Composition: `BuyerCare`, `Shopping`, `PlatformWork`, `Discovery` put the modules of
one area together; `MC...` modules give them values for TLC.  Three small
specifications state what something promises: `EventDelivery` (an event's effect
happens once), `OrderOutcome` (a paid order is delivered or cancelled, and its goods
return once) and `OncePerKey` (a command takes effect once per key), and runs check
that the detailed modules implement them.

What the plan has left: the platform's codes and passwords beside `Accounts`;
purchase experiences and violation cases.

## 3. DirectPayment

`DirectPayment.tla` models
`payments/infrastructure/postgres-direct-payment.repository.ts`,
`payments/application/direct-payment.service.ts`, the payment part of
`inventory/infrastructure/postgres-inventory-authoring.ts` and of
`orders/infrastructure/postgres-checkout.repository.ts`.

| Variable | Code |
|---|---|
| `onHand` | `inventory_levels.on_hand` |
| `order` | `order_orders.status` |
| `reservation` | `inventory_reservations`: status, `expires_at` past, `payment_attempt_id`, `hold_lease_until` past |
| `attempt` | `payment_attempts`: status, `dispatch_lease_until` past, `provider_reference` stored, `next_reconciliation_at` past |
| `observed` | `payment_provider_observations`: the results seen |
| `alerts` | `payment_operational_alerts` |
| `provider` | the provider's own record (outside the repository) |
| `dispatch` | the API request between its transactions |
| `reconciling` | the worker between its transactions |

| Action | Code |
|---|---|
| `CreateOrder`, `ExpirePendingOrder` | `createOrder`, one row of `expirePendingOrders` |
| `ReplaceOnHand` | one line of `replaceBatchForProduct` |
| `PrepareAttempt`, `ReplayLapsedDispatch` | the two branches of `prepareAttempt` that write |
| `ClaimDispatch`, `InitiateReturns`, `InitiateThrows`, `RecordInitiation`, `MarkDispatchUnknown` | the steps of `createAttempt` |
| `Callback` | `applyCallback`, `applyProviderResult` (one operator per branch) |
| `RecoverExpiredAttempts` | `recoverExpiredAttempts` |
| `ClaimNextReconciliation`, `ReconcileQueries`, `ReconcileInitiates`, `ReconcileRecords`, `ReconcileGivesUp` | `reconcileNext` |
| `RequestReconciliation` | the retry date is reached, or `requestReconciliation` by staff |
| `ReservationExpires`, `HoldLapses`, `DispatchLeaseEnds` | time |
| `RequestCrashes`, `ProviderOpens`, `ProviderDecides` | the world outside |

Abstractions.

- A transaction is one step.  Its rows are locked in the code, so the outcomes are
  those of some serial order; a transaction that throws or is aborted by the
  database changes nothing, hence its checks are guards.
- A deadline is a flag raised by an action of its own.  The order of unrelated
  deadlines is open, which is more than real clocks allow.  The one relation that
  matters is a constant: `HoldOutlivesDispatch`.  A CREATED attempt and the hold
  it took share one deadline, which `HoldLapses` raises in both.
- Amounts are right or wrong, event identifiers new or seen.  Audit rows, outbox
  events, wording and reads are left out.
- The development provider in `payments/testing` is a stub; the model has a
  provider that opens, decides once, reports late, repeatedly or not at all, and,
  as `ProviderFaults` allows, breaks its own contract.
- A seller's batch of corrections is a sequence of single corrections.
- One reconciliation runs at a time.  The answer of a second, slower one is a late
  report, which `Callback` covers.
- `recoverExpiredAttempts` takes any set of due rows (the code takes the first 100
  it can lock) and fails as a whole if one row throws.  A row of
  `expirePendingOrders` is skipped when it cannot be released, so its rows are
  independent steps.

### Runs

`MCDirectPayment.tla` gives the constants.  Two shapes are used: one order with
two attempts (a retry after a failure), where all interplay of old and new
attempts happens, and two orders with one attempt each that compete for one unit,
where overselling would show.  A third attempt meets the same rows as the second:
only the attempt that owns the reservation and one older attempt ever interact.

| Run | Instance | Shows |
|---|---|---|
| `payment_protocol` | one order, two symmetric attempts, contradicting provider, overtaken PENDING reports | six safety properties |
| `stock` | two orders, one unit, wrong amounts, reused event identifiers; beside it the product editor (section 9) | `ReservedWithinOnHand` when the sweeps are timely and the hold outlives the dispatch |
| `payment_liveness` | one order, one attempt that may be overdue, honest provider | `ReviewResolves`, `HoldsAreReleased`, `OrdersSettle` |
| `payment_lost_success` | two orders, one unit, honest provider, a hold that does not outlive the dispatch | violated, see section 11 |

`TimelyWorkers` restricts a run to behaviours in which no sweep is left waiting
while something else happens; `stock` needs it because a hold that lapses
before its sweep stops counting (`activeReservationPredicate`) while its
attempt is still open.  Runs without it check every delay of the workers.
`TypeOK` and `AbandonedNeverRequested` are proved and in no run.

### Fairness

`FairSpec` assumes what the platform and the provider owe: deadlines pass; the
two sweeps run (the worker's loops call them every 15 and 30 seconds and survive
errors); a due review is eventually claimed and one of its retries eventually
succeeds (strong fairness, since each is interrupted and booked again; the code
retries without limit, every 30 minutes at the latest); the provider decides
what it has opened.  Nothing is assumed of the buyer, of callbacks or of a request that
dies.  Under this every review resolves, every hold ends and every order is paid
or expires.

### Proofs

Everything is proved for any orders, attempts, variants, demands and provider
faults.

`DirectPaymentProofs.tla`:

- `TypeCorrect`: `Spec => []TypeOK`; the on-hand count stays a natural number
  because consumption checks it.
- `RowsAgree`: `Spec => []RowsInv`, the agreement of the tables.
- `LiveAttemptsAreBacked`, `PaymentsSettle`, `RecoveryNeverAborts`:
  `LiveAttemptOwnsReservation`, `PaidIsSettled` and `SweepsNeverAbort`.

`LiveAttemptOwnsReservation` is not inductive by itself: that a sweep may free a
reservation depends on who owns it, and a released reservation must not be taken
again.  `RowsInv` adds `OrderRowsAgree`, which relates the status of an order
to the status and owner of its reservation and to the confirmed attempts.
The proof has one lemma per handler for the rows it writes; lemmas about
`ApplyVerdicts`, `Confirm` and `ProtectFailedAttempt` are shared by the handlers
that call them.  A by-product: the branch of `Confirm` that raises
`PAID_STOCK_CONFLICT` cannot be reached, because an attempt that still waits for
its result owns a reservation that is neither consumed nor released.

The second part of that module follows one attempt.  `StatusChanges` and
`ProviderChanges` list every way in which a step moves an attempt and what the
provider knows of it; from them:

- `VerdictsStay`: `VerdictsAreFinal`.
- `ProvidersAgree`: `Spec => []ProviderInv`.  An attempt not yet dispatched is
  unknown to the provider, a failed one is unknown to it or was reported failed,
  and the worker's claim is about an attempt that has been in review.  The last
  part is what keeps `ReconcileInitiates` from requesting an abandoned attempt.
- `AbandonedWasNotRequested`: `AbandonedNeverRequested`.
- `ChargedOnce`: `NoDoubleCharge`.  An honest provider that has taken the money
  makes its attempt live or confirmed (`ProviderInv`), and an order has one such
  attempt (`RowsInv`).
- `SuccessIsNeverSilent`: `NoSilentSuccess`.

The last part is about stock, and assumes no more than the others:

- `StockIsOversoldByTakingBackOnly`: `OnlyTakingBackOversells`.  However late the
  sweeps are, and although `claimDispatch` does not renew the hold, a variant becomes
  oversold only in a step that takes back a reservation which had stopped counting
  (`TakesBack`): a review, a late confirmation or a contradiction about an order whose
  hold or reservation had lapsed.  Nothing else oversells: not a creation, however
  many orders race for the last unit, nor an expiry, nor a correction of the count.
  Finitely many orders have been placed at any time (`Placed`, the induction part of
  the proof), so that what is promised is a sum; a step that keeps every row counted
  or uncounted (`RowKept`), or that checks the count when it adds one, covers it
  (`Covers`).  A confirmation may lower the count by what it stops promising.

`ReservedWithinOnHand` itself does not hold of this code: with `TimelyWorkers` or
`HoldOutlivesDispatch` FALSE, TLC finds a hold that stops counting, its unit promised
to another order, and a review that counts it again.  Under both constants it is
model-checked in `stock` and not proved.  What the code does when the hold does not
outlive the dispatch is the theorem above and, when the stock is gone by then,
`payment_lost_success`.

What is reserved of a variant is the sum of the community modules over a set.
`FoldTheorems.tla` proves what this needs: a fold over a finite set exists, two agree
where both are defined, and a sum may take out any element first.  An induction
theorem cannot be applied here; in its place these lemmas take a smallest
counterexample among the subsets of a finite set (`SmallestSubset`), whose existence
the library states without an operator parameter.  `SumTakes` and `SumGrows` carry
them over to `Reserved`.

Only model-checked: liveness (out of the prover's reach) and `ReservedWithinOnHand`
under the two constants.

## 4. OutboxDelivery

`OutboxDelivery.tla` models `packages/outbox/src/index.ts`: a producer inserts an
event in its own transaction; each consumer has a delivery row per event, made
when one of its workers first looks; a worker leases a row, runs the handler in
the transaction that marks the row PROCESSED, and acknowledges.

| Variable | Code |
|---|---|
| `event` | `platform_outbox_events.status` |
| `delivery` | `platform_outbox_consumptions`: status, `available_at` past, `lease_expires_at` past, `lease_owner`, `attempt_count` |
| `effects` | how often the handler's writes for an event are in the consumer's tables |
| `claim` | a worker's memory between its transactions: event and attempt number |

| Action | Code |
|---|---|
| `Publish` | `enqueueOutboxEvent` |
| `ClaimNext` | `claimNext`: one missing row is made, one claimable row leased |
| `ConsumeClaim`, `ConsumeStale` | the two outcomes of `consumeClaim` |
| `AcknowledgeClaim` | `acknowledgeClaim` |
| `ClaimThrows`, `ReportDelivery`, `ReportEvent` | the catch block of `processClaim` and its two updates |
| `WorkerCrashes` | a process that dies, or an error in the catch block, which `#runLoop` survives |
| `Rebuild` | `replayOutboxEventHistory` inside the rebuild of a projection |
| `RetryComesDue`, `LeaseLapses` | time |

Abstractions.

- The handler and its receipt are one transaction on a locked row, hence one step.
  `effects` counts what that transaction leaves behind; whether a handler is
  idempotent by itself is a question for the model of that handler.
- The row a claim takes is any claimable one.  The code takes the oldest that is
  not locked, so which one it is depends on other transactions.
- A worker that starts again keeps its name; the code draws a new `workerId`.  A
  claim is told from an older one by its attempt number either way.
- Clocks are flags.  A lease may lapse at any moment, which covers a handler that
  is slow, a process that is paused and clocks that differ between workers.
- `MaxAttempts` and the retry delays are options of a worker; the model has one
  limit for all.  `attempt_count` and errors on the event row are left out, for
  nothing reads them.
- The rebuild is one step: it holds an advisory lock that its consumer's handlers
  take as well.  Events published while it runs are published after it.
- Backlog metrics are reads.  `catchUpOutboxConsumer` runs the same worker for a
  bounded number of rounds.

`EventDelivery.tla` is what consumers may rely on: a published event is pending
for each consumer until its effect is applied in the step that marks it done, or
it is given up.  A consumer with a rebuildable projection may start over, which
repairs what was given up; an event that a worker has leased meanwhile is applied
again afterwards.  `StageOf` maps a delivery row to its stage: READY, LEASED and
missing rows are all pending.

### Run

`outbox_delivery`: two consumers, one event; two workers of the consumer that
rebuilds and one of the other; `MaxAttempts` 2, `AttemptBound` 3; five properties,
with liveness, so without symmetry.

Two workers are enough for a takeover and for the loser's late return; a third
one meets the rows as the second does, and rows of different events meet only in
which of them a worker takes.  With `MaxAttempts = 2` a delivery can fail for now
and for good.  `AttemptBound` bounds the attempts: those with this number neither
crash nor outlast their lease, so that the attempt after the last regular one,
which only a takeover makes, is covered.  The proofs hold for every
`AttemptBound`.

### Fairness

`Works(w)` is weakly fair because `#runLoop` polls for ever, survives every error
of a round and is restarted with its process; dates pass.  Handlers may throw each
time.  The code takes a lapsed lease over without looking at the number of
attempts, so a delivery that kills its worker each time is never given up;
`EventsAreHandled` therefore needs `AttemptBound`.

### Proofs

`OutboxDeliveryProofs.tla` proves, for any consumers, workers, events and limits:

- `TypeCorrect`, and `Invariance`: `Spec => []IInv`.  `IInv` adds to the two safety
  properties that only published events have deliveries (`RowsExist`) and that a
  worker's claim names an existing delivery and is not ahead of its attempt number
  (`ClaimsExist`); without the latter the unfenced update of the event in the
  catch block could fail an event too early.
- `EffectsOnce`: `EffectsMatchReceipts`; `DeathsAreDue`: `NothingDiesEarly`.
- `LeasesAreExclusive`: `LeaseIsExclusive`, from `RowsChange`, which lists every
  way in which a step rewrites a delivery row.
- `OutboxImplementsPromise`: `Spec => ImplementsPromise`.  Publication, the
  handler's transaction, the report of a last failure and the rebuild map to the
  steps of `EventDelivery` of the same kind; all other steps are invisible.

Only model-checked: `EventsAreHandled`.

## 5. After the payment: `BuyerCare`

| Module | Source | State | Actions |
|---|---|---|---|
| `Settlement` | fulfillment service and repository, direct refund repository, restocking in inventory, the worker's fulfillment handler | order, fulfillment row and timeline, refund and its results, reservation, on-hand count, clock, advance requests between check and transaction | `ProjectActionableOrder`, `BeginAdvance`, `CommitAdvance`, `AbandonAdvance`, `RequestRefund`, `RecordResult`, `TimePasses` |
| `Disputes` | problem-follow-up service and repository | dispute with its version, its events, requests that have read the window | `BeginOpen`, `CommitOpen`, `AbandonOpen`, `Respond`, `Resolve`, `Reopen` |
| `AfterSaleViews` | the worker's orders and reporting handlers | the three views, the events each has applied | `ShowAccepted`, `ShowRelatedBuyer`, `ShowToSeller`, `ShowDispute` |
| `MessageSending` | conversation repository | threads, records of keys with their claims, requests in flight | `OpenThread`, `ClaimSend`, `ClaimLapses`, `CommitSend`, `ReplaySend`, `ReleaseSend`, `SenderCrashes` |
| `Uploads` | media storage | contexts, requests between their transactions, objects, rows | `IssueUploadContext`, `BeginUpload`, `PutObject`, `CommitUpload`, `AbandonUpload`, `UploadCrashes` |

Abstractions.  A request of the seller, or one to open a dispute, is two steps: what
it reads before its transaction and the transaction, with whatever happens in
between.  `RecordResult` writes the refund, the order, the fulfillment and the stock
in one step, as the code does in one transaction.  A consumer applies each event
once at most and in any order, as `OutboxDelivery` promises.  Sending is claim,
check outside a transaction, and commit; the 60 seconds of a claim are a flag.
Uploads write the variants to the object store one by one, then the rows; both
tables of contexts work alike and are one.  A commit takes effect with its answer or
without: then the request is still there with its row stored (`AnswerLost`), and
removes the row's objects (`AbandonUpload`) or dies with its process.  A commit that
takes effect only after the removal leaves the same state, for until then the
context's row stays locked.

Run `after_sale`: one order of two units, one advance request with three keys, two
dispute requests, a failed and a confirmed refund result each repeated at will,
clock 0..2 with windows of 1 (sent), 0 (delivered), 1 (response) and 0 (reopening),
so that every window is met before, at and after its end; disputes up to version 3.
Beside it three senders, two keys and two contents; three uploads, one context, two
keys, two pictures, at most two in a context, so that the limit is reached by two
and broken by a third.  The parts share no variable, hence `OneMoves` explores each
with the others at rest: a step of one is enabled and means the same whatever the
others do, and every invariant speaks of one of them.  Deadlock is allowed because
a settled order has nothing left to do.

- `CancellationAgrees`, `ImplementsOutcome`: the five tables agree on a
  cancellation, and every step is one of `OrderOutcome`, although the seller's step
  was checked before the refund began.
- `DisputesAreJustified`, `NoHastyDecision`: deadlines hold although clocks and
  windows are read before locks.
- `StatusViewsShowNewest`: a view shows the newest of the events it accepted.
- `MessagesAreSentOnce`: sending implements `OncePerKey` although a sender outlives
  its claim.
- `AnsweredMediaIsReadable`: no cleanup removes a picture that its own request has
  answered with, and limits and keys hold, although a request may not learn of its own
  commit.  That every stored picture can be read (`StoredMediaIsReadable`) is more than
  the code keeps, see section 11.

Run `dispute_projection` is violated, see section 11.

### Proofs

`BuyerCareProofs.tla` proves every property of this run, for any orders, keys,
requests and windows.

- `CancellationsAgree`, from `SettleInv`: the status of an order tells those of its
  refund, fulfillment and reservation (`Undone`), an order whose timeline says that it
  was sent stands as sent or delivered (`StaysSent`), and the timeline and the
  requests speak of the past (`IsPast`).  A step checked before a refund began meets
  in its transaction a fulfillment that `Undone` says it must refuse.
- `AfterSaleImplementsOutcome`: every step is one of `OrderOutcome` or a stutter.
- `DisputesStayJustified`, `DecisionsAreNotHasty`, from `DisputeInv`: a request that
  found the window open found it so for good, since a timeline only grows, and the
  deadline of an unanswered dispute counts from such a moment (`InWindow`).
- `ViewsShowNewest`, from `ViewInv`: a view follows the newest of the events applied.
- `MessagesImplementOnce`, from `MsgInv`: a row with an answer has the one message of
  its key and never lapses; a request whose claim still stands finds its own content
  in the row.
- `AnsweredMediaStayReadable`, from `MediaInv`: requests under way never share an
  identity with each other, nor with a stored picture but their own, and a request
  that has answered is no longer under way, so that a cleanup meets the objects of no
  row but one that was never answered; the pictures that count against a context are
  those its keys name.
- `CareTypeCorrect`: `CareTypeOK`.

## 6. From the cart to the purchase: `Shopping`

| Module | Source | State | Actions |
|---|---|---|---|
| `Cart` | cart service and repository | carts with lines and owners, the stores' terms | `CreateCart`, `ChangeItem`, `RemoveItem`, `ReplaceStore`, `ConfirmReview`, `Attach`, `Resolve`, `Lapse`, `ChangeTerms` |
| `Checkout` | checkout service, multi-store checkout, authoritative review, saved addresses | address, preparations, purchases, orders, stored keys | `BeginPrepare`, `SavePreparation`, `ExpirePreparation`, `UpdateAddress`, `DeleteAddress`, `CreateOrder`, `RepeatOrder`, `CreateGroup` |
| `PurchaseGroup` | group payment, reservations, expiry sweep | attempts of groups | `StartPayment`, `ConfirmPayment`, `FailPayment`, `MovePaymentToReview`, `SoloHold` to `SoloReview`, `PassDeadline`, `Sweep` |
| `CartCommands` | the two layers of stored answers | records of repository and service, requests in flight | `AskFirst`, `AskSecond`, `RunCommand`, `UndoCommand`, `RecordCommandFailure`, `AnswerSuccess`, `ReplayFirst` and the ways a request ends |

Abstractions.  One buyer and one browser; a store sells one variant, whose terms are
a version; stock is never short (scarcity is `DirectPayment`'s); a purchase always
has an address; the reads of one review are one step.  `Cart` leaves out commands
with a stale revision, which change nothing; repeated keys are `CartCommands`.  A
group's preparations of its single stores, which are replayed with the group's, are
left out.  Deadlines are flags.  An order of a group paid alone has the effect of
`DirectPayment` on order and reservation.

Run `checkout`: two carts, two stores, quantities to 2, one change of a cart before
it is final, one change of the second store's terms, two preparations, two
purchases, two keys, one address with one change, two payment keys, one store whose
order is also paid alone; beside it two requests of two keys, one of a command
whose answers both layers keep.  `Separate` states what is not combined: while a
purchase is paid there is one preparation and no other address, and address and
terms do not both change, for no action of the one reads the other.  Carts,
preparations, purchases and keys are symmetric.

- `OnePurchasePerCart`, `BuysTheCartAsItIs`: whatever checkouts, keys and
  preparations race, a cart is bought once and as it stands.
- `ReservationMatchesOrder`, `GroupIsWhole`: orders, reservations, attempts and the
  group agree although a crash may come between hold and settlement and the sweep
  runs beside.
- `CartCommandsRunOnce`: the two layers implement `OncePerKey`, although they may
  disagree on the answer.

### Proofs

`ShoppingProofs.tla` proves every property of this run, for any carts, stores,
preparations, purchases, keys and bounds.

- `CartsBoughtOnce`, `ReservationsMatch`, `GroupsAreWhole`, `ShoppingTypeCorrect`, from
  `ShoppingInv`.  Its part `CheckoutInv` relates a preparation to the revision of the
  cart it was made from and a purchase to the cart it has converted; its part
  `PaymentInv` relates the status of an attempt to those of the orders, reservations
  and group it covers.  A hold and its settlement are two steps, so the whole group
  must be described in every state between them.
- `CartsBoughtAsTheyAre`: the action property `BuysTheCartAsItIs`; a cart whose
  revision did not change holds what it held when it was prepared.
- `CartCommandsImplementOnce`, from `CommandInv`: an answer stored by either layer
  stands for the one change made under the key.  `ShoppingIsCheckout` carries the
  results about purchases over to the composition.

## 7. The platform's people: `PlatformWork`

| Module | Source | State | Actions |
|---|---|---|---|
| `AccessRoles` | platform access repository, superadmin controller, operations scripts | active identities, superadmins, duties, grants, uses, oversight | granting and revoking superadmins, `Deactivate`, scripts, `RequestResponsibility`, `ApproveResponsibility`, `RevokeResponsibility`, `RejectRequest` |
| `PlatformAccess` | the same repository | sensitive and emergency grants of the same rows | request, approve, activate, reject, end, review; `LockPermission`, `Authorize...`, `EndUse`; `ExpireGrant`, `PassExpiry`, `PassReviewDue` |
| `SellerApplications` | seller application repository, its worker | applications, recoveries, the worker's stage, sellers | `Submit`, `Decide`, `Resubmit`, `Withdraw`, `PrepareApproval`, `ApproveByRequest`, `TakeRecovery`, `ApproveByWorker`, `RefuseRecovery`, `CancelRecovery`, `DropRecovery` |
| `StaffFactors` | agent TOTP service, bootstrap scripts | authorizations, enrolments, factors, proofs, recoveries | `Authorize`, `Begin`, `Confirm`, `RequestRecovery`, `CreateProof`, `ApproveRecovery`, `BeginRecovery`, `CheckRecovery`, `CommitRecovery` and what ends each |
| `Accounts` | OTP service, identity repository, seller password service | codes, proofs in flight, sessions, password | `RequestCode`, `GuessCode`, `ConsumeCode`, `SaveSession`, `BeginLogin`, `EndLogin`, `Enroll`, `Reset`, `EndSession`, `EndAllSessions`, `SwitchSeller` |

Abstractions.  A command is a transaction; managers are counted in it without a
lock, so that two commands may count the same ones, which is modelled by the
rows each command takes.  A use of a grant is a transaction of another module with
its locks: `use` and `oversight` say which run and what they hold, and a
revocation waits for them.  Sessions of staff, revisions and idempotency keys of
these commands are left out: a stale or repeated command changes nothing.  Due
dates are flags.  Whether a review counts as alone is open, since the count depends
on the moment.  Provisioning a store is a step that may fail.  A code is right or
wrong; `confirmRecovery` is two steps, for its checks and its commit are far apart,
and the rows it holds FOR SHARE do not change between them (`RowsAreHeld`).  Public
sessions that staff revoke are `EndAllSessions` of `Accounts`.

Run `platform_work`: three people (one asks, one approves, one is neither), two
grants, three duties, two moves of the operators, two applications and two
recoveries to version 3; three codes with one wrong guess, one session at a time
and one reset; enrolments one at a time, at most two factors being replaced and at
most two generations of a factor.  `Separate` keeps grants, applications and factors
apart: they meet only in who holds which role or duty, and the superadmins and the
scripts change that beside each of them.  People, grants, applications and
recoveries are symmetric.

- `DutiesAreAgreed`, `EmergencyHasTwo`: nobody ends up having agreed to his own
  duty, and an emergency has a second person in its approval or in its review,
  though the number of managers changes between request, approval, activation and
  review.
- `UsesAreCovered`: while a consumer relies on a duty and a grant, they stand.
- `SellersWereApproved`: a recovery carried out late approves nothing its reviewer
  did not see.
- `FactorsAreVouchedFor`: a factor that comes into force has the approvals it needs
  at that moment.
- `SessionsFollowResets`: no session rests on a code or password from before a reset.

### Proofs

`PlatformWorkProofs.tla` proves every property of this run, for any people, duties,
grants, applications, factors and codes.

- `DutiesAgreed`, `EmergencyTakesTwo`, `UsesCovered`, `AccessTypeCorrect`, from
  `AccessInv` (`AccessIsAgreed`): what every row owes to those who asked for it and
  agreed to it, whatever its status, and that a row that a running use relies on is in
  force and locked.  `WorkImplementsAccess` carries them over to the composition.
- `SellersApproved`, from `AppInv`: an applicant has one open application; an approved
  one has a recovery that records its approval, and a completed recovery an approved
  application.  A late recovery could otherwise complete for a successor.
- `FactorsVouched`, from `FactorInv`: between the check of a recovery and its commit the
  approvals are those of two others whose factors still stand, and a person replaces
  one factor at a time.
- `SessionsAreCurrent`, from `AccountInv`: the password, a login under way and every
  code that is not voided are of the latest reset.

## 8. The storefront and its projections: `Discovery`

| Module | Source | State | Actions |
|---|---|---|---|
| `Storefront` | store and product repositories | store, products, requests to publish, events | `SaveStoreDraft`, `PublishStore`, `BeginPublishProduct`, `PublishProduct`, `UnpublishProduct`, `ReplaceOffers`, `ReplaceInventory`, `ReplaceWorkingCopy` |
| `PublicFeed` | worker's feed projection, feed repository | rows, buffers, deliveries | `Deliver`, `GiveUp`, `Rebuild` |
| `StoreFollowing` | following repository, worker's counts | identities, relations, counts, an open status handler | `ChangeStatus`, `Write`, `ReadStatus`, `CountStatus`, `AbandonStatus`, `CountFollow`, `RebuildCounts` |
| `SalesContent` | content repository and service, worker's content handlers | content with links, requests in flight, open handlers, the public's tables | `SubmitContent`, `CommitContent`, `BeginApply`, `CommitApply`, `AbandonApply`, `ShowEvent`, `ShowRevision` |

Abstractions.  A product has one variant.  An event's place in the log is its
`occurred_at`.  A handler is one step, for handlers of one subject exclude each other
by advisory locks, except where the code does not lock: a status is read and
counted in two steps, and the seller's consumer computes a content's flag on the
snapshot its statement began with.  A delivery given up is pending for ever, and
makes the feed unhealthy.  A rebuild replays the archive while deliveries begun
before it are still open.

Run `discovery`: two products and a content, or one product and the feed, or two
followers of one store, or the store's editor (section 10); five events, five changes
behind the feed, four behind the content, one delivery under way during a rebuild.  The projections share only the
producers and are explored one at a time (`Separate`, `OneMoves`);
`ProducersFirst` lets the producers go ahead of the feed's consumer, since they
read nothing it writes.  No fairness is assumed: the properties say what is true
when everything has been handled.  Deadlock is allowed because the log is bounded.

- `FeedIsTrue`: what is known to be withdrawn is not listed and, when all is handled,
  the feed agrees with the products, whatever the order of the events and after a
  rebuild.
- `CountsAgree`: counts neither drift nor fall below zero.
- `LinksAgree`: both consumers of a content agree with it when they are done, and
  the public never sees what is known to be withdrawn.

Run `feed_convergence` is violated, see section 11.

### Proofs

`DiscoveryProofs.tla` proves `CountsAgree`, `LinksAgree` and `FeedIsTrue` for any
products, identities, stores and numbers of events.

- `CountsAreRight`, from `FollowingInv` (`TablesFollowLog`).  That counts do not drift
  is not inductive: a status handler adds the difference between what it read and
  what the event says, and a follow may be counted before or after the status of its
  identity.  `FollowingInv` says that every row of the projection was told by an event
  and is as new as any event counted of its subject, that what an open handler has
  read is still right for its own identity, and that each count is the size of the
  set of relations it stands for.  `HandlersNeverThrow`: no count goes below zero, so
  no handler fails for it.  A rebuild folds the whole archive;
  by the smallest prefix that disagrees (`FoldTheorems`) its tables are those of
  counting the events one by one.
- `LinksAreRight`, from `ContentInv` (`ContentFollowsLog`).  Its first part is about the
  producers: of one store or product, the log tells the publications in order, later
  events with larger revisions, and the newest that tells of the market tells what the
  row says now.  Its second is about the consumers: a projected state is that of the
  newest event applied, whatever came in between, for what is older is skipped by
  its revision.  A link that is not as the state of its product wants it has a newer
  event before it: this is what a request that read the product before a withdrawal,
  and committed before the consumer knew of it, leaves behind, and why the seller's
  links are promised only when the consumer is done.  The public's links are right at
  once, since that consumer writes the link and the state in one step.
- `FeedIsRight`, from `FeedInv` (`FeedFollowsLog`), which says what the feed knows of
  the set of events it was given, and needs no more of their order.  A row is the
  state that one of them told, with the first publication among them and the newest
  price and stock of its own publication (`Stands`); an event that is newer than its
  row waits in a buffer, itself or behind a newer one of its kind (`Caught`); and
  every buffer was told by an event.  While a row is public, a withdrawal waits only
  for a later publication than the row's; otherwise a row could go on showing what a
  buffer knows to be withdrawn, with every event handled.  `NewPublicationKeeps` is the heart of it: when a publication comes,
  the buffers that it applies are all that came before it.  The log adds that prices and
  stock rise with time and that what an event tells of has begun (`PricesInv`), so
  that the larger of two prices is that of the later publication.  A
  rebuild is a fold of the same handler over the archive, and knows all of it.

## 9. The product editor: `ProductEditing`

| Variable | Code |
|---|---|
| `product` | `product_products`, its offers and its inventory level |
| `answers` | `product_idempotency_records`, those whose key may come again |
| `editor` | the component's state: step, revision, rows, preview, what the seller was shown |
| `asked` | `saveRequest`, `offersRequest`, `inventoryRequest`, `publishRequest`, `unpublishRequest` |
| `call`, `reading` | the request in flight with what is to follow it; the view being read or the conflict shown |
| `late` | requests given up after three tries that may still arrive |

Actions are the component's functions (`Open`, `Save`, `Publish`, `Unpublish`,
`BackToSale`, `ApplyReview`, `CancelReview`, `Close`), the arrival of a request at
the API, each continuation of an answer, the two statements of a view
(`ReadRow`, `ReadRest`), and whatever others do to the same product.

Abstractions.  What a field holds is known by the revision that last wrote it: the
product's for details and prices, the inventory's for stock.  The seller may type
anything, so any save writes all it carries.  The three tries of `fetchWithRetry` are
one request, for the answer to any of them is the stored one.  A view is read in two
steps, the product's row and the rest; the offers and the inventory, two statements in
the code (`postgres-product.repository.ts:1017-1074`), are one.  The button back to
the sale step works while a write is out (`BackToSale`).  Readiness, images and events
are left out.

Run `stock` explores it beside the competing orders of `DirectPayment`, each with the
other at rest: three revisions of the product, two of them by others, two of its
stock, three keys, one request given up at a time.  A conflict needs one foreign
revision, a conflict met while the first is reviewed a second; a given-up request
that comes late meets either.  What others do before the editor opens it loads
anyway, so others move while it is open (`EarlyOthers`).

- `NoBlindOverwrite`: no write the API would still accept, even one that comes late,
  replaces details or prices, or a draft's stock, that the seller was not shown.
- `PublishedAsShown`: what would be published the seller was shown.

Run `editor_stock` is violated, see section 11.

### Proofs

`ProductEditingProofs.tla` proves both, `NothingOverwrittenBlindly` and
`PublicationsWereShown`, for any numbers of revisions, keys and late requests, from
`EditingAssumption` (that "none" is not the content of a request).  Neither property
is inductive: that the API compares revisions helps only if the revision a request
names is one whose content the seller has seen, and a request may name a revision
that the editor has learnt long before from an answer, a stored answer or the half of
a view.  `EditInv` says of every holder of a revision (the editor, the call, the
requests that may be sent again or come late, the stored answers, a view of which
only the row has been read) that if it names the product's present revision then the
details and prices it goes with have been shown (`RevisionsTellWhatWasSeen`).  Prices
are known only once a live save has answered with them, a draft's inventory revision
is never newer than the stock shown, and a late request builds on the same revision
as the one that would be sent with its key now.

## 10. The store editor: `StoreEditing`

`StoreEditing.tla` models `store-builder.tsx` of the web application with the
store's service and repository behind it.

| Variable | Code |
|---|---|
| `shop` | the row of `store_stores` with its shipping methods and return policy |
| `receipts` | `store_idempotency_records`: the answer of each key |
| `visible` | pictures whose media are public |
| `window`, `sent` | the state of each open editor; how many requests all have sent |
| `underway` | requests on their way, which may arrive late, again or never |
| `handling` | requests between the service's reads and its transaction |

Actions are the component's (`Load`, `Save`, `ShowPreview`, `BackToEditing`,
`Publish`, `GivesUp`), the arrival of a request, the steps of the service
(`ReadsShop`, `CommitSave`, `HidePictures`; `ChecksPublication`, `ShowPictures`,
`CommitPublication`, `FailPublication`, `TakeBackPictures`), a handler that ends for
any other reason, and `Provision` by the seller's application.

Abstractions.  What a save types is new and known by the save's key.  A page has one
field, shipping one per method, each with the identity and the revision by which
orders refer to it.  The service merges what it was sent into the store it read
before the transaction, as the code does, and the transaction compares revisions.
Addresses of other stores, settlement and disabled methods are left out.

Run `discovery` explores it beside the projections, each with the other at rest: two
windows, two saves and a publication or one save and two publications, a request
that is handled twice at once, two shipping methods.  A conflict needs two requests;
a replay that meets its own first handler needs two handlers; a third request meets
a store as the second does.  `FewRequests` names what is not combined.

- `SellerSawWhatChanges`: a save replaces what its window showed and changes only
  what it was sent, and what goes public is complete and was previewed.
- `TermsKeepTheirMeaning`: a revision of a return policy or of a shipping method
  never stands for two texts.

### Proofs

`DiscoveryProofs.tla` proves both for any windows, methods and numbers of
requests.  That the revision is compared says nothing of what a window has seen
unless whoever names the store's current revision has seen its current text.
`SeenInv` (`RevisionsAreKnown`) states this for receipts, windows, requests, windows
that wait for an answer, and handlers, and that two requests never share a key.
`SellersSawWhatChanged` and `EditingTypeCorrect` (`ShopTypeOK`) follow.
`TermInv` (`TermsMeanOneThing`) adds that an identity was there before or belongs to
a key that has been answered, and that the revision in force is the last of its
identity; a method that was removed and added again would otherwise meet its old
revisions.

## 11. Known divergences

Four runs show what the code does against its documents or tests; `PROJECT.json`
quotes them under "findings".

- `payment_lost_success`: a success that finds too little stock.
  `docs/specs/cart-order-direct-payment.md:295` wants the payment recorded and the
  order in review.  `consumeReservation` throws, so the observation is rolled back
  with everything else and each redelivery fails the same way.  `claimDispatch`
  renews the attempt's lease and not the hold's: the hold lapses first, its stock
  stops counting once the reservation has expired, and the seller may lower the
  count.
- `dispute_projection`: a dispute's answer applied before its opening is lost.
- `feed_convergence`: a version buffered for a publication whose withdrawal comes
  first is never cleared, and the whole feed shows nothing.
- `editor_stock`: the stock of a live product is sent on the revision the save has
  just answered with, so that sales since loading are overwritten.

Others are in the models as the code has them, and have no run.

- Payment: a contradictory result puts the order in review, but a newer attempt's
  success still pays it and hands it to the seller (line 293 of that document);
  the hold taken for a contradiction belongs to a FAILED attempt that no sweep
  selects and stays for ever (its line 297).
- After the sale: the table of the related buyers' list rejects the statuses of a
  cancellation, which the list never shows.  An upload whose commit took effect but
  was answered with an error removes the objects of the row it has stored
  (`postgres-minio-media-storage.ts:84-89`, `227-230` and `271-274`); a repeat under its
  key is then answered with a picture that cannot be read (`StoredMediaIsReadable` of
  `Uploads`, which the code violates).
- Cart: a buyer's cart that lapsed but was not closed still occupies the unique index
  of active carts, and login cannot attach the guest cart until something else
  closes it (`docs/specs/cart-order-direct-payment.md:146`).  The answer of a key may change, for the second version of
  the API looks at availability before the stored answer (lines 128 and 613–615 there).
- Purchase groups: an order of a group can be paid alone, after which the group
  stays PENDING_PAYMENT or EXPIRED with a paid order in it.
- Access: a rejected duty or sensitive request can still be approved
  (`docs/specs/platform-access-v1-contract.md:68`).
- Second factors: an approval of a recovery that becomes invalid blocks the
  recovery until it expires after an hour; redeeming one does not void the
  platform's OTP challenges; an enrolment that expires leaves its authorization
  consumed.
- Feed: `eligible_since`, by which the feed ranks, depends on the order of delivery
  (`docs/specs/discovery-and-store-following.md:573`), so `FeedIsTrue` leaves it out.
- Content: with two workers the flag of a content may stay set after both its
  products were withdrawn (`ContentIsActive` of `SalesContent`, which the code
  violates; `docs/delivery/content-v1-contracts.md:86`).
- Store editor: a publication that fails, or a save that is slow, hides pictures of a
  store that another request has published meanwhile (`PublishedPicturesAreVisible`
  of `StoreEditing`, which the code violates; `docs/delivery/store-producer.md`).
- Product editor: a conflict met while leaving the review step is applied without a
  new preview (`PublishesThePreview`, which the code violates); keeping one's own
  variants in a review keeps their old inventory revisions, so that a draft
  conflicts again; reloading before the first save creates the draft anew, since a
  draft without a working copy is not readable.

## 12. What is proved and what is only checked

Proved for every value of the constants:

| Run | Proved | Only model-checked |
|---|---|---|
| `payment_protocol` | everything | |
| `stock` | the editor's two properties | `ReservedWithinOnHand`, for timely sweeps and holds that outlive the dispatch |
| `payment_liveness` | | `ReviewResolves`, `HoldsAreReleased`, `OrdersSettle` |
| `outbox_delivery` | the safety properties and the refinement | `EventsAreHandled` |
| `after_sale` | everything, both refinements included | |
| `checkout` | everything, the refinement included | |
| `platform_work` | everything | |
| `discovery` | everything, the store editor's two properties included | |

The assumptions are the named ones of the modules: what is a number, that sets of
different things are disjoint, that "none" is none of the things it stands in for.

Sums over sets and folds of an archive are proved about through `FoldTheorems`: its
facts are about one fold and one set at a time, so that no induction theorem has to
be instantiated.  Every safety property of a passing run is proved except
`ReservedWithinOnHand`; in its place `OnlyTakingBackOversells`, which is in no run,
is proved without its two conditions.  Liveness under fairness and ENABLED are out of
the provers' reach.

The type invariants are in no run.  Those of `DirectPayment`, `OutboxDelivery`,
`BuyerCare`, `PurchaseGroup`, `PlatformAccess` and `StoreEditing` are proved;
those of `Discovery`, `Cart`, `CartCommands`, `SellerApplications`, `StaffFactors`,
`Accounts` and `ProductEditing` document the state.

Hazards without a property: deadlocks between transactions that lock in opposite
orders (payments, contents, two confirmations that vouch for each other), which
PostgreSQL ends by refusing one, a request not made; sweeps that take the oldest
rows first and may starve others; the takeover of a lapsed delivery without a limit
of attempts; the guard of the last superadmin, a count under one lock in every path;
the lapsed cart and the rejected request of section 11.  `PROJECT.json` gives each
its reason.

## 13. Not modelled

- Platform codes and passwords, rate limits: counters beside the same session logic
  as `Accounts`.
- Purchase experiences, moderation and violation cases: single rows moved by one
  reviewer at a time.
- Addresses beyond the one in use, related buyers' search and audited reveal,
  reporting reads: reads, or rows of one owner.
- The rest of the web application: it shows what the API answers and sends what the
  API's modules check; the product editor is modelled because it keeps revisions and
  keys of its own, and so is the store editor.
- The worker's timers, except as fairness; image processing, object serving,
  generated contracts and OpenAPI documents: input and output or plain reads.
