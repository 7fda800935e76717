# Verification of the shop's orders and money

This directory holds TLA+ models of the part of the shop whose mistakes cost money or stock: how an
order is paid, canceled, delivered, bought from another site and refunded, and how wallets, member
levels, resellers and affiliates are credited. The models are translated from the Go source under
`src/internal`; TLC checks them on small instances, and TLAPS proves every safety property and every
refinement the passing runs check for every instance, some under a condition that is named; liveness is
left to TLC.

| file | what it is |
|---|---|
| `OrderSettlement.tla` | abstract: what the payment side promises about one order |
| `OrderPayment.tla` | CreatePayment, callbacks, cancellations and the wallets, for one root order |
| `SecretDelivery.tla` | abstract: what automatic delivery promises about card secrets |
| `OrderFulfillment.tla` | several orders' lines: stock, secrets, delivery, updates, parent status |
| `Supply.tla` | abstract: what procurement promises about one line |
| `Procurement.tla` | one line bought by this site from another one that runs the same code |
| `Credits.tla` | abstract: what the users' wallets promise |
| `MemberLevels.tla` | totals, levels, their hooks, and the whole-row saves of users |
| `WalletCredits.tla` | recharges, gift cards and corrections, over `MemberLevels` |
| `Payouts.tla` | abstract: what a withdrawal promises the shop |
| `WithdrawalRows.tla` | how a withdrawal picks, splits and binds rows (no state) |
| `ResellerLedger.tla` | a reseller's profit entries, their confirmation, the account row, withdrawals |
| `Commissions.tla` | an affiliate's commissions, their confirmation and withdrawals |
| `AfterSale.tla` | payment, refunds and cancellation of sales, composing the two modules above |
| `SumTheorems.tla` | lemmas about sums over finite sets, for the proofs about money and stock |
| `OrderPaymentProofs`, `OrderFulfillmentProofs`, `ProcurementProofs`, `WalletCreditsProofs`, `AfterSaleProofs` | theorems about the module named before `Proofs`, proved with TLAPS |
| `OrderMoneyProofs`, `AfterSaleMoneyProofs` | the theorems about the money of `OrderPayment` and of `AfterSale`, on top of the proofs above |
| `MC*.tla`, `*.cfg` | the small instances; a cfg is named after its module and its question |
| `PROJECT.json` | components, runs, mutants, the map from definitions to source lines, hazards, findings |

Run one with `tlc -config OrderPayment_core.cfg MCOrderPayment`. The proofs are checked with `tlapm`
on `SumTheorems`, `OrderPaymentProofs`, `OrderMoneyProofs`, `OrderFulfillmentProofs`,
`ProcurementProofs`, `WalletCreditsProofs`, `AfterSaleProofs` and `AfterSaleMoneyProofs`.

## 1. The system

The repository is one Go server (gin, gorm, asynq) with two Vue applications. A *root order* has one
*child order* per line. Everything is stored in one SQL database; work after a commit goes through
an asynq queue, or in goroutines of the request.

### Components

| component | state | operations | talks to |
|---|---|---|---|
| order payment (`payment/application`) | `payments` rows; the root order's `status`, `paid_at`, `wallet_paid_amount`, `online_paid_amount` | `CreatePayment` (reuse a link, start one, pay by wallet, roll back), `HandleCallback`, `CapturePayment`, `markOrderPaid` | wallets, gateway, order, dispatch |
| order cancellation and status (`order/application`) | `orders` rows of parent and children | `createOrder`, `CancelOrder`, `CancelExpiredOrder`, cancel on read, `UpdateOrderStatus`, `SyncParentStatus` | payments (expire), wallets (release), stock, secrets, coupons |
| fulfillment (`fulfillment`) | `fulfillments`, unique per child order | `CreateAuto` (queue task), `CreateManual` (administrator) | secrets, orders, mail, downstream callbacks |
| card secret stock (`cardsecret`) | `card_secrets`: available, reserved or used, and by which order | reserve, release by order, mark used; import and administrators' edits | orders, fulfillment |
| manual stock | `manual_stock_total`, `_locked`, `_sold` of a SKU | reserve, release, consume: one conditional UPDATE each | orders, payment |
| wallets (`wallet`) | accounts and an append-only ledger with unique references | allocate to an order, release, credit an underpayment, hold and release a gateway fee, credit a recharge or a card, adjust | payment, order, gift cards |
| wallet recharge (`payment/application`) | a recharge row and its payment row | create, open, roll back, expire, callback | gateway, wallet, member levels |
| member levels (`memberlevel`) | `member_level_id`, `total_recharged`, `total_spent` of a user | hooks after a recharge and a paid order, upgrade, whole-row saves, backfill | payment, wallet, identity |
| gift cards (`giftcard`) | status, user, deletion of a card | redeem, edit, delete, set a batch's status | wallet |
| procurement (`procurement`) | `procurement_orders` | create after payment, submit, callback, poll, scan, retry, cancel | supplier, order, fulfillment |
| shared stock and upstream APIs (`upstreamapi`) | references to a downstream's order numbers | create and pay an order for another site, answer its queries, cancel | order, payment, downstream callbacks |
| downstream callbacks (`downstreamcallback`) | the callback state of a reference | enqueue, send, retry, give up | fulfillment, the other site |
| refunds (`order/application/refund`) | refund records, `refunded_amount`, the order's status | refund to the wallet or by hand | wallets, reseller ledger, commissions |
| reseller accounting (`reseller`) | ledger entries, the account row, withdrawal requests | post profit, deduct a refund, confirm, withdraw, review | payment, refund |
| affiliate commissions (`affiliate`) | commissions, withdrawal requests | create, confirm, reduce, reject, withdraw, review | payment, refund, cancellation |
| coupons | usage counts | use, roll back | order |
| job queue | delayed and repeated tasks | timeout cancel, auto fulfil, submit, poll, expire, confirm, mails | all of the above |
| catalog, cart, promotion, identity, settings, content, notification, reporting, risk control, invoices, adapters, frontends | their own tables | mostly create, read, update, delete | — |

`PROJECT.json` lists the same parts with their directories and what is modelled of each.

### What is hard

- **Work that spans transactions.** A payment link is created in one transaction, requested from the
  gateway outside any, and its success handled in a third; other links, a failure, an expiry or a
  cancellation fit in between, and the process may stop there. A recharge is the same; buying a line at
  another site takes six transactions at two sites.
- **Reads outside the transaction that uses them.** All cancellers, `UpdateOrderStatus`, `CreateAuto`,
  the callback's repeated status, `SyncParentStatus`, polls, every login, profile edit and change of
  password, `SetUserLevel`, a card's edit and `HandleOrderCanceled` decide on a row they have read
  without a lock and write without a condition on it, several of them every column of the row.
- **A gateway that repeats, reorders and contradicts itself**, and that lets a buyer pay a link the shop
  has already replaced.
- **A supplier whose answer is lost**: it may have bought the line, created it, or done nothing.
- **Money in many places**: the buyer's wallet, the reseller owner's fee hold, the gateway, the
  reseller's ledger and its cached sums, the affiliate's commissions.
- **Shared stock**: what one order gives back another may have reserved.
- **A parent whose status is a cache of its children's.**
- **At-least-once tasks** that must find their order in whatever state it is by then.

What makes each component correct:

- *payment*: an order is paid once and only when covered; money taken has exactly one use; wallets
  balance; a fee hold follows its order; nothing waits forever.
- *cancellation*: gives back everything once; does not undo a payment.
- *fulfillment and secrets*: a secret goes to one line, with its record, once, and only when paid.
- *manual stock*: no unit appears or disappears; a paid order is sold once.
- *parent status*: never ahead of the lines.
- *procurement*: a line is bought at most once, delivered only what was bought, and not left
  accepted when the supplier has finished.
- *recharges, cards, corrections*: each is credited once, to its user, when its money is in; what was
  paid is credited, however late; a success says so only when credited.
- *member levels*: a recharge counts once; levels rise to what the totals reach, and hooks never
  lower one.
- *refunds, profits, commissions*: what is taken back adds up to what was earned, never more, and not
  before it was earned; what is due is confirmed; a withdrawal is covered, backed by its rows, and
  ends once.
- *coupons*: a use count is that of the orders that kept their coupon (not modelled).

## 2. The models

An action is one database transaction, or one statement outside a transaction, with everything it
calls. A value read before the transaction that uses it is kept in a record of the reader and may be
stale when used. A request that stops — crash, lost connection, failed statement — is one that takes
no further step.

### OrderPayment

One root order, up to `MaxPayments` payments over a set of channels.

| variable | in the code |
|---|---|
| `order` | the `orders` row: status (anything past paid is "paid" here), paid, wallet and online parts |
| `payments` | the `payments` table: status, channel, amount, link, superseded, expired_at, exception code |
| `balance`, `owner`, `hold`, `credited` | the two wallets, the fee ledger's reserve/release entry per payment, the underpaid credits |
| `request`, `reusing` | `CreatePayment` calls between their transactions |
| `cancels` | what each canceller has read: the allocation it will give back |
| `saves` | callbacks that will save a row they have read |
| `gatewayPaid`, `acked`, `expired` | the buyer has paid a link; the shop has acknowledged its success; the deadline has passed (all external) |
| `outside` | what else has moved the buyer's wallet: other orders, recharges, corrections |
| `settledBy`, `misread` | history: the payment whose transaction paid the order; what a cancellation gave back beyond what it claimed |

`CreatePayment` is `RequestReuse`/`ReuseSupersede` (a live link of the channel is handed out again),
`StartOnline` then `ProviderAccepts` or `ProviderRejects` then `SupersedeOthers`, and `PayByWallet`.
`HandleCallback` is `CallbackSucceeds`, `CallbackFails`, `CallbackPends`, and the idempotent branch in
two steps, `CallbackReadsSame` and `SaveMeta`. A cancellation is `CancelRead` and `CancelCommit`; the
five cancellers differ in the guard of their read: the buyer, the timeout task, a query that finds the
order overdue, an administrator, and an administrator canceling the lines, whose last step
(`ChildCancelCommit`) is `SyncParentStatus` and writes the status only. `WalletMoves` is any other
transaction on the buyer's wallet: it may spend what an allocation has given back, so that the next
allocation is smaller. The owner's wallet moves only by this order's holds: what is released is what the
fee ledger recorded for a payment, whatever the balance is by then.

Abstracted: amounts are small integers in the order's currency; conversion, channel limits and
signatures are in the amount and in which notices arrive; the deadline is tested when the transaction
commits; row locks make a transaction atomic (on PostgreSQL the code locks the payment and the order
rows; SQLite has one writer).

### OrderFulfillment

Several orders, at most one automatic and one manual line each, one automatic product with its
secrets and one manual SKU. Both kinds share `parent`, `child`, `paid`.

| variable | in the code |
|---|---|
| `parent`, `child`, `paid` | `orders.status` of root and child orders, `paid_at` |
| `secret`, `stock`, `fulfillment` | `card_secrets`, the SKU's three columns, `fulfillments` |
| `dispatches`, `tasks` | what `enqueueOrderPaidAsync` has not enqueued yet; runs left of a line's task |
| `deliveries` | `CreateAuto`/`CreateManual` calls past their unlocked checks, with the secrets selected |
| `updates` | cancellations and `UpdateOrderStatus` calls past their unlocked checks |
| `syncs` | parent summaries, due, or computed and not written |

`CreateOrder` and `MarkOrderPaid` are the transactions of those names; payment itself is
`OrderPayment`'s subject, so here an open order may simply be paid. `AutoStart`, `AutoPick`,
`AutoCommit` and `DeliveryFails` are the task: the status check, the selection without locks, the
conditional MarkUsed with the unique record, and the ways it is undone. `ManualStart`/`ManualCommit`
is a delivery by hand. `CancelRead`, `ParentRead`, `ChildRead` are the checks and `UpdateCommit` the
writes. `SyncRead`, `QueryRead`, `SyncWrite` are the parent's summary after an update or a delivery,
and on a query. Runs of one line's task may overlap: the queue repeats a run whose acknowledgement
was lost.

### Procurement

One line of a paid order at this site, A, and the orders the other site, B, creates for it.

| variable | in the code |
|---|---|
| `protocol` | the connection's protocol: B's open API, or SharedStock |
| `row`, `order`, `record` | A's `procurement_orders` row, its child order's status, its fulfillment record |
| `submits`, `polls` | queued tasks of A |
| `calls` | `SubmitToUpstream` runs: A's step, what it has read, B's handler of the request, the reply |
| `upstream` | B's orders: status, whether the reference and the fulfillment rows exist |
| `callback` | B's callback state of each reference, sends queued |
| `reports`, `recording` | what A was told and has not written yet; reports between the row's update and the record |
| `rollback`, `canceling` | a rollback that has read "fulfilling"; a `CancelManual` that has read the row |

`SubmitRead` … `SubmitEnds` is the submit task, with every way it fails: the configuration, a refusal,
a response that is lost (retried under one protocol, recorded as uncertain under the other), a worker
that dies. `ServeKnown`/`ServeCheck`, `ServeCreate`, `ServeRef`, `ServePay`, `ServeAnswers` is B's
`CreateOrder` (or `Trade`), one action per transaction; A may have stopped waiting long before.
`SendCallback`, `PollRead` and `ScanRead` are three ways A is told; `Requeue`, `Delivered` then
`Record`, and `Withdrawn` are `HandleUpstreamCallback`. `RetryManual`, `CancelRead`/`CancelWrite` are
the administrators. `Faults` names what else goes wrong: "overlap" (B serves two requests of the line
at once), "ref" (B cannot write its reference), "record" (A cannot write the fulfillment).

Abstracted: one line, no prices, and B's own order life is `pending_payment`, paid, delivered,
canceled or refunded, which is what B tells.

### MemberLevels and WalletCredits

| variable | in the code |
|---|---|
| `user`, `hook`, `saver` | the user's level and totals; runs of `OnRechargeCompleted` and `OnOrderPaid`; whole-row saves that have read their row |
| `saves`, `unsettled` | bound; history: users that a save has changed, or a hook has given up on, since a hook last looked at them |
| `payment`, `recharge`, `creator`, `timer` | the two rows of a recharge, where its creation is, the expiry tasks queued |
| `paid`, `notice` | what the gateway has taken (external); reports being handled and the status they have read |
| `card`, `editor` | `gift_cards`; an administrator's edit that has read a card |
| `ledger`, `balance` | `wallet_transactions` by reference; the accounts |

A recharge is created, opened or refused by the gateway, scheduled to expire or not (`Opened`,
`Refused`, `Scheduled`, `ScheduleFails`, `CreationEnds`), and expires (`ExpireRecharge`). A report is
received, decided on, and either saves the row it has read (`SaveMeta`) or is applied under the locks
(`ApplyNothing`, `Apply`), which credits the wallet and starts a hook. A hook adds to a total, reads
the user, and raises the level if it is still the one it read, three times at most. Everything else
that changes a user reads the row without a lock and saves all of it, level and totals included:
administrators and the default level with a level of their own (`SetUserLevel`, `AssignDefaultLevel`),
logins with a password, with 2FA or by Google, edits of the profile, changes of e-mail and password and
the administrators' edit of an account with the level they read (`UpdateAccount`); `SaveRow` is the
`Update` of `gormstore/store.go:69` for all of them. Any number of saves overlap. Cards are
redeemed in one transaction and edited in two steps.

### ResellerLedger, Commissions and AfterSale

`AfterSale` owns the sales: the terms they were concluded on, the status and `refunded_amount` of root
and lines, and refunds that have read and not committed. It composes one reseller's ledger and one
affiliate's commissions; both withdraw whole rows in a given order and split the last one, which is
`WithdrawalRows`.

| variable | in the code |
|---|---|
| `terms`, `status`, `refunded`, `refunding` | the order snapshot and the affiliate's share; `orders` rows; a refund with the profit status it has read |
| `ledger`, `posted`, `balance`, `payouts` | `reseller_ledger_entries`, the key of a sale's profit, `reseller_balance_accounts`, withdrawal requests |
| `confirming`, `due`, `unlisted` | the confirmation task between its two statements; entries whose period has ended; history |
| `commissions`, `paidHook`, `withdraws`, `canceling`, `overwritten` | the affiliate's tables; the hook of a payment; rows a cancellation has read; history |

`Pay` posts the profit in the transaction that pays; `PaidHook` creates the commission after it, or is
lost. `RefundBegins`, `RefundCommits`, `RefundFails` is a refund of a whole sale: it holds the order's
lock throughout and reads the profit's status without one. `RefundLine` is a refund of one line, which
neither the ledger nor the commissions know. `Cancel` is an administrator's; its commissions are read
and saved outside the transaction (`CancelReads`, `CancelSaves`). `ConfirmLists`/`ConfirmMarks` are the
two statements of the resellers' confirmation. Deductions use the code's rounding (`Share`: half up).

Abstracted: the wallet credit of a refund and the share of the payment fee in its record; one currency;
the order of due times among entries is that of their sales; a refund of a line is one step, though
sibling lines are locked one by one (`refund/fee.go:135` then reads what both have refunded so far).

### The abstract specifications

`OrderSettlement`: an order is open until one payment settles it or it is closed, never reopens, and
fee holds survive only for the payment that settled it. `SecretDelivery`: a line is delivered at most
once with exactly its quantity, and a secret stays with its line. `Supply`: a line is bought at most
once and received at most once, from that purchase. `Credits`: a source of money is credited once, to
a user it is for, when it is due, and no balance is negative. `Payouts`: a withdrawal is covered by
the pool, leaves it while it waits, and is paid or put back in full, once. Each is an instance inside
the detailed module with a refinement mapping, checked as `ImplementsSettlement`,
`ImplementsDelivery`, `ImplementsSupply`, `ImplementsCredits` and `ImplementsPayouts`, and all five are
proved (section 5).

## 3. The runs

| run | shows | states |
|---|---|---|
| `payment_core` | two links, two channels, a wallet of 2 for a total of 3 that other business moves between allocations, the timeout task and an administrator who cancels whatever the status: types; what the wallet and the order hold is accounted for, up to one cancellation that claims another allocation than it read; the owner's wallet balances; holds follow the order; online and wallet parts are complementary; each payment has one outcome; one settlement, covered; refinement | 1 583 000 |
| `payment_live` | two links, a repeated notice of the first that saves a stale row, lines canceled by an administrator: an order leaves pending; gateway money is recorded for good, by a report repeated until it is acknowledged | 277 000 |
| `fulfillment_secrets` | two orders, two secrets, task retries, cancellations, deliveries by hand: secrets and records agree; reservations belong to live lines; nothing before payment; refinement | 639 000 |
| `fulfillment_orders` | a mixed order and a manual order of two units share three: types, stock balance, the parent not ahead of its lines | 905 000 |
| `fulfillment_live` | a paid automatic line does not wait forever | 247 000 |
| `procurement_submit` | two submit runs, two orders B could create, both protocols, lost and late responses, dying workers: types; accepted rows name an order; refinement | 1 957 000 |
| `procurement_reports` | one run, callbacks, polls and the scan racing it, "ref" and "record" faults: fulfilled means delivered by B; an accepted row is resolved | 611 000 |
| `wallet_credits` | two reports at once, expiry, failed creation, hooks racing a whole-row save of the user, a card edited while redeemed: types; success is credited; counted once; what is paid is credited; the level goes down only to what a save carries and is caught up; refinement | 273 000 |
| `aftersale` | two sales resold or referred, refunded in parts, by line and in full, canceled, confirmed, withdrawn: types; what is taken back adds up, in order; the account is the ledger; commissions back their withdrawals and never exceed the rate; refinement; what is due is confirmed | 415 000 |

Three more runs, described in section 4, expect a violation.

The bounds of the order models. Two payments give every order of creation, failure, replacement and late
success of two links; the third party to such a race is the wallet or a canceller, which is there too. A
balance of 2 for a total of 3 lets the wallet cover nothing, a part, and (after an underpaid credit) all
of the order, and lets the next allocation be smaller than the one a canceller has read. Two secrets or
three units for two lines is the smallest stock in which one order can take what another gave up while
its own remains. `MaxTries` 2 has a task fail and run again; `MaxInFlight` bounds how many stale readers
exist at once, one being enough to interleave with every other actor. `MaxStaleSaves` bounds the
callbacks that will save a row they have read: one in `payment_live` (`MCSavesFirst`: of the first link
only) and `payment_stale`, none in `payment_core`, where `MoneyHasOneOutcome` would be false (section
4); the theorems of section 5 hold for the other properties with any number. `Outside` bounds the net of
the wallet's other movements: -1 to 1 in `payment_core`, which makes the allocation of a retry smaller
and larger than the one a canceller has read. The constraint `MCFocus` has the wallet moved only while a
canceller holds an allocation or once that has made a difference: at other times it is as if the order
had found another balance. `payment_core` has "failed" for what the gateway reports besides success,
`payment_live` has "pending" and "expired".

The bounds of the others. In `procurement_submit` two calls and two slots let a second request meet
every state of the first and B create a second order; reports are left out there and have a run of their
own, with one call, one report on its way besides the scan's, one poll, and two callback tries before B
gives up. `wallet_credits` has two reports of one recharge at once and an order's hook, which is the
smallest in which two hooks with different targets race. `Savers` and `MaxSaves` bound the whole-row
saves of the user: one, by an administrator or by the user, at any step of the hooks; that two of them
overlap is left to the proofs. The constraint `MCFocus` explores cards and corrections apart from
recharges and levels, since they share only the ledger, each under its own references; and overlapping
reports before, not after, a save of the user, a paid order or a backfill. `wallet_credits` leaves two
more things to the proofs, whose theorems hold with them: the report "expired", which `CanApply` treats
as "failed", and a gateway whose success overtakes the answer to the creation (`Unlinked`). In that last
case `CountedAtMostOnce` fails: see section 4. `aftersale` refunds amounts that round (1 and 2 of a
total of 3 on a profit of 2), a sale without a payment fee and one whose fee takes its whole profit, and
two withdrawals each; its `MCFocus` takes the sales in one order, lets two things be under way at a time
(one once money is withdrawn), and withdraws nothing after a refund by line, or after a cancellation of
a resold sale.

`SYMMETRY` is used in `fulfillment_secrets`, `procurement_submit` and `procurement_twice`
only, which have no liveness property and whose permuted values are alike. Deadlock checking is off where a
finished order, row or recharge stops because nothing more can happen to it; in the after-sale runs it
is on.

Every property of these runs has a mutant in `PROJECT.json`, an operator `Bug_...` next to the one it
changes; with it TLC finds the property violated.

### Fairness

- *The clock, the timeout task* (`WF` on `DeadlinePasses`, and on the reads and commits of
  "expiry"). The task is enqueued in `createOrder`; if that fails the order is canceled at once
  (`order_service.go:729`). A failed update is returned to asynq, which runs the task again.
- *The gateway repeats a success* until it is acknowledged and not after (`WF` on `FirstSuccess`, which is
  off once a success of the payment has committed: when a stale save takes it back, nobody repeats it and
  the row stays pending, so that `GatewayMoneyRecorded` is about a link no notice of which ever holds a
  stale row, `NeverStale`, whatever happens to the others; for recharges
  `SF` on receiving a report of success and on handling it to its end, because a report is handled
  between others and may be lost). A failed transaction answers with an error, so the notice is sent
  again. The settling transaction is assumed to commit eventually: when manual stock is short it does
  not (`payment_service_callback.go:476`).
- *Nothing else* in `OrderPayment`: creations, cancels by people and rejected links may stop anywhere.
- *Dispatch and tasks* (`fulfillment_live`): the process that recorded the payment lives to enqueue
  the tasks — no sweep would find the order otherwise, see the hazard — and a task that is held runs.
  That run lets no administrator cancel a single line: such a line is set to paid again without its
  secret and may wait forever (section 4).
- *The scan* (`Procurement`, `WF` on `ScanRead` and on handling what A was told): `SyncAcceptedOrders`
  is a periodic task. Callbacks, polls, responses and B's side have none: they may all be lost.
- *Notices and hooks* (`WalletCredits`): what a request has begun goes on (`WF`), unless its process
  ends, which `NoticeLost` and `HookLost` allow at any step.
- *The confirmations* (`AfterSale`, `WF` on `ConfirmLists` and `ConfirmDueCommissions`, `SF` on
  `ConfirmMarks`): the scheduler runs both every minute (`app/jobs/service.go:56`), and a transaction that
  is rolled back now and then succeeds in the end.

## 4. What the code does otherwise

Each of these runs expects TLC to find a violation of one thing the repository says.

| run | what happens |
|---|---|
| `payment_stale` | a repeated pending report, read before a success and saved over it as a whole row, turns the payment that paid the order back to pending (`payment_service_callback.go:114`), though the comment over the branch says a success is not taken back (`:103`) |
| `procurement_twice` | two requests with one downstream order number, served at once: both find no reference and the line is bought twice, though the check says it may not be |
| `aftersale_lines` | a sale refunded in full line by line leaves the reseller its whole profit; the operations guide has a refund take it back by the same snapshot (`docs/ops/agent-onboarding.md:37`) |

Seen in the same models and not given a run of their own.

*Orders.* A cancellation reads an allocation of 2, a refused link gives it back, 1 is spent elsewhere,
the next payment allocates 1: the cancellation claims that and credits 2
(`wallet/application/order_balance.go:98`, `:130`), though the release "atomically claims the order
allocation before asking Wallet to credit it back" (`order_wallet_bridge.go:80`). In general a cancel
credits the allocation it has read and clears the one that stands (`order_service_child.go:87`), so it
returns nothing when the allocation came after its read, too little when it grew and too much when it
shrank: `BuyerMoneyConserved` counts the difference in `misread` and says that at most one cancellation
makes one, and nothing else does. A canceller that has read the order pending commits after a callback
has paid it: a paid order is canceled (an administrator needs no race). A link the gateway refuses
releases the wallet part of an order another link has just paid. Canceling every line closes the order
by its summary: its link, its fee hold and its wallet part stay. A canceled line is set to paid with its
siblings, its stock already given back. A late cancel releases units another order has locked. The fee
hold of a replaced link is given back although its late success still pays the order (the guide says a
paid order's hold becomes an expense, `docs/ops/zhenchuan-epay-v2-acceptance.md:46`). A line an
administrator sets back to fulfilling, after a read that found it so, leaves the parent delivered ahead
of it until the next summary; `ParentNotAhead` is stated for updates that do not (`NoLineSetBack`). Two
deliveries that end together may leave the parent partially delivered until the next query. After a
stale save the row of a payment whose success was acknowledged stays pending: nothing repeats the
report.

*Procurement.* A reference that could not be written makes the next request of the same order number
buy again, and no callback is ever sent. When A's fulfillment record fails after the row was set to
fulfilled, polls and the scan skip the row: only B's own callback retries can still make it.

*Recharges, levels and cards.* A login reads the user, the user's level is raised, and the login saves
the row it has read (`userauth/application/service.go:398`, `:440`): the level is lost, with nobody
involved who sets levels, though one given at a login is meant not to be overwritten by a later save of
the row (`telegram_oauth_test.go:374`, `service.go:375`). The save puts back the totals as well: what a
hook has counted since the row was read is lost, and the level is looked at again only after the user's
next recharge or order. `UpgradeOnly` and `LevelCaughtUp` say that it goes no further. If a success
overtakes a creation that then fails, the rollback turns the recharge to failed, and the next success
starts a second hook: the credit is posted once, the member's total counts twice. A repeated report
saved over a success undoes the payment's status until the next report. An edit of a card saved over a
redemption makes the card redeemable again; the next user is told it worked and is credited nothing,
since the reference is there.

*Refunds.* The root order and its lines have a `refunded_amount` each and no status guard, so that
together they can refund more than was paid, and a later partial refund of a line turns a refunded
order back to partially refunded. A full refund deducts the gross profit though gross less fee was
posted. An administrator's cancel of a paid reseller order leaves the profit; a guest's manual refund leaves
the commission (`refund/service.go:368`); a paid hook that runs late creates a full commission on an
order already refunded or canceled; rejecting a withdrawal after a full refund returns the commission
bound to it. `HandleOrderCanceled` saves commission rows it has read over a withdrawal made
meanwhile (`commission.go:134`): the request stays, unbacked. The account row misses entries that
became due between the two statements of a confirmation, until the next refresh.

### Hazards outside the list

`PROJECT.json` lists the hazards the properties are for, and says where they stop short: that a paid
order is not closed by a late canceller is not promised (`OrderSettlement` closes from any phase); a
stop before a paid order's tasks are enqueued is assumed away in `fulfillment_live`;
`FulfilledWasDelivered` does not say that the fulfillment record is made; `BalanceIsLedger` excuses the
entries a confirmation has missed (`unlisted`), and `CommissionsBacked` the rows a cancellation has
overwritten. The hazards below are real too, and no property covers them.

| at | what |
|---|---|
| `payment_service_create.go:126` | the deadline is compared with a clock read before the transaction commits: a link may be created for an order just overdue; the model tests the deadline at the commit |
| `payment_service_callback.go:251` | the callback locks the payment before the order, the creation the order before the payment: the database resolves the deadlock by failing one of them, which the models allow anyway |
| `jobs/consumer/consumer_order.go:300` | the timeout task reports success when the order could not be fetched, so that it is not run again; a query still finds the order |
| `order_service_child.go:307` | canceling the last line closes the order without the rest of a cancellation |
| `order_service_child.go:61` | a buyer's cancel keeps the coupon the order used; the other cancellers give it back |
| `payment_service_callback.go:476` | without enough manual stock the paid transaction fails, and with it the record of the payment's success |
| `fulfillment/application/service.go:121` | a delivery by hand of an automatic line leaves its secrets reserved |
| `procurement/application/submit.go:168` | `markProcurementError` writes back the status it has read |
| `procurement/application/create.go:97` | a row whose task was not enqueued stays pending: no sweep submits it |

## 5. The proofs

`OrderPaymentProofs.tla` proves, for every number of payments, set of channels, amounts, cancellers
and reports the assumptions of `OrderPayment` allow:

| theorem | states |
|---|---|
| `TypeCorrect` | `Spec => []TypeOK` |
| `OnlineAlwaysComplement` | `Spec => []OnlineComplement` |
| `EverySettlementCovered` | `Spec => SettledOnlyWhenCovered` |
| `HoldsAlwaysFollowOrder` | `WholeCancels => (Spec => []HoldsFollowOrder)` |
| `TablesImplementSettlement` | `WholeCancels => (Spec => ImplementsSettlement)` |

`WholeCancels` says that nobody closes the order by canceling its lines alone; without it the two
statements are false, as section 4 says.

The argument. `TypeOK` is inductive as it stands: the amounts are typed by their ranges and the
allocation by the total, so that a release never makes a column negative. `HoldsFollowOrder` is not:
a step that releases the holds of an order which is neither pending nor canceled must know that
`settledBy` names the payment that paid it. `SettleInv` adds that a pending order is unpaid, that a
paid status means `paid_at` is set, and that `paid_at` is set exactly when a payment settled the
order; with `OnlineComplement` and, under `WholeCancels`, `HoldsFollowOrder` it is inductive.
`EverySettlementCovered` needs `LinkInv` as well: whatever a gateway can report on (a link, a paid
link, a request under way, a row waiting to be saved) is an online payment in the table, so that its
amount is one `CreatePayment` computed. Each invariant is shown to hold initially and to be preserved
action by action (one step per disjunct, shared cases as lemmas), and the theorem is the usual
temporal combination. The refinement needs `TypeOK` only: every action maps to the drop of a fee
hold, a settlement, a link, a close, or a stutter. Assumptions: the named ASSUMEs of the module,
which TLC evaluates in each run.

`OrderMoneyProofs.tla` adds the money of the order, for the same parameters and for any table of fees:

| theorem | states |
|---|---|
| `OwnerFundsAlwaysConserved` | `Spec => []OwnerFundsConserved` |
| `BuyerMoneyAlwaysConserved` | `Spec => []BuyerMoneyConserved` |
| `GatewayMoneyUsedOnce` | `NoStaleSaves => (Spec => []MoneyHasOneOutcome)` |
| `SuccessAlwaysStands` | `NoStaleSaves => (Spec => []SuccessStands)` |

The first two are sums over payments, and each step changes one payment's term, or several at once when
a success releases the holds of its siblings. `RowInv` says that a row not inserted yet holds no fee and
was credited nothing, and that a row waiting to be saved differs from the table's in neither channel nor
amount: a stale save moves no money. `BuyerMoneyConserved` counts the other movements of the wallet in
`outside` and what one cancellation gave back beyond its claim in `misread`, for any canceller's read; it
is inductive, because a claim leaves the order canceled and without an allocation, and nothing allocates
to a canceled order. That a cancellation gives back no more than it clears is not provable: it is false
(section 4). The last two theorems need `NoStaleSaves`
(`MaxStaleSaves = 0`): without it the states of `payment_stale` violate both. Their invariant, `OutcomeInv`,
says that a payment short of success has had no consequence yet and that a request still at the gateway
has no link a notice could be about.

`OrderFulfillmentProofs.tla` proves, for every set of orders, lines, quantities and secrets, every
number of task runs and of stale readers, and every status an administrator may set:

| theorem | states |
|---|---|
| `NothingDeliveredUnpaid` | `Spec => []DeliveredOnlyWhenPaid` |
| `SecretsAlwaysMatch` | `Spec => []SecretsMatchFulfillment` |
| `TablesImplementDelivery` | `Spec => ImplementsDelivery` |
| `OrdersTyped` | `Spec => []TypeOK` |
| `StockAlwaysBalanced` | `Spec => []StockBalanced` |
| `ReservationsAlwaysLive` | `Spec => []ReservationsAreLive` |
| `ParentNeverAhead` | `NoLineSetBack => (Spec => []ParentNotAhead)` |

`DeliveredOnlyWhenPaid` is not inductive, because the status is checked before the transaction:
`PaidInv` adds that a deliverable line, a delivery under way, and an update to fulfilling under way
all belong to a paid order. The last is where `allowedTransitions` is used: only a paid line may
become fulfilling, and nothing but the payment sets a line to paid. `SecretsMatchFulfillment` needs
that a delivery under way has selected its quantity and that a line without an automatic record holds
no secret at all (`SecretInv`); every transaction but `AutoCommit`'s leaves used secrets alone
(`UsedKept`), which also makes it a stutter of `SecretDelivery`. Both rest on `TablesTyped`, the part
of the type invariant about the rows a delivery reads and writes.

`OrdersInv` adds to it the rest of the types and which stage an order is in: not created, unpaid, or
sold, with the statuses its parent and lines may have there. `StockInv` is `StockBalanced` with the
counters natural: each transaction moves the columns by sums over the lines of one order, and the
conditional updates keep them from going below zero. For `ReservationsAreLive` a line must never reserve
more than its quantity: `ReservedInv` says so, and that a delivery which has selected secrets has selected
every one its line has reserved, so that its commit leaves none behind. `AheadInv`, for `ParentNotAhead`,
extends it to everything that may still write the parent: a summary computed and not written, and an
update past its checks. Its condition, that no administrator sets a line back, is needed: see section 4.

`ProcurementProofs.tla` proves, for every number of calls, of orders B may create, of retries, polls,
callback tries, queued tasks and reports, under both protocols:

| theorem | states |
|---|---|
| `TypeCorrect` | `Spec => []TypeOK` |
| `AcceptedAlwaysRegistered` | `Spec => []AcceptedIsRegistered` |
| `FulfilledAlwaysDelivered` | `Spec => []FulfilledWasDelivered` |
| `SitesImplementSupply` | `OneAtATime => (Spec => ImplementsSupply)` |

The first three hold under every fault. Their invariant, `Sourced`, says that everything A has been
told is true of B and stays true: a call past its creation names an order that exists, a reply with a
secret names one that was delivered, a report of a delivery likewise, and B's orders only advance
(`UpstreamGrows`). `OneAtATime` says that B serves one request of the line at a time and can write its
reference; then, by `Exclusive`, no
request has passed B's check while a reference exists, there is one reference at most, and whatever
was bought has it. Without it the statement is false: `procurement_twice`.

`WalletCreditsProofs.tla` proves, for every set of users, recharges, cards and corrections, every
number of reports and hooks at once, every ladder of levels:

| theorem | states |
|---|---|
| `TypeCorrect` | `Spec => []TypeOK` |
| `SuccessAlwaysCredited` | `Spec => []SuccessIsCredited` |
| `LevelsOnlyRise` | `Spec => UpgradeOnly` |
| `LevelAlwaysCatchesUp` | `Spec => []LevelCaughtUp` |
| `RechargesCountOnce` | `NoEarlyReport => (Spec => []CountedAtMostOnce)` |
| `CreditsImplemented` | `Spec => ImplementsCredits` |

`IInv` adds to the types that a hook about to write has found a higher level (`UpgradesUp`), that what
is in the ledger was due and is under a user it is for (`PostedWhenPaid`), and that a report of success,
or a report whose row has read one, is of a recharge that was paid or credited (`ReportsTrue`): that is
what makes the whole-row save of `SaveMeta` harmless to `SuccessIsCredited`. `LevelCaughtUp` speaks of
users for whom no hook runs; `WillCatchUp` says the same of one for whom hooks do: one of them has yet
to read the user, or has read a level that has been passed, so that it will read again, or is about to
write a level at least as high as everything the totals reach; a save that changes the row leaves the
user in `unsettled`, one that finds it as read changes nothing. `CountedAtMostOnce` compares two sums,
over hooks that have not counted yet and over recharges that were credited. `CountInv` adds that a row
waiting to be saved, read by an administrator or by the user's own request, is within the same bound
(`TotalsWithin`; not that it is behind the user's own total, which an older save may have put back in
between), that a recharge is paid only once its creation was answered, and that a credited recharge
stays a success; `NoEarlyReport` (`Unlinked = {}`, no success before the answer to the creation) is
needed for the last two: section 4 has the counterexample.

`AfterSaleProofs.tla` proves, for every set of sales and lines, all terms, amounts, fees and
withdrawals:

| theorem | states |
|---|---|
| `DeductNeverAhead` | `Spec => []DeductAfterProfit` |
| `BalanceAlwaysLedger` | `Spec => []BalanceIsLedger` |
| `EntriesFollowRequests` | an entry is locked, withdrawn or free exactly as its request is pending, paid or none |
| `WithdrawnIsFinal` | an entry that was paid out never changes again |

In these four, sums stay opaque: the account is refreshed from the same expression. `DeductNeverAhead` is
the one with a race in it: a refund reads the profit's status and writes the deduction's at its commit.
`SeenHolds` says that what it has read, if beyond pending_confirm, is still beyond it, because nothing
goes back; and a confirmation marks a sale's profit and deductions together, because they are due
together.

`AfterSaleMoneyProofs.tla` proves what the sums are, for the same parameters:

| theorem | states |
|---|---|
| `ProfitAlwaysReversed` | `Spec => []ProfitReversed` |
| `RequestsAlwaysBacked` | a withdrawal of the ledger that waits or is paid is worth the entries bound to it |
| `PayoutsImplemented` | `Spec => ImplementsPayouts` |
| `CommissionsAlwaysBacked` | `Spec => []CommissionsBacked` |
| `CommissionsWithinRate` | `Spec => []CommissionWithinRate` |
| `AfterSaleTyped` | `Spec => []TypeOK` |

`MoneyInv` is `IInv`, the first two properties themselves, and three facts they need: amounts are integers
(`Counted`), entries belong to sales whose profit was posted (`EntriesPosted`), and what was refunded of a
sale and is being refunded fits its total (`RefundsFit`). A withdrawal takes whole rows in order until it
has enough: what precedes each candidate is a set of candidates, these sets form a chain, and so at most
one row is cut. The lemmas on `WithdrawalRows` say that the rows taken then sum to what was asked, and
that cutting a row and binding the taken ones changes no other sum. That carries `RequestsBacked` and
`ProfitReversed` over a withdrawal; a refund appends one deduction, whose rounding is bounded by that of
the refunds before it; the refinement follows because what a request takes out of the balance is what
its rows were worth. The commissions have their own invariant on top, `CommissionInv`: rows bound to a
withdrawal are neither rejected nor bound to a rejected one, and what a cancellation has read was a
free row of the same sale. A save of such a row over a withdrawal takes it away from the request, which
`CommissionsBacked` counts in `overwritten`.

`SumTheorems.tla` has what all of these need of `SumFunctionOnSet`, the fold of the community module
`Functions`: the sum over a disjoint union (`SumUnion`), the change when one value changes
(`SumChange`), sums of naturals (`SumNat`), equality and bounds term by term. They hold for every finite
set. A fold is a recursive choice, so that its value is defined by induction; the induction is over the
set of those subsets for which the equation holds, because the library's induction theorems take an
operator as a parameter, which the provers cannot instantiate.

Assumptions: the named ASSUMEs of the modules, which TLC evaluates in each run, and the conditions
named in the statements. Each condition is one the code may break, and section 4 says how: `WholeCancels`,
`NoStaleSaves`, `NoLineSetBack`, `OneAtATime`, `NoEarlyReport`. Every other theorem holds without one.

Only model-checked: liveness, which needs fairness and ENABLED — `OrderLeavesPending`,
`GatewayMoneyRecorded`, `PaidLineLeavesPaid`, `AcceptedIsResolved`, `PaidIsCredited` and
`DueEntriesConfirmed`. The theorems are about `Spec`; a run's `LiveSpec` or `FairSpec` implies it.

## 6. What is not modelled, and what could come next

Inside the modules: currency conversion, channel limits, pricing, administrators' imports and edits of
secrets and of stock, orders without children (no path creates them now), unlimited stock, mails,
transfers between users and resellers' deposits, batches of gift cards, expired cards (one that is not
redeemed), administrators' freezes, payment-fee shares of a refund, several currencies.

Left out entirely, with the reason in `PROJECT.json`:

- *coupons*: the use count is one conditional UPDATE in the creating transaction. The one hazard is
  that a buyer's cancel forgets it (`order_service_child.go:61`), which no document speaks about;
- *order risk control, invoices*: checks before an order exists; a copy of its figures;
- *identity*: accounts, sessions and permissions, but for the whole-row saves of users, which
  `MemberLevels` has;
- *gateway adapters, catalog, cart, promotion, settings, content, notification, reporting, the channel
  API and the web applications*: signing, parsing, rendering, queries, and create, read, update and
  delete of tables that no order waits for.

Most of the repository's lines are of that last kind — translations of messages, migrations,
HTTP handlers, adapters for gateways, schemas of settings — so the map covers a small share of them
whatever is modelled of the rest: the models are about the few thousand lines whose transactions meet.

What would add most:

1. `OrderLife`, composing `OrderPayment` and `OrderFulfillment` so that the paid transaction may fail
   for want of stock, and a coupon's use belongs to its order.
2. The wallet credit of refunds, composed with `BuyerMoneyConserved`.
3. Theorems that say what is left when a condition fails: which part of `HoldsFollowOrder` survives a
   cancellation line by line, and how far `CountedAtMostOnce` may be off after an early report.
