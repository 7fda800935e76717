---------------------------- MODULE OrderPayment ----------------------------
(***************************************************************************)
(* Paying for one root order: payment.PaymentService.CreatePayment and     *)
(* HandleCallback, order.OrderService's cancellations, and the two wallets *)
(* they move money through -- the buyer's (order balance) and the reseller *)
(* owner's (gateway-fee hold).                                             *)
(*                                                                         *)
(* An action is a database transaction, or a statement outside one.  A     *)
(* read made outside the transaction that later uses it is an action of    *)
(* its own, and the row read is kept in the reader's state.                *)
(***************************************************************************)
EXTENDS Integers, FiniteSets, Functions

CONSTANTS
    MaxPayments,   \* bound: payment rows the order may get
    Channels,      \* online payment channels
    NoChannel,     \* ChannelID = 0
    Total,         \* orders.total_amount
    BuyerFunds,    \* the buyer's wallet balance at the start
    OwnerFunds,    \* the reseller owner's purchasing wallet at the start
    FeeDeficit,    \* <<channel, amount>> |-> absorbed fee beyond the margin
    LoggedIn,      \* orders.user_id # 0: a guest has no wallet
    Cancellers,    \* who may cancel: "user"; "expiry", the timeout task;
                   \* "reader", a query that finds the order overdue; "admin";
                   \* "child", the administrator canceling its child orders
    Reports,       \* what the gateway reports besides success
    Outside,       \* net amounts that everything else may move in the buyer's
                   \* wallet: other orders, recharges, cards, corrections
    MaxStaleSaves  \* bound: callbacks holding a row they have read

PaymentIds == 1 .. MaxPayments
NoPayment == 0

ASSUME BoundsAssumption ==
    /\ MaxPayments \in Nat \ {0}
    /\ MaxStaleSaves \in Nat
ASSUME MoneyAssumption ==
    /\ Total \in Nat \ {0}
    /\ BuyerFunds \in Nat
    /\ OwnerFunds \in Nat
    /\ FeeDeficit \in [Channels \X (1 .. Total) -> Nat]
    /\ Outside \subseteq Int /\ 0 \in Outside
ASSUME ActorsAssumption ==
    /\ NoChannel \notin Channels
    /\ LoggedIn \in BOOLEAN
    /\ Cancellers \subseteq {"user", "expiry", "reader", "admin", "child"}
    /\ Reports \subseteq {"pending", "failed", "expired"}

VARIABLES
    order,       \* the orders row
    payments,    \* the payments table
    balance,     \* the buyer's wallet
    owner,       \* the reseller owner's wallet
    hold,        \* the owner's ledger: fee reserve and release per payment
    credited,    \* payments with an underpaid_credit ledger entry
    request,     \* CreatePayment calls after their first transaction
    reusing,     \* CreatePayment calls about to supersede for a reused link
    cancels,     \* per canceller, the wallet_paid_amount it has read
    saves,       \* callbacks about to Save a payment row they have read
    gatewayPaid, \* links the buyer has paid at the gateway
    acked,       \* links whose success the gateway has been acknowledged
    expired,     \* orders.expires_at has passed
    outside,     \* what other business has moved in the buyer's wallet, net
    misread,     \* history: what late cancellations credited beyond what they cleared
    settledBy    \* history: the payment whose transaction marked the order paid

ovars == <<order, balance>>
fvars == <<hold, owner>>
rvars == <<request, reusing>>
gvars == <<gatewayPaid, acked>>
wvars == <<outside, misread>>
vars == <<order, payments, balance, owner, hold, credited, request, reusing,
          cancels, saves, gatewayPaid, acked, expired, outside, misread, settledBy>>

-----------------------------------------------------------------------------
(* Rows                                                                    *)

OrderStatus == {"pending_payment", "paid", "canceled"}
PaymentStatus == {"none", "initiated", "pending", "success", "failed", "expired"}
Exceptions == {"none", "underpaid", "superseded", "duplicate", "closed"}

OrderRows ==
    [status : OrderStatus, paid : BOOLEAN, walletPaid : 0 .. Total, onlinePaid : 0 .. Total]

PaymentRows ==
    [status : PaymentStatus, channel : Channels \cup {NoChannel}, amount : 0 .. Total,
     link : BOOLEAN, superseded : BOOLEAN, lapsed : BOOLEAN, exception : Exceptions]

\* A payments row as it is built before it is saved: no link, no timestamps.
NewRow(status, channel, amount) ==
    [status |-> status, channel |-> channel, amount |-> amount, link |-> FALSE,
     superseded |-> FALSE, lapsed |-> FALSE, exception |-> "none"]

NoRow == NewRow("none", NoChannel, 0)

\* A canceller that has read nothing.
NotReading == -1

Open == {"initiated", "pending"}

\* The payments row the next CreatePayment inserts.
IsNextPayment(p) ==
    /\ payments[p].status = "none"
    /\ \A q \in 1 .. p - 1 : payments[q].status # "none"

Bug_OrderOpen == ~order.paid

OrderOpen == order.status = "pending_payment" /\ ~order.paid

-----------------------------------------------------------------------------
(* The order's side of the two wallets                                     *)

\* Updates of ReleaseOrderBalance's claim: the allocation is cleared.
Bug_AddsTotal(o) == [o EXCEPT !.walletPaid = 0, !.onlinePaid = @ + Total]

Bug_ForgetsOnline(o) == [o EXCEPT !.walletPaid = 0]

Unallocated(o) == [o EXCEPT !.walletPaid = 0, !.onlinePaid = Total]

SmallerOf(a, b) == IF a < b THEN a ELSE b

\* What CreatePayment leaves allocated from the wallet: an existing
\* allocation stays, a new one takes what the balance has up to the total,
\* and an online-only request gives the allocation back.
Allocation(useBalance) ==
    CASE ~useBalance -> 0
      [] useBalance /\ order.walletPaid > 0 -> order.walletPaid
      [] useBalance /\ order.walletPaid = 0 -> SmallerOf(balance, Total)

DeficitOf(p) ==
    IF payments[p].channel \in Channels /\ payments[p].amount > 0
    THEN FeeDeficit[<<payments[p].channel, payments[p].amount>>]
    ELSE 0

Held(S) == {p \in S : hold[p] = "held"}

\* The fee reserves of payments of S.
Reserves(S) == SumFunctionOnSet([p \in PaymentIds |-> DeficitOf(p)], S)

\* ReleaseResellerPaymentFee for every payment of S: a reserve without a
\* release entry is credited back once.
Bug_ReleasesOpenOnly(S) ==
    LET open == {p \in Held(S) : payments[p].status \in Open}
    IN  /\ hold' = [p \in PaymentIds |-> IF p \in open THEN "released" ELSE hold[p]]
        /\ owner' = owner + Reserves(open)

Bug_CreditTwice(S) ==
    /\ hold' = [p \in PaymentIds |-> IF p \in Held(S) THEN "released" ELSE hold[p]]
    /\ owner' = owner + Reserves({p \in S : hold[p] # "none"})

ReleaseHolds(S) ==
    /\ hold' = [p \in PaymentIds |-> IF p \in Held(S) THEN "released" ELSE hold[p]]
    /\ owner' = owner + Reserves(Held(S))

-----------------------------------------------------------------------------
(* Statements on the payments table                                        *)

\* SupersedePendingByOrderID: every other open payment gives way to p.
SupersededBy(p, rows) ==
    [q \in PaymentIds |->
        IF q # p /\ rows[q].status \in Open
        THEN [rows[q] EXCEPT !.status = "expired", !.superseded = TRUE, !.lapsed = TRUE]
        ELSE rows[q]]

\* ExpirePendingByOrderIDs.
Expired(rows) ==
    [q \in PaymentIds |->
        IF rows[q].status \in Open
        THEN [rows[q] EXCEPT !.status = "expired", !.lapsed = TRUE]
        ELSE rows[q]]

\* The links GetLatestPendingByOrderChannel looks at; it takes the newest.
Reusable(c) ==
    {p \in PaymentIds : /\ payments[p].channel = c
                        /\ payments[p].status \in Open
                        /\ payments[p].link
                        /\ ~payments[p].superseded
                        /\ ~payments[p].lapsed}

-----------------------------------------------------------------------------
Init ==
    /\ order = [status |-> "pending_payment", paid |-> FALSE,
                walletPaid |-> 0, onlinePaid |-> Total]
    /\ payments = [p \in PaymentIds |-> NoRow]
    /\ balance = IF LoggedIn THEN BuyerFunds ELSE 0
    /\ owner = OwnerFunds
    /\ hold = [p \in PaymentIds |-> "none"]
    /\ credited = {}
    /\ request = [p \in PaymentIds |-> "none"]
    /\ reusing = {}
    /\ cancels = [k \in Cancellers |-> NotReading]
    /\ saves = {}
    /\ gatewayPaid = {}
    /\ acked = {}
    /\ expired = FALSE
    /\ outside = 0
    /\ misread = 0
    /\ settledBy = NoPayment

-----------------------------------------------------------------------------
(* CreatePayment                                                           *)

\* The guard of its first transaction, under the order's row lock.
CanCreate == order.status = "pending_payment" /\ ~expired

\* The request's channel still has a live link, which is handed out again.
RequestReuse(c, p) ==
    /\ CanCreate
    /\ p \in Reusable(c)
    /\ \A q \in Reusable(c) : q <= p
    /\ reusing' = reusing \cup {p}
    /\ UNCHANGED <<ovars, fvars, payments, credited, request, cancels, saves, gvars, expired,
                   settledBy, wvars>>

\* The reused link's second step, outside the transaction that chose it.
ReuseSupersede(p) ==
    /\ p \in reusing
    /\ payments' = SupersededBy(p, payments)
    /\ reusing' = reusing \ {p}
    /\ UNCHANGED <<ovars, fvars, credited, request, cancels, saves, gvars, expired, settledBy,
                   wvars>>

\* No live link on the channel: a payment for what the wallet does not cover
\* is inserted, with the fee deficit reserved on the owner's wallet.
StartOnline(p, c, useBalance) ==
    LET w == Allocation(useBalance)
        deficit == FeeDeficit[<<c, Total - w>>]
    IN  /\ CanCreate
        /\ IsNextPayment(p)
        /\ Reusable(c) = {}
        /\ useBalance => LoggedIn
        /\ w < Total
        /\ deficit <= owner
        /\ order' = [order EXCEPT !.walletPaid = w, !.onlinePaid = Total - w]
        /\ balance' = balance + order.walletPaid - w
        /\ payments' = [payments EXCEPT ![p] = NewRow("initiated", c, Total - w)]
        /\ hold' = [hold EXCEPT ![p] = IF deficit > 0 THEN "held" ELSE "none"]
        /\ owner' = owner - deficit
        /\ request' = [request EXCEPT ![p] = "calling"]
        /\ UNCHANGED <<credited, reusing, cancels, saves, gvars, expired, settledBy, wvars>>

\* The wallet covers the total: the order is paid in the same transaction.
PayByWallet(p, c) ==
    /\ CanCreate
    /\ IsNextPayment(p)
    /\ c \in Channels => Reusable(c) = {}
    /\ LoggedIn
    /\ Allocation(TRUE) = Total
    /\ order' = [status |-> "paid", paid |-> TRUE, walletPaid |-> Total, onlinePaid |-> 0]
    /\ balance' = balance + order.walletPaid - Total
    /\ payments' = SupersededBy(p, [payments EXCEPT ![p] = NewRow("success", NoChannel, Total)])
    /\ ReleaseHolds(PaymentIds \ {p})
    /\ settledBy' = p
    /\ UNCHANGED <<credited, rvars, cancels, saves, gvars, expired, wvars>>

\* applyProviderPayment returned a link: the row built before the call is
\* saved over whatever the table has meanwhile.
ProviderAccepts(p) ==
    /\ request[p] = "calling"
    /\ request' = [request EXCEPT ![p] = "linked"]
    /\ payments' = [payments EXCEPT ![p] =
           [NewRow("pending", payments[p].channel, payments[p].amount) EXCEPT !.link = TRUE]]
    /\ UNCHANGED <<ovars, fvars, credited, reusing, cancels, saves, gvars, expired, settledBy,
                   wvars>>

\* applyProviderPayment failed: the payment fails, its hold and the order's
\* current allocation are given back, whatever the order's status.
ProviderRejects(p) ==
    /\ request[p] = "calling"
    /\ request' = [request EXCEPT ![p] = "done"]
    /\ payments' = [payments EXCEPT ![p] =
           NewRow("failed", payments[p].channel, payments[p].amount)]
    /\ ReleaseHolds({p})
    /\ order' = Unallocated(order)
    /\ balance' = balance + order.walletPaid
    /\ UNCHANGED <<credited, reusing, cancels, saves, gvars, expired, settledBy, wvars>>

\* The link is usable: the order's other links and their holds give way.
SupersedeOthers(p) ==
    /\ request[p] = "linked"
    /\ request' = [request EXCEPT ![p] = "done"]
    /\ payments' = SupersededBy(p, payments)
    /\ ReleaseHolds(PaymentIds \ {p})
    /\ UNCHANGED <<ovars, credited, reusing, cancels, saves, gvars, expired, settledBy, wvars>>

\* The process stops, or the statement fails, before the request's next step.
RequestDies(p) ==
    /\ \/ /\ request[p] \in {"calling", "linked"}
          /\ request' = [request EXCEPT ![p] = "done"]
          /\ UNCHANGED reusing
       \/ /\ p \in reusing
          /\ reusing' = reusing \ {p}
          /\ UNCHANGED request
    /\ UNCHANGED <<ovars, fvars, payments, credited, cancels, saves, gvars, expired, settledBy,
                   wvars>>

-----------------------------------------------------------------------------
(* The gateway (external) and HandleCallback / CapturePayment              *)

\* The buyer pays a link; a replaced link stays payable at the gateway.
BuyerPays(p) ==
    /\ payments[p].link
    /\ p \notin gatewayPaid
    /\ gatewayPaid' = gatewayPaid \cup {p}
    /\ UNCHANGED <<ovars, fvars, payments, credited, rvars, cancels, saves, acked, expired,
                   settledBy, wvars>>

\* A callback repeats the status the row has at its unlocked read: it will
\* save the whole row it has read.
CallbackReadsSame(p) ==
    /\ payments[p].link
    /\ Cardinality(saves) < MaxStaleSaves
    /\ saves' = saves \cup {[id |-> p, row |-> payments[p]]}
    /\ UNCHANGED <<ovars, fvars, payments, credited, rvars, cancels, gvars, expired, settledBy,
                   wvars>>

SaveMeta(s) ==
    /\ s \in saves
    /\ payments' = [payments EXCEPT ![s.id] = s.row]
    /\ saves' = saves \ {s}
    /\ UNCHANGED <<ovars, fvars, credited, rvars, cancels, gvars, expired, settledBy, wvars>>

\* The gateway reports that the link is still waiting.
CallbackPends(p) ==
    /\ "pending" \in Reports
    /\ payments[p].link
    /\ payments[p].status \notin {"success", "pending"}
    /\ payments' = [payments EXCEPT ![p].status = "pending"]
    /\ UNCHANGED <<ovars, fvars, credited, rvars, cancels, saves, gvars, expired, settledBy,
                   wvars>>

\* The gateway gives the link up: its hold is released and, while the order
\* is unpaid, so is the order's allocation.
CallbackFails(p, status) ==
    /\ status \in Reports
    /\ payments[p].link
    /\ payments[p].status \notin {"success", status}
    /\ payments' = [payments EXCEPT ![p] =
           [payments[p] EXCEPT !.status = status, !.lapsed = @ \/ status = "expired"]]
    /\ ReleaseHolds({p})
    /\ IF order.status = "pending_payment"
       THEN order' = Unallocated(order) /\ balance' = balance + order.walletPaid
       ELSE UNCHANGED ovars
    /\ UNCHANGED <<credited, rvars, cancels, saves, gvars, expired, settledBy, wvars>>

\* Conservation of amounts: the payment covers what the order still needs.
Bug_Covers(p) == payments[p].amount > 0

Covers(p) == payments[p].amount >= Total - order.walletPaid

Underpaid(p) == OrderOpen /\ ~Covers(p)

Settles(p) == OrderOpen /\ Covers(p)

\* The code of a success that does not settle the order by the book.
ExceptionOf(p) ==
    CASE Underpaid(p) -> "underpaid"
      [] ~Underpaid(p) /\ payments[p].superseded -> "superseded"
      [] ~Underpaid(p) /\ ~payments[p].superseded /\ ~OrderOpen ->
             IF order.paid THEN "duplicate" ELSE "closed"
      [] OTHER -> payments[p].exception

\* creditUnderpaidToWallet, once per payment and only to an account.
Bug_Credits(p) == LoggedIn /\ Underpaid(p) /\ p \notin credited /\ ~payments[p].superseded

Credits(p) == LoggedIn /\ Underpaid(p) /\ p \notin credited

\* A callback of success that the row has not seen yet: every other open link
\* lapses, every other hold is released, and the order is paid if it is open
\* and covered.
Bug_CallbackSucceeds(p) ==
    /\ p \in gatewayPaid
    /\ payments[p].status \in Open
    /\ payments' = Expired([payments EXCEPT ![p] =
           [payments[p] EXCEPT !.status = "success", !.exception = ExceptionOf(p)]])
    /\ ReleaseHolds(PaymentIds \ {p})
    /\ IF Settles(p)
       THEN /\ order' = [order EXCEPT !.status = "paid", !.paid = TRUE,
                                      !.onlinePaid = Total - order.walletPaid]
            /\ settledBy' = p
       ELSE UNCHANGED <<order, settledBy>>
    /\ IF Credits(p)
       THEN balance' = balance + payments[p].amount /\ credited' = credited \cup {p}
       ELSE UNCHANGED <<balance, credited>>
    /\ acked' = acked \cup {p}
    /\ UNCHANGED <<rvars, cancels, saves, gatewayPaid, expired, wvars>>

CallbackSucceeds(p) ==
    /\ p \in gatewayPaid
    /\ payments[p].status # "success"
    /\ payments' = Expired([payments EXCEPT ![p] =
           [payments[p] EXCEPT !.status = "success", !.exception = ExceptionOf(p)]])
    /\ ReleaseHolds(PaymentIds \ {p})
    /\ IF Settles(p)
       THEN /\ order' = [order EXCEPT !.status = "paid", !.paid = TRUE,
                                      !.onlinePaid = Total - order.walletPaid]
            /\ settledBy' = p
       ELSE UNCHANGED <<order, settledBy>>
    /\ IF Credits(p)
       THEN balance' = balance + payments[p].amount /\ credited' = credited \cup {p}
       ELSE UNCHANGED <<balance, credited>>
    /\ acked' = acked \cup {p}
    /\ UNCHANGED <<rvars, cancels, saves, gatewayPaid, expired, wvars>>

-----------------------------------------------------------------------------
(* Cancellation                                                            *)

DeadlinePasses ==
    /\ ~expired
    /\ expired' = TRUE
    /\ UNCHANGED <<ovars, fvars, payments, credited, rvars, cancels, saves, gvars, settledBy,
                   wvars>>

\* The guard of CancelOrder, CancelExpiredOrder, ensureOrderCanceledIfExpired
\* and UpdateOrderStatus on the order they read outside any transaction.
Bug_MayCancel(k) ==
    CASE k = "user" -> LoggedIn /\ order.status = "pending_payment"
      [] k \in {"expiry", "reader"} -> order.status = "pending_payment" /\ ~expired
      [] k = "admin" -> order.status # "canceled"
      [] k = "child" -> order.status = "pending_payment"

MayCancel(k) ==
    CASE k = "user" -> LoggedIn /\ order.status = "pending_payment"
      [] k \in {"expiry", "reader"} -> order.status = "pending_payment" /\ expired
      [] k = "admin" -> order.status # "canceled"
      [] k = "child" -> order.status = "pending_payment"

CancelRead(k) ==
    /\ cancels[k] = NotReading
    /\ MayCancel(k)
    /\ cancels' = [cancels EXCEPT ![k] = order.walletPaid]
    /\ UNCHANGED <<ovars, fvars, payments, credited, rvars, saves, gvars, expired, settledBy,
                   wvars>>

\* The allocation is claimed only where the row still has one.
Bug_Claims(k) == cancels[k] > 0

Claims(k) == cancels[k] > 0 /\ order.walletPaid > 0

\* cancelOrderWithChildren: the status is written whatever it has become; the
\* amount credited back is the one that was read, which the order's present
\* allocation may exceed or fall short of.
CancelCommit(k) ==
    /\ k # "child"
    /\ cancels[k] # NotReading
    /\ cancels' = [cancels EXCEPT ![k] = NotReading]
    /\ order' = [(IF Claims(k) THEN Unallocated(order) ELSE order) EXCEPT !.status = "canceled"]
    /\ balance' = balance + (IF Claims(k) THEN cancels[k] ELSE 0)
    /\ misread' = misread + (IF cancels[k] > 0 /\ order.walletPaid > 0
                             THEN cancels[k] - order.walletPaid ELSE 0)
    /\ payments' = Expired(payments)
    /\ ReleaseHolds(PaymentIds)
    /\ UNCHANGED <<credited, rvars, saves, gvars, expired, outside, settledBy>>

\* cancelSingleOrderInTx of the last child and then SyncParentStatus: the
\* children carry no money, and the root order gets nothing but the status.
ChildCancelCommit ==
    /\ "child" \in Cancellers
    /\ cancels["child"] # NotReading
    /\ cancels' = [cancels EXCEPT !["child"] = NotReading]
    /\ order' = [order EXCEPT !.status = "canceled"]
    /\ UNCHANGED <<fvars, payments, balance, credited, rvars, saves, gvars, expired, settledBy,
                   wvars>>

-----------------------------------------------------------------------------
(* The rest of the shop                                                    *)

\* Another order, a recharge, a gift card or a correction moves the buyer's
\* wallet, never below zero.
WalletMoves(net) ==
    /\ LoggedIn
    /\ net # outside
    /\ balance + net - outside >= 0
    /\ balance' = balance + net - outside
    /\ outside' = net
    /\ UNCHANGED <<order, payments, fvars, credited, rvars, cancels, saves, gvars, expired,
                   misread, settledBy>>

-----------------------------------------------------------------------------
CreatePayment ==
    \/ \E p \in PaymentIds :
          \/ \E c \in Channels : RequestReuse(c, p)
          \/ \E c \in Channels, useBalance \in BOOLEAN : StartOnline(p, c, useBalance)
          \/ \E c \in Channels \cup {NoChannel} : PayByWallet(p, c)
          \/ ReuseSupersede(p) \/ ProviderAccepts(p) \/ ProviderRejects(p)
          \/ SupersedeOthers(p) \/ RequestDies(p)

HandleCallback ==
    \/ \E p \in PaymentIds :
          \/ CallbackReadsSame(p) \/ CallbackPends(p) \/ CallbackSucceeds(p)
          \/ \E status \in {"failed", "expired"} : CallbackFails(p, status)
    \/ \E s \in saves : SaveMeta(s)

Cancel ==
    \/ \E k \in Cancellers : CancelRead(k) \/ CancelCommit(k)
    \/ ChildCancelCommit

Next ==
    \/ CreatePayment
    \/ HandleCallback
    \/ Cancel
    \/ \E p \in PaymentIds : BuyerPays(p)
    \/ \E net \in Outside : WalletMoves(net)
    \/ DeadlinePasses

Spec == Init /\ [][Next]_vars

\* The notice of a success that the gateway still owes.
FirstSuccess(p) == p \notin acked /\ CallbackSucceeds(p)

\* The clock runs, the queue retries the order's timeout task until it has
\* run, and a gateway repeats the notice of a success until it has been
\* acknowledged once: what happens to the row afterwards it does not see.
FairSpec ==
    /\ Spec
    /\ WF_vars(DeadlinePasses)
    /\ \A k \in Cancellers \cap {"expiry"} : WF_vars(CancelRead(k)) /\ WF_vars(CancelCommit(k))
    /\ \A p \in PaymentIds : WF_vars(FirstSuccess(p))

-----------------------------------------------------------------------------
(* Properties                                                              *)

\* The tables and wallets keep their types.  The owner's balance is a sum and
\* is covered by OwnerFundsConserved.
TypeOK ==
    /\ order \in OrderRows
    /\ payments \in [PaymentIds -> PaymentRows]
    /\ balance \in Nat
    /\ hold \in [PaymentIds -> {"none", "held", "released"}]
    /\ credited \subseteq PaymentIds
    /\ request \in [PaymentIds -> {"none", "calling", "linked", "done"}]
    /\ reusing \subseteq PaymentIds
    /\ cancels \in [Cancellers -> {NotReading} \cup (0 .. Total)]
    /\ saves \subseteq [id : PaymentIds, row : PaymentRows]
    /\ gatewayPaid \subseteq PaymentIds
    /\ acked \subseteq PaymentIds
    /\ expired \in BOOLEAN
    /\ outside \in Outside
    /\ misread \in Int
    /\ settledBy \in PaymentIds \cup {NoPayment}

\* A fee hold outlives the open order only for the payment that settled it: a
\* canceled order has none, a paid order at most that one, whichever of the
\* link replacement, the callback and the root order's cancellation came first.
HoldsFollowOrder ==
    /\ order.status = "canceled" => Held(PaymentIds) = {}
    /\ order.status = "paid" => Held(PaymentIds) \subseteq {settledBy}

\* online_paid_amount is what wallet_paid_amount leaves of the total, through
\* every allocation, release and settlement.
OnlineComplement == order.walletPaid + order.onlinePaid = Total

\* The reseller owner's wallet never goes below zero and differs from its
\* start by the holds in force: no hold is released twice or lost.
OwnerFundsConserved ==
    /\ owner >= 0
    /\ owner + Reserves(Held(PaymentIds)) = OwnerFunds

\* What the buyer had, the underpaid payments credited since, and what other
\* business has moved.
BuyerMoney ==
    (IF LoggedIn THEN BuyerFunds ELSE 0)
        + SumFunctionOnSet([p \in PaymentIds |-> payments[p].amount], credited)
        + outside

\* The buyer's wallet and the order's allocation together are what the buyer
\* had, but for one cancellation: no allocation is given back twice, by two
\* requests, a notice and a cancellation or several cancellations.  Exactly
\* one claim may be for another allocation than the one its canceller read;
\* the difference, which may favour either side, is misread.
BuyerMoneyConserved ==
    /\ balance + order.walletPaid = BuyerMoney + misread
    /\ misread # 0 => order.status = "canceled" /\ order.walletPaid = 0

\* Money the gateway has taken is used once: a recorded success either paid
\* the order or carries an exception, and an underpaid one is credited to the
\* buyer's wallet and never also pays the order.
MoneyHasOneOutcome ==
    \A p \in PaymentIds :
        /\ payments[p].status = "success" /\ p # settledBy => payments[p].exception # "none"
        /\ p \in credited => p # settledBy /\ payments[p].exception = "underpaid"
        /\ payments[p].exception = "underpaid" /\ LoggedIn => p \in credited

\* A payment that has succeeded is not taken back: the one that paid the order
\* stays a success, whatever notices of the gateway still come.
SuccessStands == settledBy # NoPayment => payments[settledBy].status = "success"

\* What a payment contributes besides the wallet's part.
OnlinePart(row) == IF row.channel \in Channels THEN row.amount ELSE 0

PaidStep ==
    /\ order.paid => order'.paid /\ settledBy' = settledBy
    /\ ~order.paid /\ order'.paid =>
          /\ order.status = "pending_payment"
          /\ settledBy' \in PaymentIds
          /\ payments'[settledBy'].status = "success"
          /\ order'.walletPaid + OnlinePart(payments'[settledBy']) >= Total

\* An order is marked paid once, from open, by a successful payment that
\* together with the wallet's allocation covers the total.
SettledOnlyWhenCovered == [][PaidStep]_vars

\* Refinement: the tables implement the abstract settlement of one order.
Phase ==
    CASE order.status = "pending_payment" -> "open"
      [] order.status = "paid" -> "settled"
      [] order.status = "canceled" -> "closed"

Settlement == INSTANCE OrderSettlement
    WITH phase <- Phase, payer <- settledBy, holders <- Held(PaymentIds)

\* Every behaviour of the tables is one of OrderSettlement: one settlement
\* from open, no reopening, no hold placed on an order that is not open.
ImplementsSettlement == Settlement!SettlementSpec

\* An order does not stay pending: it is paid or its timeout task cancels it.
OrderLeavesPending == <>(order.status # "pending_payment")

\* What the buyer paid at the gateway is recorded as a success for good, also
\* on a link that has failed, expired or been replaced, unless a notice ever
\* waits to save a row of it that has changed since: the gateway repeats its
\* report until it is acknowledged, and what a stale save takes back then
\* nobody reports again.
NeverStale(p) == [](\A s \in saves : s.id = p => s.row = payments[p])

GatewayMoneyRecorded ==
    \A p \in PaymentIds :
        NeverStale(p) => (p \in gatewayPaid ~> [](payments[p].status = "success"))
==============================================================================
