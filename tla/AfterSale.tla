------------------------------ MODULE AfterSale ------------------------------
(***************************************************************************)
(* What becomes of a sale once it is paid: an administrator refunds it, as *)
(* a whole or line by line, or cancels it, and the profit of the reseller  *)
(* or the commission of the affiliate follows.  Composes the ledger of one *)
(* reseller and the commissions of one affiliate.                          *)
(*                                                                         *)
(* A refund holds the lock of its order from its first read to its commit; *)
(* what it reads of the ledger it reads without a lock.  The terms of the  *)
(* profit and of the commission are recorded for the root order only.      *)
(* Not tracked here: the wallet credit of a refund, the record's share of  *)
(* the payment fee, deliveries, and what an order's cancellation gives     *)
(* back before it is paid.                                                 *)
(***************************************************************************)
EXTENDS ResellerLedger, Commissions

CONSTANTS
    Lines,      \* the lines of the sales
    ParentOf,   \* the sale of each line
    Total,      \* what each order costs
    Amounts,    \* the amounts each order may be refunded by
    Fee,        \* the payment fee the shop absorbs for each sale
    Terms       \* the terms the sales may have been concluded on

Orders == Sales \cup Lines

ASSUME AfterSaleAssumption ==
    /\ Referred = Sales
    /\ Sales \cap Lines = {}
    /\ ParentOf \in [Lines -> Sales]
    /\ Total \in [Orders -> Nat \ {0}]
    /\ Amounts \in [Orders -> SUBSET (Nat \ {0})]
    /\ Fee \in [Sales -> Nat]
    /\ Terms \subseteq [Sales -> [gross: Nat, commission: Nat, guest: BOOLEAN]]

VARIABLES
    terms,      \* for each sale: the reseller's profit, the affiliate's commission
                \* (0 for none) and whether the buyer is a guest
    status,     \* status of each order
    refunded,   \* refunded_amount of each order
    refunding   \* the refund of each sale that has not committed yet

saleVars == <<terms, status, refunded, refunding>>
vars == <<saleVars, ledgerVars, commissionVars>>

-----------------------------------------------------------------------------
Status == {"pending_payment", "paid", "partially_refunded", "refunded", "canceled"}

NoRefund == [amount |-> 0, seen |-> "none"]

LinesOf(r) == {l \in Lines : ParentOf[l] = r}
WithLines(r) == {r} \cup LinesOf(r)
RootOf(o) == IF o \in Lines THEN ParentOf[o] ELSE o

Init ==
    /\ terms \in Terms
    /\ status = [o \in Orders |-> "pending_payment"]
    /\ refunded = [o \in Orders |-> 0]
    /\ refunding = [r \in Sales |-> NoRefund]
    /\ LedgerInit
    /\ CommissionsInit

\* PaidAt of an order: never taken back.
PaidAt(o) == paidHook[RootOf(o)] # "none"

Idle(r) == refunding[r] = NoRefund

Become(orders, s) == [o \in Orders |-> IF o \in orders THEN s ELSE status[o]]

-----------------------------------------------------------------------------
(* The payment.                                                            *)

\* The transaction that pays the sale posts the profit; its hook runs after it.
Pay(r) ==
    /\ status[r] = "pending_payment"
    /\ status' = Become(WithLines(r), "paid")
    /\ paidHook' = [paidHook EXCEPT ![r] = "started"]
    /\ PostOrderProfit(r, terms[r].gross, Fee[r])
    /\ UNCHANGED <<terms, refunded, refunding, payouts, confirming, due,
                   commissions, withdraws, canceling, overwritten>>

PaidHook(r) ==
    /\ HandleOrderPaid(r, terms[r].commission)
    /\ UNCHANGED <<saleVars, ledgerVars>>

-----------------------------------------------------------------------------
(* Refunds: AdminManualRefund and AdminRefundToWallet.                     *)

Refundable(o, a) == PaidAt(o) /\ a <= Total[o] - refunded[o]

AfterRefund(o, a) == IF refunded[o] + a >= Total[o] THEN "refunded" ELSE "partially_refunded"

ProfitStatus(r) == IF posted[r] = 0 THEN "none" ELSE ledger[posted[r]].status

\* A refund of a whole sale, up to what it reads of the profit.
RefundBegins(r, a) ==
    /\ Idle(r)
    /\ Refundable(r, a)
    /\ refunding' = [refunding EXCEPT ![r] = [amount |-> a, seen |-> ProfitStatus(r)]]
    /\ UNCHANGED <<terms, status, refunded, ledgerVars, commissionVars>>

\* Its commit.  The lines take the status of the sale; a guest's refund leaves
\* the commission alone.
RefundCommits(r) ==
    LET a == refunding[r].amount
        before == refunded[r]
    IN  /\ ~Idle(r)
        /\ refunding' = [refunding EXCEPT ![r] = NoRefund]
        /\ refunded' = [refunded EXCEPT ![r] = before + a]
        /\ status' = Become(WithLines(r), AfterRefund(r, a))
        /\ IF terms[r].guest
             THEN UNCHANGED commissionVars
             ELSE HandleOrderRefunded(r, Total[r], before, a)
        /\ HandleRefundDeduct(r, terms[r].gross, Total[r], before, a, refunding[r].seen)
        /\ UNCHANGED <<terms, payouts, confirming, due>>

RefundFails(r) ==
    /\ ~Idle(r)
    /\ refunding' = [refunding EXCEPT ![r] = NoRefund]
    /\ UNCHANGED <<terms, status, refunded, ledgerVars, commissionVars>>

\* CalcParentStatus, over the statuses a line has here.
CalcParentStatus(r, s) ==
    LET all == {s[l] : l \in LinesOf(r)}
    IN  IF all = {"canceled"} THEN "canceled"
        ELSE IF all = {"refunded"} THEN "refunded"
        ELSE IF all \cap {"refunded", "partially_refunded"} # {} THEN "partially_refunded"
        ELSE IF "paid" \in all THEN "paid"
        ELSE s[r]

\* A refund of one line.  It counts on the line alone, SyncParentStatus follows,
\* and neither the ledger nor the commissions know the line.
RefundLine(l, a) ==
    LET r == ParentOf[l]
        synced == [status EXCEPT ![l] = AfterRefund(l, a)]
    IN  /\ Idle(r)
        /\ Refundable(l, a)
        /\ refunded' = [refunded EXCEPT ![l] = @ + a]
        /\ status' = IF status[r] = "canceled"
                       THEN synced
                       ELSE [synced EXCEPT ![r] = CalcParentStatus(r, synced)]
        /\ UNCHANGED <<terms, refunding, ledgerVars, commissionVars>>

-----------------------------------------------------------------------------
(* An administrator cancels a sale, in any status but canceled: the profit *)
(* stays; the commission is rejected after the commit.                     *)
Cancel(r) ==
    /\ Idle(r)
    /\ LinesOf(r) # {}
    /\ status[r] # "canceled"
    /\ status' = Become(WithLines(r), "canceled")
    /\ CancelReads(r)
    /\ UNCHANGED <<terms, refunded, refunding, ledgerVars>>

-----------------------------------------------------------------------------
Next ==
    \/ \E r \in Sales :
        \/ Pay(r) \/ PaidHook(r)
        \/ \E a \in Amounts[r] : RefundBegins(r, a)
        \/ RefundCommits(r) \/ RefundFails(r)
        \/ Cancel(r)
    \/ \E l \in Lines : \E a \in Amounts[l] : RefundLine(l, a)
    \/ LedgerNext /\ UNCHANGED <<saleVars, commissionVars>>
    \/ CommissionsNext(due) /\ UNCHANGED <<saleVars, ledgerVars>>

Spec == Init /\ [][Next]_vars

\* The scheduler runs both confirmations every minute; they do not fail for ever.
Fairness ==
    /\ WF_vars(ConfirmLists /\ UNCHANGED <<saleVars, commissionVars>>)
    /\ SF_vars(ConfirmMarks /\ UNCHANGED <<saleVars, commissionVars>>)
    /\ WF_vars(ConfirmDueCommissions(due) /\ UNCHANGED <<saleVars, ledgerVars>>)

LiveSpec == Spec /\ Fairness

-----------------------------------------------------------------------------
(* Properties.                                                             *)

TypeOK ==
    /\ terms \in Terms
    /\ status \in [Orders -> Status]
    /\ refunded \in [Orders -> Nat]
    /\ \A r \in Sales :
           refunding[r] \in {NoRefund} \cup [amount: Amounts[r], seen: EntryStatus \cup {"none"}]
    /\ \A i \in DOMAIN ledger :
           /\ ledger[i].sale \in Sales /\ ledger[i].type \in EntryType
           /\ ledger[i].amount \in Int /\ ledger[i].status \in EntryStatus
           /\ ledger[i].request \in 0 .. Len(payouts)
    /\ posted \in [Sales -> 0 .. Len(ledger)]
    /\ \A q \in DOMAIN payouts : payouts[q].status \in PayoutStatus
    /\ \A i \in DOMAIN commissions :
           /\ commissions[i].sale \in Sales /\ commissions[i].amount \in Nat
           /\ commissions[i].status \in CommissionStatus
           /\ commissions[i].request \in 0 .. Len(withdraws)
    /\ \A q \in DOMAIN withdraws : withdraws[q].status \in WithdrawStatus
    /\ \A c \in canceling : c.id \in DOMAIN commissions

ProfitRows(r) == {i \in DOMAIN ledger : ledger[i].sale = r /\ ledger[i].type = "order_profit"}

\* Withdrawals split the profit of a sale but neither add to it nor lose of it;
\* refunds of any sizes never take back more than the profit the sale had before
\* the payment fee, and exactly that once the sale is refunded in full.
ProfitReversed ==
    \A r \in Sales : posted[r] # 0 =>
        /\ SumOf(ledger, ProfitRows(r)) = Earned(terms[r].gross, Fee[r])
        /\ Deducted(r) \in 0 .. terms[r].gross
        /\ refunded[r] = Total[r] => Deducted(r) = terms[r].gross

\* A refund is taken off what may be withdrawn only once the profit it takes
\* back is there, although it reads the profit's status without a lock.
DeductAfterProfit ==
    \A i \in DOMAIN ledger :
        (ledger[i].type = "refund_deduct" /\ ledger[i].status # "pending_confirm")
            => ProfitStatus(ledger[i].sale) # "pending_confirm"

\* The account row agrees with the ledger after every transaction, but for
\* entries that became due between the two statements of a confirmation.
BalanceIsLedger ==
    unlisted \/ /\ balance.available = Net(ledger)
                /\ balance.locked = Locked(ledger)
                /\ (balance.status = "negative_balance") = (Net(ledger) < 0)

\* Whatever hooks, splits, refunds, cancellations and withdrawals do, an order's
\* commissions that are not rejected are never worth more than its commission.
CommissionWithinRate ==
    \A r \in Sales :
        SumOf(commissions, {i \in DOMAIN commissions :
                  commissions[i].sale = r /\ commissions[i].status # "rejected"})
            <= terms[r].commission

\* Withdrawals of the ledger keep what Payouts promises.
Withdrawals == INSTANCE Payouts WITH pool <- Net(ledger), requests <- payouts
ImplementsPayouts == Withdrawals!Spec

\* Entries and commissions that are due do not stay unconfirmed, also those of
\* refunds that commit while the task runs.
DueEntriesConfirmed ==
    \A r \in Sales :
        (r \in due) ~> (Pending(ledger, {r}) = {}
                        /\ {i \in Open(r) : commissions[i].status = "pending_confirm"} = {})

\* The operations guide has a refund take back the reseller's profit on the same
\* snapshot of the order: a sale refunded in full, as a whole or line by line,
\* leaves the reseller no profit of it.
RefundedLinesTakeProfit ==
    \A r \in Sales :
        (posted[r] # 0 /\ LinesOf(r) # {} /\ \A l \in LinesOf(r) : refunded[l] = Total[l])
            => Deducted(r) = terms[r].gross
==============================================================================
