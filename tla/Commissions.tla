------------------------------ MODULE Commissions ------------------------------
(***************************************************************************)
(* The commissions of an affiliate: created by a hook after the payment,   *)
(* confirmed by a task, reduced by refunds, rejected by cancellations and  *)
(* withdrawn.  A cancellation reads the rows outside any transaction and   *)
(* saves each one whole; everything else locks the rows it changes.        *)
(***************************************************************************)
EXTENDS WithdrawalRows

CONSTANTS
    Referred,          \* the orders an affiliate may have referred
    MaxWithdraws,      \* bound: withdrawals asked for
    MaxAmount          \* bound: amount of a withdrawal

ASSUME CommissionsAssumption == MaxWithdraws \in Nat /\ MaxAmount \in Nat

VARIABLES
    commissions,  \* the rows, in the order of their ids
    paidHook,     \* the hook of each payment: "none", "started", "ended"
    withdraws,    \* withdrawal requests, in the order of their ids
    canceling,    \* rows read by the cancellation of an order, to be saved
    overwritten   \* history: what such saves have taken from each request

commissionVars == <<commissions, paidHook, withdraws, canceling, overwritten>>

-----------------------------------------------------------------------------
CommissionStatus == {"pending_confirm", "available", "rejected", "withdrawn"}
WithdrawStatus == {"pending_review", "paid", "rejected"}

CommissionsInit ==
    /\ commissions = <<>>
    /\ paidHook = [o \in Referred |-> "none"]
    /\ withdraws = <<>>
    /\ canceling = {}
    /\ overwritten = <<>>

Commission(o, amount, status) ==
    [sale |-> o, amount |-> amount, status |-> status, request |-> 0]

\* Mutant: also those in a withdrawal.
Bug_Open(o) ==
    {i \in DOMAIN commissions :
        commissions[i].sale = o /\ commissions[i].status \in {"pending_confirm", "available"}}

\* The rows of an order that a refund or a cancellation may still change: those
\* in a withdrawal are left alone.
Open(o) ==
    {i \in DOMAIN commissions :
        /\ commissions[i].sale = o
        /\ commissions[i].status \in {"pending_confirm", "available"}
        /\ commissions[i].request = 0}

-----------------------------------------------------------------------------
(* The hook of a payment, and the confirmation.                            *)

\* HandleOrderPaid: one commission for an order, whatever became of it since.
\* Without confirmation days it is available at once.
HandleOrderPaid(o, amount) ==
    /\ paidHook[o] = "started"
    /\ paidHook' = [paidHook EXCEPT ![o] = "ended"]
    /\ IF amount <= 0 \/ \E i \in DOMAIN commissions : commissions[i].sale = o
         THEN commissions' = commissions
         ELSE \E status \in {"pending_confirm", "available"} :
                  commissions' = Append(commissions, Commission(o, amount, status))
    /\ UNCHANGED <<withdraws, canceling, overwritten>>

\* Its errors are logged and the process may stop: nobody calls it again.
PaidHookLost(o) ==
    /\ paidHook[o] = "started"
    /\ paidHook' = [paidHook EXCEPT ![o] = "ended"]
    /\ UNCHANGED <<commissions, withdraws, canceling, overwritten>>

\* MarkPendingCommissionsAvailable, of the orders whose period has ended.
Confirmed(matured) ==
    [i \in DOMAIN commissions |->
        IF /\ commissions[i].status = "pending_confirm"
           /\ commissions[i].request = 0
           /\ commissions[i].sale \in matured
          THEN [commissions[i] EXCEPT !.status = "available"]
          ELSE commissions[i]]

ConfirmDueCommissions(matured) ==
    /\ Confirmed(matured) # commissions
    /\ commissions' = Confirmed(matured)
    /\ UNCHANGED <<paidHook, withdraws, canceling, overwritten>>

-----------------------------------------------------------------------------
(* Refunds and cancellations.                                              *)

\* HandleOrderRefunded, in the transaction of the refund: each row loses the
\* share of what was not refunded yet; a row with nothing left is rejected.
HandleOrderRefunded(o, total, before, a) ==
    /\ commissions' = [i \in DOMAIN commissions |->
           IF i \in Open(o) /\ before < total
             THEN LET row == commissions[i]
                      left == row.amount - Share(row.amount, a, total - before)
                  IN  IF left <= 0
                        THEN [row EXCEPT !.amount = 0, !.status = "rejected"]
                        ELSE [row EXCEPT !.amount = left]
             ELSE commissions[i]]
    /\ UNCHANGED <<paidHook, withdraws, canceling, overwritten>>

\* HandleOrderCanceled reads the rows it is about to reject.
CancelReads(o) ==
    /\ canceling' = canceling \cup {[id |-> i, row |-> commissions[i]] : i \in Open(o)}
    /\ UNCHANGED <<commissions, paidHook, withdraws, overwritten>>

\* UpdateCommission: it saves every column of the row it has read.
CancelSaves(c) ==
    /\ c \in canceling
    /\ canceling' = canceling \ {c}
    /\ commissions' = [commissions EXCEPT ![c.id] = [c.row EXCEPT !.status = "rejected"]]
    /\ overwritten' =
           LET q == commissions[c.id].request
           IN  IF q \in DOMAIN overwritten
                 THEN [overwritten EXCEPT ![q] = @ + commissions[c.id].amount]
                 ELSE overwritten
    /\ UNCHANGED <<paidHook, withdraws>>

\* A save fails or the process stops: what is left is not saved.
CancelLost ==
    /\ canceling # {}
    /\ canceling' = {}
    /\ UNCHANGED <<commissions, paidHook, withdraws, overwritten>>

-----------------------------------------------------------------------------
(* Withdrawals.                                                            *)

\* ListAvailableCommissionsForUpdate, by id.
Payable(rows) ==
    {i \in DOMAIN rows : rows[i].status = "available" /\ rows[i].request = 0 /\ rows[i].amount > 0}

ByIds(rows) == [i \in Payable(rows) |-> {j \in Payable(rows) : j <= i}]

\* ApplyWithdraw: what is due is confirmed first.
ApplyCommissionWithdraw(a, matured) ==
    LET rows == Confirmed(matured)
        q == Len(withdraws) + 1
        bound == [i \in DOMAIN rows |-> [rows[i] EXCEPT !.request = q]]
    IN  /\ Len(withdraws) < MaxWithdraws
        /\ Covered(rows, ByIds(rows), a)
        /\ commissions' = Taken(rows, bound, ByIds(rows), a) \o Remainder(rows, ByIds(rows), a)
        /\ withdraws' = Append(withdraws, [amount |-> a, status |-> "pending_review"])
        /\ overwritten' = Append(overwritten, 0)
        /\ UNCHANGED <<paidHook, canceling>>

BoundTo(q) == {i \in DOMAIN commissions : commissions[i].request = q}

\* ReviewWithdraw.
RejectCommissionWithdraw(q) ==
    /\ withdraws[q].status = "pending_review"
    /\ withdraws' = [withdraws EXCEPT ![q].status = "rejected"]
    /\ commissions' = [i \in DOMAIN commissions |->
           IF i \in BoundTo(q) THEN [commissions[i] EXCEPT !.request = 0] ELSE commissions[i]]
    /\ UNCHANGED <<paidHook, canceling, overwritten>>

\* Mutant: the request takes a commission's status.
Bug_PayCommissionWithdraw(q) ==
    /\ withdraws[q].status = "pending_review"
    /\ withdraws' = [withdraws EXCEPT ![q].status = "withdrawn"]
    /\ commissions' = [i \in DOMAIN commissions |->
           IF i \in BoundTo(q) THEN [commissions[i] EXCEPT !.status = "withdrawn"] ELSE commissions[i]]
    /\ UNCHANGED <<paidHook, canceling, overwritten>>

PayCommissionWithdraw(q) ==
    /\ withdraws[q].status = "pending_review"
    /\ withdraws' = [withdraws EXCEPT ![q].status = "paid"]
    /\ commissions' = [i \in DOMAIN commissions |->
           IF i \in BoundTo(q) THEN [commissions[i] EXCEPT !.status = "withdrawn"] ELSE commissions[i]]
    /\ UNCHANGED <<paidHook, canceling, overwritten>>

CommissionsNext(matured) ==
    \/ \E o \in Referred : PaidHookLost(o)
    \/ ConfirmDueCommissions(matured)
    \/ \E c \in canceling : CancelSaves(c)
    \/ CancelLost
    \/ \E a \in 1 .. MaxAmount : ApplyCommissionWithdraw(a, matured)
    \/ \E q \in DOMAIN withdraws : RejectCommissionWithdraw(q) \/ PayCommissionWithdraw(q)

-----------------------------------------------------------------------------
(* Properties.                                                             *)

Withdrawn(q) == SumOf(commissions, BoundTo(q))

\* The commissions bound to a withdrawal are worth what was asked for, also
\* after rows were split, refunded around it or confirmed; only the save of a
\* cancellation that has read them before may take some away.
CommissionsBacked ==
    \A q \in DOMAIN withdraws :
        IF withdraws[q].status = "rejected"
          THEN BoundTo(q) = {}
          ELSE Withdrawn(q) + overwritten[q] = withdraws[q].amount
===============================================================================
