---------------------------- MODULE ResellerLedger ----------------------------
(***************************************************************************)
(* The ledger of a reseller in one currency: an entry for the profit of    *)
(* each sale, a negative one for each refund that takes profit back, the   *)
(* task that confirms entries that are due, and the withdrawals.  The      *)
(* account row caches the sums of the ledger; a transaction that refreshes *)
(* it holds its lock until the commit.                                     *)
(*                                                                         *)
(* The operators take part in transactions of AfterSale; an action is a    *)
(* transaction of its own or, for the confirmation, one of its statements. *)
(***************************************************************************)
EXTENDS WithdrawalRows

CONSTANTS
    Sales,        \* the orders that are paid: roots of their lines
    MaxRequests,  \* bound: withdrawals asked for
    MaxAsked      \* bound: amount of a withdrawal

ASSUME LedgerAssumption == MaxRequests \in Nat /\ MaxAsked \in Nat

VARIABLES
    ledger,      \* the entries, in the order of their ids
    posted,      \* the entry under the key order_profit:<sale>, 0 for none
    balance,     \* the account row
    payouts,     \* withdrawal requests, in the order of their ids
    confirming,  \* the confirmation task, and the scopes it has listed
    due,         \* sales whose entries are due
    unlisted     \* history: entries were confirmed in a scope not listed, and
                 \* the account has not been refreshed since

ledgerVars == <<ledger, posted, balance, payouts, confirming, due, unlisted>>

-----------------------------------------------------------------------------
EntryType == {"order_profit", "refund_deduct"}
EntryStatus == {"pending_confirm", "available", "locked", "withdrawn"}
PayoutStatus == {"pending", "paid", "rejected"}

NoConfirm == [running |-> FALSE, now |-> {}, listed |-> FALSE]

LedgerInit ==
    /\ ledger = <<>>
    /\ posted = [s \in Sales |-> 0]
    /\ balance = [available |-> 0, locked |-> 0, status |-> "normal"]
    /\ payouts = <<>>
    /\ confirming = NoConfirm
    /\ due = {}
    /\ unlisted = FALSE

In(rows, status) == {i \in DOMAIN rows : rows[i].status = status}
Net(rows) == SumOf(rows, In(rows, "available"))
Locked(rows) == SumOf(rows, In(rows, "locked"))

\* RefreshBalanceAccount.
Refresh(rows) ==
    /\ balance' = [available |-> Net(rows), locked |-> Locked(rows),
                   status |-> IF Net(rows) < 0 THEN "negative_balance" ELSE "normal"]
    /\ unlisted' = FALSE

Entry(s, type, amount, status) ==
    [sale |-> s, type |-> type, amount |-> amount, status |-> status, request |-> 0]

-----------------------------------------------------------------------------
(* Sales and refunds.                                                      *)

\* The net profit of a sale: an absorbed payment fee is taken off it, down to 0.
Earned(gross, fee) == IF fee > gross THEN 0 ELSE gross - fee

\* PostOrderProfit, in the transaction that pays the sale.
PostOrderProfit(s, gross, fee) ==
    IF posted[s] # 0 \/ gross <= 0
      THEN UNCHANGED <<ledger, posted, balance, unlisted>>
      ELSE /\ ledger' = Append(ledger, Entry(s, "order_profit", Earned(gross, fee), "pending_confirm"))
           /\ posted' = [posted EXCEPT ![s] = Len(ledger) + 1]
           /\ Refresh(ledger')

Deducted(s) ==
    -SumOf(ledger, {i \in DOMAIN ledger : ledger[i].sale = s /\ ledger[i].type = "refund_deduct"})

\* Mutant: the share of the refund, whatever was taken back already.
Bug_Deduct(s, gross, total, before, a) == Share(gross, a, total)

\* What a refund of a takes back of the profit, before of total being refunded
\* already.
Deduct(s, gross, total, before, a) ==
    LET left == gross - Deducted(s)
        share == Share(gross, a, total)
    IN  IF before + a >= total \/ share > left THEN left ELSE share

\* Mutant: a deduction counts at once.
Bug_DeductStatus(seen) == "available"

\* The status of the deduction, from the one the refund has read of the profit.
DeductStatus(seen) == IF seen = "pending_confirm" THEN "pending_confirm" ELSE "available"

\* HandleRefundDeduct, in the transaction of the refund.
HandleRefundDeduct(s, gross, total, before, a, seen) ==
    /\ IF gross <= 0 \/ before >= total \/ Deduct(s, gross, total, before, a) <= 0
         THEN UNCHANGED <<ledger, balance, unlisted>>
         ELSE /\ ledger' = Append(ledger, Entry(s, "refund_deduct",
                                  -Deduct(s, gross, total, before, a), DeductStatus(seen)))
              /\ Refresh(ledger')
    /\ posted' = posted

\* The confirmation period of a sale's entries ends; where it is zero, before
\* the transaction that posts them commits.
Mature(s) ==
    /\ s \notin due
    /\ due' = due \cup {s}
    /\ UNCHANGED <<ledger, posted, balance, payouts, confirming, unlisted>>

-----------------------------------------------------------------------------
(* The confirmation task.                                                  *)

Pending(rows, now) == {i \in DOMAIN rows : rows[i].status = "pending_confirm" /\ rows[i].sale \in now}

\* ListDueLedgerScopes, after the task has read its clock.
ConfirmLists ==
    /\ ~confirming.running
    /\ due # {}
    /\ confirming' = [running |-> TRUE, now |-> due, listed |-> Pending(ledger, due) # {}]
    /\ UNCHANGED <<ledger, posted, balance, payouts, due, unlisted>>

\* Mutant: only profits are confirmed.
Bug_ConfirmMarks ==
    LET marked == {i \in Pending(ledger, confirming.now) : ledger[i].type = "order_profit"}
    IN  /\ confirming.running
        /\ ledger' = [i \in DOMAIN ledger |->
                         IF i \in marked THEN [ledger[i] EXCEPT !.status = "available"] ELSE ledger[i]]
        /\ IF confirming.listed
             THEN Refresh(ledger')
             ELSE /\ unlisted' = (unlisted \/ marked # {})
                  /\ balance' = balance
        /\ confirming' = NoConfirm
        /\ UNCHANGED <<posted, payouts, due>>

\* MarkDueLedgerEntriesAvailable, and the refresh of the scopes listed.
ConfirmMarks ==
    LET marked == Pending(ledger, confirming.now)
    IN  /\ confirming.running
        /\ ledger' = [i \in DOMAIN ledger |->
                         IF i \in marked THEN [ledger[i] EXCEPT !.status = "available"] ELSE ledger[i]]
        /\ IF confirming.listed
             THEN Refresh(ledger')
             ELSE /\ unlisted' = (unlisted \/ marked # {})
                  /\ balance' = balance
        /\ confirming' = NoConfirm
        /\ UNCHANGED <<posted, payouts, due>>

\* The worker stops, or its transaction is rolled back.
ConfirmLost ==
    /\ confirming.running
    /\ confirming' = NoConfirm
    /\ UNCHANGED <<ledger, posted, balance, payouts, due, unlisted>>

-----------------------------------------------------------------------------
(* Withdrawals.                                                            *)

Withdrawable ==
    {i \in DOMAIN ledger : ledger[i].status = "available" /\ ledger[i].request = 0 /\ ledger[i].amount > 0}

\* ListAvailableLedgerEntriesForUpdate: by the time they became due, then by id.
Earlier(i, j) ==
    \/ posted[ledger[i].sale] < posted[ledger[j].sale]
    \/ ledger[i].sale = ledger[j].sale /\ i < j

Oldest == [i \in Withdrawable |-> {j \in Withdrawable : j = i \/ Earlier(j, i)}]

Lock(q, entry) == [entry EXCEPT !.status = "locked", !.request = q]
Bound(q) == [i \in DOMAIN ledger |-> Lock(q, ledger[i])]

\* Mutant: deductions are not held against the profits.
Bug_ApplyWithdraw(a) ==
    LET q == Len(payouts) + 1
    IN  /\ Len(payouts) < MaxRequests
        /\ balance.status # "negative_balance"
        /\ Covered(ledger, Oldest, a)
        /\ ledger' = Taken(ledger, Bound(q), Oldest, a) \o Remainder(ledger, Oldest, a)
        /\ payouts' = Append(payouts, [amount |-> a, status |-> "pending"])
        /\ Refresh(ledger')
        /\ UNCHANGED <<posted, confirming, due>>

ApplyWithdraw(a) ==
    LET q == Len(payouts) + 1
    IN  /\ Len(payouts) < MaxRequests
        /\ balance.status # "negative_balance"
        /\ a <= Net(ledger)
        /\ Covered(ledger, Oldest, a)
        /\ ledger' = Taken(ledger, Bound(q), Oldest, a) \o Remainder(ledger, Oldest, a)
        /\ payouts' = Append(payouts, [amount |-> a, status |-> "pending"])
        /\ Refresh(ledger')
        /\ UNCHANGED <<posted, confirming, due>>

\* Mutant: the account is not refreshed.
Bug_RejectWithdraw(q) ==
    /\ payouts[q].status = "pending"
    /\ payouts' = [payouts EXCEPT ![q].status = "rejected"]
    /\ ledger' = [i \in DOMAIN ledger |->
                     IF ledger[i].request = q
                       THEN [ledger[i] EXCEPT !.status = "available", !.request = 0]
                       ELSE ledger[i]]
    /\ UNCHANGED <<posted, balance, confirming, due, unlisted>>

\* ReviewWithdraw.
RejectWithdraw(q) ==
    /\ payouts[q].status = "pending"
    /\ payouts' = [payouts EXCEPT ![q].status = "rejected"]
    /\ ledger' = [i \in DOMAIN ledger |->
                     IF ledger[i].request = q
                       THEN [ledger[i] EXCEPT !.status = "available", !.request = 0]
                       ELSE ledger[i]]
    /\ Refresh(ledger')
    /\ UNCHANGED <<posted, confirming, due>>

PayWithdraw(q) ==
    /\ payouts[q].status = "pending"
    /\ payouts' = [payouts EXCEPT ![q].status = "paid"]
    /\ ledger' = [i \in DOMAIN ledger |->
                     IF ledger[i].request = q
                       THEN [ledger[i] EXCEPT !.status = "withdrawn"]
                       ELSE ledger[i]]
    /\ Refresh(ledger')
    /\ UNCHANGED <<posted, confirming, due>>

LedgerNext ==
    \/ \E s \in Sales : Mature(s)
    \/ ConfirmLists \/ ConfirmMarks \/ ConfirmLost
    \/ \E a \in 1 .. MaxAsked : ApplyWithdraw(a)
    \/ \E q \in DOMAIN payouts : RejectWithdraw(q) \/ PayWithdraw(q)
===============================================================================
