---------------------------- MODULE AfterSaleProofs ----------------------------
(***************************************************************************)
(* Theorems about AfterSale, for every set of sales and lines, all terms,  *)
(* amounts and fees, and any number of withdrawals: which entries there    *)
(* are, what they are bound to, and that the account row is their sum.     *)
(* The amounts of entries are opaque here; AfterSaleMoneyProofs has what   *)
(* they add up to.                                                         *)
(***************************************************************************)
EXTENDS AfterSale, SumTheorems, SequenceTheorems, TLAPS

(* The inductive invariant.                                                *)

EntryOf(A) ==
    [sale: Sales, type: EntryType, amount: A, status: EntryStatus, request: Nat]

IsLedger(rows) == rows \in Seq(EntryOf({rows[i].amount : i \in DOMAIN rows}))

LedgerTyped ==
    /\ IsLedger(ledger)
    /\ posted \in [Sales -> Nat]
    /\ payouts \in Seq([amount: Nat, status: PayoutStatus])
    /\ confirming \in [running: BOOLEAN, now: SUBSET Sales, listed: BOOLEAN]
    /\ due \subseteq Sales
    /\ unlisted \in BOOLEAN

SalesTyped ==
    /\ terms \in Terms
    /\ status \in [Orders -> Status]
    /\ refunding \in [Sales -> [amount: Nat, seen: EntryStatus \cup {"none"}]]
    /\ paidHook \in [Sales -> {"none", "started", "ended"}]

\* The profit of a sale is an entry of that sale.
PostedIsProfit ==
    \A r \in Sales : posted[r] # 0 => posted[r] \in DOMAIN ledger /\ ledger[posted[r]].sale = r

\* A sale that was paid does not wait for its payment again.
PaidLeft == \A r \in Sales : PaidAt(r) => status[r] # "pending_payment"

\* What a refund has read of the profit is old, but never wrongly beyond the
\* confirmation.
SeenHolds ==
    \A r \in Sales : ~Idle(r) =>
        /\ PaidAt(r)
        /\ refunding[r].seen # "pending_confirm" => ProfitStatus(r) # "pending_confirm"

\* An entry is bound to a request while the request waits, and when it is paid.
RowsFollowRequests ==
    \A i \in DOMAIN ledger :
        LET entry == ledger[i]
        IN  IF entry.request = 0
              THEN entry.status \in {"pending_confirm", "available"}
              ELSE /\ entry.request \in DOMAIN payouts
                   /\ \/ entry.status = "locked" /\ payouts[entry.request].status = "pending"
                      \/ entry.status = "withdrawn" /\ payouts[entry.request].status = "paid"

\* Entries are of sales that were paid.
EntriesOfPaid == \A i \in DOMAIN ledger : PaidAt(ledger[i].sale)

LedgerInv == LedgerTyped /\ PostedIsProfit /\ DeductAfterProfit /\ RowsFollowRequests
SaleInv == SalesTyped /\ PaidLeft /\ SeenHolds /\ EntriesOfPaid

IInv == LedgerInv /\ SaleInv

LEMMA SaleIsRoot == \A r \in Sales : RootOf(r) = r /\ r \in Orders
BY AfterSaleAssumption DEF RootOf, Orders

LEMMA PaidAtSale ==
    \A r \in Sales : PaidAt(r) = (paidHook[r] # "none") /\ PaidAt(r)' = (paidHook'[r] # "none")
BY SaleIsRoot DEF PaidAt

LEMMA EntrySale ==
    ASSUME IInv
    PROVE  \A i \in DOMAIN ledger : ledger[i].sale \in Sales
<1>1. IsLedger(ledger)
  BY DEF IInv, LedgerInv, LedgerTyped
<1> DEFINE A == {ledger[i].amount : i \in DOMAIN ledger}
<1>2. ledger \in Seq(EntryOf(A))
  BY <1>1 DEF IsLedger
<1>3. \A e \in EntryOf(A) : e.sale \in Sales
  BY DEF EntryOf
<1> HIDE DEF A
<1>4. QED
  BY <1>2, <1>3

(* Rows of the ledger.                                                     *)

LEMMA LedgerFrom ==
    ASSUME NEW A, NEW rows \in Seq(EntryOf(A))
    PROVE  IsLedger(rows)
<1>1. /\ Len(rows) \in Nat /\ DOMAIN rows = 1 .. Len(rows)
      /\ rows = [i \in 1 .. Len(rows) |-> rows[i]]
      /\ \A i \in DOMAIN rows : rows[i] \in EntryOf(A)
  OBVIOUS
<1> DEFINE B == {rows[i].amount : i \in DOMAIN rows}
<1>2. \A i \in 1 .. Len(rows) : rows[i] \in EntryOf(B)
  BY <1>1 DEF EntryOf
<1>3. rows \in Seq(EntryOf(B))
  BY <1>1, <1>2
<1>4. QED
  BY <1>3 DEF IsLedger

LEMMA LedgerFacts ==
    ASSUME NEW rows, IsLedger(rows)
    PROVE  /\ Len(rows) \in Nat /\ DOMAIN rows = 1 .. Len(rows)
           /\ rows = [i \in DOMAIN rows |-> rows[i]]
           /\ \E A : rows \in Seq(EntryOf(A)) /\ \A i \in DOMAIN rows : rows[i] \in EntryOf(A)
BY DEF IsLedger

\* A new entry.
LEMMA AppendEntry ==
    ASSUME NEW rows, IsLedger(rows), NEW e, e = Entry(e.sale, e.type, e.amount, e.status),
           e.sale \in Sales, e.type \in EntryType, e.status \in EntryStatus
    PROVE  /\ IsLedger(Append(rows, e))
           /\ DOMAIN Append(rows, e) = 1 .. Len(rows) + 1
           /\ \A i \in DOMAIN rows : Append(rows, e)[i] = rows[i]
           /\ Append(rows, e)[Len(rows) + 1] = e
<1>1. PICK A : rows \in Seq(EntryOf(A))
  BY LedgerFacts
<1> DEFINE B == EntryOf(A \cup {e.amount})
<1>2. e \in B
  BY DEF Entry, EntryOf
<1>3. rows \in Seq(B)
  <2>1. EntryOf(A) \subseteq B
    BY DEF EntryOf
  <2> HIDE DEF B
  <2>2. QED
    BY <1>1, <2>1
<1>4. Append(rows, e) \in Seq(B)
  <2> HIDE DEF B
  <2>1. QED
    BY <1>2, <1>3
<1>5. IsLedger(Append(rows, e))
  BY <1>4, LedgerFrom
<1>6. QED
  <2> HIDE DEF B
  <2>1. QED
    BY <1>2, <1>3, <1>5

\* Rows that are changed in place.
LEMMA ChangedRows ==
    ASSUME NEW rows, IsLedger(rows), NEW more, NEW A,
           more = [i \in DOMAIN rows |-> more[i]],
           \A i \in DOMAIN rows : more[i] \in EntryOf(A)
    PROVE  IsLedger(more) /\ DOMAIN more = DOMAIN rows
<1>1. Len(rows) \in Nat /\ DOMAIN rows = 1 .. Len(rows)
  BY LedgerFacts
<1>2. more \in Seq(EntryOf(A))
  BY <1>1
<1>3. QED
  BY <1>2, LedgerFrom

LEMMA RowFacts ==
    ASSUME NEW rows, IsLedger(rows), NEW i \in DOMAIN rows
    PROVE  /\ rows[i].sale \in Sales /\ rows[i].type \in EntryType
           /\ rows[i].status \in EntryStatus /\ rows[i].request \in Nat
           /\ rows[i] \in EntryOf({rows[j].amount : j \in DOMAIN rows})
           /\ rows[i] = [sale |-> rows[i].sale, type |-> rows[i].type, amount |-> rows[i].amount,
                         status |-> rows[i].status, request |-> rows[i].request]
<1>1. rows[i] \in EntryOf({rows[j].amount : j \in DOMAIN rows})
  BY DEF IsLedger
<1>2. QED
  BY <1>1 DEF EntryOf

\* Entries are added, never dropped, and keep their sale and type.
Grows ==
    /\ DOMAIN ledger \subseteq DOMAIN ledger'
    /\ \A i \in DOMAIN ledger :
           ledger'[i].sale = ledger[i].sale /\ ledger'[i].type = ledger[i].type

\* A sale's profit leaves the confirmation and does not come back to it.
Advances ==
    /\ posted' = posted
    /\ \A i \in DOMAIN ledger' : \E j \in DOMAIN ledger : ledger'[i].sale = ledger[j].sale
    /\ \A i \in DOMAIN ledger :
           ledger[i].status # "pending_confirm" => ledger'[i].status # "pending_confirm"

LEMMA StillPosted ==
    ASSUME LedgerInv, Grows, posted' = posted
    PROVE  PostedIsProfit'
BY DEF LedgerInv, PostedIsProfit, Grows

LEMMA StillBeyond ==
    ASSUME LedgerInv, Advances, NEW r \in Sales, ProfitStatus(r) # "pending_confirm"
    PROVE  ProfitStatus(r)' # "pending_confirm"
BY DEF LedgerInv, PostedIsProfit, Advances, ProfitStatus

\* A transaction of the ledger alone leaves the sales as they are.
LEMMA SalesKept ==
    ASSUME IInv, Advances, UNCHANGED <<saleVars, paidHook>>
    PROVE  SaleInv'
<1>1. SalesTyped' /\ PaidLeft'
  BY DEF IInv, SaleInv, SalesTyped, PaidLeft, saleVars, PaidAt
<1>2. SeenHolds'
  <2> SUFFICES ASSUME NEW r \in Sales, ~Idle(r)
               PROVE  /\ PaidAt(r)'
                      /\ refunding[r].seen # "pending_confirm" => ProfitStatus(r)' # "pending_confirm"
    BY DEF SeenHolds, Idle, saleVars
  <2>1. PaidAt(r)'
    BY DEF IInv, SaleInv, SeenHolds, PaidAt
  <2>2. QED
    BY <2>1, StillBeyond DEF IInv, SaleInv, SeenHolds
<1>3. EntriesOfPaid'
  BY DEF IInv, SaleInv, EntriesOfPaid, Advances, PaidAt
<1>4. QED
  BY <1>1, <1>2, <1>3 DEF SaleInv

(* The invariants after a step, in terms of the new rows.                   *)

LEMMA NextLedgerTyped ==
    ASSUME IsLedger(ledger'), posted' \in [Sales -> Nat],
           payouts' \in Seq([amount: Nat, status: PayoutStatus]),
           confirming' \in [running: BOOLEAN, now: SUBSET Sales, listed: BOOLEAN],
           due' \subseteq Sales, unlisted' \in BOOLEAN
    PROVE  LedgerTyped'
BY DEF LedgerTyped, IsLedger

LEMMA NextDeduct ==
    ASSUME \A i \in DOMAIN ledger' :
               (ledger'[i].type = "refund_deduct" /\ ledger'[i].status # "pending_confirm")
                   => \/ posted'[ledger'[i].sale] = 0
                      \/ ledger'[posted'[ledger'[i].sale]].status # "pending_confirm"
    PROVE  DeductAfterProfit'
BY DEF DeductAfterProfit, ProfitStatus

LEMMA NextEntries ==
    ASSUME \A i \in DOMAIN ledger' :
               ledger'[i].sale \in Sales /\ paidHook'[ledger'[i].sale] # "none"
    PROVE  EntriesOfPaid'
BY SaleIsRoot DEF EntriesOfPaid, PaidAt

(* Initial states.                                                         *)

LEMMA InitInv ==
    ASSUME Init
    PROVE  IInv /\ BalanceIsLedger
<1>1. ledger = <<>> /\ DOMAIN ledger = {} /\ posted = [r \in Sales |-> 0]
  BY DEF Init, LedgerInit
<1>2. LedgerTyped
  <2>1. IsLedger(<<>>)
    BY DEF IsLedger
  <2>2. IsLedger(ledger)
    BY <1>1, <2>1
  <2>3. confirming \in [running: BOOLEAN, now: SUBSET Sales, listed: BOOLEAN]
    BY DEF Init, LedgerInit, NoConfirm
  <2>4. posted \in [Sales -> Nat] /\ payouts \in Seq([amount: Nat, status: PayoutStatus])
    BY <1>1 DEF Init, LedgerInit
  <2>5. QED
    BY <2>2, <2>3, <2>4 DEF LedgerTyped, Init, LedgerInit
<1>3. PostedIsProfit /\ DeductAfterProfit /\ RowsFollowRequests /\ EntriesOfPaid
  BY <1>1 DEF PostedIsProfit, DeductAfterProfit, RowsFollowRequests, EntriesOfPaid
<1>4. SalesTyped
  BY AfterSaleAssumption DEF SalesTyped, Init, CommissionsInit, NoRefund, Status
<1>5. PaidLeft
  BY AfterSaleAssumption, PaidAtSale DEF PaidLeft, Init, CommissionsInit
<1>6. SeenHolds
  BY DEF SeenHolds, Idle, Init
<1>7. BalanceIsLedger
  <2>1. In(ledger, "available") = {} /\ In(ledger, "locked") = {}
    BY <1>1 DEF In
  <2>2. SumOf(ledger, {}) = 0
    BY SumEmpty DEF SumOf
  <2>3. Net(ledger) = 0 /\ Locked(ledger) = 0
    BY <1>1, <2>1, <2>2 DEF Net, Locked
  <2>4. QED
    BY <2>3 DEF BalanceIsLedger, Init, LedgerInit
<1>8. QED
  BY <1>2, <1>3, <1>4, <1>5, <1>6, <1>7 DEF IInv, LedgerInv, SaleInv

(* The payment.                                                            *)

LEMMA PayKeepsInv ==
    ASSUME IInv, NEW r \in Sales, Pay(r)
    PROVE  IInv'
<1> USE DEF IInv, LedgerInv, SaleInv
<1>1. r \in Orders /\ RootOf(r) = r /\ paidHook[r] = "none" /\ posted[r] \in Nat
  BY SaleIsRoot, PaidAtSale DEF Pay, PaidLeft, LedgerTyped
<1>2. SalesTyped'
  BY DEF Pay, SalesTyped, Become, Status
<1>3. PaidLeft'
  <2> SUFFICES ASSUME NEW s \in Sales, PaidAt(s)'
               PROVE  status'[s] # "pending_payment"
    BY DEF PaidLeft
  <2>1. CASE s \in WithLines(r)
    BY <2>1, SaleIsRoot DEF Pay, Become
  <2>2. CASE s \notin WithLines(r)
    <3>1. s # r /\ PaidAt(s)
      BY <2>2, PaidAtSale DEF WithLines, Pay, SalesTyped
    <3>2. QED
      BY <3>1, <2>2, SaleIsRoot DEF Pay, Become, PaidLeft
  <2>3. QED
    BY <2>1, <2>2
<1>4. CASE posted[r] # 0 \/ terms[r].gross <= 0
  <2>1. UNCHANGED <<ledger, posted, balance, unlisted, payouts, confirming, due, refunding>>
    BY <1>4 DEF Pay, PostOrderProfit
  <2>2. LedgerTyped' /\ PostedIsProfit' /\ RowsFollowRequests'
    BY <2>1 DEF LedgerTyped, PostedIsProfit, RowsFollowRequests
  <2>3. DeductAfterProfit'
    BY <2>1 DEF DeductAfterProfit, ProfitStatus
  <2>4. SeenHolds'
    BY <2>1, PaidAtSale DEF SeenHolds, Idle, ProfitStatus, Pay, SalesTyped
  <2>5. EntriesOfPaid'
    BY <2>1, PaidAtSale, EntrySale DEF EntriesOfPaid, Pay, SalesTyped
  <2>6. QED
    BY <1>2, <1>3, <2>2, <2>3, <2>4, <2>5
<1>5. CASE ~(posted[r] # 0 \/ terms[r].gross <= 0)
  <2> DEFINE e == Entry(r, "order_profit", Earned(terms[r].gross, Fee[r]), "pending_confirm")
  <2>1. /\ ledger' = Append(ledger, e)
        /\ posted' = [posted EXCEPT ![r] = Len(ledger) + 1]
        /\ posted[r] = 0
        /\ unlisted' = FALSE
        /\ UNCHANGED <<payouts, confirming, due, refunding>>
    BY <1>5 DEF Pay, PostOrderProfit, Refresh
  <2>2. e = Entry(e.sale, e.type, e.amount, e.status) /\ e.sale = r /\ e.type = "order_profit"
        /\ e.status = "pending_confirm" /\ e.request = 0
    BY DEF Entry
  <2> HIDE DEF e
  <2>3. /\ IsLedger(ledger')
        /\ DOMAIN ledger' = 1 .. Len(ledger) + 1
        /\ \A i \in DOMAIN ledger : ledger'[i] = ledger[i]
        /\ ledger'[Len(ledger) + 1] = e
    BY <2>1, <2>2, AppendEntry DEF LedgerTyped, EntryType, EntryStatus
  <2>4. Len(ledger) \in Nat /\ DOMAIN ledger = 1 .. Len(ledger)
    BY LedgerFacts DEF LedgerTyped
  <2>5. LedgerTyped'
    <3>1. posted' \in [Sales -> Nat]
      BY <2>1, <2>4 DEF LedgerTyped
    <3>2. unlisted' \in BOOLEAN
      BY <2>1
    <3>3. QED
      BY <2>1, <2>3, <3>1, <3>2, NextLedgerTyped DEF LedgerTyped
  <2>6. PostedIsProfit'
    BY <2>1, <2>2, <2>3, <2>4 DEF PostedIsProfit, LedgerTyped
  <2>7. \A i \in DOMAIN ledger : ledger[i].sale # r
    BY <1>1, PaidAtSale, EntrySale DEF EntriesOfPaid
  <2>8. DeductAfterProfit'
    <3> SUFFICES ASSUME NEW i \in DOMAIN ledger', ledger'[i].type = "refund_deduct",
                        ledger'[i].status # "pending_confirm"
                 PROVE  \/ posted'[ledger'[i].sale] = 0
                        \/ ledger'[posted'[ledger'[i].sale]].status # "pending_confirm"
      BY NextDeduct
    <3>1. i \in DOMAIN ledger /\ ledger'[i] = ledger[i]
      BY <2>2, <2>3, <2>4
    <3>2. ledger[i].sale \in Sales /\ ledger[i].sale # r
      BY <2>7, <3>1, EntrySale
    <3>3. ProfitStatus(ledger[i].sale) # "pending_confirm"
      BY <3>1 DEF DeductAfterProfit
    <3>4. posted'[ledger[i].sale] = posted[ledger[i].sale]
      BY <2>1, <3>2 DEF LedgerTyped
    <3>5. QED
      BY <2>3, <3>1, <3>2, <3>3, <3>4 DEF ProfitStatus, PostedIsProfit
  <2>9. RowsFollowRequests'
    BY <2>1, <2>2, <2>3, <2>4 DEF RowsFollowRequests
  <2>10. EntriesOfPaid'
    <3> SUFFICES ASSUME NEW i \in DOMAIN ledger'
                 PROVE  ledger'[i].sale \in Sales /\ paidHook'[ledger'[i].sale] # "none"
      BY NextEntries
    <3>1. CASE i \in DOMAIN ledger
      BY <3>1, <2>3, EntrySale, PaidAtSale DEF EntriesOfPaid, Pay, SalesTyped
    <3>2. CASE i = Len(ledger) + 1
      BY <3>2, <2>2, <2>3 DEF Pay, SalesTyped
    <3>3. QED
      BY <2>3, <2>4, <3>1, <3>2
  <2>11. SeenHolds'
    <3> SUFFICES ASSUME NEW s \in Sales, ~Idle(s)
                 PROVE  /\ PaidAt(s)'
                        /\ refunding[s].seen # "pending_confirm"
                              => ProfitStatus(s)' # "pending_confirm"
      BY <2>1 DEF SeenHolds, Idle
    <3>1. PaidAt(s) /\ s # r
      BY <1>1, PaidAtSale DEF SeenHolds
    <3>2. posted'[s] = posted[s]
      BY <2>1, <3>1 DEF LedgerTyped
    <3>3. PaidAt(s)'
      BY <3>1, PaidAtSale DEF Pay, SalesTyped
    <3>4. QED
      BY <2>3, <3>1, <3>2, <3>3 DEF SeenHolds, ProfitStatus, PostedIsProfit
  <2>12. QED
    BY <1>2, <1>3, <2>5, <2>6, <2>8, <2>9, <2>10, <2>11
<1>6. QED
  BY <1>4, <1>5

(* Refunds.                                                                *)

LEMMA RefundKeepsInv ==
    ASSUME IInv, NEW r \in Sales, RefundCommits(r)
    PROVE  IInv'
<1> USE DEF IInv, LedgerInv, SaleInv
<1>1. paidHook' = paidHook
  BY DEF RefundCommits, HandleOrderRefunded, commissionVars
<1>2. SalesTyped'
  BY <1>1 DEF RefundCommits, SalesTyped, Become, AfterRefund, Status, NoRefund
<1>3. PaidLeft'
  <2> SUFFICES ASSUME NEW s \in Sales, paidHook[s] # "none"
               PROVE  status'[s] # "pending_payment"
    BY <1>1, PaidAtSale DEF PaidLeft
  <2>1. status[s] # "pending_payment"
    BY PaidAtSale DEF PaidLeft
  <2>2. QED
    BY <2>1, SaleIsRoot DEF RefundCommits, Become, AfterRefund
<1>4. PaidAt(r) /\ posted' = posted
  BY DEF SeenHolds, RefundCommits, HandleRefundDeduct
<1>5. \A s \in Sales : ~Idle(s)' => ~Idle(s) /\ refunding'[s] = refunding[s]
  BY DEF Idle, RefundCommits, SalesTyped
<1>6. CASE UNCHANGED <<ledger, unlisted>>
  <2>1. UNCHANGED <<payouts, confirming, due>>
    BY DEF RefundCommits
  <2>2. LedgerTyped' /\ PostedIsProfit' /\ RowsFollowRequests'
    BY <1>4, <1>6, <2>1 DEF LedgerTyped, PostedIsProfit, RowsFollowRequests
  <2>3. DeductAfterProfit'
    BY <1>4, <1>6 DEF DeductAfterProfit, ProfitStatus
  <2>4. SeenHolds'
    BY <1>1, <1>4, <1>5, <1>6, PaidAtSale DEF SeenHolds, ProfitStatus
  <2>5. EntriesOfPaid'
    BY <1>1, <1>6, EntrySale, PaidAtSale DEF EntriesOfPaid
  <2>6. QED
    BY <1>2, <1>3, <2>2, <2>3, <2>4, <2>5
<1>7. CASE ~UNCHANGED <<ledger, unlisted>>
  <2> DEFINE x == -Deduct(r, terms[r].gross, Total[r], refunded[r], refunding[r].amount)
             e == Entry(r, "refund_deduct", x, DeductStatus(refunding[r].seen))
  <2>1. ledger' = Append(ledger, e) /\ unlisted' = FALSE
    BY <1>7 DEF RefundCommits, HandleRefundDeduct, Refresh
  <2>2. /\ e = Entry(e.sale, e.type, e.amount, e.status) /\ e.sale = r /\ e.type = "refund_deduct"
        /\ e.status \in {"pending_confirm", "available"} /\ e.request = 0
        /\ e.status # "pending_confirm" => refunding[r].seen # "pending_confirm"
    BY DEF Entry, DeductStatus
  <2> HIDE DEF e, x
  <2>3. /\ IsLedger(ledger')
        /\ DOMAIN ledger' = 1 .. Len(ledger) + 1
        /\ \A i \in DOMAIN ledger : ledger'[i] = ledger[i]
        /\ ledger'[Len(ledger) + 1] = e
    BY <2>1, <2>2, AppendEntry DEF LedgerTyped, EntryType, EntryStatus
  <2>4. Len(ledger) \in Nat /\ DOMAIN ledger = 1 .. Len(ledger)
    BY LedgerFacts DEF LedgerTyped
  <2>5. LedgerTyped'
    <3>1. unlisted' \in BOOLEAN
      BY <2>1
    <3>2. QED
      BY <1>4, <2>3, <3>1, NextLedgerTyped DEF LedgerTyped, RefundCommits
  <2>6. PostedIsProfit'
    BY <1>4, <2>3, <2>4 DEF PostedIsProfit
  <2>7. \A s \in Sales : ProfitStatus(s) # "pending_confirm" =>
            posted'[s] = 0 \/ ledger'[posted'[s]].status # "pending_confirm"
    BY <1>4, <2>3 DEF ProfitStatus, PostedIsProfit
  <2>8. DeductAfterProfit'
    <3> SUFFICES ASSUME NEW i \in DOMAIN ledger', ledger'[i].type = "refund_deduct",
                        ledger'[i].status # "pending_confirm"
                 PROVE  \/ posted'[ledger'[i].sale] = 0
                        \/ ledger'[posted'[ledger'[i].sale]].status # "pending_confirm"
      BY NextDeduct
    <3>1. CASE i \in DOMAIN ledger
      BY <3>1, <2>3, <2>7, EntrySale DEF DeductAfterProfit
    <3>2. CASE i = Len(ledger) + 1
      BY <3>2, <2>2, <2>3, <2>7 DEF SeenHolds, RefundCommits
    <3>3. QED
      BY <2>3, <2>4, <3>1, <3>2
  <2>9. RowsFollowRequests'
    BY <2>2, <2>3, <2>4 DEF RowsFollowRequests, RefundCommits
  <2>10. EntriesOfPaid'
    <3> SUFFICES ASSUME NEW i \in DOMAIN ledger'
                 PROVE  ledger'[i].sale \in Sales /\ paidHook'[ledger'[i].sale] # "none"
      BY NextEntries
    <3>1. CASE i \in DOMAIN ledger
      BY <1>1, <3>1, <2>3, EntrySale, PaidAtSale DEF EntriesOfPaid
    <3>2. CASE i = Len(ledger) + 1
      BY <1>1, <1>4, <3>2, <2>2, <2>3, PaidAtSale
    <3>3. QED
      BY <2>3, <2>4, <3>1, <3>2
  <2>11. SeenHolds'
    <3> SUFFICES ASSUME NEW s \in Sales, ~Idle(s)'
                 PROVE  /\ PaidAt(s)'
                        /\ refunding'[s].seen # "pending_confirm"
                              => ProfitStatus(s)' # "pending_confirm"
      BY DEF SeenHolds
    <3>1. PaidAt(s)'
      BY <1>1, <1>5, PaidAtSale DEF SeenHolds
    <3>2. QED
      BY <1>5, <2>7, <3>1 DEF SeenHolds, ProfitStatus
  <2>12. QED
    BY <1>2, <1>3, <2>5, <2>6, <2>8, <2>9, <2>10, <2>11
<1>8. QED
  BY <1>6, <1>7

(* Steps that leave the entries alone.                                     *)

LEMMA EntriesKept ==
    ASSUME IInv, UNCHANGED <<ledger, posted, payouts, unlisted>>,
           confirming' \in [running: BOOLEAN, now: SUBSET Sales, listed: BOOLEAN],
           due' \subseteq Sales
    PROVE  LedgerInv'
<1> USE DEF IInv, LedgerInv
<1>1. LedgerTyped' /\ PostedIsProfit' /\ RowsFollowRequests'
  BY DEF LedgerTyped, PostedIsProfit, RowsFollowRequests
<1>2. DeductAfterProfit'
  BY DEF DeductAfterProfit, ProfitStatus
<1>3. QED
  BY <1>1, <1>2

LEMMA SeenKept ==
    ASSUME IInv, UNCHANGED <<ledger, posted>>,
           \A s \in Sales : (paidHook[s] # "none") => (paidHook'[s] # "none"),
           \A s \in Sales : ~Idle(s)' =>
               \/ ~Idle(s) /\ refunding'[s] = refunding[s]
               \/ PaidAt(s) /\ refunding'[s].seen = ProfitStatus(s)
    PROVE  SeenHolds' /\ EntriesOfPaid'
<1> USE DEF IInv, SaleInv
<1>1. SeenHolds'
  BY PaidAtSale DEF SeenHolds, ProfitStatus
<1>2. EntriesOfPaid'
  BY EntrySale, PaidAtSale DEF EntriesOfPaid
<1>3. QED
  BY <1>1, <1>2

\* Steps of the orders.
LEMMA OrderStepKeepsInv ==
    ASSUME IInv, UNCHANGED <<terms, ledgerVars>>,
           status' \in [Orders -> Status],
           \A s \in Sales : status[s] # "pending_payment" => status'[s] # "pending_payment",
           refunding' \in [Sales -> [amount: Nat, seen: EntryStatus \cup {"none"}]],
           paidHook' \in [Sales -> {"none", "started", "ended"}],
           \A s \in Sales : (paidHook[s] # "none") <=> (paidHook'[s] # "none"),
           \A s \in Sales : ~Idle(s)' =>
               \/ ~Idle(s) /\ refunding'[s] = refunding[s]
               \/ PaidAt(s) /\ refunding'[s].seen = ProfitStatus(s)
    PROVE  IInv'
<1> USE DEF ledgerVars
<1>1. LedgerInv'
  BY EntriesKept DEF IInv, LedgerInv, LedgerTyped
<1>2. SalesTyped'
  BY DEF IInv, SaleInv, SalesTyped
<1>3. PaidLeft'
  BY PaidAtSale DEF IInv, SaleInv, PaidLeft
<1>4. SeenHolds' /\ EntriesOfPaid'
  BY SeenKept
<1>5. QED
  BY <1>1, <1>2, <1>3, <1>4 DEF IInv, SaleInv

LEMMA SeenTyped ==
    ASSUME IInv, NEW r \in Sales
    PROVE  ProfitStatus(r) \in EntryStatus \cup {"none"}
<1>1. CASE posted[r] = 0
  BY <1>1 DEF ProfitStatus
<1>2. CASE posted[r] # 0
  BY <1>2, RowFacts DEF ProfitStatus, IInv, LedgerInv, LedgerTyped, PostedIsProfit
<1>3. QED
  BY <1>1, <1>2

LEMMA OrdersKeepInv ==
    ASSUME IInv,
           \/ \E r \in Sales :
                 \/ PaidHook(r) \/ Cancel(r) \/ RefundFails(r)
                 \/ \E a \in Amounts[r] : RefundBegins(r, a)
           \/ \E l \in Lines : \E a \in Amounts[l] : RefundLine(l, a)
    PROVE  IInv'
<1> USE DEF IInv, SaleInv, SalesTyped
<1>1. ASSUME NEW r \in Sales, PaidHook(r)
      PROVE  IInv'
  BY <1>1, OrderStepKeepsInv DEF PaidHook, HandleOrderPaid, saleVars, Idle
<1>2. ASSUME NEW r \in Sales, Cancel(r)
      PROVE  IInv'
  <2>1. status' \in [Orders -> Status] /\ \A s \in Sales : status[s] # "pending_payment" => status'[s] # "pending_payment"
    BY <1>2, SaleIsRoot DEF Cancel, Become, Status
  <2>2. UNCHANGED <<terms, refunding, ledgerVars, paidHook>>
    BY <1>2 DEF Cancel, CancelReads
  <2>3. QED
    BY <2>1, <2>2, OrderStepKeepsInv DEF Idle
<1>3. ASSUME NEW r \in Sales, RefundFails(r)
      PROVE  IInv'
  BY <1>3, OrderStepKeepsInv DEF RefundFails, Idle, commissionVars, NoRefund
<1>4. ASSUME NEW r \in Sales, NEW a \in Amounts[r], RefundBegins(r, a)
      PROVE  IInv'
  <2>1. a \in Nat
    BY AfterSaleAssumption, SaleIsRoot
  <2>2. refunding' \in [Sales -> [amount: Nat, seen: EntryStatus \cup {"none"}]]
    BY <1>4, <2>1, SeenTyped DEF RefundBegins
  <2>3. \A s \in Sales : ~Idle(s)' =>
            \/ ~Idle(s) /\ refunding'[s] = refunding[s]
            \/ PaidAt(s) /\ refunding'[s].seen = ProfitStatus(s)
    BY <1>4 DEF RefundBegins, Refundable, Idle
  <2>4. QED
    BY <1>4, <2>2, <2>3, OrderStepKeepsInv DEF RefundBegins, commissionVars
<1>5. ASSUME NEW l \in Lines, NEW a \in Amounts[l], RefundLine(l, a)
      PROVE  IInv'
  <2> DEFINE r == ParentOf[l]
             synced == [status EXCEPT ![l] = AfterRefund(l, a)]
  <2>1. r \in Sales /\ l \in Orders /\ l \notin Sales
    BY AfterSaleAssumption DEF Orders
  <2>2. synced \in [Orders -> Status] /\ \A s \in Sales : synced[s] = status[s]
    BY <2>1, SaleIsRoot DEF AfterRefund, Status
  <2>3. status[r] # "pending_payment"
    BY <1>5, <2>1, SaleIsRoot, PaidAtSale DEF RefundLine, Refundable, PaidAt, RootOf, PaidLeft
  <2>4. CalcParentStatus(r, synced) \in Status /\ CalcParentStatus(r, synced) # "pending_payment"
    BY <2>1, <2>2, <2>3, SaleIsRoot DEF CalcParentStatus, Status
  <2>5. status' \in [Orders -> Status] /\ \A s \in Sales : status[s] # "pending_payment" => status'[s] # "pending_payment"
    BY <1>5, <2>1, <2>2, <2>4, SaleIsRoot DEF RefundLine
  <2>6. UNCHANGED <<terms, refunding, ledgerVars, paidHook>>
    BY <1>5 DEF RefundLine, commissionVars
  <2>7. QED
    BY <2>5, <2>6, OrderStepKeepsInv DEF Idle
<1>6. QED
  BY <1>1, <1>2, <1>3, <1>4, <1>5

(* Steps of the ledger.                                                    *)

\* Rows changed in place: only their status and request.
LEMMA MarkedRows ==
    ASSUME IInv, NEW S, NEW st \in EntryStatus, NEW q,
           \A i \in DOMAIN ledger : q[i] \in Nat,
           ledger' = [i \in DOMAIN ledger |->
                         IF i \in S THEN [ledger[i] EXCEPT !.status = st, !.request = q[i]]
                                    ELSE ledger[i]]
    PROVE  /\ IsLedger(ledger') /\ DOMAIN ledger' = DOMAIN ledger /\ Grows
           /\ \A i \in DOMAIN ledger :
                  /\ ledger'[i].sale = ledger[i].sale /\ ledger'[i].type = ledger[i].type
                  /\ i \in S => ledger'[i].status = st /\ ledger'[i].request = q[i]
                  /\ i \notin S => ledger'[i] = ledger[i]
<1> DEFINE A == {ledger[i].amount : i \in DOMAIN ledger}
<1>1. IsLedger(ledger)
  BY DEF IInv, LedgerInv, LedgerTyped
<1>2. \A i \in DOMAIN ledger : ledger[i] \in EntryOf(A)
  BY <1>1, RowFacts
<1> HIDE DEF A
<1>3. \A i \in DOMAIN ledger :
          /\ ledger'[i] \in EntryOf(A)
          /\ ledger'[i].sale = ledger[i].sale /\ ledger'[i].type = ledger[i].type
          /\ i \in S => ledger'[i].status = st /\ ledger'[i].request = q[i]
          /\ i \notin S => ledger'[i] = ledger[i]
  BY <1>2 DEF EntryOf
<1>4. ledger' = [i \in DOMAIN ledger |-> ledger'[i]]
  OBVIOUS
<1>5. \A i \in DOMAIN ledger : ledger'[i] \in EntryOf(A)
  BY <1>3
<1>6. IsLedger(ledger') /\ DOMAIN ledger' = DOMAIN ledger
  BY ONLY <1>1, <1>4, <1>5, ChangedRows
<1>7. QED
  BY <1>3, <1>6 DEF Grows

LEMMA TasksKeepInv ==
    ASSUME IInv, UNCHANGED <<saleVars, paidHook>>,
           (\E s \in Sales : Mature(s)) \/ ConfirmLists \/ ConfirmLost
    PROVE  IInv'
<1>1. UNCHANGED <<ledger, posted, payouts, unlisted>>
  BY DEF Mature, ConfirmLists, ConfirmLost
<1>2. confirming' \in [running: BOOLEAN, now: SUBSET Sales, listed: BOOLEAN]
  <2>1. confirming \in [running: BOOLEAN, now: SUBSET Sales, listed: BOOLEAN] /\ due \subseteq Sales
    BY DEF IInv, LedgerInv, LedgerTyped
  <2>2. CASE confirming' = confirming
    BY <2>1, <2>2
  <2>3. CASE ConfirmLists
    <3>1. (Pending(ledger, due) # {}) \in BOOLEAN
      OBVIOUS
    <3>2. QED
      BY <2>1, <2>3, <3>1 DEF ConfirmLists
  <2>4. CASE ConfirmLost
    BY <2>4 DEF ConfirmLost, NoConfirm
  <2>5. QED
    BY <2>2, <2>3, <2>4 DEF Mature
<1>3. due' \subseteq Sales
  BY DEF Mature, ConfirmLists, ConfirmLost, IInv, LedgerInv, LedgerTyped
<1>4. LedgerInv'
  BY <1>1, <1>2, <1>3, EntriesKept
<1>5. SaleInv'
  BY <1>1, SalesKept DEF Advances
<1>6. QED
  BY <1>4, <1>5 DEF IInv

LEMMA MarksKeepInv ==
    ASSUME IInv, UNCHANGED <<saleVars, paidHook>>, ConfirmMarks
    PROVE  IInv'
<1> DEFINE marked == Pending(ledger, confirming.now)
           q == [i \in DOMAIN ledger |-> ledger[i].request]
<1>1. IsLedger(ledger)
  BY DEF IInv, LedgerInv, LedgerTyped
<1>2. \A i \in DOMAIN ledger : q[i] \in Nat
  BY <1>1, RowFacts
<1>3. ledger' = [i \in DOMAIN ledger |->
                    IF i \in marked THEN [ledger[i] EXCEPT !.status = "available", !.request = q[i]]
                                    ELSE ledger[i]]
  <2>1. \A i \in DOMAIN ledger :
            [ledger[i] EXCEPT !.status = "available", !.request = q[i]]
                = [ledger[i] EXCEPT !.status = "available"]
    BY <1>1, RowFacts
  <2>2. QED
    BY <2>1 DEF ConfirmMarks
<1> HIDE DEF marked, q
<1>4. /\ IsLedger(ledger') /\ DOMAIN ledger' = DOMAIN ledger /\ Grows
      /\ \A i \in DOMAIN ledger :
             /\ ledger'[i].sale = ledger[i].sale /\ ledger'[i].type = ledger[i].type
             /\ i \in marked => ledger'[i].status = "available" /\ ledger'[i].request = q[i]
             /\ i \notin marked => ledger'[i] = ledger[i]
  BY <1>2, <1>3, MarkedRows DEF EntryStatus
<1>5. \A i \in DOMAIN ledger : q[i] = ledger[i].request
  BY DEF q
<1>6. \A i \in DOMAIN ledger : i \in marked <=>
          ledger[i].status = "pending_confirm" /\ ledger[i].sale \in confirming.now
  BY DEF marked, Pending
<1>7. UNCHANGED <<posted, payouts, due>> /\ confirming' = NoConfirm
  BY DEF ConfirmMarks
<1>8. LedgerTyped'
  <2>1. unlisted' \in BOOLEAN
    BY DEF ConfirmMarks, Refresh, IInv, LedgerInv, LedgerTyped
  <2>2. confirming' \in [running: BOOLEAN, now: SUBSET Sales, listed: BOOLEAN]
    BY <1>7 DEF NoConfirm
  <2>3. QED
    BY <1>4, <1>7, <2>1, <2>2, NextLedgerTyped DEF IInv, LedgerInv, LedgerTyped
<1>9. PostedIsProfit'
  BY <1>4, <1>7, StillPosted DEF IInv
<1>10. Advances
  BY <1>4, <1>6, <1>7 DEF Advances
<1>11. DeductAfterProfit'
  <2> SUFFICES ASSUME NEW i \in DOMAIN ledger', ledger'[i].type = "refund_deduct",
                      ledger'[i].status # "pending_confirm", posted'[ledger'[i].sale] # 0
               PROVE  ledger'[posted'[ledger'[i].sale]].status # "pending_confirm"
    BY NextDeduct
  <2> DEFINE s == ledger[i].sale
             p == posted[s]
  <2>1. s \in Sales /\ p # 0 /\ ledger'[i].sale = s /\ i \in DOMAIN ledger /\ ledger[i].type = "refund_deduct"
    BY <1>4, <1>7, EntrySale
  <2>2. p \in DOMAIN ledger /\ ledger[p].sale = s
    BY <2>1 DEF IInv, LedgerInv, PostedIsProfit
  <2>3. CASE i \in marked
    <3>1. s \in confirming.now
      BY <2>1, <2>3, <1>6
    <3>2. p \in marked \/ ledger[p].status # "pending_confirm"
      BY <2>2, <3>1, <1>6
    <3>3. ledger'[p].status # "pending_confirm"
      BY <1>4, <2>2, <3>2
    <3>4. QED
      BY <1>7, <2>1, <3>3
  <2>4. CASE i \notin marked
    <3>1. ledger[i].status # "pending_confirm"
      BY <1>4, <2>1, <2>4
    <3>2. ledger[p].status # "pending_confirm"
      BY <2>1, <3>1 DEF IInv, LedgerInv, DeductAfterProfit, ProfitStatus
    <3>3. ledger'[p].status # "pending_confirm"
      BY <1>10, <2>2, <3>2 DEF Advances
    <3>4. QED
      BY <1>7, <2>1, <3>3
  <2>5. QED
    BY <2>3, <2>4
<1>12. RowsFollowRequests'
  BY <1>4, <1>5, <1>6, <1>7 DEF IInv, LedgerInv, RowsFollowRequests
<1>13. QED
  BY <1>8, <1>9, <1>10, <1>11, <1>12, SalesKept DEF IInv, LedgerInv

\* A step that leaves entries out of the confirmation where they are.
LEMMA DeductKept ==
    ASSUME IInv, posted' = posted,
           \A i \in DOMAIN ledger :
               /\ i \in DOMAIN ledger' /\ ledger'[i].sale = ledger[i].sale
               /\ ledger'[i].type = ledger[i].type
               /\ (ledger'[i].status = "pending_confirm") <=> (ledger[i].status = "pending_confirm"),
           \A i \in DOMAIN ledger' : i \notin DOMAIN ledger =>
               \E j \in DOMAIN ledger :
                   /\ ledger'[i].sale = ledger[j].sale /\ ledger'[i].type = ledger[j].type
                   /\ ledger[j].status # "pending_confirm"
    PROVE  DeductAfterProfit' /\ Advances /\ Grows
<1>1. Grows
  BY DEF Grows
<1>2. Advances
  BY DEF Advances
<1>3. DeductAfterProfit'
  <2> SUFFICES ASSUME NEW i \in DOMAIN ledger', ledger'[i].type = "refund_deduct",
                      ledger'[i].status # "pending_confirm", posted'[ledger'[i].sale] # 0
               PROVE  ledger'[posted'[ledger'[i].sale]].status # "pending_confirm"
    BY NextDeduct
  <2>1. PICK j \in DOMAIN ledger : /\ ledger'[i].sale = ledger[j].sale
                                   /\ ledger[j].type = "refund_deduct"
                                   /\ ledger[j].status # "pending_confirm"
    OBVIOUS
  <2> DEFINE p == posted[ledger[j].sale]
  <2>2. p # 0 /\ p \in DOMAIN ledger
    BY <2>1, EntrySale DEF IInv, LedgerInv, PostedIsProfit
  <2>3. ledger[p].status # "pending_confirm"
    BY <2>1, <2>2 DEF IInv, LedgerInv, DeductAfterProfit, ProfitStatus
  <2>4. QED
    BY <2>1, <2>2, <2>3
<1>4. QED
  BY <1>1, <1>2, <1>3

\* ReviewWithdraw.
LEMMA ReviewKeepsInv ==
    ASSUME IInv, UNCHANGED <<saleVars, paidHook>>, NEW n \in DOMAIN payouts,
           RejectWithdraw(n) \/ PayWithdraw(n)
    PROVE  IInv'
<1> DEFINE S == {i \in DOMAIN ledger : ledger[i].request = n}
           paying == PayWithdraw(n)
           st == IF paying THEN "withdrawn" ELSE "available"
           q == [i \in DOMAIN ledger |-> IF paying THEN ledger[i].request ELSE 0]
           verdict == IF paying THEN "paid" ELSE "rejected"
<1>1. IsLedger(ledger)
  BY DEF IInv, LedgerInv, LedgerTyped
<1>2. /\ payouts \in Seq([amount: Nat, status: PayoutStatus]) /\ n \in Nat \ {0}
      /\ DOMAIN payouts = 1 .. Len(payouts) /\ Len(payouts) \in Nat
  BY DEF IInv, LedgerInv, LedgerTyped
<1>3. /\ payouts[n].status = "pending"
      /\ payouts' = [payouts EXCEPT ![n].status = verdict]
      /\ UNCHANGED <<posted, confirming, due>> /\ unlisted' = FALSE
  BY DEF RejectWithdraw, PayWithdraw, Refresh
<1>4. \A i \in DOMAIN ledger : q[i] \in Nat
  BY <1>1, RowFacts
<1>5. ledger' = [i \in DOMAIN ledger |->
                    IF i \in S THEN [ledger[i] EXCEPT !.status = st, !.request = q[i]]
                               ELSE ledger[i]]
  <2>1. CASE paying
    <3>1. \A i \in DOMAIN ledger :
              [ledger[i] EXCEPT !.status = st, !.request = q[i]] = [ledger[i] EXCEPT !.status = "withdrawn"]
      BY <1>1, <2>1, RowFacts
    <3>2. QED
      BY <2>1, <3>1 DEF PayWithdraw
  <2>2. CASE ~paying
    BY <2>2 DEF RejectWithdraw
  <2>3. QED
    BY <2>1, <2>2
<1>6. st \in {"withdrawn", "available"} /\ verdict \in PayoutStatus
  BY DEF PayoutStatus
<1>7. \A i \in DOMAIN ledger : i \in S <=> ledger[i].request = n
  OBVIOUS
<1>8. \/ st = "withdrawn" /\ verdict = "paid" /\ \A i \in S : q[i] = n
      \/ st = "available" /\ \A i \in S : q[i] = 0
  OBVIOUS
<1> HIDE DEF S, paying, st, q, verdict
<1>9. /\ IsLedger(ledger') /\ DOMAIN ledger' = DOMAIN ledger
      /\ \A i \in DOMAIN ledger :
             /\ ledger'[i].sale = ledger[i].sale /\ ledger'[i].type = ledger[i].type
             /\ i \in S => ledger'[i].status = st /\ ledger'[i].request = q[i]
             /\ i \notin S => ledger'[i] = ledger[i]
  <2>1. st \in EntryStatus
    BY <1>6 DEF EntryStatus
  <2>2. QED
    BY ONLY IInv, <1>4, <1>5, <2>1, MarkedRows
<1>10. payouts' \in Seq([amount: Nat, status: PayoutStatus]) /\ DOMAIN payouts' = DOMAIN payouts
       /\ payouts'[n].status = verdict /\ \A m \in DOMAIN payouts : m # n => payouts'[m] = payouts[m]
  <2>1. payouts[n] \in [amount: Nat, status: PayoutStatus]
    BY <1>2, ElementOfSeq
  <2>2. [payouts[n] EXCEPT !.status = verdict] \in [amount: Nat, status: PayoutStatus]
    BY <1>6, <2>1
  <2>3. QED
    BY <1>2, <1>3, <2>1, <2>2
<1>11. LedgerTyped'
  <2>1. unlisted' \in BOOLEAN
    BY <1>3
  <2>2. QED
    BY <1>3, <1>9, <1>10, <2>1, NextLedgerTyped DEF IInv, LedgerInv, LedgerTyped
<1>12. \A i \in S : ledger[i].status = "locked"
  BY <1>2, <1>3, <1>7 DEF IInv, LedgerInv, RowsFollowRequests, S
<1>13. DeductAfterProfit' /\ Advances /\ Grows
  BY <1>3, <1>6, <1>9, <1>12, DeductKept DEF S
<1>14. PostedIsProfit'
  BY <1>3, <1>13, StillPosted DEF IInv
<1>15. RowsFollowRequests'
  <2> SUFFICES ASSUME NEW i \in DOMAIN ledger
               PROVE  IF ledger'[i].request = 0
                        THEN ledger'[i].status \in {"pending_confirm", "available"}
                        ELSE /\ ledger'[i].request \in DOMAIN payouts'
                             /\ \/ /\ ledger'[i].status = "locked"
                                   /\ payouts'[ledger'[i].request].status = "pending"
                                \/ /\ ledger'[i].status = "withdrawn"
                                   /\ payouts'[ledger'[i].request].status = "paid"
    BY <1>9 DEF RowsFollowRequests
  <2>1. CASE i \in S
    BY <1>2, <1>8, <1>9, <1>10, <2>1
  <2>2. CASE i \notin S
    BY <1>7, <1>9, <1>10, <2>2 DEF IInv, LedgerInv, RowsFollowRequests
  <2>3. QED
    BY <2>1, <2>2
<1>16. QED
  BY <1>11, <1>13, <1>14, <1>15, SalesKept DEF IInv, LedgerInv

\* The rows a withdrawal takes, and the rest of the one it splits.
LEMMA WithdrawnRows ==
    ASSUME IInv, NEW a, ApplyWithdraw(a)
    PROVE  LET q == Len(payouts) + 1
           IN  /\ IsLedger(ledger')
               /\ Len(ledger) \in Nat /\ DOMAIN ledger = 1 .. Len(ledger)
               /\ DOMAIN ledger \subseteq DOMAIN ledger'
               /\ \A i \in DOMAIN ledger :
                      \/ ledger'[i] = ledger[i]
                      \/ /\ ledger[i].status = "available" /\ ledger[i].request = 0
                         /\ ledger'[i].sale = ledger[i].sale /\ ledger'[i].type = ledger[i].type
                         /\ ledger'[i].status = "locked" /\ ledger'[i].request = q
               /\ \A i \in DOMAIN ledger' \ DOMAIN ledger : \E j \in DOMAIN ledger :
                      /\ ledger[j].status = "available"
                      /\ ledger'[i].sale = ledger[j].sale /\ ledger'[i].type = ledger[j].type
                      /\ ledger'[i].status = "available" /\ ledger'[i].request = 0
<1> DEFINE q == Len(payouts) + 1
           taken == Taken(ledger, Bound(q), Oldest, a)
           rest == Remainder(ledger, Oldest, a)
           whole == Whole(ledger, Oldest, a)
           cut == Cut(ledger, Oldest, a)
           m == Missing(ledger, Oldest, a)
           A == {ledger[i].amount : i \in DOMAIN ledger}
           B == A \cup {m} \cup {ledger[i].amount - m : i \in DOMAIN ledger}
<1>1. /\ IsLedger(ledger) /\ Len(ledger) \in Nat /\ DOMAIN ledger = 1 .. Len(ledger)
      /\ Len(payouts) \in Nat
  BY LedgerFacts DEF IInv, LedgerInv, LedgerTyped
<1>2. ledger' = taken \o rest
  BY DEF ApplyWithdraw
<1>3. whole \subseteq Withdrawable /\ cut \subseteq Withdrawable
  BY DEF Whole, Cut, Oldest
<1>4. \A i \in Withdrawable : i \in DOMAIN ledger /\ ledger[i].status = "available" /\ ledger[i].request = 0
  BY DEF Withdrawable
<1>5. \A i \in DOMAIN ledger : ledger[i] \in EntryOf(A)
  BY <1>1, RowFacts
<1>6. /\ DOMAIN taken = DOMAIN ledger
      /\ taken = [i \in DOMAIN ledger |-> taken[i]]
      /\ \A i \in DOMAIN ledger :
             taken[i] = IF i \in whole THEN Lock(q, ledger[i])
                        ELSE IF i \in cut THEN [Lock(q, ledger[i]) EXCEPT !.amount = m]
                        ELSE ledger[i]
  BY <1>3, <1>4 DEF Taken, Bound
<1>7. \/ rest = <<>>
      \/ \E j \in cut : rest = <<[ledger[j] EXCEPT !.amount = ledger[j].amount - m]>>
  BY DEF Remainder
<1> HIDE DEF taken, rest, whole, cut, m, A
<1>8. \A i \in DOMAIN ledger :
          /\ taken[i] \in EntryOf(B)
          /\ \/ taken[i] = ledger[i]
             \/ /\ ledger[i].status = "available" /\ ledger[i].request = 0
                /\ taken[i].sale = ledger[i].sale /\ taken[i].type = ledger[i].type
                /\ taken[i].status = "locked" /\ taken[i].request = q
  <2> SUFFICES ASSUME NEW i \in DOMAIN ledger
               PROVE  /\ taken[i] \in EntryOf(B)
                      /\ \/ taken[i] = ledger[i]
                         \/ /\ ledger[i].status = "available" /\ ledger[i].request = 0
                            /\ taken[i].sale = ledger[i].sale /\ taken[i].type = ledger[i].type
                            /\ taken[i].status = "locked" /\ taken[i].request = q
    OBVIOUS
  <2>1. ledger[i] \in EntryOf(A)
    BY <1>5
  <2>2. q \in Nat /\ m \in B /\ A \subseteq B
    BY <1>1
  <2> HIDE DEF B, q
  <2>3. ledger[i] \in EntryOf(B)
    BY <2>1, <2>2 DEF EntryOf
  <2>4. ASSUME NEW e \in EntryOf(B)
        PROVE  /\ Lock(q, e) \in EntryOf(B) /\ Lock(q, e).status = "locked"
               /\ Lock(q, e).request = q /\ Lock(q, e).sale = e.sale /\ Lock(q, e).type = e.type
    BY <2>2 DEF Lock, EntryOf, EntryStatus
  <2>5. CASE i \in whole
    <3>1. taken[i] = Lock(q, ledger[i])
      BY <1>6, <2>5
    <3>2. ledger[i].status = "available" /\ ledger[i].request = 0
      BY <1>3, <1>4, <2>5
    <3>3. QED
      BY <2>3, <2>4, <3>1, <3>2
  <2>6. CASE i \notin whole /\ i \in cut
    <3> DEFINE l == Lock(q, ledger[i])
               e == [l EXCEPT !.amount = m]
    <3>1. l \in EntryOf(B) /\ l.status = "locked" /\ l.request = q
          /\ l.sale = ledger[i].sale /\ l.type = ledger[i].type
      BY <2>3, <2>4
    <3>2. taken[i] = e
      BY <1>6, <2>6
    <3> HIDE DEF l
    <3>3. e \in EntryOf(B) /\ e.status = l.status /\ e.request = l.request
          /\ e.sale = l.sale /\ e.type = l.type
      BY <2>2, <3>1 DEF EntryOf
    <3>4. QED
      BY <1>3, <1>4, <2>6, <3>1, <3>2, <3>3
  <2>7. CASE i \notin whole /\ i \notin cut
    BY <1>6, <2>3, <2>7
  <2>8. QED
    BY <2>5, <2>6, <2>7
<1>9. \/ rest = <<>>
      \/ \E e \in EntryOf(B) : \E j \in DOMAIN ledger :
             /\ rest = <<e>> /\ ledger[j].status = "available"
             /\ e.sale = ledger[j].sale /\ e.type = ledger[j].type
             /\ e.status = "available" /\ e.request = 0
  <2> SUFFICES ASSUME NEW j \in cut, rest = <<[ledger[j] EXCEPT !.amount = ledger[j].amount - m]>>
               PROVE  \E e \in EntryOf(B) : \E k \in DOMAIN ledger :
                          /\ rest = <<e>> /\ ledger[k].status = "available"
                          /\ e.sale = ledger[k].sale /\ e.type = ledger[k].type
                          /\ e.status = "available" /\ e.request = 0
    BY <1>7
  <2> DEFINE e == [ledger[j] EXCEPT !.amount = ledger[j].amount - m]
  <2>1. j \in DOMAIN ledger /\ ledger[j].status = "available" /\ ledger[j].request = 0
    BY <1>3, <1>4
  <2>2. ledger[j] \in EntryOf(A) /\ ledger[j].amount - m \in B
    BY <1>5, <2>1
  <2> HIDE DEF B
  <2>3. /\ e \in EntryOf(B) /\ e.sale = ledger[j].sale /\ e.type = ledger[j].type
        /\ e.status = "available" /\ e.request = 0
    BY <2>1, <2>2 DEF EntryOf
  <2>4. QED
    BY <2>1, <2>3
<1> HIDE DEF B, q
<1>10. taken \in Seq(EntryOf(B)) /\ Len(taken) = Len(ledger)
  BY <1>1, <1>6, <1>8
<1>11. CASE rest = <<>>
  <2>1. ledger' = taken
    BY <1>2, <1>10, <1>11
  <2>2. IsLedger(ledger') /\ DOMAIN ledger' = DOMAIN ledger
    BY <1>6, <1>10, <2>1, LedgerFrom
  <2>3. QED
    BY <1>1, <1>8, <2>1, <2>2 DEF q
<1>12. CASE rest # <<>>
  <2>1. PICK e \in EntryOf(B), j \in DOMAIN ledger :
            /\ rest = <<e>> /\ ledger[j].status = "available"
            /\ e.sale = ledger[j].sale /\ e.type = ledger[j].type
            /\ e.status = "available" /\ e.request = 0
    BY <1>9, <1>12
  <2>2. ledger' = Append(taken, e)
    BY <1>2, <1>10, <2>1
  <2>3. /\ ledger' \in Seq(EntryOf(B)) /\ DOMAIN ledger' = 1 .. Len(ledger) + 1
        /\ \A i \in DOMAIN ledger : ledger'[i] = taken[i]
        /\ ledger'[Len(ledger) + 1] = e
    BY <1>1, <1>10, <2>2
  <2>4. IsLedger(ledger')
    BY <2>3, LedgerFrom
  <2>5. DOMAIN ledger \subseteq DOMAIN ledger' /\ DOMAIN ledger' \ DOMAIN ledger = {Len(ledger) + 1}
    BY <1>1, <2>3
  <2>6. QED
    BY <1>1, <1>8, <2>1, <2>3, <2>4, <2>5 DEF q
<1>13. QED
  BY <1>11, <1>12

LEMMA ApplyKeepsInv ==
    ASSUME IInv, UNCHANGED <<saleVars, paidHook>>, NEW a \in Nat, ApplyWithdraw(a)
    PROVE  IInv'
<1> DEFINE q == Len(payouts) + 1
           new == [amount |-> a, status |-> "pending"]
<1>1. /\ IsLedger(ledger')
      /\ Len(ledger) \in Nat /\ DOMAIN ledger = 1 .. Len(ledger)
      /\ DOMAIN ledger \subseteq DOMAIN ledger'
      /\ \A i \in DOMAIN ledger :
             \/ ledger'[i] = ledger[i]
             \/ /\ ledger[i].status = "available" /\ ledger[i].request = 0
                /\ ledger'[i].sale = ledger[i].sale /\ ledger'[i].type = ledger[i].type
                /\ ledger'[i].status = "locked" /\ ledger'[i].request = q
      /\ \A i \in DOMAIN ledger' \ DOMAIN ledger : \E j \in DOMAIN ledger :
             /\ ledger[j].status = "available"
             /\ ledger'[i].sale = ledger[j].sale /\ ledger'[i].type = ledger[j].type
             /\ ledger'[i].status = "available" /\ ledger'[i].request = 0
  BY WithdrawnRows
<1>2. payouts \in Seq([amount: Nat, status: PayoutStatus]) /\ new \in [amount: Nat, status: PayoutStatus]
  BY DEF IInv, LedgerInv, LedgerTyped, PayoutStatus
<1>3. /\ payouts' = Append(payouts, new) /\ unlisted' = FALSE
      /\ UNCHANGED <<posted, confirming, due>>
  BY DEF ApplyWithdraw, Refresh
<1>4. new.status = "pending"
  OBVIOUS
<1> HIDE DEF new
<1>5. /\ payouts' \in Seq([amount: Nat, status: PayoutStatus])
      /\ DOMAIN payouts' = DOMAIN payouts \cup {q} /\ q \in Nat \ {0} /\ q \notin DOMAIN payouts
      /\ payouts'[q] = new /\ \A n \in DOMAIN payouts : payouts'[n] = payouts[n]
  BY <1>2, <1>3
<1> HIDE DEF q
<1>6. LedgerTyped'
  <2>1. unlisted' \in BOOLEAN
    BY <1>3
  <2>2. QED
    BY <1>1, <1>3, <1>5, <2>1, NextLedgerTyped DEF IInv, LedgerInv, LedgerTyped
<1>7. DeductAfterProfit' /\ Advances /\ Grows
  <2>1. \A i \in DOMAIN ledger :
            /\ i \in DOMAIN ledger' /\ ledger'[i].sale = ledger[i].sale
            /\ ledger'[i].type = ledger[i].type
            /\ (ledger'[i].status = "pending_confirm") <=> (ledger[i].status = "pending_confirm")
    BY <1>1
  <2>2. \A i \in DOMAIN ledger' : i \notin DOMAIN ledger =>
            \E j \in DOMAIN ledger :
                /\ ledger'[i].sale = ledger[j].sale /\ ledger'[i].type = ledger[j].type
                /\ ledger[j].status # "pending_confirm"
    BY <1>1
  <2>3. QED
    BY <1>3, <2>1, <2>2, DeductKept
<1>8. PostedIsProfit'
  BY <1>3, <1>7, StillPosted DEF IInv
<1>9. RowsFollowRequests'
  <2> SUFFICES ASSUME NEW i \in DOMAIN ledger'
               PROVE  IF ledger'[i].request = 0
                        THEN ledger'[i].status \in {"pending_confirm", "available"}
                        ELSE /\ ledger'[i].request \in DOMAIN payouts'
                             /\ \/ /\ ledger'[i].status = "locked"
                                   /\ payouts'[ledger'[i].request].status = "pending"
                                \/ /\ ledger'[i].status = "withdrawn"
                                   /\ payouts'[ledger'[i].request].status = "paid"
    BY DEF RowsFollowRequests
  <2>1. CASE i \in DOMAIN ledger /\ ledger'[i] = ledger[i]
    BY <1>5, <2>1 DEF IInv, LedgerInv, RowsFollowRequests
  <2>2. CASE i \in DOMAIN ledger /\ ledger'[i] # ledger[i]
    BY <1>1, <1>4, <1>5, <2>2
  <2>3. CASE i \notin DOMAIN ledger
    BY <1>1, <2>3
  <2>4. QED
    BY <2>1, <2>2, <2>3
<1>10. QED
  BY <1>6, <1>7, <1>8, <1>9, SalesKept DEF IInv, LedgerInv

(* The theorems.                                                           *)

LEMMA CommissionsLeaveSales ==
    ASSUME IInv, CommissionsNext(due), UNCHANGED <<saleVars, ledgerVars>>
    PROVE  IInv'
<1>1. /\ paidHook' \in [Sales -> {"none", "started", "ended"}]
      /\ \A s \in Sales : (paidHook[s] # "none") <=> (paidHook'[s] # "none")
  BY AfterSaleAssumption DEF CommissionsNext, PaidHookLost, ConfirmDueCommissions, CancelSaves,
     CancelLost, ApplyCommissionWithdraw, RejectCommissionWithdraw, PayCommissionWithdraw,
     IInv, SaleInv, SalesTyped
<1>2. UNCHANGED <<terms, status, refunding>>
  BY DEF saleVars
<1>3. QED
  BY <1>1, <1>2, OrderStepKeepsInv DEF IInv, SaleInv, SalesTyped, Idle

LEMMA NextKeepsInv ==
    ASSUME IInv, [Next]_vars
    PROVE  IInv'
<1>1. CASE UNCHANGED vars
  BY <1>1, OrderStepKeepsInv DEF vars, saleVars, commissionVars, IInv, SaleInv, SalesTyped, Idle
<1>2. CASE LedgerNext /\ UNCHANGED <<saleVars, commissionVars>>
  <2>1. UNCHANGED <<saleVars, paidHook>>
    BY <1>2 DEF commissionVars
  <2>2. QED
    BY <1>2, <2>1, LedgerAssumption, TasksKeepInv, MarksKeepInv, ApplyKeepsInv, ReviewKeepsInv
    DEF LedgerNext
<1>3. QED
  BY <1>1, <1>2, PayKeepsInv, OrdersKeepInv, RefundKeepsInv, CommissionsLeaveSales DEF Next

\* The inductive invariant holds of every behaviour.
THEOREM InvAlways == Spec => []IInv
<1>1. Init => IInv
  BY InitInv
<1>2. IInv /\ [Next]_vars => IInv'
  BY NextKeepsInv
<1>3. QED
  BY <1>1, <1>2, PTL DEF Spec

\* A refund never counts against what may be withdrawn before the profit that
\* it takes back, however refunds and confirmations overlap.
THEOREM DeductNeverAhead == Spec => []DeductAfterProfit
<1>1. IInv => DeductAfterProfit
  BY DEF IInv, LedgerInv
<1>2. QED
  BY <1>1, InvAlways, PTL

\* An entry is bound to a request as long as it waits and once it is paid, and
\* only then; a rejected request leaves none behind.
THEOREM EntriesFollowRequests == Spec => []RowsFollowRequests
<1>1. IInv => RowsFollowRequests
  BY DEF IInv, LedgerInv
<1>2. QED
  BY <1>1, InvAlways, PTL

\* The account row.  A step refreshes it or leaves it with the entries; the
\* confirmation leaves it alone where it has marked nothing.
LEMMA BalanceStep ==
    ASSUME IInv, BalanceIsLedger, [Next]_vars
    PROVE  BalanceIsLedger'
<1>1. ASSUME UNCHANGED <<ledger, balance, unlisted>>
      PROVE  BalanceIsLedger'
  BY <1>1 DEF BalanceIsLedger
<1>2. ASSUME Refresh(ledger')
      PROVE  BalanceIsLedger'
  BY <1>2 DEF BalanceIsLedger, Refresh
<1>3. CASE UNCHANGED vars
  BY <1>1, <1>3 DEF vars, ledgerVars
<1>4. ASSUME NEW r \in Sales, Pay(r)
      PROVE  BalanceIsLedger'
  BY <1>1, <1>2, <1>4 DEF Pay, PostOrderProfit
<1>5. ASSUME NEW r \in Sales, RefundCommits(r)
      PROVE  BalanceIsLedger'
  BY <1>1, <1>2, <1>5 DEF RefundCommits, HandleRefundDeduct
<1>6. CASE ConfirmMarks
  <2>1. CASE confirming.listed
    BY <1>2, <1>6, <2>1 DEF ConfirmMarks
  <2>2. CASE ~confirming.listed /\ Pending(ledger, confirming.now) # {}
    <3>1. unlisted'
      BY <1>6, <2>2 DEF ConfirmMarks
    <3>2. QED
      BY <3>1 DEF BalanceIsLedger
  <2>3. CASE ~confirming.listed /\ Pending(ledger, confirming.now) = {}
    <3>1. ledger' = [i \in DOMAIN ledger |-> ledger[i]]
      BY <1>6, <2>3 DEF ConfirmMarks
    <3>2. ledger' = ledger
      BY <3>1, LedgerFacts DEF IInv, LedgerInv, LedgerTyped
    <3>3. unlisted' = unlisted /\ balance' = balance
      BY <1>6, <2>3 DEF ConfirmMarks, IInv, LedgerInv, LedgerTyped
    <3>4. QED
      BY <1>1, <3>2, <3>3
  <2>4. QED
    BY <2>1, <2>2, <2>3
<1>7. ASSUME NEW a, ApplyWithdraw(a)
      PROVE  BalanceIsLedger'
  BY <1>2, <1>7 DEF ApplyWithdraw
<1>8. ASSUME NEW q, RejectWithdraw(q) \/ PayWithdraw(q)
      PROVE  BalanceIsLedger'
  BY <1>2, <1>8 DEF RejectWithdraw, PayWithdraw
<1>9. CASE LedgerNext
  <2>1. CASE (\E s \in Sales : Mature(s)) \/ ConfirmLists \/ ConfirmLost
    BY <1>1, <2>1 DEF Mature, ConfirmLists, ConfirmLost
  <2>2. QED
    BY <1>6, <1>7, <1>8, <1>9, <2>1 DEF LedgerNext
<1>10. CASE UNCHANGED ledgerVars
  BY <1>1, <1>10 DEF ledgerVars
<1>11. QED
  BY <1>3, <1>4, <1>5, <1>9, <1>10 DEF Next, PaidHook, RefundBegins, RefundFails, Cancel, RefundLine

\* The account row that withdrawals are refused on agrees with the ledger, but
\* after a confirmation of entries it has not listed.
THEOREM BalanceAlwaysLedger == Spec => []BalanceIsLedger
<1>1. Init => IInv /\ BalanceIsLedger
  BY InitInv
<1>2. (IInv /\ BalanceIsLedger) /\ [Next]_vars => (IInv /\ BalanceIsLedger)'
  BY NextKeepsInv, BalanceStep
<1>3. QED
  BY <1>1, <1>2, PTL DEF Spec

\* An entry that was paid out keeps its sale, amount and request for ever: no
\* refund, split, confirmation or review touches it.
WithdrawnStays ==
    \A i \in DOMAIN ledger :
        ledger[i].status = "withdrawn" => i \in DOMAIN ledger' /\ ledger'[i] = ledger[i]

LEMMA WithdrawnStep ==
    ASSUME IInv, [Next]_vars
    PROVE  WithdrawnStays
<1>1. IsLedger(ledger) /\ RowsFollowRequests /\ ledger = [i \in DOMAIN ledger |-> ledger[i]]
  BY LedgerFacts DEF IInv, LedgerInv, LedgerTyped
<1>2. Len(ledger) \in Nat /\ DOMAIN ledger = 1 .. Len(ledger)
  BY <1>1, LedgerFacts
<1>3. CASE ledger' = ledger
  BY <1>3 DEF WithdrawnStays
<1>4. ASSUME NEW e, ledger' = Append(ledger, e)
      PROVE  WithdrawnStays
  BY <1>1, <1>2, <1>4 DEF WithdrawnStays, IsLedger
<1>5. ASSUME NEW r \in Sales, Pay(r)
      PROVE  WithdrawnStays
  BY <1>3, <1>4, <1>5 DEF Pay, PostOrderProfit
<1>6. ASSUME NEW r \in Sales, RefundCommits(r)
      PROVE  WithdrawnStays
  BY <1>3, <1>4, <1>6 DEF RefundCommits, HandleRefundDeduct
<1>7. CASE ConfirmMarks
  BY <1>7 DEF ConfirmMarks, Pending, WithdrawnStays
<1>8. ASSUME NEW a, ApplyWithdraw(a)
      PROVE  WithdrawnStays
  BY <1>8, WithdrawnRows DEF WithdrawnStays
<1>9. ASSUME NEW q \in DOMAIN payouts, RejectWithdraw(q) \/ PayWithdraw(q)
      PROVE  WithdrawnStays
  <2>1. payouts[q].status = "pending" /\ q # 0
    <3>1. payouts \in Seq([amount: Nat, status: PayoutStatus])
      BY DEF IInv, LedgerInv, LedgerTyped
    <3>2. q \in 1 .. Len(payouts) /\ Len(payouts) \in Nat
      BY <3>1
    <3>3. q # 0
      BY <3>1, <3>2
    <3>4. QED
      BY <1>9, <3>3 DEF RejectWithdraw, PayWithdraw
  <2>2. \A i \in DOMAIN ledger : ledger[i].status = "withdrawn" => ledger[i].request # q
    BY <1>1, <2>1 DEF RowsFollowRequests
  <2>3. QED
    BY <1>9, <2>2 DEF RejectWithdraw, PayWithdraw, WithdrawnStays
<1>10. CASE LedgerNext
  <2>1. CASE (\E s \in Sales : Mature(s)) \/ ConfirmLists \/ ConfirmLost
    BY <1>3, <2>1 DEF Mature, ConfirmLists, ConfirmLost
  <2>2. QED
    BY <1>7, <1>8, <1>9, <1>10, <2>1 DEF LedgerNext
<1>11. QED
  BY <1>3, <1>5, <1>6, <1>10
  DEF Next, PaidHook, RefundBegins, RefundFails, Cancel, RefundLine, vars, ledgerVars

\* An entry once paid out to the reseller stays so, whatever is refunded,
\* confirmed, asked for or reviewed later (ReviewWithdraw's pending check).
THEOREM WithdrawnIsFinal == Spec => [][WithdrawnStays]_vars
<1>1. IInv /\ [Next]_vars => [WithdrawnStays]_vars
  BY WithdrawnStep
<1>2. QED
  BY <1>1, InvAlways, PTL DEF Spec
================================================================================
