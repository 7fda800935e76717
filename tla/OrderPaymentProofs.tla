------------------------- MODULE OrderPaymentProofs -------------------------
(***************************************************************************)
(* Theorems about OrderPayment, for every number of payments, every        *)
(* channel and fee table, every amount, with and without stale saves and   *)
(* with every canceller.  What depends on the holds is proved for orders   *)
(* canceled as a whole: canceling the children one by one leaves the holds *)
(* of the root order in force.                                             *)
(***************************************************************************)
EXTENDS OrderPayment, TLAPS

(* Lemmas about the operators of the model                                 *)

\* The rows the statements on the payments table write are rows.
LEMMA NewRowType ==
    ASSUME NEW s \in PaymentStatus, NEW c \in Channels \cup {NoChannel}, NEW a \in 0 .. Total
    PROVE  NewRow(s, c, a) \in PaymentRows
BY DEF NewRow, PaymentRows, Exceptions

LEMMA SupersededType ==
    ASSUME NEW p \in PaymentIds, NEW rows \in [PaymentIds -> PaymentRows]
    PROVE  SupersededBy(p, rows) \in [PaymentIds -> PaymentRows]
BY DEF SupersededBy, PaymentRows, PaymentStatus

LEMMA ExpiredType ==
    ASSUME NEW rows \in [PaymentIds -> PaymentRows]
    PROVE  Expired(rows) \in [PaymentIds -> PaymentRows]
BY DEF Expired, PaymentRows, PaymentStatus

\* So are the rows a callback writes.
LEMMA ReportedRowType ==
    ASSUME NEW row \in PaymentRows, NEW s \in PaymentStatus
    PROVE  /\ [row EXCEPT !.status = s] \in PaymentRows
           /\ \A l \in BOOLEAN : [row EXCEPT !.status = s, !.lapsed = l] \in PaymentRows
           /\ \A e \in Exceptions : [row EXCEPT !.status = s, !.exception = e] \in PaymentRows
BY DEF PaymentRows

\* A table with one row replaced is a table.
LEMMA ReplacedRowType ==
    ASSUME NEW rows \in [PaymentIds -> PaymentRows], NEW p \in PaymentIds,
           NEW row \in PaymentRows
    PROVE  /\ [rows EXCEPT ![p] = row] \in [PaymentIds -> PaymentRows]
           /\ [rows EXCEPT ![p] = row][p] = row
           /\ \A q \in PaymentIds \ {p} : [rows EXCEPT ![p] = row][q] = rows[q]
OBVIOUS

\* Releasing holds keeps the ledger's type and never adds a hold.
LEMMA ReleaseHoldsShrinks ==
    ASSUME NEW S \in SUBSET PaymentIds, ReleaseHolds(S),
           hold \in [PaymentIds -> {"none", "held", "released"}]
    PROVE  /\ hold' \in [PaymentIds -> {"none", "held", "released"}]
           /\ Held(PaymentIds)' = Held(PaymentIds) \ S
BY DEF ReleaseHolds, Held

LEMMA RowTypes ==
    ASSUME TypeOK
    PROVE  /\ order.status \in OrderStatus
           /\ order.paid \in BOOLEAN
           /\ order.walletPaid \in 0 .. Total
           /\ order.onlinePaid \in 0 .. Total
           /\ Total \in Nat \ {0}
           /\ balance \in Nat
BY MoneyAssumption DEF TypeOK, OrderRows

\* Clearing the allocation gives a row back, and changes nothing else.
LEMMA UnallocatedRow ==
    ASSUME NEW o \in OrderRows
    PROVE  /\ Unallocated(o) \in OrderRows
           /\ Unallocated(o).status = o.status
           /\ Unallocated(o).paid = o.paid
           /\ Unallocated(o).walletPaid = 0
           /\ Unallocated(o).onlinePaid = Total
<1> 0 \in 0 .. Total /\ Total \in 0 .. Total
  BY MoneyAssumption
<1> QED
  BY DEF OrderRows, Unallocated

\* An allocation is part of the total, and of what the buyer has.
LEMMA AllocationBounds ==
    ASSUME NEW useBalance \in BOOLEAN, TypeOK
    PROVE  /\ Allocation(useBalance) \in 0 .. Total
           /\ Allocation(useBalance) <= balance + order.walletPaid
<1> USE RowTypes DEF Allocation, SmallerOf
<1>1. CASE ~useBalance
  BY <1>1
<1>2. CASE useBalance /\ order.walletPaid > 0
  BY <1>2
<1>3. CASE useBalance /\ order.walletPaid = 0
  BY <1>3
<1>4. QED
  BY <1>1, <1>2, <1>3

-----------------------------------------------------------------------------
(* Type correctness                                                        *)

LEMMA TypeInit == Init => TypeOK
<1> SUFFICES ASSUME Init PROVE TypeOK
  OBVIOUS
<1>1. order \in OrderRows
  BY MoneyAssumption DEF Init, OrderRows, OrderStatus
<1>2. payments \in [PaymentIds -> PaymentRows]
  <2>1. NoRow \in PaymentRows
    BY NewRowType, MoneyAssumption DEF NoRow, PaymentStatus
  <2>2. QED
    BY <2>1 DEF Init
<1>3. balance \in Nat
  BY MoneyAssumption DEF Init
<1>4. QED
  BY <1>1, <1>2, <1>3, MoneyAssumption DEF Init, TypeOK

\* The pieces of TypeOK that an action may disturb, one lemma per table.
LEMMA TypeStep == TypeOK /\ [Next]_vars => TypeOK'
<1> SUFFICES ASSUME TypeOK, [Next]_vars PROVE TypeOK'
  OBVIOUS
<1> USE DEF ovars, fvars, rvars, gvars, wvars
<1>1. ASSUME NEW p \in PaymentIds, NEW c \in Channels, RequestReuse(c, p) PROVE TypeOK'
  BY <1>1 DEF TypeOK, RequestReuse
<1>2. ASSUME NEW p \in PaymentIds, ReuseSupersede(p) PROVE TypeOK'
  BY <1>2, SupersededType DEF TypeOK, ReuseSupersede
<1>3. ASSUME NEW p \in PaymentIds, NEW c \in Channels, NEW useBalance \in BOOLEAN,
             StartOnline(p, c, useBalance)
      PROVE  TypeOK'
  <2> DEFINE w == Allocation(useBalance)
  <2>1. /\ w \in 0 .. Total
        /\ Total - w \in 0 .. Total
        /\ balance + order.walletPaid - w \in Nat
    BY AllocationBounds, RowTypes
  <2>2. order' \in OrderRows
    BY <1>3, <2>1 DEF StartOnline, TypeOK, OrderRows
  <2>3. payments' \in [PaymentIds -> PaymentRows]
    <3>1. NewRow("initiated", c, Total - w) \in PaymentRows
      BY <2>1, NewRowType DEF PaymentStatus
    <3>2. QED
      BY <1>3, <3>1 DEF StartOnline, TypeOK
  <2>4. hold' \in [PaymentIds -> {"none", "held", "released"}]
    BY <1>3 DEF StartOnline, TypeOK
  <2>5. request' \in [PaymentIds -> {"none", "calling", "linked", "done"}]
    BY <1>3 DEF StartOnline, TypeOK
  <2>6. balance' \in Nat
    BY <1>3, <2>1 DEF StartOnline
  <2>7. QED
    BY <1>3, <2>2, <2>3, <2>4, <2>5, <2>6 DEF StartOnline, TypeOK
<1>4. ASSUME NEW p \in PaymentIds, NEW c \in Channels \cup {NoChannel}, PayByWallet(p, c)
      PROVE  TypeOK'
  <2>1. order' \in OrderRows
    BY <1>4, MoneyAssumption DEF PayByWallet, OrderRows, OrderStatus
  <2>2. payments' \in [PaymentIds -> PaymentRows]
    <3>1. NewRow("success", NoChannel, Total) \in PaymentRows
      BY NewRowType, MoneyAssumption DEF PaymentStatus
    <3> payments \in [PaymentIds -> PaymentRows]
      BY DEF TypeOK
    <3>2. [payments EXCEPT ![p] = NewRow("success", NoChannel, Total)] \in [PaymentIds -> PaymentRows]
      BY <3>1, ReplacedRowType
    <3>3. QED
      BY <1>4, <3>2, SupersededType DEF PayByWallet
  <2>3. hold' \in [PaymentIds -> {"none", "held", "released"}]
    BY <1>4, ReleaseHoldsShrinks DEF PayByWallet, TypeOK
  <2>4. balance' \in Nat
    <3>1. Total <= balance + order.walletPaid
      BY <1>4, AllocationBounds DEF PayByWallet
    <3>2. QED
      BY <1>4, <3>1, RowTypes DEF PayByWallet
  <2>5. QED
    BY <1>4, <2>1, <2>2, <2>3, <2>4 DEF PayByWallet, TypeOK
<1>5. ASSUME NEW p \in PaymentIds, ProviderAccepts(p) PROVE TypeOK'
  <2>1. payments' \in [PaymentIds -> PaymentRows]
    BY <1>5 DEF ProviderAccepts, TypeOK, NewRow, PaymentRows, PaymentStatus, Exceptions
  <2>2. QED
    BY <1>5, <2>1 DEF ProviderAccepts, TypeOK
<1>6. ASSUME NEW p \in PaymentIds, ProviderRejects(p) PROVE TypeOK'
  <2>1. payments' \in [PaymentIds -> PaymentRows]
    BY <1>6 DEF ProviderRejects, TypeOK, NewRow, PaymentRows, PaymentStatus, Exceptions
  <2>2. hold' \in [PaymentIds -> {"none", "held", "released"}]
    BY <1>6, ReleaseHoldsShrinks DEF ProviderRejects, TypeOK
  <2>3. order' \in OrderRows /\ balance' \in Nat
    BY <1>6, UnallocatedRow, RowTypes DEF ProviderRejects, TypeOK
  <2>4. QED
    BY <1>6, <2>1, <2>2, <2>3 DEF ProviderRejects, TypeOK
<1>7. ASSUME NEW p \in PaymentIds, SupersedeOthers(p) PROVE TypeOK'
  <2>1. hold' \in [PaymentIds -> {"none", "held", "released"}]
    BY <1>7, ReleaseHoldsShrinks DEF SupersedeOthers, TypeOK
  <2>2. QED
    BY <1>7, <2>1, SupersededType DEF SupersedeOthers, TypeOK
<1>8. ASSUME NEW p \in PaymentIds, RequestDies(p) PROVE TypeOK'
  BY <1>8 DEF RequestDies, TypeOK
<1>9. ASSUME NEW p \in PaymentIds, CallbackReadsSame(p) PROVE TypeOK'
  BY <1>9 DEF CallbackReadsSame, TypeOK
<1>10. ASSUME NEW s \in saves, SaveMeta(s) PROVE TypeOK'
  BY <1>10 DEF SaveMeta, TypeOK
<1>11. ASSUME NEW p \in PaymentIds, CallbackPends(p) PROVE TypeOK'
  <2>1. payments' \in [PaymentIds -> PaymentRows]
    <3>1. [payments[p] EXCEPT !.status = "pending"] \in PaymentRows
      BY ReportedRowType DEF TypeOK, PaymentStatus
    <3>2. QED
      BY <1>11, <3>1 DEF CallbackPends, TypeOK
  <2>2. QED
    BY <1>11, <2>1 DEF CallbackPends, TypeOK
<1>12. ASSUME NEW p \in PaymentIds, NEW s \in {"failed", "expired"}, CallbackFails(p, s)
       PROVE  TypeOK'
  <2>1. payments' \in [PaymentIds -> PaymentRows]
    <3> payments[p] \in PaymentRows /\ s \in PaymentStatus
      BY DEF TypeOK, PaymentStatus
    <3> (payments[p].lapsed \/ s = "expired") \in BOOLEAN
      OBVIOUS
    <3>1. [payments[p] EXCEPT !.status = s, !.lapsed = @ \/ s = "expired"] \in PaymentRows
      BY ReportedRowType
    <3>2. QED
      BY <1>12, <3>1 DEF CallbackFails, TypeOK
  <2>2. hold' \in [PaymentIds -> {"none", "held", "released"}]
    BY <1>12, ReleaseHoldsShrinks DEF CallbackFails, TypeOK
  <2>3. order' \in OrderRows /\ balance' \in Nat
    BY <1>12, UnallocatedRow, RowTypes DEF CallbackFails, TypeOK
  <2>4. QED
    BY <1>12, <2>1, <2>2, <2>3 DEF CallbackFails, TypeOK
<1>13. ASSUME NEW p \in PaymentIds, CallbackSucceeds(p) PROVE TypeOK'
  <2>1. payments' \in [PaymentIds -> PaymentRows]
    <3>1. ExceptionOf(p) \in Exceptions
      BY DEF ExceptionOf, Exceptions, TypeOK, PaymentRows
    <3> payments[p] \in PaymentRows /\ "success" \in PaymentStatus
      BY DEF TypeOK, PaymentStatus
    <3>2. [payments[p] EXCEPT !.status = "success", !.exception = ExceptionOf(p)] \in PaymentRows
      BY <3>1, ReportedRowType
    <3>3. QED
      BY <1>13, <3>2, ExpiredType DEF CallbackSucceeds, TypeOK
  <2>2. hold' \in [PaymentIds -> {"none", "held", "released"}]
    BY <1>13, ReleaseHoldsShrinks DEF CallbackSucceeds, TypeOK
  <2>3. order' \in OrderRows /\ settledBy' \in PaymentIds \cup {NoPayment}
    <3>1. Total - order.walletPaid \in 0 .. Total
      BY RowTypes
    <3>2. QED
      BY <1>13, <3>1 DEF CallbackSucceeds, TypeOK, OrderRows, OrderStatus
  <2>4. balance' \in Nat /\ credited' \subseteq PaymentIds
    <3>1. payments[p].amount \in Nat
      BY MoneyAssumption DEF TypeOK, PaymentRows
    <3>2. QED
      BY <1>13, <3>1 DEF CallbackSucceeds, TypeOK
  <2>5. QED
    BY <1>13, <2>1, <2>2, <2>3, <2>4 DEF CallbackSucceeds, TypeOK
<1>14. ASSUME NEW k \in Cancellers, CancelRead(k) PROVE TypeOK'
  BY <1>14, RowTypes DEF CancelRead, TypeOK
<1>15. ASSUME NEW k \in Cancellers, CancelCommit(k) PROVE TypeOK'
  <2>1. order' \in OrderRows
    <3> DEFINE o == IF Claims(k) THEN Unallocated(order) ELSE order
    <3>1. o \in OrderRows
      BY UnallocatedRow DEF TypeOK
    <3>2. order' = [o EXCEPT !.status = "canceled"]
      BY <1>15 DEF CancelCommit
    <3>3. QED
      BY <3>1, <3>2 DEF OrderRows, OrderStatus
  <2>2. balance' \in Nat
    <3>1. Claims(k) => cancels[k] \in Nat
      BY <1>15, MoneyAssumption DEF CancelCommit, TypeOK, NotReading
    <3>2. QED
      BY <1>15, <3>1 DEF CancelCommit, TypeOK
  <2>3. hold' \in [PaymentIds -> {"none", "held", "released"}]
    BY <1>15, ReleaseHoldsShrinks DEF CancelCommit, TypeOK
  <2>4. payments' \in [PaymentIds -> PaymentRows]
    BY <1>15, ExpiredType DEF CancelCommit, TypeOK
  <2>5. misread' \in Int
    <3>1. cancels[k] \in Int /\ order.walletPaid \in Int /\ misread \in Int
      BY RowTypes DEF TypeOK, NotReading
    <3>2. QED
      BY <1>15, <3>1 DEF CancelCommit
  <2>6. QED
    BY <1>15, <2>1, <2>2, <2>3, <2>4, <2>5 DEF CancelCommit, TypeOK
<1>16. CASE ChildCancelCommit
  BY <1>16 DEF ChildCancelCommit, TypeOK, OrderRows, OrderStatus
<1>17. ASSUME NEW p \in PaymentIds, BuyerPays(p) PROVE TypeOK'
  BY <1>17 DEF BuyerPays, TypeOK
<1>18. CASE DeadlinePasses
  BY <1>18 DEF DeadlinePasses, TypeOK
<1>19. CASE UNCHANGED vars
  BY <1>19 DEF vars, TypeOK
<1>20. ASSUME NEW net \in Outside, WalletMoves(net) PROVE TypeOK'
  <2>1. outside \in Int /\ net \in Int
    BY MoneyAssumption DEF TypeOK
  <2>2. balance' \in Nat
    BY <1>20, <2>1 DEF WalletMoves, TypeOK
  <2>3. QED
    BY <1>20, <2>2 DEF WalletMoves, TypeOK
<1>21. QED
  BY <1>1, <1>2, <1>3, <1>4, <1>5, <1>6, <1>7, <1>8, <1>9, <1>10, <1>11, <1>12,
     <1>13, <1>14, <1>15, <1>16, <1>17, <1>18, <1>19, <1>20
     DEF Next, CreatePayment, HandleCallback, Cancel

\* Every reachable state of the tables and wallets is well typed; in
\* particular the buyer's balance never goes below zero.
THEOREM TypeCorrect == Spec => []TypeOK
<1>1. QED
  BY TypeInit, TypeStep, PTL DEF Spec

-----------------------------------------------------------------------------
(* The order, its settlement and the fee holds                             *)

\* The order is canceled as a whole, never child by child.
WholeCancels == "child" \notin Cancellers

\* The inductive invariant: the order's status agrees with paid_at and with
\* the settling payment, the amounts are complementary, and holds follow.
SettleInv ==
    /\ order.status = "pending_payment" => ~order.paid
    /\ order.status = "paid" => order.paid
    /\ order.paid <=> settledBy # NoPayment
    /\ OnlineComplement
    /\ WholeCancels => HoldsFollowOrder

LEMMA PaymentIdsArePositive == \A p \in PaymentIds : p # NoPayment
BY DEF PaymentIds, NoPayment

\* Steps that leave the order, its settlement and the ledger alone.
LEMMA SettleUntouched ==
    ASSUME SettleInv, UNCHANGED <<order, hold, settledBy>>
    PROVE  SettleInv'
BY DEF SettleInv, OnlineComplement, HoldsFollowOrder, Held

\* Steps that only release holds.
LEMMA SettleReleases ==
    ASSUME TypeOK, SettleInv, NEW S \in SUBSET PaymentIds, ReleaseHolds(S),
           UNCHANGED <<order, settledBy>>
    PROVE  SettleInv'
<1>1. Held(PaymentIds)' \subseteq Held(PaymentIds)
  BY ReleaseHoldsShrinks DEF TypeOK
<1>2. QED
  BY <1>1 DEF SettleInv, OnlineComplement, HoldsFollowOrder

\* Steps that release holds and the order's allocation.
LEMMA SettleUnallocates ==
    ASSUME TypeOK, SettleInv, NEW S \in SUBSET PaymentIds, ReleaseHolds(S),
           order' = Unallocated(order), UNCHANGED settledBy
    PROVE  SettleInv'
<1>1. Held(PaymentIds)' \subseteq Held(PaymentIds)
  BY ReleaseHoldsShrinks DEF TypeOK
<1>2. /\ order'.status = order.status
      /\ order'.paid = order.paid
      /\ order'.walletPaid = 0
      /\ order'.onlinePaid = Total
  BY UnallocatedRow DEF TypeOK
<1>3. QED
  BY <1>1, <1>2, MoneyAssumption DEF SettleInv, OnlineComplement, HoldsFollowOrder

LEMMA SettleInit == Init => SettleInv
BY MoneyAssumption DEF Init, SettleInv, OnlineComplement, HoldsFollowOrder, Held

LEMMA SettleStep == TypeOK /\ SettleInv /\ [Next]_vars => SettleInv'
<1> SUFFICES ASSUME TypeOK, SettleInv, [Next]_vars PROVE SettleInv'
  OBVIOUS
<1> USE DEF ovars, fvars, rvars, gvars, wvars
<1>1. ASSUME NEW p \in PaymentIds, NEW c \in Channels, RequestReuse(c, p) PROVE SettleInv'
  BY <1>1, SettleUntouched DEF RequestReuse
<1>2. ASSUME NEW p \in PaymentIds, ReuseSupersede(p) PROVE SettleInv'
  BY <1>2, SettleUntouched DEF ReuseSupersede
<1>3. ASSUME NEW p \in PaymentIds, NEW c \in Channels, NEW useBalance \in BOOLEAN,
             StartOnline(p, c, useBalance)
      PROVE  SettleInv'
  <2>1. /\ order'.status = "pending_payment" /\ order'.paid = order.paid
        /\ order.status = "pending_payment"
        /\ order'.walletPaid = Allocation(useBalance)
        /\ order'.onlinePaid = Total - Allocation(useBalance)
    BY <1>3 DEF StartOnline, CanCreate, TypeOK, OrderRows
  <2>2. order'.walletPaid + order'.onlinePaid = Total
    BY <2>1, AllocationBounds, RowTypes
  <2>3. settledBy' = settledBy
    BY <1>3 DEF StartOnline
  <2>4. QED
    BY <2>1, <2>2, <2>3 DEF SettleInv, OnlineComplement, HoldsFollowOrder
<1>4. ASSUME NEW p \in PaymentIds, NEW c \in Channels \cup {NoChannel}, PayByWallet(p, c)
      PROVE  SettleInv'
  <2>1. Held(PaymentIds)' \subseteq {p}
    <3>1. ReleaseHolds(PaymentIds \ {p})
      BY <1>4 DEF PayByWallet
    <3>2. Held(PaymentIds)' = Held(PaymentIds) \ (PaymentIds \ {p})
      BY <3>1, ReleaseHoldsShrinks DEF TypeOK
    <3>3. QED
      BY <3>2 DEF Held
  <2>2. QED
    BY <1>4, <2>1, MoneyAssumption, PaymentIdsArePositive
       DEF PayByWallet, SettleInv, OnlineComplement, HoldsFollowOrder
<1>5. ASSUME NEW p \in PaymentIds, ProviderAccepts(p) PROVE SettleInv'
  BY <1>5, SettleUntouched DEF ProviderAccepts
<1>6. ASSUME NEW p \in PaymentIds, ProviderRejects(p) PROVE SettleInv'
  BY <1>6, SettleUnallocates DEF ProviderRejects
<1>7. ASSUME NEW p \in PaymentIds, SupersedeOthers(p) PROVE SettleInv'
  BY <1>7, SettleReleases DEF SupersedeOthers
<1>8. ASSUME NEW p \in PaymentIds, RequestDies(p) PROVE SettleInv'
  BY <1>8, SettleUntouched DEF RequestDies
<1>9. ASSUME NEW p \in PaymentIds, CallbackReadsSame(p) PROVE SettleInv'
  BY <1>9, SettleUntouched DEF CallbackReadsSame
<1>10. ASSUME NEW s \in saves, SaveMeta(s) PROVE SettleInv'
  BY <1>10, SettleUntouched DEF SaveMeta
<1>11. ASSUME NEW p \in PaymentIds, CallbackPends(p) PROVE SettleInv'
  BY <1>11, SettleUntouched DEF CallbackPends
<1>12. ASSUME NEW p \in PaymentIds, NEW s \in {"failed", "expired"}, CallbackFails(p, s)
       PROVE  SettleInv'
  <2>1. CASE order.status = "pending_payment"
    BY <1>12, <2>1, SettleUnallocates DEF CallbackFails
  <2>2. CASE order.status # "pending_payment"
    BY <1>12, <2>2, SettleReleases DEF CallbackFails
  <2>3. QED
    BY <2>1, <2>2
<1>13. ASSUME NEW p \in PaymentIds, CallbackSucceeds(p) PROVE SettleInv'
  <2>1. ReleaseHolds(PaymentIds \ {p})
    BY <1>13 DEF CallbackSucceeds
  <2>2. CASE Settles(p)
    <3>1. Held(PaymentIds)' \subseteq {p}
      <4>1. Held(PaymentIds)' = Held(PaymentIds) \ (PaymentIds \ {p})
        BY <2>1, ReleaseHoldsShrinks DEF TypeOK
      <4>2. QED
        BY <4>1 DEF Held
    <3>2. /\ order'.status = "paid" /\ order'.paid
          /\ order'.walletPaid = order.walletPaid
          /\ order'.onlinePaid = Total - order.walletPaid
          /\ settledBy' = p
      BY <1>13, <2>2 DEF CallbackSucceeds, TypeOK, OrderRows
    <3>3. QED
      BY <3>1, <3>2, RowTypes, PaymentIdsArePositive
         DEF SettleInv, OnlineComplement, HoldsFollowOrder
  <2>3. CASE ~Settles(p)
    BY <1>13, <2>1, <2>3, SettleReleases DEF CallbackSucceeds
  <2>4. QED
    BY <2>2, <2>3
<1>14. ASSUME NEW k \in Cancellers, CancelRead(k) PROVE SettleInv'
  BY <1>14, SettleUntouched DEF CancelRead
<1>15. ASSUME NEW k \in Cancellers, CancelCommit(k) PROVE SettleInv'
  <2> DEFINE o == IF Claims(k) THEN Unallocated(order) ELSE order
  <2>1. o \in OrderRows /\ o.paid = order.paid /\ o.walletPaid + o.onlinePaid = Total
    <3>1. CASE Claims(k)
      BY <3>1, UnallocatedRow, MoneyAssumption DEF TypeOK
    <3>2. CASE ~Claims(k)
      BY <3>2 DEF TypeOK, SettleInv, OnlineComplement
    <3>3. QED
      BY <3>1, <3>2
  <2>2. order' = [o EXCEPT !.status = "canceled"]
    BY <1>15 DEF CancelCommit
  <2>3. /\ order'.status = "canceled" /\ order'.paid = order.paid
        /\ order'.walletPaid + order'.onlinePaid = Total
    BY <2>1, <2>2 DEF OrderRows
  <2>4. Held(PaymentIds)' = {} /\ settledBy' = settledBy
    <3>1. ReleaseHolds(PaymentIds)
      BY <1>15 DEF CancelCommit
    <3>2. Held(PaymentIds)' = Held(PaymentIds) \ PaymentIds
      BY <3>1, ReleaseHoldsShrinks DEF TypeOK
    <3>3. QED
      BY <1>15, <3>2 DEF Held, CancelCommit
  <2>5. QED
    BY <2>3, <2>4 DEF SettleInv, OnlineComplement, HoldsFollowOrder
<1>16. CASE ChildCancelCommit
  <2>1. /\ order'.status = "canceled" /\ order'.paid = order.paid
        /\ order'.walletPaid = order.walletPaid /\ order'.onlinePaid = order.onlinePaid
        /\ settledBy' = settledBy
    BY <1>16 DEF ChildCancelCommit, TypeOK, OrderRows
  <2>2. ~WholeCancels
    BY <1>16 DEF ChildCancelCommit, WholeCancels
  <2>3. QED
    BY <2>1, <2>2 DEF SettleInv, OnlineComplement
<1>17. ASSUME NEW p \in PaymentIds, BuyerPays(p) PROVE SettleInv'
  BY <1>17, SettleUntouched DEF BuyerPays
<1>18. CASE DeadlinePasses
  BY <1>18, SettleUntouched DEF DeadlinePasses
<1>19. CASE UNCHANGED vars
  BY <1>19, SettleUntouched DEF vars
<1>20. ASSUME NEW net \in Outside, WalletMoves(net) PROVE SettleInv'
  BY <1>20, SettleUntouched DEF WalletMoves
<1>21. QED
  BY <1>1, <1>2, <1>3, <1>4, <1>5, <1>6, <1>7, <1>8, <1>9, <1>10, <1>11, <1>12,
     <1>13, <1>14, <1>15, <1>16, <1>17, <1>18, <1>19, <1>20
     DEF Next, CreatePayment, HandleCallback, Cancel

LEMMA SettleInvariant == Spec => [](TypeOK /\ SettleInv)
<1>1. Init => TypeOK /\ SettleInv
  BY TypeInit, SettleInit
<1>2. TypeOK /\ SettleInv /\ [Next]_vars => (TypeOK /\ SettleInv)'
  BY TypeStep, SettleStep
<1>3. QED
  BY <1>1, <1>2, PTL DEF Spec

\* Whatever callbacks, replacements and cancellations of the whole order
\* interleave, a canceled order keeps no fee hold and a paid order keeps at
\* most the settling one.
THEOREM HoldsAlwaysFollowOrder == WholeCancels => (Spec => []HoldsFollowOrder)
<1> SUFFICES ASSUME WholeCancels PROVE Spec => []HoldsFollowOrder
  OBVIOUS
<1>1. SettleInv => HoldsFollowOrder
  BY DEF SettleInv
<1>2. QED
  BY <1>1, SettleInvariant, PTL

\* online_paid_amount never drifts from the total less the allocation.
THEOREM OnlineAlwaysComplement == Spec => []OnlineComplement
<1>1. SettleInv => OnlineComplement
  BY DEF SettleInv
<1>2. QED
  BY <1>1, SettleInvariant, PTL

-----------------------------------------------------------------------------
(* Every settlement is covered                                             *)

\* What is or was payable is an online payment that stays in the table.
LinkInv ==
    /\ \A p \in PaymentIds :
          payments[p].link \/ p \in gatewayPaid \/ request[p] = "calling" =>
              payments[p].channel \in Channels /\ payments[p].status # "none"
    /\ \A s \in saves : s.row.channel \in Channels /\ s.row.status # "none"

\* A step that rewrites rows without their channel and without emptying or
\* linking one.
LEMMA LinkKept ==
    ASSUME LinkInv, UNCHANGED saves,
           \A p \in PaymentIds :
              /\ payments'[p].channel = payments[p].channel
              /\ payments'[p].link = payments[p].link
              /\ payments[p].status # "none" => payments'[p].status # "none"
              /\ request'[p] = "calling" => request[p] = "calling",
           gatewayPaid' = gatewayPaid
    PROVE  LinkInv'
BY DEF LinkInv

LEMMA SupersededKeeps ==
    ASSUME NEW p \in PaymentIds, NEW rows \in [PaymentIds -> PaymentRows], NEW q \in PaymentIds
    PROVE  /\ SupersededBy(p, rows)[q].channel = rows[q].channel
           /\ SupersededBy(p, rows)[q].link = rows[q].link
           /\ rows[q].status # "none" => SupersededBy(p, rows)[q].status # "none"
           /\ SupersededBy(p, rows)[p] = rows[p]
BY DEF SupersededBy, PaymentRows

LEMMA ExpiredKeeps ==
    ASSUME NEW rows \in [PaymentIds -> PaymentRows], NEW q \in PaymentIds
    PROVE  /\ Expired(rows)[q].channel = rows[q].channel
           /\ Expired(rows)[q].link = rows[q].link
           /\ rows[q].status # "none" => Expired(rows)[q].status # "none"
           /\ rows[q].status = "success" => Expired(rows)[q] = rows[q]
BY DEF Expired, PaymentRows, Open

LEMMA LinkInit == Init => LinkInv
BY DEF Init, LinkInv, NoRow, NewRow

LEMMA LinkStep == TypeOK /\ LinkInv /\ [Next]_vars => LinkInv'
<1> SUFFICES ASSUME TypeOK, LinkInv, [Next]_vars PROVE LinkInv'
  OBVIOUS
<1> payments \in [PaymentIds -> PaymentRows]
  BY DEF TypeOK
<1> request \in [PaymentIds -> {"none", "calling", "linked", "done"}]
  BY DEF TypeOK
<1> USE DEF ovars, fvars, rvars, gvars, wvars
<1>1. ASSUME NEW p \in PaymentIds, NEW c \in Channels, RequestReuse(c, p) PROVE LinkInv'
  BY <1>1 DEF RequestReuse, LinkInv
<1>2. ASSUME NEW p \in PaymentIds, ReuseSupersede(p) PROVE LinkInv'
  BY <1>2, SupersededKeeps, LinkKept DEF ReuseSupersede
<1>3. ASSUME NEW p \in PaymentIds, NEW c \in Channels, NEW useBalance \in BOOLEAN,
             StartOnline(p, c, useBalance)
      PROVE  LinkInv'
  <2>1. payments' = [payments EXCEPT ![p] = NewRow("initiated", c, Total - Allocation(useBalance))]
    BY <1>3 DEF StartOnline
  <2>2. /\ payments'[p].channel \in Channels /\ payments'[p].status # "none"
        /\ \A q \in PaymentIds \ {p} : payments'[q] = payments[q] /\ request'[q] = request[q]
    <3>1. payments'[p] = NewRow("initiated", c, Total - Allocation(useBalance))
      BY <2>1
    <3>2. payments'[p].channel \in Channels /\ payments'[p].status # "none"
      BY <3>1 DEF NewRow
    <3>3. request' = [request EXCEPT ![p] = "calling"]
      BY <1>3 DEF StartOnline
    <3>4. QED
      BY <2>1, <3>2, <3>3
  <2>3. saves' = saves /\ gatewayPaid' = gatewayPaid
    BY <1>3 DEF StartOnline
  <2>4. QED
    BY <2>2, <2>3 DEF LinkInv
<1>4. ASSUME NEW p \in PaymentIds, NEW c \in Channels \cup {NoChannel}, PayByWallet(p, c)
      PROVE  LinkInv'
  <2> DEFINE rows == [payments EXCEPT ![p] = NewRow("success", NoChannel, Total)]
  <2>1. rows \in [PaymentIds -> PaymentRows]
    <3>1. NewRow("success", NoChannel, Total) \in PaymentRows
      BY NewRowType, MoneyAssumption DEF PaymentStatus
    <3>2. QED
      BY <3>1
  <2>2. ~rows[p].link /\ p \notin gatewayPaid /\ request[p] # "calling"
    BY <1>4 DEF PayByWallet, IsNextPayment, LinkInv, NewRow
  <2>3. \A q \in PaymentIds \ {p} : rows[q] = payments[q]
    OBVIOUS
  <2>4. payments' = SupersededBy(p, rows) /\ UNCHANGED <<saves, gatewayPaid, request>>
    BY <1>4 DEF PayByWallet
  <2>5. \A q \in PaymentIds : /\ payments'[q].channel = rows[q].channel
                              /\ payments'[q].link = rows[q].link
                              /\ rows[q].status # "none" => payments'[q].status # "none"
    <3> HIDE DEF rows
    <3> QED
      BY <2>1, <2>4, SupersededKeeps
  <2>6. QED
    BY <2>2, <2>3, <2>4, <2>5 DEF LinkInv
<1>5. ASSUME NEW p \in PaymentIds, ProviderAccepts(p) PROVE LinkInv'
  <2>1. payments[p].channel \in Channels
    BY <1>5 DEF ProviderAccepts, LinkInv
  <2>2. payments'[p].channel = payments[p].channel /\ payments'[p].status = "pending"
    BY <1>5 DEF ProviderAccepts, NewRow
  <2>3. \A q \in PaymentIds \ {p} : payments'[q] = payments[q] /\ request'[q] = request[q]
    BY <1>5 DEF ProviderAccepts
  <2>4. QED
    BY <1>5, <2>1, <2>2, <2>3 DEF ProviderAccepts, LinkInv
<1>6. ASSUME NEW p \in PaymentIds, ProviderRejects(p) PROVE LinkInv'
  <2>1. payments[p].channel \in Channels
    BY <1>6 DEF ProviderRejects, LinkInv
  <2>2. payments'[p].channel = payments[p].channel /\ payments'[p].status = "failed"
    BY <1>6 DEF ProviderRejects, NewRow
  <2>3. \A q \in PaymentIds \ {p} : payments'[q] = payments[q] /\ request'[q] = request[q]
    BY <1>6 DEF ProviderRejects
  <2>4. QED
    BY <1>6, <2>1, <2>2, <2>3 DEF ProviderRejects, LinkInv
<1>7. ASSUME NEW p \in PaymentIds, SupersedeOthers(p) PROVE LinkInv'
  BY <1>7, SupersededKeeps, LinkKept DEF SupersedeOthers
<1>8. ASSUME NEW p \in PaymentIds, RequestDies(p) PROVE LinkInv'
  BY <1>8, LinkKept DEF RequestDies
<1>9. ASSUME NEW p \in PaymentIds, CallbackReadsSame(p) PROVE LinkInv'
  <2>1. \A s \in saves' : s.row.channel \in Channels /\ s.row.status # "none"
    BY <1>9 DEF CallbackReadsSame, LinkInv
  <2>2. QED
    BY <1>9, <2>1 DEF CallbackReadsSame, LinkInv
<1>10. ASSUME NEW s \in saves, SaveMeta(s) PROVE LinkInv'
  BY <1>10 DEF SaveMeta, LinkInv, TypeOK
<1>11. ASSUME NEW p \in PaymentIds, CallbackPends(p) PROVE LinkInv'
  <2>1. \A q \in PaymentIds : /\ payments'[q].channel = payments[q].channel
                              /\ payments'[q].link = payments[q].link
                              /\ payments[q].status # "none" => payments'[q].status # "none"
    BY <1>11 DEF CallbackPends, PaymentRows
  <2>2. QED
    BY <1>11, <2>1, LinkKept DEF CallbackPends
<1>12. ASSUME NEW p \in PaymentIds, NEW s \in {"failed", "expired"}, CallbackFails(p, s)
       PROVE  LinkInv'
  <2>1. \A q \in PaymentIds : /\ payments'[q].channel = payments[q].channel
                              /\ payments'[q].link = payments[q].link
                              /\ payments[q].status # "none" => payments'[q].status # "none"
    BY <1>12 DEF CallbackFails, PaymentRows
  <2>2. QED
    BY <1>12, <2>1, LinkKept DEF CallbackFails
<1>13. ASSUME NEW p \in PaymentIds, CallbackSucceeds(p) PROVE LinkInv'
  <2> DEFINE row == [payments[p] EXCEPT !.status = "success", !.exception = ExceptionOf(p)]
             rows == [payments EXCEPT ![p] = row]
  <2>1. /\ row \in PaymentRows /\ row.status = "success"
        /\ row.channel = payments[p].channel /\ row.link = payments[p].link
    <3>1. ExceptionOf(p) \in Exceptions
      BY DEF ExceptionOf, Exceptions, PaymentRows
    <3>2. QED
      BY <3>1 DEF PaymentRows, PaymentStatus
  <2>2. rows \in [PaymentIds -> PaymentRows]
    BY <2>1
  <2>3. payments' = Expired(rows) /\ UNCHANGED <<saves, gatewayPaid, request>>
    BY <1>13 DEF CallbackSucceeds
  <2>4. \A q \in PaymentIds : /\ payments'[q].channel = payments[q].channel
                              /\ payments'[q].link = payments[q].link
                              /\ payments[q].status # "none" => payments'[q].status # "none"
    BY <2>1, <2>2, <2>3, ExpiredKeeps
  <2>5. QED
    BY <2>3, <2>4, LinkKept
<1>14. ASSUME NEW k \in Cancellers, CancelRead(k) PROVE LinkInv'
  BY <1>14 DEF CancelRead, LinkInv
<1>15. ASSUME NEW k \in Cancellers, CancelCommit(k) PROVE LinkInv'
  BY <1>15, ExpiredKeeps, LinkKept DEF CancelCommit
<1>16. CASE ChildCancelCommit
  BY <1>16 DEF ChildCancelCommit, LinkInv
<1>17. ASSUME NEW p \in PaymentIds, BuyerPays(p) PROVE LinkInv'
  BY <1>17 DEF BuyerPays, LinkInv
<1>18. CASE DeadlinePasses
  BY <1>18 DEF DeadlinePasses, LinkInv
<1>19. CASE UNCHANGED vars
  BY <1>19 DEF vars, LinkInv
<1>20. ASSUME NEW net \in Outside, WalletMoves(net) PROVE LinkInv'
  BY <1>20 DEF WalletMoves, LinkInv
<1>21. QED
  BY <1>1, <1>2, <1>3, <1>4, <1>5, <1>6, <1>7, <1>8, <1>9, <1>10, <1>11, <1>12,
     <1>13, <1>14, <1>15, <1>16, <1>17, <1>18, <1>19, <1>20
     DEF Next, CreatePayment, HandleCallback, Cancel

LEMMA CallbackCovers ==
    ASSUME TypeOK, LinkInv, NEW p \in PaymentIds, CallbackSucceeds(p), Settles(p)
    PROVE  PaidStep
<1> DEFINE row == [payments[p] EXCEPT !.status = "success", !.exception = ExceptionOf(p)]
           rows == [payments EXCEPT ![p] = row]
<1>1. payments[p] \in PaymentRows
  BY DEF TypeOK
<1>2. /\ row \in PaymentRows /\ row.status = "success"
      /\ row.amount = payments[p].amount /\ row.channel = payments[p].channel
  <2>1. ExceptionOf(p) \in Exceptions
    BY <1>1 DEF ExceptionOf, Exceptions, PaymentRows
  <2>2. QED
    BY <1>1, <2>1 DEF PaymentRows, PaymentStatus
<1>3. payments'[p] = row
  <2>1. rows \in [PaymentIds -> PaymentRows] /\ rows[p] = row
    BY <1>2 DEF TypeOK
  <2>2. payments' = Expired(rows)
    BY DEF CallbackSucceeds
  <2>3. QED
    BY <1>2, <2>1, <2>2, ExpiredKeeps
<1>4. payments[p].amount >= Total - order.walletPaid /\ payments[p].amount \in Nat
  BY <1>1, MoneyAssumption DEF Settles, Covers, PaymentRows
<1>5. payments[p].channel \in Channels
  BY DEF LinkInv, CallbackSucceeds
<1>6. settledBy' = p /\ order'.walletPaid = order.walletPaid /\ order'.paid
  BY DEF CallbackSucceeds, TypeOK, OrderRows
<1>7. order.status = "pending_payment" /\ ~order.paid
  BY DEF Settles, OrderOpen
<1>8. OnlinePart(payments'[p]) = payments[p].amount
  BY <1>2, <1>3, <1>5 DEF OnlinePart
<1>9. order'.walletPaid + OnlinePart(payments'[p]) >= Total
  BY <1>4, <1>6, <1>8, RowTypes
<1>10. QED
  BY <1>2, <1>3, <1>6, <1>7, <1>9 DEF PaidStep

LEMMA WalletCovers ==
    ASSUME TypeOK, SettleInv, NEW p \in PaymentIds, NEW c \in Channels \cup {NoChannel},
           PayByWallet(p, c)
    PROVE  PaidStep
<1> DEFINE rows == [payments EXCEPT ![p] = NewRow("success", NoChannel, Total)]
<1>1. rows \in [PaymentIds -> PaymentRows] /\ rows[p] = NewRow("success", NoChannel, Total)
  <2>1. NewRow("success", NoChannel, Total) \in PaymentRows
    <3>1. Total \in 0 .. Total
      BY MoneyAssumption
    <3>2. QED
      BY <3>1, NewRowType DEF PaymentStatus
  <2>2. QED
    BY <2>1 DEF TypeOK
<1>2. payments'[p] = NewRow("success", NoChannel, Total)
  BY <1>1, SupersededKeeps DEF PayByWallet
<1>3. settledBy' = p /\ order'.walletPaid = Total /\ order'.paid
  BY DEF PayByWallet
<1>4. order.status = "pending_payment" /\ ~order.paid
  BY DEF PayByWallet, CanCreate, SettleInv
<1>5. OnlinePart(payments'[p]) = 0 /\ payments'[p].status = "success"
  BY <1>2, ActorsAssumption DEF OnlinePart, NewRow
<1>6. QED
  BY <1>3, <1>4, <1>5, MoneyAssumption DEF PaidStep

\* Every other step leaves paid_at and the settling payment alone.
LEMMA NothingSettles ==
    ASSUME order'.paid = order.paid, settledBy' = settledBy
    PROVE  PaidStep
BY DEF PaidStep

LEMMA EveryStepCovers == TypeOK /\ SettleInv /\ LinkInv /\ [Next]_vars => PaidStep
<1> SUFFICES ASSUME TypeOK, SettleInv, LinkInv, [Next]_vars PROVE PaidStep
  OBVIOUS
<1> USE DEF ovars, gvars, wvars
<1>1. ASSUME NEW p \in PaymentIds, NEW c \in Channels, RequestReuse(c, p) PROVE PaidStep
  BY <1>1, NothingSettles DEF RequestReuse
<1>2. ASSUME NEW p \in PaymentIds, ReuseSupersede(p) PROVE PaidStep
  BY <1>2, NothingSettles DEF ReuseSupersede
<1>3. ASSUME NEW p \in PaymentIds, NEW c \in Channels, NEW useBalance \in BOOLEAN,
             StartOnline(p, c, useBalance)
      PROVE  PaidStep
  BY <1>3, NothingSettles DEF StartOnline, TypeOK, OrderRows
<1>4. ASSUME NEW p \in PaymentIds, NEW c \in Channels \cup {NoChannel}, PayByWallet(p, c)
      PROVE  PaidStep
  BY <1>4, WalletCovers
<1>5. ASSUME NEW p \in PaymentIds, ProviderAccepts(p) PROVE PaidStep
  BY <1>5, NothingSettles DEF ProviderAccepts
<1>6. ASSUME NEW p \in PaymentIds, ProviderRejects(p) PROVE PaidStep
  BY <1>6, NothingSettles, UnallocatedRow DEF ProviderRejects, TypeOK
<1>7. ASSUME NEW p \in PaymentIds, SupersedeOthers(p) PROVE PaidStep
  BY <1>7, NothingSettles DEF SupersedeOthers
<1>8. ASSUME NEW p \in PaymentIds, RequestDies(p) PROVE PaidStep
  BY <1>8, NothingSettles DEF RequestDies
<1>9. ASSUME NEW p \in PaymentIds, CallbackReadsSame(p) PROVE PaidStep
  BY <1>9, NothingSettles DEF CallbackReadsSame
<1>10. ASSUME NEW s \in saves, SaveMeta(s) PROVE PaidStep
  BY <1>10, NothingSettles DEF SaveMeta
<1>11. ASSUME NEW p \in PaymentIds, CallbackPends(p) PROVE PaidStep
  BY <1>11, NothingSettles DEF CallbackPends
<1>12. ASSUME NEW p \in PaymentIds, NEW s \in {"failed", "expired"}, CallbackFails(p, s)
       PROVE  PaidStep
  BY <1>12, NothingSettles, UnallocatedRow DEF CallbackFails, TypeOK
<1>13. ASSUME NEW p \in PaymentIds, CallbackSucceeds(p) PROVE PaidStep
  <2>1. CASE Settles(p)
    BY <1>13, <2>1, CallbackCovers
  <2>2. CASE ~Settles(p)
    BY <1>13, <2>2, NothingSettles DEF CallbackSucceeds
  <2>3. QED
    BY <2>1, <2>2
<1>14. ASSUME NEW k \in Cancellers, CancelRead(k) PROVE PaidStep
  BY <1>14, NothingSettles DEF CancelRead
<1>15. ASSUME NEW k \in Cancellers, CancelCommit(k) PROVE PaidStep
  <2> DEFINE o == IF Claims(k) THEN Unallocated(order) ELSE order
  <2>1. o \in OrderRows /\ o.paid = order.paid
    BY UnallocatedRow DEF TypeOK
  <2>2. order' = [o EXCEPT !.status = "canceled"] /\ settledBy' = settledBy
    BY <1>15 DEF CancelCommit
  <2>3. order'.paid = order.paid
    BY <2>1, <2>2 DEF OrderRows
  <2>4. QED
    BY <2>2, <2>3, NothingSettles
<1>16. CASE ChildCancelCommit
  BY <1>16, NothingSettles DEF ChildCancelCommit, TypeOK, OrderRows
<1>17. ASSUME NEW p \in PaymentIds, BuyerPays(p) PROVE PaidStep
  BY <1>17, NothingSettles DEF BuyerPays
<1>18. CASE DeadlinePasses
  BY <1>18, NothingSettles DEF DeadlinePasses
<1>19. CASE UNCHANGED vars
  BY <1>19, NothingSettles DEF vars
<1>20. ASSUME NEW net \in Outside, WalletMoves(net) PROVE PaidStep
  BY <1>20, NothingSettles DEF WalletMoves
<1>21. QED
  BY <1>1, <1>2, <1>3, <1>4, <1>5, <1>6, <1>7, <1>8, <1>9, <1>10, <1>11, <1>12,
     <1>13, <1>14, <1>15, <1>16, <1>17, <1>18, <1>19, <1>20
     DEF Next, CreatePayment, HandleCallback, Cancel

\* However links are replaced and wallets reallocated between a link's
\* creation and its payment, an order is marked paid once, from open, by a
\* success that with the allocation of that moment covers the total.
THEOREM EverySettlementCovered == Spec => SettledOnlyWhenCovered
<1>1. Init => TypeOK /\ SettleInv /\ LinkInv
  BY TypeInit, SettleInit, LinkInit
<1>2. TypeOK /\ SettleInv /\ LinkInv /\ [Next]_vars => (TypeOK /\ SettleInv /\ LinkInv)'
  BY TypeStep, SettleStep, LinkStep
<1>3. TypeOK /\ SettleInv /\ LinkInv /\ [Next]_vars => [PaidStep]_vars
  BY EveryStepCovers
<1>4. QED
  BY <1>1, <1>2, <1>3, PTL DEF Spec, SettledOnlyWhenCovered
-----------------------------------------------------------------------------
(* The tables implement the abstract settlement                            *)

\* The mapped step: it is one of OrderSettlement or leaves its state alone.
MappedStep == [Settlement!SettlementNext]_(Settlement!svars)

\* Releases and untouched ledgers, with the order's phase unchanged.
LEMMA DropMapped ==
    ASSUME TypeOK, NEW S \in SUBSET PaymentIds, ReleaseHolds(S),
           order'.status = order.status, settledBy' = settledBy
    PROVE  MappedStep
<1>1. Held(PaymentIds)' \in SUBSET Held(PaymentIds)
  BY ReleaseHoldsShrinks DEF TypeOK
<1>2. Phase' = Phase
  BY DEF Phase
<1>3. Settlement!DropHolds
  BY <1>1, <1>2 DEF Settlement!DropHolds
<1>4. QED
  BY <1>3 DEF MappedStep, Settlement!SettlementNext

LEMMA StutterMapped ==
    ASSUME order'.status = order.status, hold' = hold, settledBy' = settledBy
    PROVE  MappedStep
<1>1. Held(PaymentIds)' = Held(PaymentIds)
  BY DEF Held
<1>2. QED
  BY <1>1 DEF MappedStep, Settlement!svars, Phase

LEMMA SettleMapped ==
    ASSUME TypeOK, NEW p \in PaymentIds, ReleaseHolds(PaymentIds \ {p}),
           order.status = "pending_payment", order'.status = "paid", settledBy' = p
    PROVE  MappedStep
<1>1. Held(PaymentIds)' = Held(PaymentIds) \ (PaymentIds \ {p})
  BY ReleaseHoldsShrinks DEF TypeOK
<1>2. Held(PaymentIds)' \subseteq {p} /\ Held(PaymentIds)' \subseteq Held(PaymentIds)
  BY <1>1 DEF Held
<1>3. Phase = "open" /\ Phase' = "settled"
  BY DEF Phase
<1>4. Settlement!Settle(p)
  BY <1>2, <1>3 DEF Settlement!Settle
<1>5. QED
  BY <1>4 DEF MappedStep, Settlement!SettlementNext

\* A new link holds its deficit, or leaves the ledger as it was.
LEMMA LinkMapped ==
    ASSUME TypeOK, NEW p \in PaymentIds, NEW h \in {"held", "none"},
           hold' = [hold EXCEPT ![p] = h], order.status = "pending_payment",
           order'.status = "pending_payment", settledBy' = settledBy
    PROVE  MappedStep
<1>1. hold \in [PaymentIds -> {"none", "held", "released"}]
  BY DEF TypeOK
<1>2. Phase = "open" /\ Phase' = "open"
  BY DEF Phase
<1>3. CASE h = "held"
  <2>1. Held(PaymentIds)' = Held(PaymentIds) \cup {p}
    BY <1>1, <1>3 DEF Held
  <2>2. Settlement!PlaceHold(p)
    BY <1>2, <2>1 DEF Settlement!PlaceHold
  <2>3. QED
    BY <2>2 DEF MappedStep, Settlement!SettlementNext
<1>4. CASE h = "none"
  <2>1. Held(PaymentIds)' \in SUBSET Held(PaymentIds)
    BY <1>1, <1>4 DEF Held
  <2>2. Settlement!DropHolds
    BY <1>2, <2>1 DEF Settlement!DropHolds
  <2>3. QED
    BY <2>2 DEF MappedStep, Settlement!SettlementNext
<1>5. QED
  BY <1>3, <1>4

LEMMA CloseMapped ==
    ASSUME TypeOK, ReleaseHolds(PaymentIds), order'.status = "canceled", settledBy' = settledBy
    PROVE  MappedStep
<1>1. Held(PaymentIds)' = {}
  <2>1. Held(PaymentIds)' = Held(PaymentIds) \ PaymentIds
    BY ReleaseHoldsShrinks DEF TypeOK
  <2>2. QED
    BY <2>1 DEF Held
<1>2. Phase' = "closed"
  BY DEF Phase
<1>3. Settlement!Close
  BY <1>1, <1>2 DEF Settlement!Close
<1>4. QED
  BY <1>3 DEF MappedStep, Settlement!SettlementNext

LEMMA EveryStepMapped == WholeCancels /\ TypeOK /\ [Next]_vars => MappedStep
<1> SUFFICES ASSUME WholeCancels, TypeOK, [Next]_vars PROVE MappedStep
  OBVIOUS
<1> USE DEF ovars, fvars, rvars, gvars, wvars
<1>1. ASSUME NEW p \in PaymentIds, NEW c \in Channels, RequestReuse(c, p) PROVE MappedStep
  BY <1>1, StutterMapped DEF RequestReuse
<1>2. ASSUME NEW p \in PaymentIds, ReuseSupersede(p) PROVE MappedStep
  BY <1>2, StutterMapped DEF ReuseSupersede
<1>3. ASSUME NEW p \in PaymentIds, NEW c \in Channels, NEW useBalance \in BOOLEAN,
             StartOnline(p, c, useBalance)
      PROVE  MappedStep
  <2> DEFINE h == IF FeeDeficit[<<c, Total - Allocation(useBalance)>>] > 0 THEN "held" ELSE "none"
  <2>1. hold' = [hold EXCEPT ![p] = h] /\ h \in {"held", "none"}
    BY <1>3 DEF StartOnline
  <2>2. /\ order.status = "pending_payment" /\ order'.status = "pending_payment"
        /\ settledBy' = settledBy
    BY <1>3 DEF StartOnline, CanCreate, TypeOK, OrderRows
  <2>3. QED
    BY <2>1, <2>2, LinkMapped
<1>4. ASSUME NEW p \in PaymentIds, NEW c \in Channels \cup {NoChannel}, PayByWallet(p, c)
      PROVE  MappedStep
  BY <1>4, SettleMapped DEF PayByWallet, CanCreate
<1>5. ASSUME NEW p \in PaymentIds, ProviderAccepts(p) PROVE MappedStep
  BY <1>5, StutterMapped DEF ProviderAccepts
<1>6. ASSUME NEW p \in PaymentIds, ProviderRejects(p) PROVE MappedStep
  BY <1>6, DropMapped, UnallocatedRow DEF ProviderRejects, TypeOK
<1>7. ASSUME NEW p \in PaymentIds, SupersedeOthers(p) PROVE MappedStep
  BY <1>7, DropMapped DEF SupersedeOthers
<1>8. ASSUME NEW p \in PaymentIds, RequestDies(p) PROVE MappedStep
  BY <1>8, StutterMapped DEF RequestDies
<1>9. ASSUME NEW p \in PaymentIds, CallbackReadsSame(p) PROVE MappedStep
  BY <1>9, StutterMapped DEF CallbackReadsSame
<1>10. ASSUME NEW s \in saves, SaveMeta(s) PROVE MappedStep
  BY <1>10, StutterMapped DEF SaveMeta
<1>11. ASSUME NEW p \in PaymentIds, CallbackPends(p) PROVE MappedStep
  BY <1>11, StutterMapped DEF CallbackPends
<1>12. ASSUME NEW p \in PaymentIds, NEW s \in {"failed", "expired"}, CallbackFails(p, s)
       PROVE  MappedStep
  BY <1>12, DropMapped, UnallocatedRow DEF CallbackFails, TypeOK
<1>13. ASSUME NEW p \in PaymentIds, CallbackSucceeds(p) PROVE MappedStep
  <2>1. ReleaseHolds(PaymentIds \ {p})
    BY <1>13 DEF CallbackSucceeds
  <2>2. CASE Settles(p)
    <3>1. order.status = "pending_payment"
      BY <2>2 DEF Settles, OrderOpen
    <3>2. order'.status = "paid" /\ settledBy' = p
      BY <1>13, <2>2 DEF CallbackSucceeds, TypeOK, OrderRows
    <3>3. QED
      BY <2>1, <3>1, <3>2, SettleMapped
  <2>3. CASE ~Settles(p)
    BY <1>13, <2>1, <2>3, DropMapped DEF CallbackSucceeds
  <2>4. QED
    BY <2>2, <2>3
<1>14. ASSUME NEW k \in Cancellers, CancelRead(k) PROVE MappedStep
  BY <1>14, StutterMapped DEF CancelRead
<1>15. ASSUME NEW k \in Cancellers, CancelCommit(k) PROVE MappedStep
  <2> DEFINE o == IF Claims(k) THEN Unallocated(order) ELSE order
  <2>1. o \in OrderRows
    BY UnallocatedRow DEF TypeOK
  <2>2. order' = [o EXCEPT !.status = "canceled"]
    BY <1>15 DEF CancelCommit
  <2>3. order'.status = "canceled"
    BY <2>1, <2>2 DEF OrderRows
  <2>4. QED
    BY <1>15, <2>3, CloseMapped DEF CancelCommit
<1>16. ~ChildCancelCommit
  BY DEF ChildCancelCommit, WholeCancels
<1>17. ASSUME NEW p \in PaymentIds, BuyerPays(p) PROVE MappedStep
  BY <1>17, StutterMapped DEF BuyerPays
<1>18. CASE DeadlinePasses
  BY <1>18, StutterMapped DEF DeadlinePasses
<1>19. CASE UNCHANGED vars
  BY <1>19, StutterMapped DEF vars
<1>20. ASSUME NEW net \in Outside, WalletMoves(net) PROVE MappedStep
  BY <1>20, StutterMapped DEF WalletMoves
<1>21. QED
  BY <1>1, <1>2, <1>3, <1>4, <1>5, <1>6, <1>7, <1>8, <1>9, <1>10, <1>11, <1>12,
     <1>13, <1>14, <1>15, <1>16, <1>17, <1>18, <1>19, <1>20
     DEF Next, CreatePayment, HandleCallback, Cancel

\* The payments, orders and ledger tables implement OrderSettlement for every
\* number of links, channel, fee table and canceller of the whole order.
THEOREM TablesImplementSettlement == WholeCancels => (Spec => ImplementsSettlement)
<1> SUFFICES ASSUME WholeCancels PROVE Spec => ImplementsSettlement
  OBVIOUS
<1>1. Init => Settlement!SettlementInit
  BY DEF Init, Settlement!SettlementInit, Phase, Held
<1>2. TypeOK /\ [Next]_vars => [Settlement!SettlementNext]_(Settlement!svars)
  BY EveryStepMapped DEF MappedStep
<1>3. QED
  BY <1>1, <1>2, TypeCorrect, PTL DEF Spec, ImplementsSettlement, Settlement!SettlementSpec
==============================================================================
