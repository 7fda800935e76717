-------------------------- MODULE OrderMoneyProofs --------------------------
(***************************************************************************)
(* The money of OrderPayment, for every number of payments, every fee      *)
(* table and every amount: what the two wallets hold is what they started  *)
(* with less what an order has of it, and what a gateway has taken is used *)
(* once.  The sums over payments are reasoned about with SumTheorems.      *)
(***************************************************************************)
EXTENDS OrderPaymentProofs, SumTheorems

(* Payment rows keep their channel and amount                              *)

\* A row that has been inserted stays one, with its channel and its amount.
RowsKept ==
    \A q \in PaymentIds : payments[q].status # "none" =>
        /\ payments'[q].status # "none"
        /\ payments'[q].channel = payments[q].channel
        /\ payments'[q].amount = payments[q].amount

\* A payment that has not been inserted holds no fee and has been credited
\* nothing; a stale row differs from the table's in neither channel nor amount.
RowInv ==
    /\ \A p \in PaymentIds : payments[p].status = "none" => p \notin credited /\ hold[p] = "none"
    /\ \A s \in saves : /\ s.row.status # "none"
                        /\ payments[s.id].status # "none"
                        /\ s.row.channel = payments[s.id].channel
                        /\ s.row.amount = payments[s.id].amount

LEMMA PaymentIdsFinite == IsFiniteSet(PaymentIds)
BY BoundsAssumption, FS_Interval DEF PaymentIds

LEMMA ExpiredRows ==
    ASSUME NEW rows \in [PaymentIds -> PaymentRows], NEW q \in PaymentIds
    PROVE  /\ Expired(rows)[q].amount = rows[q].amount
           /\ Expired(rows)[q].channel = rows[q].channel
           /\ rows[q].status # "none" => Expired(rows)[q].status # "none"
BY DEF Expired, PaymentRows

LEMMA SupersededRows ==
    ASSUME NEW p \in PaymentIds, NEW rows \in [PaymentIds -> PaymentRows], NEW q \in PaymentIds
    PROVE  /\ SupersededBy(p, rows)[q].amount = rows[q].amount
           /\ SupersededBy(p, rows)[q].channel = rows[q].channel
           /\ rows[q].status # "none" => SupersededBy(p, rows)[q].status # "none"
BY DEF SupersededBy, PaymentRows

\* A row that is replaced by one with its channel and amount.
LEMMA ReplacedKept ==
    ASSUME TypeOK, NEW p \in PaymentIds, NEW row \in PaymentRows,
           payments' = [payments EXCEPT ![p] = row],
           payments[p].status # "none" =>
               /\ row.status # "none"
               /\ row.channel = payments[p].channel
               /\ row.amount = payments[p].amount
    PROVE  RowsKept
BY DEF RowsKept, TypeOK

LEMMA EveryStepKeepsRows == TypeOK /\ LinkInv /\ RowInv /\ [Next]_vars => RowsKept
<1> SUFFICES ASSUME TypeOK, LinkInv, RowInv, [Next]_vars PROVE RowsKept
  OBVIOUS
<1>0. ASSUME payments' = payments PROVE RowsKept
  BY <1>0 DEF RowsKept
<1>1. ASSUME NEW p \in PaymentIds, NEW c \in Channels, RequestReuse(c, p) PROVE RowsKept
  BY <1>0, <1>1 DEF RequestReuse
<1>2. ASSUME NEW p \in PaymentIds, ReuseSupersede(p) PROVE RowsKept
  BY <1>2, SupersededRows DEF ReuseSupersede, RowsKept, TypeOK
<1>3. ASSUME NEW p \in PaymentIds, NEW c \in Channels, NEW useBalance \in BOOLEAN,
             StartOnline(p, c, useBalance)
      PROVE  RowsKept
  <2> DEFINE row == NewRow("initiated", c, Total - Allocation(useBalance))
  <2>1. Total - Allocation(useBalance) \in 0 .. Total
    BY AllocationBounds, RowTypes
  <2>2. row \in PaymentRows
    BY <2>1, NewRowType DEF PaymentStatus
  <2>3. payments' = [payments EXCEPT ![p] = row] /\ payments[p].status = "none"
    BY <1>3 DEF StartOnline, IsNextPayment
  <2>4. QED
    BY <2>2, <2>3, ReplacedKept
<1>4. ASSUME NEW p \in PaymentIds, NEW c \in Channels \cup {NoChannel}, PayByWallet(p, c)
      PROVE  RowsKept
  <2> DEFINE rows == [payments EXCEPT ![p] = NewRow("success", NoChannel, Total)]
  <2>1. NewRow("success", NoChannel, Total) \in PaymentRows
    <3>1. Total \in 0 .. Total
      BY MoneyAssumption
    <3>2. QED
      BY <3>1, NewRowType DEF PaymentStatus
  <2>2. rows \in [PaymentIds -> PaymentRows] /\ \A q \in PaymentIds \ {p} : rows[q] = payments[q]
    BY <2>1, ReplacedRowType DEF TypeOK
  <2>3. payments' = SupersededBy(p, rows) /\ payments[p].status = "none"
    BY <1>4 DEF PayByWallet, IsNextPayment
  <2> HIDE DEF rows
  <2>4. QED
    BY <2>2, <2>3, SupersededRows DEF RowsKept
<1>5. ASSUME NEW p \in PaymentIds, ProviderAccepts(p) PROVE RowsKept
  <2> DEFINE row == [NewRow("pending", payments[p].channel, payments[p].amount) EXCEPT !.link = TRUE]
  <2>1. row \in PaymentRows /\ row.status = "pending"
        /\ row.channel = payments[p].channel /\ row.amount = payments[p].amount
    BY DEF TypeOK, NewRow, PaymentRows, PaymentStatus, Exceptions
  <2>2. payments' = [payments EXCEPT ![p] = row]
    BY <1>5 DEF ProviderAccepts
  <2>3. QED
    BY <2>1, <2>2, ReplacedKept
<1>6. ASSUME NEW p \in PaymentIds, ProviderRejects(p) PROVE RowsKept
  <2> DEFINE row == NewRow("failed", payments[p].channel, payments[p].amount)
  <2>1. row \in PaymentRows /\ row.status = "failed"
        /\ row.channel = payments[p].channel /\ row.amount = payments[p].amount
    BY DEF TypeOK, NewRow, PaymentRows, PaymentStatus, Exceptions
  <2>2. payments' = [payments EXCEPT ![p] = row]
    BY <1>6 DEF ProviderRejects
  <2>3. QED
    BY <2>1, <2>2, ReplacedKept
<1>7. ASSUME NEW p \in PaymentIds, SupersedeOthers(p) PROVE RowsKept
  BY <1>7, SupersededRows DEF SupersedeOthers, RowsKept, TypeOK
<1>8. ASSUME NEW p \in PaymentIds, RequestDies(p) PROVE RowsKept
  BY <1>0, <1>8 DEF RequestDies
<1>9. ASSUME NEW p \in PaymentIds, CallbackReadsSame(p) PROVE RowsKept
  BY <1>0, <1>9 DEF CallbackReadsSame
<1>10. ASSUME NEW s \in saves, SaveMeta(s) PROVE RowsKept
  <2>1. s.id \in PaymentIds /\ s.row \in PaymentRows
    BY DEF TypeOK
  <2>2. payments' = [payments EXCEPT ![s.id] = s.row]
    BY <1>10 DEF SaveMeta
  <2>3. QED
    BY <2>1, <2>2, ReplacedKept DEF RowInv
<1>11. ASSUME NEW p \in PaymentIds, CallbackPends(p) PROVE RowsKept
  <2> DEFINE row == [payments[p] EXCEPT !.status = "pending"]
  <2>1. row \in PaymentRows /\ row.status = "pending"
        /\ row.channel = payments[p].channel /\ row.amount = payments[p].amount
    BY DEF TypeOK, PaymentRows, PaymentStatus
  <2>2. payments' = [payments EXCEPT ![p] = row]
    BY <1>11 DEF CallbackPends
  <2>3. QED
    BY <2>1, <2>2, ReplacedKept
<1>12. ASSUME NEW p \in PaymentIds, NEW s \in {"failed", "expired"}, CallbackFails(p, s)
       PROVE  RowsKept
  <2> DEFINE row == [payments[p] EXCEPT !.status = s, !.lapsed = @ \/ s = "expired"]
  <2>1. row \in PaymentRows /\ row.status # "none"
        /\ row.channel = payments[p].channel /\ row.amount = payments[p].amount
    <3>1. payments[p] \in PaymentRows /\ s \in PaymentStatus /\ s # "none"
      BY DEF TypeOK, PaymentStatus
    <3>2. (payments[p].lapsed \/ s = "expired") \in BOOLEAN
      OBVIOUS
    <3>3. row \in PaymentRows
      BY <3>1, <3>2, ReportedRowType
    <3>4. QED
      BY <3>1, <3>3 DEF PaymentRows
  <2>2. payments' = [payments EXCEPT ![p] = row]
    BY <1>12 DEF CallbackFails
  <2>3. QED
    BY <2>1, <2>2, ReplacedKept
<1>13. ASSUME NEW p \in PaymentIds, CallbackSucceeds(p) PROVE RowsKept
  <2> DEFINE row == [payments[p] EXCEPT !.status = "success", !.exception = ExceptionOf(p)]
             rows == [payments EXCEPT ![p] = row]
  <2>1. row \in PaymentRows /\ row.status = "success"
        /\ row.channel = payments[p].channel /\ row.amount = payments[p].amount
    <3>1. ExceptionOf(p) \in Exceptions /\ payments[p] \in PaymentRows
      BY DEF ExceptionOf, Exceptions, TypeOK, PaymentRows
    <3>2. QED
      BY <3>1 DEF PaymentRows, PaymentStatus
  <2>2. /\ rows \in [PaymentIds -> PaymentRows] /\ rows[p] = row
        /\ \A q \in PaymentIds \ {p} : rows[q] = payments[q]
    BY <2>1, ReplacedRowType DEF TypeOK
  <2>3. payments' = Expired(rows)
    BY <1>13 DEF CallbackSucceeds
  <2> HIDE DEF row, rows
  <2>4. QED
    BY <2>1, <2>2, <2>3, ExpiredRows DEF RowsKept
<1>14. ASSUME NEW k \in Cancellers, CancelRead(k) PROVE RowsKept
  BY <1>0, <1>14 DEF CancelRead
<1>15. ASSUME NEW k \in Cancellers, CancelCommit(k) PROVE RowsKept
  BY <1>15, ExpiredRows DEF CancelCommit, RowsKept, TypeOK
<1>16. CASE ChildCancelCommit
  BY <1>0, <1>16 DEF ChildCancelCommit
<1>17. ASSUME NEW p \in PaymentIds, BuyerPays(p) PROVE RowsKept
  BY <1>0, <1>17 DEF BuyerPays
<1>18. CASE DeadlinePasses
  BY <1>0, <1>18 DEF DeadlinePasses
<1>19. CASE UNCHANGED vars
  BY <1>0, <1>19 DEF vars
<1>20. ASSUME NEW net \in Outside, WalletMoves(net) PROVE RowsKept
  BY <1>0, <1>20 DEF WalletMoves
<1>21. QED
  BY <1>1, <1>2, <1>3, <1>4, <1>5, <1>6, <1>7, <1>8, <1>9, <1>10, <1>11, <1>12,
     <1>13, <1>14, <1>15, <1>16, <1>17, <1>18, <1>19, <1>20
     DEF Next, CreatePayment, HandleCallback, Cancel

-----------------------------------------------------------------------------
(* The owner's wallet                                                      *)

\* What a step does to the owner's ledger: nothing, a release, or a reserve.
LEMMA LedgerStep ==
    ASSUME [Next]_vars
    PROVE  \/ UNCHANGED fvars
           \/ \E S \in SUBSET PaymentIds : ReleaseHolds(S)
           \/ \E p \in PaymentIds, c \in Channels, useBalance \in BOOLEAN :
                 StartOnline(p, c, useBalance)
<1> DEFINE L == \/ UNCHANGED fvars
                \/ \E S \in SUBSET PaymentIds : ReleaseHolds(S)
                \/ \E p \in PaymentIds, c \in Channels, useBalance \in BOOLEAN :
                      StartOnline(p, c, useBalance)
<1>1. CreatePayment => L
  BY DEF CreatePayment, RequestReuse, PayByWallet, ReuseSupersede, ProviderAccepts,
         ProviderRejects, SupersedeOthers, RequestDies
<1>2. HandleCallback => L
  BY DEF HandleCallback, CallbackReadsSame, CallbackPends, CallbackSucceeds, CallbackFails, SaveMeta
<1>3. Cancel => L
  BY DEF Cancel, CancelRead, CancelCommit, ChildCancelCommit
<1>4. ASSUME NEW p \in PaymentIds, BuyerPays(p) PROVE L
  BY <1>4 DEF BuyerPays
<1>5. DeadlinePasses \/ UNCHANGED vars => L
  BY DEF DeadlinePasses, vars, fvars
<1>6. ASSUME NEW net \in Outside, WalletMoves(net) PROVE L
  BY <1>6 DEF WalletMoves
<1>7. QED
  BY <1>1, <1>2, <1>3, <1>4, <1>5, <1>6 DEF Next

\* What a step does to the credited payments.
LEMMA CreditStep ==
    ASSUME [Next]_vars
    PROVE  \/ UNCHANGED credited
           \/ \E p \in PaymentIds : CallbackSucceeds(p) /\ Credits(p)
<1> DEFINE L == UNCHANGED credited \/ \E p \in PaymentIds : CallbackSucceeds(p) /\ Credits(p)
<1>1. CreatePayment => L
  BY DEF CreatePayment, RequestReuse, StartOnline, PayByWallet, ReuseSupersede, ProviderAccepts,
         ProviderRejects, SupersedeOthers, RequestDies
<1>2. ASSUME NEW p \in PaymentIds, CallbackSucceeds(p) PROVE L
  BY <1>2 DEF CallbackSucceeds
<1>3. HandleCallback => L
  BY <1>2 DEF HandleCallback, CallbackReadsSame, CallbackPends, CallbackFails, SaveMeta
<1>4. Cancel => L
  BY DEF Cancel, CancelRead, CancelCommit, ChildCancelCommit
<1>5. ASSUME NEW p \in PaymentIds, BuyerPays(p) PROVE L
  BY <1>5 DEF BuyerPays
<1>6. DeadlinePasses \/ UNCHANGED vars => L
  BY DEF DeadlinePasses, vars
<1>7. ASSUME NEW net \in Outside, WalletMoves(net) PROVE L
  BY <1>7 DEF WalletMoves
<1>8. QED
  BY <1>1, <1>3, <1>4, <1>5, <1>6, <1>7 DEF Next

\* What a step does to the callbacks that hold a row.
LEMMA SaveStep ==
    ASSUME [Next]_vars
    PROVE  \/ saves' \subseteq saves
           \/ \E p \in PaymentIds : CallbackReadsSame(p)
<1> DEFINE L == saves' \subseteq saves \/ \E p \in PaymentIds : CallbackReadsSame(p)
<1>1. CreatePayment => L
  BY DEF CreatePayment, RequestReuse, StartOnline, PayByWallet, ReuseSupersede, ProviderAccepts,
         ProviderRejects, SupersedeOthers, RequestDies
<1>2. HandleCallback => L
  BY DEF HandleCallback, CallbackPends, CallbackSucceeds, CallbackFails, SaveMeta
<1>3. Cancel => L
  BY DEF Cancel, CancelRead, CancelCommit, ChildCancelCommit
<1>4. ASSUME NEW p \in PaymentIds, BuyerPays(p) PROVE L
  BY <1>4 DEF BuyerPays
<1>5. DeadlinePasses \/ UNCHANGED vars => L
  BY DEF DeadlinePasses, vars
<1>6. ASSUME NEW net \in Outside, WalletMoves(net) PROVE L
  BY <1>6 DEF WalletMoves
<1>7. QED
  BY <1>1, <1>2, <1>3, <1>4, <1>5, <1>6 DEF Next

\* The row a new online payment gets.
LEMMA NewOnlineRow ==
    ASSUME TypeOK, NEW p \in PaymentIds, NEW c \in Channels, NEW useBalance \in BOOLEAN,
           StartOnline(p, c, useBalance)
    PROVE  /\ payments[p].status = "none"
           /\ payments'[p] = NewRow("initiated", c, Total - Allocation(useBalance))
           /\ payments'[p].status = "initiated"
           /\ Total - Allocation(useBalance) \in 1 .. Total
           /\ FeeDeficit[<<c, Total - Allocation(useBalance)>>] \in Nat
<1>1. Total - Allocation(useBalance) \in 1 .. Total
  BY AllocationBounds, RowTypes DEF StartOnline
<1>2. FeeDeficit[<<c, Total - Allocation(useBalance)>>] \in Nat
  BY <1>1, MoneyAssumption
<1>3. QED
  BY <1>1, <1>2 DEF StartOnline, IsNextPayment, TypeOK, NewRow

LEMMA RowInit == Init => RowInv
BY DEF Init, RowInv, NoRow, NewRow

LEMMA RowStep == TypeOK /\ LinkInv /\ RowInv /\ [Next]_vars => RowInv'
<1> SUFFICES ASSUME TypeOK, LinkInv, RowInv, [Next]_vars PROVE RowInv'
  OBVIOUS
<1>1. RowsKept
  BY EveryStepKeepsRows
<1>2. ASSUME NEW p \in PaymentIds, payments'[p].status = "none" PROVE p \notin credited'
  <2>1. payments[p].status = "none" /\ p \notin credited
    BY <1>1, <1>2 DEF RowsKept, RowInv
  <2>2. ASSUME NEW q \in PaymentIds, CallbackSucceeds(q), Credits(q) PROVE p \notin credited'
    <3>1. credited' = credited \cup {q} /\ q \in gatewayPaid
      BY <2>2 DEF CallbackSucceeds
    <3>2. payments[q].status # "none"
      BY <3>1 DEF LinkInv
    <3>3. QED
      BY <2>1, <3>1, <3>2
  <2>3. QED
    BY <2>1, <2>2, CreditStep
<1>3. ASSUME NEW p \in PaymentIds, payments'[p].status = "none" PROVE hold'[p] = "none"
  <2>1. payments[p].status = "none" /\ hold[p] = "none"
    BY <1>1, <1>3 DEF RowsKept, RowInv
  <2>2. ASSUME NEW S \in SUBSET PaymentIds, ReleaseHolds(S) PROVE hold'[p] = "none"
    BY <2>1, <2>2 DEF ReleaseHolds, Held
  <2>3. ASSUME NEW q \in PaymentIds, NEW c \in Channels, NEW u \in BOOLEAN, StartOnline(q, c, u)
        PROVE  hold'[p] = "none"
    <3>1. p # q
      BY <1>3, <2>3, NewOnlineRow
    <3>2. QED
      BY <2>1, <2>3, <3>1 DEF StartOnline, TypeOK
  <2>4. QED
    BY <2>1, <2>2, <2>3, LedgerStep DEF fvars
<1>4. ASSUME NEW s \in saves'
      PROVE  /\ s.row.status # "none"
             /\ payments'[s.id].status # "none"
             /\ s.row.channel = payments'[s.id].channel
             /\ s.row.amount = payments'[s.id].amount
  <2>1. CASE s \in saves
    BY <1>1, <2>1 DEF RowsKept, RowInv, TypeOK
  <2>2. ASSUME NEW p \in PaymentIds, CallbackReadsSame(p), s \notin saves
        PROVE  /\ s.row.status # "none"
               /\ payments'[s.id].status # "none"
               /\ s.row.channel = payments'[s.id].channel
               /\ s.row.amount = payments'[s.id].amount
    <3>1. payments[p].status # "none" /\ payments' = payments
      BY <2>2 DEF CallbackReadsSame, LinkInv
    <3>2. s = [id |-> p, row |-> payments[p]]
      BY <1>4, <2>2 DEF CallbackReadsSame
    <3>3. QED
      BY <3>1, <3>2
  <2>3. QED
    BY <1>4, <2>1, <2>2, SaveStep
<1>5. QED
  BY <1>2, <1>3, <1>4 DEF RowInv

\* The owner's part of the invariant.
FundsInv == owner \in Int /\ OwnerFundsConserved

\* The fee deficits of the payments, as the function that is summed.
Deficits == [p \in PaymentIds |-> DeficitOf(p)]

DeficitsTyped == \A p \in PaymentIds : Deficits[p] \in Nat

LEMMA DeficitTypes == TypeOK => DeficitsTyped
<1> SUFFICES ASSUME TypeOK, NEW p \in PaymentIds PROVE DeficitOf(p) \in Nat
  BY DEF Deficits, DeficitsTyped
<1>1. payments[p].amount \in 0 .. Total
  BY DEF TypeOK, PaymentRows
<1>2. QED
  BY <1>1, MoneyAssumption DEF DeficitOf

\* A payment that has been inserted keeps its deficit.
LEMMA DeficitKept ==
    ASSUME RowsKept, NEW p \in PaymentIds, payments[p].status # "none"
    PROVE  Deficits'[p] = Deficits[p]
BY DEF RowsKept, Deficits, DeficitOf

\* The holds in force after a step that releases those of S.
LEMMA FundsReleased ==
    ASSUME TypeOK, TypeOK', RowInv, RowsKept, FundsInv,
           NEW S \in SUBSET PaymentIds, ReleaseHolds(S)
    PROVE  FundsInv'
<1> DEFINE H == Held(PaymentIds)
           Sum(f, T) == SumFunctionOnSet(f, T)
<1>1. /\ H' = H \ S
      /\ Held(S) = H \cap S
      /\ H = (H \cap S) \cup (H \ S)
      /\ H \subseteq PaymentIds
  BY ReleaseHoldsShrinks DEF TypeOK, Held
<1>2. IsFiniteSet(H) /\ IsFiniteSet(H \cap S) /\ IsFiniteSet(H \ S)
  BY <1>1, PaymentIdsFinite, FS_Subset
<1>3. \A p \in PaymentIds : Deficits[p] \in Nat /\ Deficits'[p] \in Nat
  <2>1. DeficitsTyped /\ DeficitsTyped'
    BY DeficitTypes, PTL
  <2>2. QED
    BY <2>1 DEF DeficitsTyped
<1>4. \A p \in H : payments[p].status # "none"
  BY <1>1 DEF RowInv, Held
<1> HIDE DEF H
<1>5. Sum(Deficits, H) = Sum(Deficits, H \cap S) + Sum(Deficits, H \ S)
  <2>1. (H \cap S) \cap (H \ S) = {} /\ \A p \in (H \cap S) \cup (H \ S) : Deficits[p] \in Int
    BY <1>1, <1>3
  <2> DEFINE A == H \cap S
             B == H \ S
  <2>2. IsFiniteSet(A) /\ IsFiniteSet(B) /\ A \cap B = {} /\ \A p \in A \cup B : Deficits[p] \in Int
    BY <1>2, <2>1
  <2>3. H = A \cup B
    BY <1>1
  <2> HIDE DEF A, B
  <2>4. SumFunctionOnSet(Deficits, A \cup B) = SumFunctionOnSet(Deficits, A) + SumFunctionOnSet(Deficits, B)
    BY <2>2, SumUnion
  <2>5. QED
    BY <2>3, <2>4 DEF A, B
<1>6. Sum(Deficits', H \ S) = Sum(Deficits, H \ S)
  <2>1. \A p \in H \ S : Deficits'[p] = Deficits[p]
    BY <1>1, <1>4, DeficitKept
  <2>2. QED
    BY <1>2, <2>1, SumSame
<1>7. Sum(Deficits, H \cap S) \in Nat /\ Sum(Deficits, H \ S) \in Nat
  BY <1>1, <1>2, <1>3, SumNat
<1>8. owner' = owner + Sum(Deficits, H \cap S)
  BY <1>1 DEF ReleaseHolds, Reserves, Deficits
<1>9. owner \in Int /\ owner >= 0 /\ owner + Sum(Deficits, H) = OwnerFunds
  BY DEF FundsInv, OwnerFundsConserved, Reserves, Deficits, H
<1> HIDE DEF Sum
<1>10. owner' \in Int /\ owner' >= 0 /\ owner' + Sum(Deficits', H') = OwnerFunds
  BY <1>1, <1>5, <1>6, <1>7, <1>8, <1>9
<1>11. QED
  BY <1>10 DEF FundsInv, OwnerFundsConserved, Reserves, Deficits, H, Sum

\* The holds in force after a new link's reserve.
LEMMA FundsReserved ==
    ASSUME TypeOK, TypeOK', RowInv, RowsKept, FundsInv,
           NEW p \in PaymentIds, NEW c \in Channels, NEW useBalance \in BOOLEAN,
           StartOnline(p, c, useBalance)
    PROVE  FundsInv'
<1> DEFINE H == Held(PaymentIds)
           Sum(f, T) == SumFunctionOnSet(f, T)
           d == FeeDeficit[<<c, Total - Allocation(useBalance)>>]
<1>1. d \in Nat /\ Deficits'[p] = d
  <2>1. /\ payments'[p] = NewRow("initiated", c, Total - Allocation(useBalance))
        /\ Total - Allocation(useBalance) \in 1 .. Total
        /\ d \in Nat
    BY NewOnlineRow
  <2>2. payments'[p].channel = c /\ payments'[p].amount = Total - Allocation(useBalance)
    BY <2>1 DEF NewRow
  <2>3. QED
    BY <2>1, <2>2 DEF Deficits, DeficitOf
<1>2. hold[p] = "none"
  BY NewOnlineRow DEF RowInv
<1>3. /\ H' = IF d > 0 THEN H \cup {p} ELSE H
      /\ p \notin H
      /\ H \subseteq PaymentIds
  BY <1>2 DEF StartOnline, Held, TypeOK
<1>4. owner' = owner - d /\ d <= owner
  BY DEF StartOnline
<1>5. IsFiniteSet(H)
  BY <1>3, PaymentIdsFinite, FS_Subset
<1>6. \A q \in H : Deficits'[q] = Deficits[q]
  BY <1>3, DeficitKept DEF RowInv, Held
<1>7. \A q \in PaymentIds : Deficits[q] \in Nat /\ Deficits'[q] \in Nat
  <2>1. DeficitsTyped /\ DeficitsTyped'
    BY DeficitTypes, PTL
  <2>2. QED
    BY <2>1 DEF DeficitsTyped
<1> HIDE DEF H, d
<1>8. Sum(Deficits', H) = Sum(Deficits, H) /\ Sum(Deficits, H) \in Int
  <2>1. Sum(Deficits', H) = Sum(Deficits, H)
    BY <1>5, <1>6, SumSame
  <2>2. \A q \in H : Deficits[q] \in Int
    BY <1>3, <1>7
  <2>3. Sum(Deficits, H) \in Int
    BY <1>5, <2>2, SumInt
  <2>4. QED
    BY <2>1, <2>3
<1>9. Sum(Deficits', H \cup {p}) = d + Sum(Deficits', H)
  <2>1. \A q \in H \cup {p} : Deficits'[q] \in Int
    BY <1>3, <1>7
  <2>2. QED
    BY <1>1, <1>3, <1>5, <2>1, SumAdd
<1>10. owner \in Int /\ owner >= 0 /\ owner + Sum(Deficits, H) = OwnerFunds
  BY DEF FundsInv, OwnerFundsConserved, Reserves, Deficits, H
<1> HIDE DEF Sum
<1>11. owner' \in Int /\ owner' >= 0 /\ owner' + Sum(Deficits', H') = OwnerFunds
  <2>1. CASE d > 0
    BY <1>1, <1>3, <1>4, <1>8, <1>9, <1>10, <2>1
  <2>2. CASE d = 0
    BY <1>1, <1>3, <1>4, <1>8, <1>10, <2>2
  <2>3. QED
    BY <1>1, <2>1, <2>2
<1>12. QED
  BY <1>11 DEF FundsInv, OwnerFundsConserved, Reserves, Deficits, H, Sum

\* A step that leaves the ledger alone.
LEMMA FundsUntouched ==
    ASSUME TypeOK, RowInv, RowsKept, FundsInv, UNCHANGED fvars
    PROVE  FundsInv'
<1> DEFINE H == Held(PaymentIds)
<1>1. H' = H /\ H \subseteq PaymentIds
  BY DEF Held, fvars
<1>2. IsFiniteSet(H)
  BY <1>1, PaymentIdsFinite, FS_Subset
<1>3. \A p \in H : Deficits'[p] = Deficits[p]
  BY <1>1, DeficitKept DEF RowInv, Held
<1> HIDE DEF H
<1>4. SumFunctionOnSet(Deficits', H) = SumFunctionOnSet(Deficits, H)
  BY <1>2, <1>3, SumSame
<1>5. owner' = owner /\ owner \in Int /\ owner >= 0
      /\ owner + SumFunctionOnSet(Deficits, H) = OwnerFunds
  BY DEF FundsInv, OwnerFundsConserved, Reserves, Deficits, H, fvars
<1>6. owner' \in Int /\ owner' >= 0 /\ owner' + SumFunctionOnSet(Deficits', H') = OwnerFunds
  BY <1>1, <1>4, <1>5
<1>7. QED
  BY <1>6 DEF FundsInv, OwnerFundsConserved, Reserves, Deficits, H

LEMMA FundsInit == Init => FundsInv
<1> SUFFICES ASSUME Init PROVE FundsInv
  OBVIOUS
<1>1. Held(PaymentIds) = {}
  BY DEF Init, Held
<1>2. Reserves({}) = 0
  BY SumEmpty DEF Reserves
<1>3. QED
  BY <1>1, <1>2, MoneyAssumption DEF Init, FundsInv, OwnerFundsConserved

LEMMA FundsStep == TypeOK /\ TypeOK' /\ RowInv /\ RowsKept /\ FundsInv /\ [Next]_vars => FundsInv'
BY FundsUntouched, FundsReleased, FundsReserved, LedgerStep

\* The state of the tables that the money invariants rest on.
LEMMA TablesInvariant == Spec => [](TypeOK /\ SettleInv /\ LinkInv /\ RowInv)
<1>1. Init => TypeOK /\ SettleInv /\ LinkInv /\ RowInv
  BY TypeInit, SettleInit, LinkInit, RowInit
<1>2. TypeOK /\ SettleInv /\ LinkInv /\ RowInv /\ [Next]_vars => (TypeOK /\ SettleInv /\ LinkInv /\ RowInv)'
  BY TypeStep, SettleStep, LinkStep, RowStep
<1>3. QED
  BY <1>1, <1>2, PTL DEF Spec

\* Whatever links are opened, replaced, rejected, paid and canceled, the
\* reseller owner's wallet never goes below zero and is short of its start by
\* exactly the fee holds in force: none is released twice, none is lost.
THEOREM OwnerFundsAlwaysConserved == Spec => []OwnerFundsConserved
<1>1. Init => FundsInv
  BY FundsInit
<1>2. TypeOK /\ TypeOK' /\ LinkInv /\ RowInv /\ FundsInv /\ [Next]_vars => FundsInv'
  BY FundsStep, EveryStepKeepsRows
<1>3. FundsInv => OwnerFundsConserved
  BY DEF FundsInv
<1>4. QED
  BY <1>1, <1>2, <1>3, TablesInvariant, PTL DEF Spec

-----------------------------------------------------------------------------
(* The buyer's wallet                                                      *)

\* The invariant is the property itself: what a canceller has read does not
\* enter it, for the difference it makes is what misread counts.
BuyerInv == BuyerMoneyConserved

\* The payments' amounts, as the function that is summed.
Amounts == [p \in PaymentIds |-> payments[p].amount]

AmountsTyped == \A p \in PaymentIds : Amounts[p] \in Nat

LEMMA AmountTypes == TypeOK => AmountsTyped
<1> SUFFICES ASSUME TypeOK, NEW p \in PaymentIds PROVE payments[p].amount \in Nat
  BY DEF Amounts, AmountsTyped
<1>1. QED
  BY MoneyAssumption DEF TypeOK, PaymentRows

LEMMA CreditedFinite == TypeOK => IsFiniteSet(credited) /\ credited \subseteq PaymentIds
BY PaymentIdsFinite, FS_Subset DEF TypeOK

LEMMA BuyerMoneyType == TypeOK => BuyerMoney \in Int /\ outside \in Int /\ misread \in Int
<1> SUFFICES ASSUME TypeOK PROVE BuyerMoney \in Int /\ outside \in Int /\ misread \in Int
  OBVIOUS
<1>1. IsFiniteSet(credited) /\ \A p \in credited : Amounts[p] \in Nat
  BY AmountTypes, CreditedFinite DEF AmountsTyped
<1>2. SumFunctionOnSet(Amounts, credited) \in Nat
  BY <1>1, SumNat
<1>3. outside \in Int /\ misread \in Int
  BY MoneyAssumption DEF TypeOK
<1>4. (IF LoggedIn THEN BuyerFunds ELSE 0) \in Int
  BY MoneyAssumption
<1>5. BuyerMoney = (IF LoggedIn THEN BuyerFunds ELSE 0) + SumFunctionOnSet(Amounts, credited) + outside
  BY DEF BuyerMoney, Amounts
<1>6. QED
  BY <1>2, <1>3, <1>4, <1>5

\* The credited amounts of a step that credits nobody.
LEMMA SameCredits ==
    ASSUME TypeOK, RowInv, RowsKept, UNCHANGED credited
    PROVE  SumFunctionOnSet(Amounts', credited') = SumFunctionOnSet(Amounts, credited)
<1>1. IsFiniteSet(credited) /\ credited \subseteq PaymentIds
  BY CreditedFinite
<1>2. \A p \in credited : Amounts'[p] = Amounts[p]
  BY <1>1 DEF RowsKept, RowInv, Amounts
<1>3. QED
  BY <1>1, <1>2, SumSame

\* Steps that credit nobody and are the order's own leave the buyer's money.
LEMMA NothingCredited ==
    ASSUME TypeOK, RowInv, RowsKept, UNCHANGED <<credited, outside>>
    PROVE  BuyerMoney' = BuyerMoney
BY SameCredits DEF BuyerMoney, Amounts

\* A credit adds the amount of the payment.
LEMMA OneCredited ==
    ASSUME TypeOK, TypeOK', RowInv, RowsKept, NEW p \in PaymentIds, p \notin credited,
           payments[p].status # "none", credited' = credited \cup {p}, UNCHANGED outside
    PROVE  BuyerMoney' = BuyerMoney + payments[p].amount
<1>1. IsFiniteSet(credited) /\ credited \subseteq PaymentIds
  BY CreditedFinite
<1>2. \A q \in credited \cup {p} : Amounts'[q] = Amounts[q] /\ Amounts[q] \in Nat
  BY <1>1, AmountTypes DEF RowsKept, RowInv, Amounts, AmountsTyped
<1>3. SumFunctionOnSet(Amounts', credited) = SumFunctionOnSet(Amounts, credited)
  BY <1>1, <1>2, SumSame
<1>4. SumFunctionOnSet(Amounts', credited \cup {p}) = Amounts'[p] + SumFunctionOnSet(Amounts', credited)
  BY <1>1, <1>2, SumAdd
<1>5. SumFunctionOnSet(Amounts, credited) \in Int /\ Amounts[p] \in Int
  BY <1>1, <1>2, SumInt
<1>6. /\ SumFunctionOnSet(Amounts', credited') = SumFunctionOnSet(Amounts, credited) + Amounts[p]
      /\ Amounts[p] = payments[p].amount
  <2>1. SumFunctionOnSet(Amounts', credited') = SumFunctionOnSet(Amounts, credited) + Amounts[p]
    BY <1>2, <1>3, <1>4, <1>5
  <2>2. Amounts[p] = payments[p].amount
    BY DEF Amounts
  <2>3. QED
    BY <2>1, <2>2
<1> DEFINE start == IF LoggedIn THEN BuyerFunds ELSE 0
<1>7. start \in Int /\ outside \in Int /\ outside' = outside
  BY BuyerMoneyType, MoneyAssumption
<1>8. BuyerMoney = start + SumFunctionOnSet(Amounts, credited) + outside
  BY DEF BuyerMoney, Amounts
<1>9. BuyerMoney' = start + SumFunctionOnSet(Amounts', credited') + outside'
  BY DEF BuyerMoney, Amounts
<1> HIDE DEF start
<1>10. QED
  BY <1>5, <1>6, <1>7, <1>8, <1>9

LEMMA BuyerInit == Init => BuyerInv
<1> SUFFICES ASSUME Init PROVE BuyerInv
  OBVIOUS
<1>1. BuyerMoney = IF LoggedIn THEN BuyerFunds ELSE 0
  BY SumEmpty, MoneyAssumption DEF BuyerMoney, Init
<1>2. (IF LoggedIn THEN BuyerFunds ELSE 0) \in Int
  BY MoneyAssumption
<1>3. QED
  BY <1>1, <1>2 DEF Init, BuyerInv, BuyerMoneyConserved

\* Steps that move nothing.
LEMMA BuyerUntouched ==
    ASSUME BuyerInv, BuyerMoney' = BuyerMoney, UNCHANGED <<order, balance, misread>>
    PROVE  BuyerInv'
BY DEF BuyerInv, BuyerMoneyConserved

\* Steps that give the allocation back.
LEMMA BuyerUnallocates ==
    ASSUME TypeOK, BuyerInv, BuyerMoney' = BuyerMoney, UNCHANGED misread,
           order' = Unallocated(order), balance' = balance + order.walletPaid
    PROVE  BuyerInv'
<1>1. order'.walletPaid = 0 /\ order'.status = order.status
  BY UnallocatedRow DEF TypeOK
<1>2. order.walletPaid \in Nat /\ balance \in Nat
  BY RowTypes
<1>3. QED
  BY <1>1, <1>2 DEF BuyerInv, BuyerMoneyConserved

\* CreatePayment's allocation: what it takes from the wallet it puts into the
\* order, which is open, so that nothing has been misread.
LEMMA BuyerAllocates ==
    ASSUME TypeOK, BuyerInv, BuyerMoney' = BuyerMoney, UNCHANGED misread, CanCreate,
           NEW useBalance \in BOOLEAN, order'.walletPaid = Allocation(useBalance),
           balance' = balance + order.walletPaid - Allocation(useBalance)
    PROVE  BuyerInv'
<1>1. /\ Allocation(useBalance) \in Nat /\ order.walletPaid \in Nat /\ balance \in Nat
      /\ BuyerMoney \in Int
  BY AllocationBounds, RowTypes, BuyerMoneyType
<1>2. balance + order.walletPaid = BuyerMoney + misread /\ misread = 0
  BY DEF CanCreate, BuyerInv, BuyerMoneyConserved
<1>3. balance' + order'.walletPaid = BuyerMoney' + misread' /\ misread' = 0
  BY <1>1, <1>2
<1>4. QED
  BY <1>3 DEF BuyerInv, BuyerMoneyConserved

\* A success: the order keeps its allocation, and a credit is added to both
\* sides; a canceled order stays canceled.
LEMMA BuyerCredits ==
    ASSUME TypeOK, TypeOK', LinkInv, RowInv, RowsKept, BuyerInv,
           NEW p \in PaymentIds, CallbackSucceeds(p)
    PROVE  BuyerInv'
<1>1. order'.walletPaid = order.walletPaid
      /\ (order.status = "canceled" => order'.status = "canceled")
  <2>1. order \in OrderRows
    BY DEF TypeOK
  <2>2. \/ /\ order' = [order EXCEPT !.status = "paid", !.paid = TRUE,
                                      !.onlinePaid = Total - order.walletPaid]
           /\ order.status = "pending_payment"
        \/ order' = order
    BY DEF CallbackSucceeds, Settles, OrderOpen
  <2>3. QED
    BY <2>1, <2>2 DEF OrderRows
<1>2. UNCHANGED <<outside, misread>>
  BY DEF CallbackSucceeds, wvars
<1>3. payments[p].status # "none" /\ payments[p].amount \in Nat
  BY MoneyAssumption DEF CallbackSucceeds, LinkInv, TypeOK, PaymentRows
<1>4. order.walletPaid \in Nat /\ balance \in Nat /\ BuyerMoney \in Int /\ misread \in Int
  BY RowTypes, BuyerMoneyType
<1>5. PICK a \in Nat : BuyerMoney' = BuyerMoney + a /\ balance' = balance + a
  <2>1. CASE Credits(p)
    BY <1>2, <1>3, <2>1, OneCredited DEF CallbackSucceeds, Credits
  <2>2. CASE ~Credits(p)
    <3>1. BuyerMoney' = BuyerMoney /\ balance' = balance
      BY <1>2, <2>2, NothingCredited DEF CallbackSucceeds
    <3>2. BuyerMoney' = BuyerMoney + 0 /\ balance' = balance + 0
      BY <1>4, <3>1
    <3>3. QED
      BY <3>2
  <2>3. QED
    BY <2>1, <2>2
<1>6. balance' + order'.walletPaid = BuyerMoney' + misread'
  <2>1. balance + order.walletPaid = BuyerMoney + misread
    BY DEF BuyerInv, BuyerMoneyConserved
  <2>2. QED
    BY <1>1, <1>2, <1>4, <1>5, <2>1
<1>7. QED
  BY <1>1, <1>2, <1>6 DEF BuyerInv, BuyerMoneyConserved

\* A cancellation clears the allocation it finds and credits what it read.
LEMMA BuyerRefunds ==
    ASSUME TypeOK, BuyerInv, BuyerMoney' = BuyerMoney, NEW k \in Cancellers, CancelCommit(k)
    PROVE  BuyerInv'
<1> DEFINE o == IF Claims(k) THEN Unallocated(order) ELSE order
<1>1. o \in OrderRows
  BY UnallocatedRow DEF TypeOK
<1>2. /\ order' = [o EXCEPT !.status = "canceled"]
      /\ balance' = balance + (IF Claims(k) THEN cancels[k] ELSE 0)
      /\ misread' = misread + (IF Claims(k) THEN cancels[k] - order.walletPaid ELSE 0)
  BY DEF CancelCommit, Claims
<1>3. order'.status = "canceled" /\ order'.walletPaid = o.walletPaid
  BY <1>1, <1>2 DEF OrderRows
<1>4. /\ order.walletPaid \in Nat /\ balance \in Nat /\ BuyerMoney \in Int
      /\ misread \in Int /\ cancels[k] \in Int
      /\ balance + order.walletPaid = BuyerMoney + misread
      /\ misread # 0 => order.walletPaid = 0
  BY RowTypes, BuyerMoneyType DEF BuyerInv, BuyerMoneyConserved, TypeOK, NotReading
<1>5. CASE Claims(k)
  <2>1. order'.walletPaid = 0
    BY <1>3, <1>5, UnallocatedRow DEF TypeOK
  <2>2. balance' = balance + cancels[k] /\ misread' = misread + (cancels[k] - order.walletPaid)
    BY <1>2, <1>5
  <2>3. balance' + order'.walletPaid = BuyerMoney' + misread'
    BY <1>4, <2>1, <2>2
  <2>4. QED
    BY <1>3, <2>1, <2>3 DEF BuyerInv, BuyerMoneyConserved
<1>6. CASE ~Claims(k)
  <2>1. order'.walletPaid = order.walletPaid /\ balance' = balance /\ misread' = misread
    BY <1>2, <1>3, <1>4, <1>6
  <2>2. QED
    BY <1>3, <1>4, <2>1 DEF BuyerInv, BuyerMoneyConserved
<1>7. QED
  BY <1>5, <1>6

\* Canceling the children takes the status, and no money.
LEMMA BuyerChildCancels ==
    ASSUME TypeOK, BuyerInv, BuyerMoney' = BuyerMoney, ChildCancelCommit
    PROVE  BuyerInv'
<1>1. order'.status = "canceled" /\ order'.walletPaid = order.walletPaid
      /\ UNCHANGED <<balance, misread>>
  BY DEF ChildCancelCommit, TypeOK, OrderRows, wvars
<1>2. QED
  BY <1>1 DEF BuyerInv, BuyerMoneyConserved

\* Other business moves the wallet and the buyer's money alike.
LEMMA BuyerElsewhere ==
    ASSUME TypeOK, RowInv, RowsKept, BuyerInv, NEW net \in Outside, WalletMoves(net)
    PROVE  BuyerInv'
<1> DEFINE start == IF LoggedIn THEN BuyerFunds ELSE 0
           sum == SumFunctionOnSet(Amounts, credited)
<1>1. /\ UNCHANGED <<order, misread, credited>> /\ outside' = net
      /\ balance' = balance + net - outside
  BY DEF WalletMoves
<1>2. SumFunctionOnSet(Amounts', credited') = sum
  BY <1>1, SameCredits
<1>3. BuyerMoney = start + sum + outside /\ BuyerMoney' = start + sum + net
  BY <1>1, <1>2 DEF BuyerMoney, Amounts
<1>4. start \in Int /\ net \in Int /\ outside \in Int
  BY MoneyAssumption, BuyerMoneyType
<1>5. sum \in Nat
  BY CreditedFinite, AmountTypes, SumNat DEF AmountsTyped
<1>6. balance \in Nat /\ order.walletPaid \in Nat /\ misread \in Int
      /\ balance + order.walletPaid = BuyerMoney + misread
  BY RowTypes, BuyerMoneyType DEF BuyerInv, BuyerMoneyConserved
<1> HIDE DEF start, sum
<1>7. balance' + order'.walletPaid = BuyerMoney' + misread'
  BY <1>1, <1>3, <1>4, <1>5, <1>6
<1>8. QED
  BY <1>1, <1>7 DEF BuyerInv, BuyerMoneyConserved

LEMMA BuyerStep ==
    TypeOK /\ TypeOK' /\ LinkInv /\ RowInv /\ RowsKept /\ BuyerInv /\ [Next]_vars => BuyerInv'
<1> SUFFICES ASSUME TypeOK, TypeOK', LinkInv, RowInv, RowsKept, BuyerInv, [Next]_vars
             PROVE  BuyerInv'
  OBVIOUS
<1> USE DEF ovars, gvars, wvars
<1>0. ASSUME UNCHANGED <<credited, outside>> PROVE BuyerMoney' = BuyerMoney
  BY <1>0, NothingCredited
<1>1. ASSUME NEW p \in PaymentIds, NEW c \in Channels, RequestReuse(c, p) PROVE BuyerInv'
  BY <1>0, <1>1, BuyerUntouched DEF RequestReuse
<1>2. ASSUME NEW p \in PaymentIds, ReuseSupersede(p) PROVE BuyerInv'
  BY <1>0, <1>2, BuyerUntouched DEF ReuseSupersede
<1>3. ASSUME NEW p \in PaymentIds, NEW c \in Channels, NEW useBalance \in BOOLEAN,
             StartOnline(p, c, useBalance)
      PROVE  BuyerInv'
  <2>1. order'.walletPaid = Allocation(useBalance)
    BY <1>3 DEF StartOnline, TypeOK, OrderRows
  <2>2. /\ UNCHANGED <<credited, outside, misread>> /\ CanCreate
        /\ balance' = balance + order.walletPaid - Allocation(useBalance)
    BY <1>3 DEF StartOnline
  <2>3. QED
    BY <1>0, <2>1, <2>2, BuyerAllocates
<1>4. ASSUME NEW p \in PaymentIds, NEW c \in Channels \cup {NoChannel}, PayByWallet(p, c)
      PROVE  BuyerInv'
  <2>1. order'.walletPaid = Allocation(TRUE)
    BY <1>4 DEF PayByWallet
  <2>2. /\ UNCHANGED <<credited, outside, misread>> /\ CanCreate
        /\ balance' = balance + order.walletPaid - Allocation(TRUE)
    BY <1>4 DEF PayByWallet
  <2>3. QED
    BY <1>0, <2>1, <2>2, BuyerAllocates
<1>5. ASSUME NEW p \in PaymentIds, ProviderAccepts(p) PROVE BuyerInv'
  BY <1>0, <1>5, BuyerUntouched DEF ProviderAccepts
<1>6. ASSUME NEW p \in PaymentIds, ProviderRejects(p) PROVE BuyerInv'
  BY <1>0, <1>6, BuyerUnallocates DEF ProviderRejects
<1>7. ASSUME NEW p \in PaymentIds, SupersedeOthers(p) PROVE BuyerInv'
  BY <1>0, <1>7, BuyerUntouched DEF SupersedeOthers
<1>8. ASSUME NEW p \in PaymentIds, RequestDies(p) PROVE BuyerInv'
  BY <1>0, <1>8, BuyerUntouched DEF RequestDies
<1>9. ASSUME NEW p \in PaymentIds, CallbackReadsSame(p) PROVE BuyerInv'
  BY <1>0, <1>9, BuyerUntouched DEF CallbackReadsSame
<1>10. ASSUME NEW s \in saves, SaveMeta(s) PROVE BuyerInv'
  BY <1>0, <1>10, BuyerUntouched DEF SaveMeta
<1>11. ASSUME NEW p \in PaymentIds, CallbackPends(p) PROVE BuyerInv'
  BY <1>0, <1>11, BuyerUntouched DEF CallbackPends
<1>12. ASSUME NEW p \in PaymentIds, NEW s \in {"failed", "expired"}, CallbackFails(p, s)
       PROVE  BuyerInv'
  BY <1>0, <1>12, BuyerUntouched, BuyerUnallocates DEF CallbackFails
<1>13. ASSUME NEW p \in PaymentIds, CallbackSucceeds(p) PROVE BuyerInv'
  BY <1>13, BuyerCredits
<1>14. ASSUME NEW k \in Cancellers, CancelRead(k) PROVE BuyerInv'
  BY <1>0, <1>14, BuyerUntouched DEF CancelRead
<1>15. ASSUME NEW k \in Cancellers, CancelCommit(k) PROVE BuyerInv'
  <2>1. UNCHANGED <<credited, outside>>
    BY <1>15 DEF CancelCommit
  <2>2. QED
    BY <1>0, <1>15, <2>1, BuyerRefunds
<1>16. CASE ChildCancelCommit
  <2>1. UNCHANGED <<credited, outside>>
    BY <1>16 DEF ChildCancelCommit
  <2>2. QED
    BY <1>0, <1>16, <2>1, BuyerChildCancels
<1>17. ASSUME NEW p \in PaymentIds, BuyerPays(p) PROVE BuyerInv'
  BY <1>0, <1>17, BuyerUntouched DEF BuyerPays
<1>18. CASE DeadlinePasses
  BY <1>0, <1>18, BuyerUntouched DEF DeadlinePasses
<1>19. CASE UNCHANGED vars
  BY <1>0, <1>19, BuyerUntouched DEF vars
<1>20. ASSUME NEW net \in Outside, WalletMoves(net) PROVE BuyerInv'
  BY <1>20, BuyerElsewhere
<1>21. QED
  BY <1>1, <1>2, <1>3, <1>4, <1>5, <1>6, <1>7, <1>8, <1>9, <1>10, <1>11, <1>12,
     <1>13, <1>14, <1>15, <1>16, <1>17, <1>18, <1>19, <1>20
     DEF Next, CreatePayment, HandleCallback, Cancel

\* Whatever else moves the wallet, the buyer's wallet and the order's allocation
\* are together what the buyer had, was credited and moved elsewhere, but for
\* the one claim of a cancellation that read another allocation than the one
\* it clears: no interleaving of requests, notices and cancellations gives an
\* allocation back twice.
THEOREM BuyerMoneyAlwaysConserved == Spec => []BuyerMoneyConserved
<1>1. Init => BuyerInv
  BY BuyerInit
<1>2. TypeOK /\ TypeOK' /\ LinkInv /\ RowInv /\ BuyerInv /\ [Next]_vars => BuyerInv'
  BY BuyerStep, EveryStepKeepsRows
<1>3. BuyerInv => BuyerMoneyConserved
  BY DEF BuyerInv
<1>4. QED
  BY <1>1, <1>2, <1>3, TablesInvariant, PTL DEF Spec

-----------------------------------------------------------------------------
(* What the gateway has taken                                              *)

\* No callback saves a row it has read before the row's transaction.
NoStaleSaves == MaxStaleSaves = 0

\* The invariant: a payment short of success has no consequence yet, a request
\* still at the gateway has no link that could succeed under it, and only
\* links are paid.
OutcomeInv ==
    /\ saves = {}
    /\ \A p \in PaymentIds :
          /\ payments[p].status # "success" =>
                p \notin credited /\ p # settledBy /\ payments[p].exception = "none"
          /\ request[p] = "calling" => payments[p].status # "success" /\ ~payments[p].link
          /\ p \in gatewayPaid => payments[p].link
          /\ payments[p].status = "none" => request[p] = "none" /\ ~payments[p].link
    /\ MoneyHasOneOutcome

LEMMA OutcomeInit == Init => OutcomeInv
BY PaymentIdsArePositive DEF Init, OutcomeInv, MoneyHasOneOutcome, NoRow, NewRow

\* A row that keeps its link and its exception, and neither becomes nor stops
\* being a success or a row.
SameOutcome(before, after) ==
    /\ after.link = before.link
    /\ after.exception = before.exception
    /\ after.status = "success" <=> before.status = "success"
    /\ after.status = "none" <=> before.status = "none"

LEMMA LapsedOutcome ==
    ASSUME NEW p \in PaymentIds, NEW rows \in [PaymentIds -> PaymentRows], NEW q \in PaymentIds
    PROVE  /\ SameOutcome(rows[q], SupersededBy(p, rows)[q])
           /\ SameOutcome(rows[q], Expired(rows)[q])
BY DEF SameOutcome, SupersededBy, Expired, PaymentRows, Open

\* A step that changes no outcome: its rows keep theirs, no request starts,
\* and only links are paid.
LEMMA OutcomeKept ==
    ASSUME OutcomeInv,
           \A q \in PaymentIds : SameOutcome(payments[q], payments'[q]),
           \A q \in PaymentIds : \/ request'[q] = request[q]
                                 \/ request[q] # "none" /\ request'[q] # "calling",
           \A q \in PaymentIds : q \in gatewayPaid' => q \in gatewayPaid \/ payments[q].link,
           UNCHANGED <<saves, credited, settledBy>>
    PROVE  OutcomeInv'
<1>1. ASSUME NEW q \in PaymentIds
      PROVE  /\ payments'[q].status # "success" =>
                    q \notin credited' /\ q # settledBy' /\ payments'[q].exception = "none"
             /\ request'[q] = "calling" => payments'[q].status # "success" /\ ~payments'[q].link
             /\ q \in gatewayPaid' => payments'[q].link
             /\ payments'[q].status = "none" => request'[q] = "none" /\ ~payments'[q].link
  BY DEF OutcomeInv, SameOutcome
<1>2. MoneyHasOneOutcome'
  BY DEF OutcomeInv, MoneyHasOneOutcome, SameOutcome
<1>3. QED
  BY <1>1, <1>2 DEF OutcomeInv

\* Steps that leave the payments, their requests and their outcomes alone.
LEMMA OutcomeUntouched ==
    ASSUME OutcomeInv, UNCHANGED <<payments, request, gatewayPaid, saves, credited, settledBy>>
    PROVE  OutcomeInv'
BY DEF OutcomeInv, MoneyHasOneOutcome

\* One row is replaced by another that is no success, has no exception and is
\* not waiting for the gateway with a link.
LEMMA OutcomeReplaced ==
    ASSUME TypeOK, OutcomeInv, NEW p \in PaymentIds, NEW row \in PaymentRows,
           payments' = [payments EXCEPT ![p] = row],
           payments[p].status # "success",
           row.status \notin {"none", "success"}, row.exception = "none",
           payments[p].link => row.link,
           request'[p] = "calling" => ~row.link,
           \A q \in PaymentIds \ {p} : request'[q] = request[q],
           UNCHANGED <<saves, credited, settledBy, gatewayPaid>>
    PROVE  OutcomeInv'
<1>1. payments'[p] = row /\ \A q \in PaymentIds \ {p} : payments'[q] = payments[q]
  BY DEF TypeOK
<1>2. p \notin credited /\ p # settledBy
  BY DEF OutcomeInv
<1>3. ASSUME NEW q \in PaymentIds
      PROVE  /\ payments'[q].status # "success" =>
                    q \notin credited' /\ q # settledBy' /\ payments'[q].exception = "none"
             /\ request'[q] = "calling" => payments'[q].status # "success" /\ ~payments'[q].link
             /\ q \in gatewayPaid' => payments'[q].link
             /\ payments'[q].status = "none" => request'[q] = "none" /\ ~payments'[q].link
  <2>1. CASE q = p
    BY <1>1, <1>2, <2>1 DEF OutcomeInv
  <2>2. CASE q # p
    BY <1>1, <2>2 DEF OutcomeInv
  <2>3. QED
    BY <2>1, <2>2
<1>4. MoneyHasOneOutcome'
  BY <1>1, <1>2 DEF OutcomeInv, MoneyHasOneOutcome
<1>5. QED
  BY <1>3, <1>4 DEF OutcomeInv

\* The wallet pays: a new row is the one that settles, and until it does no
\* other success has settled the order.
LEMMA OutcomeOfWallet ==
    ASSUME TypeOK, SettleInv, OutcomeInv, NEW p \in PaymentIds,
           NEW c \in Channels \cup {NoChannel}, PayByWallet(p, c)
    PROVE  OutcomeInv'
<1> DEFINE row == NewRow("success", NoChannel, Total)
           rows == [payments EXCEPT ![p] = row]
<1>1. row \in PaymentRows
  <2>1. Total \in 0 .. Total
    BY MoneyAssumption
  <2>2. QED
    BY <2>1, NewRowType DEF PaymentStatus
<1>2. /\ rows \in [PaymentIds -> PaymentRows] /\ rows[p] = row
      /\ \A q \in PaymentIds \ {p} : rows[q] = payments[q]
  BY <1>1, ReplacedRowType DEF TypeOK
<1>3. /\ payments' = SupersededBy(p, rows) /\ payments[p].status = "none" /\ settledBy' = p
      /\ UNCHANGED <<saves, credited, request, gatewayPaid>>
  BY DEF PayByWallet, IsNextPayment, rvars, gvars
<1>4. row.status = "success" /\ row.exception = "none"
  BY DEF NewRow
<1>5. settledBy = NoPayment
  BY DEF PayByWallet, CanCreate, SettleInv
<1>6. payments'[p] = row
  BY <1>2, <1>3, SupersededKeeps
<1>7. \A q \in PaymentIds \ {p} : SameOutcome(payments[q], payments'[q])
  <2> HIDE DEF rows, row
  <2>1. QED
    BY <1>2, <1>3, LapsedOutcome
<1>8. p \notin credited /\ request[p] = "none" /\ p \notin gatewayPaid
  BY <1>3 DEF OutcomeInv
<1> HIDE DEF rows, row
<1>9. ASSUME NEW q \in PaymentIds
      PROVE  /\ payments'[q].status # "success" =>
                    q \notin credited' /\ q # settledBy' /\ payments'[q].exception = "none"
             /\ request'[q] = "calling" => payments'[q].status # "success" /\ ~payments'[q].link
             /\ q \in gatewayPaid' => payments'[q].link
             /\ payments'[q].status = "none" => request'[q] = "none" /\ ~payments'[q].link
  <2>1. CASE q = p
    BY <1>3, <1>4, <1>6, <1>8, <2>1
  <2>2. CASE q # p
    BY <1>3, <1>7, <2>2 DEF OutcomeInv, SameOutcome
  <2>3. QED
    BY <2>1, <2>2
<1>10. ASSUME NEW q \in PaymentIds
       PROVE  /\ payments'[q].status = "success" /\ q # settledBy' => payments'[q].exception # "none"
              /\ q \in credited' => q # settledBy' /\ payments'[q].exception = "underpaid"
              /\ payments'[q].exception = "underpaid" /\ LoggedIn => q \in credited'
  <2>1. CASE q = p
    BY <1>3, <1>4, <1>6, <1>8, <2>1
  <2>2. CASE q # p
    <3>1. q # settledBy
      BY <1>5, PaymentIdsArePositive
    <3>2. QED
      BY <1>3, <1>7, <2>2, <3>1 DEF OutcomeInv, MoneyHasOneOutcome, SameOutcome
  <2>3. QED
    BY <2>1, <2>2
<1>11. QED
  BY <1>3, <1>9, <1>10 DEF OutcomeInv, MoneyHasOneOutcome

\* A success has one outcome: it settles the order, or it carries the
\* exception that says why it did not, and is credited if it was too little.
LEMMA OutcomeOfSuccess ==
    ASSUME TypeOK, SettleInv, LinkInv, OutcomeInv, NEW p \in PaymentIds, CallbackSucceeds(p)
    PROVE  OutcomeInv'
<1> DEFINE row == [payments[p] EXCEPT !.status = "success", !.exception = ExceptionOf(p)]
           rows == [payments EXCEPT ![p] = row]
<1>1. /\ row \in PaymentRows /\ row.status = "success"
      /\ row.exception = ExceptionOf(p) /\ row.link = payments[p].link
  <2>1. ExceptionOf(p) \in Exceptions /\ payments[p] \in PaymentRows
    BY DEF ExceptionOf, Exceptions, TypeOK, PaymentRows
  <2>2. QED
    BY <2>1 DEF PaymentRows, PaymentStatus
<1>2. /\ rows \in [PaymentIds -> PaymentRows] /\ rows[p] = row
      /\ \A q \in PaymentIds \ {p} : rows[q] = payments[q]
  BY <1>1, ReplacedRowType DEF TypeOK
<1>3. /\ payments' = Expired(rows)
      /\ UNCHANGED <<saves, request, gatewayPaid>>
      /\ p \in gatewayPaid
      /\ payments[p].status # "success"
  BY DEF CallbackSucceeds, rvars
<1>4. payments'[p] = row
  <2> HIDE DEF row, rows
  <2>1. QED
    BY <1>1, <1>2, <1>3, ExpiredKeeps
<1>5. \A q \in PaymentIds \ {p} : SameOutcome(payments[q], payments'[q])
  <2> HIDE DEF row, rows
  <2>1. QED
    BY <1>2, <1>3, LapsedOutcome
<1>6. p \notin credited /\ p # settledBy /\ payments[p].exception = "none"
      /\ payments[p].link /\ request[p] # "calling" /\ payments[p].status # "none"
  BY <1>3 DEF OutcomeInv
<1>7. settledBy' = IF Settles(p) THEN p ELSE settledBy
  BY DEF CallbackSucceeds
<1>8. credited' = IF Credits(p) THEN credited \cup {p} ELSE credited
  BY DEF CallbackSucceeds
<1>9. Settles(p) => settledBy = NoPayment
  BY DEF Settles, OrderOpen, SettleInv
<1> HIDE DEF rows, row
<1>10. /\ payments'[p].status = "success" /\ payments'[p].link
       /\ payments'[p].exception = ExceptionOf(p)
  BY <1>1, <1>4, <1>6
<1>11. /\ p # settledBy' => ExceptionOf(p) # "none"
       /\ p \in credited' => p # settledBy' /\ ExceptionOf(p) = "underpaid"
       /\ ExceptionOf(p) = "underpaid" /\ LoggedIn => p \in credited'
  <2>1. CASE Underpaid(p)
    <3>1. ExceptionOf(p) = "underpaid" /\ ~Settles(p)
      BY <2>1 DEF ExceptionOf, Underpaid, Settles
    <3>2. QED
      BY <1>6, <1>7, <1>8, <2>1, <3>1 DEF Credits
  <2>2. CASE ~Underpaid(p)
    <3>1. ExceptionOf(p) # "underpaid" /\ p \notin credited'
      BY <1>6, <1>8, <2>2 DEF ExceptionOf, Credits
    <3>2. CASE Settles(p)
      BY <1>7, <3>1, <3>2
    <3>3. CASE ~Settles(p)
      <4>1. ~OrderOpen
        BY <2>2, <3>3 DEF Settles, Underpaid
      <4>2. CASE payments[p].superseded
        <5>1. ExceptionOf(p) = "superseded"
          BY <2>2, <4>2 DEF ExceptionOf
        <5>2. QED
          BY <3>1, <5>1
      <4>3. CASE ~payments[p].superseded
        <5>1. ExceptionOf(p) = IF order.paid THEN "duplicate" ELSE "closed"
          BY <2>2, <4>1, <4>3 DEF ExceptionOf
        <5>2. QED
          BY <3>1, <5>1
      <4>4. QED
        BY <4>2, <4>3
    <3>4. QED
      BY <3>2, <3>3
  <2>3. QED
    BY <2>1, <2>2
<1>12. ASSUME NEW q \in PaymentIds
       PROVE  /\ payments'[q].status # "success" =>
                     q \notin credited' /\ q # settledBy' /\ payments'[q].exception = "none"
              /\ request'[q] = "calling" => payments'[q].status # "success" /\ ~payments'[q].link
              /\ q \in gatewayPaid' => payments'[q].link
              /\ payments'[q].status = "none" => request'[q] = "none" /\ ~payments'[q].link
  <2>1. CASE q = p
    BY <1>3, <1>6, <1>10, <2>1
  <2>2. CASE q # p
    BY <1>3, <1>5, <1>7, <1>8, <2>2 DEF OutcomeInv, SameOutcome
  <2>3. QED
    BY <2>1, <2>2
<1>13. ASSUME NEW q \in PaymentIds
       PROVE  /\ payments'[q].status = "success" /\ q # settledBy' => payments'[q].exception # "none"
              /\ q \in credited' => q # settledBy' /\ payments'[q].exception = "underpaid"
              /\ payments'[q].exception = "underpaid" /\ LoggedIn => q \in credited'
  <2>1. CASE q = p
    BY <1>10, <1>11, <2>1
  <2>2. CASE q # p
    <3>1. q = settledBy => q = settledBy'
      BY <1>7, <1>9, PaymentIdsArePositive
    <3>2. q \in credited' <=> q \in credited
      BY <1>8, <2>2
    <3>3. q = settledBy' => q = settledBy
      BY <1>7, <2>2
    <3>4. QED
      BY <1>5, <2>2, <3>1, <3>2, <3>3 DEF OutcomeInv, MoneyHasOneOutcome, SameOutcome
  <2>3. QED
    BY <2>1, <2>2
<1>14. QED
  BY <1>3, <1>12, <1>13 DEF OutcomeInv, MoneyHasOneOutcome

LEMMA OutcomeStep ==
    NoStaleSaves /\ TypeOK /\ SettleInv /\ LinkInv /\ OutcomeInv /\ [Next]_vars => OutcomeInv'
<1> SUFFICES ASSUME NoStaleSaves, TypeOK, SettleInv, LinkInv, OutcomeInv, [Next]_vars
             PROVE  OutcomeInv'
  OBVIOUS
<1> USE DEF ovars, rvars, gvars, wvars
<1>0. \A q \in PaymentIds : SameOutcome(payments[q], payments[q])
  BY DEF SameOutcome
<1>1. ASSUME NEW p \in PaymentIds, NEW c \in Channels, RequestReuse(c, p) PROVE OutcomeInv'
  BY <1>1, OutcomeUntouched DEF RequestReuse
<1>2. ASSUME NEW p \in PaymentIds, ReuseSupersede(p) PROVE OutcomeInv'
  <2>1. \A q \in PaymentIds : SameOutcome(payments[q], payments'[q])
    BY <1>2, LapsedOutcome DEF ReuseSupersede, TypeOK
  <2>2. QED
    BY <1>2, <2>1, OutcomeKept DEF ReuseSupersede
<1>3. ASSUME NEW p \in PaymentIds, NEW c \in Channels, NEW useBalance \in BOOLEAN,
             StartOnline(p, c, useBalance)
      PROVE  OutcomeInv'
  <2> DEFINE row == NewRow("initiated", c, Total - Allocation(useBalance))
  <2>1. Total - Allocation(useBalance) \in 0 .. Total
    BY AllocationBounds, RowTypes
  <2>2. row \in PaymentRows
    BY <2>1, NewRowType DEF PaymentStatus
  <2>3. row.status = "initiated" /\ row.exception = "none" /\ ~row.link
    BY DEF NewRow
  <2>4. /\ payments' = [payments EXCEPT ![p] = row]
        /\ payments[p].status = "none"
        /\ request' = [request EXCEPT ![p] = "calling"]
        /\ UNCHANGED <<saves, credited, settledBy, gatewayPaid>>
    BY <1>3 DEF StartOnline, IsNextPayment
  <2>5. ~payments[p].link
    BY <2>4 DEF OutcomeInv
  <2> HIDE DEF row
  <2>6. \A q \in PaymentIds \ {p} : request'[q] = request[q]
    BY <2>4 DEF TypeOK
  <2>7. QED
    BY <2>2, <2>3, <2>4, <2>5, <2>6, OutcomeReplaced
<1>4. ASSUME NEW p \in PaymentIds, NEW c \in Channels \cup {NoChannel}, PayByWallet(p, c)
      PROVE  OutcomeInv'
  BY <1>4, OutcomeOfWallet
<1>5. ASSUME NEW p \in PaymentIds, ProviderAccepts(p) PROVE OutcomeInv'
  <2> DEFINE row == [NewRow("pending", payments[p].channel, payments[p].amount) EXCEPT !.link = TRUE]
  <2>1. row \in PaymentRows /\ row.status = "pending" /\ row.exception = "none" /\ row.link
    BY DEF TypeOK, NewRow, PaymentRows, PaymentStatus, Exceptions
  <2>2. /\ payments' = [payments EXCEPT ![p] = row]
        /\ request[p] = "calling"
        /\ request' = [request EXCEPT ![p] = "linked"]
        /\ UNCHANGED <<saves, credited, settledBy, gatewayPaid>>
    BY <1>5 DEF ProviderAccepts
  <2>3. payments[p].status # "success"
    BY <2>2 DEF OutcomeInv
  <2>4. request'[p] = "linked" /\ \A q \in PaymentIds \ {p} : request'[q] = request[q]
    BY <2>2 DEF TypeOK
  <2> HIDE DEF row
  <2>5. QED
    BY <2>1, <2>2, <2>3, <2>4, OutcomeReplaced
<1>6. ASSUME NEW p \in PaymentIds, ProviderRejects(p) PROVE OutcomeInv'
  <2> DEFINE row == NewRow("failed", payments[p].channel, payments[p].amount)
  <2>1. row \in PaymentRows /\ row.status = "failed" /\ row.exception = "none"
    BY DEF TypeOK, NewRow, PaymentRows, PaymentStatus, Exceptions
  <2>2. /\ payments' = [payments EXCEPT ![p] = row]
        /\ request[p] = "calling"
        /\ request' = [request EXCEPT ![p] = "done"]
        /\ UNCHANGED <<saves, credited, settledBy, gatewayPaid>>
    BY <1>6 DEF ProviderRejects
  <2>3. payments[p].status # "success" /\ ~payments[p].link
    BY <2>2 DEF OutcomeInv
  <2>4. request'[p] = "done" /\ \A q \in PaymentIds \ {p} : request'[q] = request[q]
    BY <2>2 DEF TypeOK
  <2> HIDE DEF row
  <2>5. QED
    BY <2>1, <2>2, <2>3, <2>4, OutcomeReplaced
<1>7. ASSUME NEW p \in PaymentIds, SupersedeOthers(p) PROVE OutcomeInv'
  <2>1. \A q \in PaymentIds : SameOutcome(payments[q], payments'[q])
    BY <1>7, LapsedOutcome DEF SupersedeOthers, TypeOK
  <2>2. \A q \in PaymentIds : \/ request'[q] = request[q]
                              \/ request[q] # "none" /\ request'[q] # "calling"
    BY <1>7 DEF SupersedeOthers, TypeOK
  <2>3. UNCHANGED <<saves, credited, settledBy, gatewayPaid>>
    BY <1>7 DEF SupersedeOthers
  <2>4. QED
    BY <2>1, <2>2, <2>3, OutcomeKept
<1>8. ASSUME NEW p \in PaymentIds, RequestDies(p) PROVE OutcomeInv'
  <2>1. \A q \in PaymentIds : \/ request'[q] = request[q]
                              \/ request[q] # "none" /\ request'[q] # "calling"
    BY <1>8 DEF RequestDies, TypeOK
  <2>2. UNCHANGED <<payments, saves, credited, settledBy, gatewayPaid>>
    BY <1>8 DEF RequestDies
  <2>3. QED
    BY <1>0, <2>1, <2>2, OutcomeKept
<1>9. ASSUME NEW p \in PaymentIds PROVE ~CallbackReadsSame(p)
  <2>1. Cardinality(saves) = 0
    BY FS_EmptySet DEF OutcomeInv
  <2>2. QED
    BY <2>1 DEF CallbackReadsSame, NoStaleSaves
<1>10. saves = {}
  BY DEF OutcomeInv
<1>11. ASSUME NEW p \in PaymentIds, CallbackPends(p) PROVE OutcomeInv'
  <2>1. payments[p].status # "none"
    BY <1>11 DEF CallbackPends, OutcomeInv
  <2>2. \A q \in PaymentIds : SameOutcome(payments[q], payments'[q])
    BY <1>11, <2>1 DEF CallbackPends, SameOutcome, TypeOK, PaymentRows
  <2>3. QED
    BY <1>11, <2>2, OutcomeKept DEF CallbackPends
<1>12. ASSUME NEW p \in PaymentIds, NEW s \in {"failed", "expired"}, CallbackFails(p, s)
       PROVE  OutcomeInv'
  <2>1. payments[p].status # "none"
    BY <1>12 DEF CallbackFails, OutcomeInv
  <2>2. \A q \in PaymentIds : SameOutcome(payments[q], payments'[q])
    BY <1>12, <2>1 DEF CallbackFails, SameOutcome, TypeOK, PaymentRows
  <2>3. QED
    BY <1>12, <2>2, OutcomeKept DEF CallbackFails
<1>13. ASSUME NEW p \in PaymentIds, CallbackSucceeds(p) PROVE OutcomeInv'
  BY <1>13, OutcomeOfSuccess
<1>14. ASSUME NEW k \in Cancellers, CancelRead(k) PROVE OutcomeInv'
  BY <1>14, OutcomeUntouched DEF CancelRead
<1>15. ASSUME NEW k \in Cancellers, CancelCommit(k) PROVE OutcomeInv'
  <2>1. \A q \in PaymentIds : SameOutcome(payments[q], payments'[q])
    BY <1>15, LapsedOutcome DEF CancelCommit, TypeOK
  <2>2. QED
    BY <1>15, <2>1, OutcomeKept DEF CancelCommit
<1>16. CASE ChildCancelCommit
  BY <1>16, OutcomeUntouched DEF ChildCancelCommit
<1>17. ASSUME NEW p \in PaymentIds, BuyerPays(p) PROVE OutcomeInv'
  BY <1>0, <1>17, OutcomeKept DEF BuyerPays
<1>18. CASE DeadlinePasses
  BY <1>18, OutcomeUntouched DEF DeadlinePasses
<1>19. CASE UNCHANGED vars
  BY <1>19, OutcomeUntouched DEF vars
<1>20. ASSUME NEW net \in Outside, WalletMoves(net) PROVE OutcomeInv'
  BY <1>20, OutcomeUntouched DEF WalletMoves
<1>21. QED
  BY <1>1, <1>2, <1>3, <1>4, <1>5, <1>6, <1>7, <1>8, <1>9, <1>10, <1>11, <1>12,
     <1>13, <1>14, <1>15, <1>16, <1>17, <1>18, <1>19, <1>20
     DEF Next, CreatePayment, HandleCallback, Cancel

LEMMA OutcomeInvariant == NoStaleSaves => (Spec => []OutcomeInv)
<1> SUFFICES ASSUME NoStaleSaves PROVE Spec => []OutcomeInv
  OBVIOUS
<1>1. Init => OutcomeInv
  BY OutcomeInit
<1>2. TypeOK /\ SettleInv /\ LinkInv /\ OutcomeInv /\ [Next]_vars => OutcomeInv'
  BY OutcomeStep
<1>3. QED
  BY <1>1, <1>2, TablesInvariant, PTL DEF Spec

\* Where no callback saves a row it read before, money the gateway has taken
\* is used once: a success pays the order or carries an exception, and an
\* underpaid one is credited to the buyer and never also pays the order.
THEOREM GatewayMoneyUsedOnce == NoStaleSaves => (Spec => []MoneyHasOneOutcome)
<1> SUFFICES ASSUME NoStaleSaves PROVE Spec => []MoneyHasOneOutcome
  OBVIOUS
<1>1. OutcomeInv => MoneyHasOneOutcome
  BY DEF OutcomeInv
<1>2. QED
  BY <1>1, OutcomeInvariant, PTL

\* The stale save is the only way a success is taken back: without it the
\* payment that paid the order stays one, whatever the gateway still reports.
THEOREM SuccessAlwaysStands == NoStaleSaves => (Spec => []SuccessStands)
<1> SUFFICES ASSUME NoStaleSaves PROVE Spec => []SuccessStands
  OBVIOUS
<1>1. TypeOK /\ OutcomeInv => SuccessStands
  BY DEF OutcomeInv, SuccessStands, TypeOK
<1>2. QED
  BY <1>1, OutcomeInvariant, TypeCorrect, PTL
==============================================================================
