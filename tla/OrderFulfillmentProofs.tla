------------------------ MODULE OrderFulfillmentProofs ------------------------
(***************************************************************************)
(* Theorems about OrderFulfillment, for every set of orders, lines,        *)
(* quantities and secrets, every number of task runs and of readers in     *)
(* flight, and whatever statuses an administrator may set: first the card  *)
(* secrets and the deliveries, then the orders' statuses and the stock,    *)
(* the manual SKU's columns and the reservations.                          *)
(***************************************************************************)
EXTENDS OrderFulfillment, SumTheorems, FiniteSetTheorems, TLAPS

(* Types                                                                   *)

\* The tables and records that a delivery reads or writes.
TablesTyped ==
    /\ child \in [Lines -> StatusOrNone]
    /\ paid \subseteq Orders
    /\ secret \in [Secrets -> [status : {"available", "reserved", "used"}, line : Lines \cup {Nobody}]]
    /\ fulfillment \in [Lines -> {"none", "auto", "manual"}]
    /\ deliveries \subseteq [line : Lines, by : {"auto", "manual"}, picked : SUBSET Secrets]
    /\ updates \subseteq [order : Orders, whole : BOOLEAN, target : OrderStatus, lines : SUBSET Lines]

\* A line belongs to an order that exists.
LEMMA LineOrder == \A c \in Lines : c[1] \in Orders
BY LinesAssumption

LEMMA DeliveryType ==
    ASSUME NEW c \in Lines, NEW by \in {"auto", "manual"}, NEW S \in SUBSET Secrets
    PROVE  /\ Delivery(c, by, S) \in [line : Lines, by : {"auto", "manual"}, picked : SUBSET Secrets]
           /\ Delivery(c, by, S).line = c
           /\ Delivery(c, by, S).picked = S
BY DEF Delivery

LEMMA UpdateType ==
    ASSUME NEW o \in Orders, NEW whole \in BOOLEAN, NEW target \in OrderStatus,
           NEW S \in SUBSET Lines
    PROVE  /\ Update(o, whole, target, S) \in
                  [order : Orders, whole : BOOLEAN, target : OrderStatus, lines : SUBSET Lines]
           /\ Update(o, whole, target, S).target = target
           /\ Update(o, whole, target, S).lines = S
BY DEF Update

\* A request that has read leaves one typed record more.
LEMMA UpdateAdded ==
    ASSUME TablesTyped, NEW o \in Orders, NEW whole \in BOOLEAN, NEW target \in OrderStatus,
           NEW S \in SUBSET Lines, updates' = updates \cup {Update(o, whole, target, S)},
           UNCHANGED <<child, paid, secret, fulfillment, deliveries>>
    PROVE  TablesTyped'
<1>1. updates' \subseteq
          [order : Orders, whole : BOOLEAN, target : OrderStatus, lines : SUBSET Lines]
  BY UpdateType DEF TablesTyped
<1>2. QED
  BY <1>1 DEF TablesTyped

\* What MarkOrderPaid sets the children to.
LEMMA PaidChildren ==
    ASSUME child \in [Lines -> StatusOrNone], NEW o \in Orders, MarkOrderPaid(o)
    PROVE  child' = [c \in Lines |->
               IF c[1] # o THEN child[c] ELSE IF c \in AutoLines THEN "paid" ELSE "fulfilling"]
BY DEF MarkOrderPaid

LEMMA TypeInit == Init => TablesTyped
BY DEF Init, TablesTyped, StatusOrNone

LEMMA TypeStep == TablesTyped /\ [Next]_vars => TablesTyped'
<1> SUFFICES ASSUME TablesTyped, [Next]_vars PROVE TablesTyped'
  OBVIOUS
<1> USE DEF pvars, wvars
<1>1. ASSUME NEW o \in Orders, CreateOrder(o) PROVE TablesTyped'
  <2>1. PICK pick \in [LinesOf(o) \cap AutoLines -> SUBSET Free] :
            secret' = [s \in Secrets |->
                IF \E c \in DOMAIN pick : s \in pick[c]
                THEN [status |-> "reserved", line |-> CHOOSE c \in DOMAIN pick : s \in pick[c]]
                ELSE secret[s]]
    BY <1>1 DEF CreateOrder
  <2>2. ASSUME NEW s \in Secrets, \E c \in DOMAIN pick : s \in pick[c]
        PROVE  (CHOOSE c \in DOMAIN pick : s \in pick[c]) \in Lines
    BY <2>2 DEF LinesOf
  <2>3. secret' \in [Secrets -> [status : {"available", "reserved", "used"},
                                 line : Lines \cup {Nobody}]]
    BY <2>1, <2>2 DEF TablesTyped
  <2>4. child' \in [Lines -> StatusOrNone]
    BY <1>1 DEF CreateOrder, TablesTyped, StatusOrNone, OrderStatus
  <2>5. QED
    BY <1>1, <2>3, <2>4 DEF CreateOrder, TablesTyped
<1>2. ASSUME NEW o \in Orders, MarkOrderPaid(o) PROVE TablesTyped'
  <2>1. child' \in [Lines -> StatusOrNone]
    BY <1>2, PaidChildren DEF TablesTyped, StatusOrNone, OrderStatus
  <2>2. QED
    BY <1>2, <2>1 DEF MarkOrderPaid, TablesTyped
<1>3. ASSUME NEW o \in Orders, Dispatch(o) PROVE TablesTyped'
  BY <1>3 DEF Dispatch, TablesTyped
<1>4. ASSUME NEW c \in Lines, AutoStart(c) PROVE TablesTyped'
  BY <1>4, DeliveryType DEF AutoStart, TablesTyped
<1>5. ASSUME NEW c \in Lines, ManualStart(c) PROVE TablesTyped'
  BY <1>5, DeliveryType DEF ManualStart, TablesTyped
<1>6. ASSUME NEW d \in deliveries, AutoPick(d) PROVE TablesTyped'
  <2>1. PICK S \in Selections(d.line) :
            deliveries' = (deliveries \ {d}) \cup {Delivery(d.line, "auto", S)}
    BY <1>6 DEF AutoPick
  <2>2. S \in SUBSET Secrets /\ d.line \in Lines
    BY <2>1 DEF Selections, ReservedFor, Free, TablesTyped
  <2>3. QED
    BY <1>6, <2>1, <2>2, DeliveryType DEF AutoPick, TablesTyped
<1>7. ASSUME NEW d \in deliveries, AutoCommit(d) PROVE TablesTyped'
  <2>1. d.line \in Lines
    BY DEF TablesTyped
  <2>2. QED
    BY <1>7, <2>1 DEF AutoCommit, TablesTyped, StatusOrNone, OrderStatus
<1>8. ASSUME NEW d \in deliveries, ManualCommit(d) PROVE TablesTyped'
  BY <1>8 DEF ManualCommit, TablesTyped, StatusOrNone, OrderStatus
<1>9. ASSUME NEW d \in deliveries, DeliveryFails(d) PROVE TablesTyped'
  BY <1>9 DEF DeliveryFails, TablesTyped
<1>10. ASSUME NEW o \in Orders, CancelRead(o) PROVE TablesTyped'
  <2>1. LinesOf(o) \in SUBSET Lines /\ "canceled" \in OrderStatus
    BY DEF LinesOf, OrderStatus
  <2>2. QED
    BY <1>10, <2>1, UpdateAdded DEF CancelRead
<1>11. ASSUME NEW o \in Orders, NEW target \in ParentTargets, ParentRead(o, target)
       PROVE  TablesTyped'
  <2>1. target \in OrderStatus
    BY TargetsAssumption DEF OrderStatus
  <2>2. {c \in LinesOf(o) : child[c] # target} \in SUBSET Lines
    BY DEF LinesOf
  <2>3. QED
    BY <1>11, <2>1, <2>2, UpdateAdded DEF ParentRead
<1>12. ASSUME NEW c \in Lines, NEW target \in ChildTargets, ChildRead(c, target)
       PROVE  TablesTyped'
  <2>1. target \in OrderStatus /\ c[1] \in Orders /\ {c} \in SUBSET Lines
    BY TargetsAssumption, LineOrder DEF OrderStatus
  <2>2. QED
    BY <1>12, <2>1, UpdateAdded DEF ChildRead
<1>13. ASSUME NEW u \in updates, UpdateCommit(u) PROVE TablesTyped'
  <2>1. u.target \in OrderStatus
    BY DEF TablesTyped
  <2>2. child' \in [Lines -> StatusOrNone]
    BY <1>13, <2>1 DEF UpdateCommit, TablesTyped, StatusOrNone
  <2>3. secret' \in [Secrets -> [status : {"available", "reserved", "used"},
                                 line : Lines \cup {Nobody}]]
    BY <1>13 DEF UpdateCommit, SecretsReleased, TablesTyped
  <2>4. QED
    BY <1>13, <2>2, <2>3 DEF UpdateCommit, TablesTyped
<1>14. ASSUME NEW o \in Orders, SyncRead(o) \/ QueryRead(o) PROVE TablesTyped'
  BY <1>14 DEF SyncRead, QueryRead, TablesTyped
<1>15. ASSUME NEW x \in syncs, SyncWrite(x) PROVE TablesTyped'
  BY <1>15 DEF SyncWrite, TablesTyped
<1>16. CASE UNCHANGED vars
  BY <1>16 DEF vars, TablesTyped
<1>17. QED
  BY <1>1, <1>2, <1>3, <1>4, <1>5, <1>6, <1>7, <1>8, <1>9, <1>10, <1>11, <1>12, <1>13,
     <1>14, <1>15, <1>16 DEF Next, Deliver, UpdateStatus, SyncParentStatus

-----------------------------------------------------------------------------
(* Nothing is delivered before it is paid                                  *)

\* The inductive invariant: a line that may be delivered, a delivery under way
\* and an update to fulfilling under way belong to a paid order.
PaidInv ==
    /\ \A c \in Lines : child[c] \in Deliverable => c[1] \in paid
    /\ \A d \in deliveries : d.line[1] \in paid
    /\ \A u \in updates :
          /\ u.target # "paid"
          /\ u.target = "fulfilling" => \A c \in u.lines : c[1] \in paid
    /\ DeliveredOnlyWhenPaid

LEMMA PaidInit == Init => PaidInv
BY DEF Init, PaidInv, Deliverable, DeliveredOnlyWhenPaid

\* Only a paid line may be moved to fulfilling.
LEMMA FulfillingWasPaid ==
    ASSUME NEW status \in StatusOrNone, "fulfilling" \in Allowed(status)
    PROVE  status = "paid"
BY DEF Allowed, StatusOrNone, OrderStatus

LEMMA PaidStep == TablesTyped /\ PaidInv /\ [Next]_vars => PaidInv'
<1> SUFFICES ASSUME TablesTyped, PaidInv, [Next]_vars PROVE PaidInv'
  OBVIOUS
<1> USE DEF pvars, wvars, DeliveredOnlyWhenPaid, Deliverable
<1>1. ASSUME NEW o \in Orders, CreateOrder(o) PROVE PaidInv'
  BY <1>1 DEF CreateOrder, PaidInv
<1>2. ASSUME NEW o \in Orders, MarkOrderPaid(o) PROVE PaidInv'
  <2>1. paid' = paid \cup {o}
    BY <1>2 DEF MarkOrderPaid
  <2>2. ASSUME NEW c \in Lines, child'[c] \in {"paid", "fulfilling"} PROVE c[1] \in paid'
    BY <1>2, <2>1, <2>2, PaidChildren DEF PaidInv, TablesTyped
  <2>3. QED
    BY <1>2, <2>1, <2>2 DEF MarkOrderPaid, PaidInv
<1>3. ASSUME NEW o \in Orders, Dispatch(o) PROVE PaidInv'
  BY <1>3 DEF Dispatch, PaidInv
<1>4. ASSUME NEW c \in Lines, AutoStart(c) PROVE PaidInv'
  BY <1>4, DeliveryType DEF AutoStart, PaidInv
<1>5. ASSUME NEW c \in Lines, ManualStart(c) PROVE PaidInv'
  BY <1>5, DeliveryType DEF ManualStart, PaidInv
<1>6. ASSUME NEW d \in deliveries, AutoPick(d) PROVE PaidInv'
  <2>1. PICK S \in Selections(d.line) :
            deliveries' = (deliveries \ {d}) \cup {Delivery(d.line, "auto", S)}
    BY <1>6 DEF AutoPick
  <2>2. Delivery(d.line, "auto", S).line = d.line
    BY DEF Delivery
  <2>3. \A e \in deliveries' : e.line[1] \in paid
    BY <2>1, <2>2 DEF PaidInv
  <2>4. QED
    BY <1>6, <2>3 DEF AutoPick, PaidInv
<1>7. ASSUME NEW d \in deliveries, AutoCommit(d) PROVE PaidInv'
  <2>1. \A c \in Lines : child'[c] = IF c = d.line THEN "completed" ELSE child[c]
    BY <1>7 DEF AutoCommit, TablesTyped
  <2>2. \A c \in Lines : fulfillment'[c] # "none" => c = d.line \/ fulfillment[c] # "none"
    BY <1>7 DEF AutoCommit, TablesTyped
  <2>3. QED
    BY <1>7, <2>1, <2>2 DEF AutoCommit, PaidInv
<1>8. ASSUME NEW d \in deliveries, ManualCommit(d) PROVE PaidInv'
  <2>1. \A c \in Lines : child'[c] = IF c = d.line THEN "delivered" ELSE child[c]
    BY <1>8 DEF ManualCommit, TablesTyped
  <2>2. \A c \in Lines : fulfillment'[c] # "none" => c = d.line \/ fulfillment[c] # "none"
    BY <1>8 DEF ManualCommit, TablesTyped
  <2>3. QED
    BY <1>8, <2>1, <2>2 DEF ManualCommit, PaidInv
<1>9. ASSUME NEW d \in deliveries, DeliveryFails(d) PROVE PaidInv'
  BY <1>9 DEF DeliveryFails, PaidInv
<1>10. ASSUME NEW o \in Orders, CancelRead(o) PROVE PaidInv'
  <2>1. Update(o, TRUE, "canceled", LinesOf(o)).target = "canceled"
    BY DEF Update
  <2>2. QED
    BY <1>10, <2>1 DEF CancelRead, PaidInv
<1>11. ASSUME NEW o \in Orders, NEW target \in ParentTargets, ParentRead(o, target)
       PROVE  PaidInv'
  <2>1. target \notin {"paid", "fulfilling"}
    BY TargetsAssumption
  <2>2. \A S : Update(o, TRUE, target, S).target = target
    BY DEF Update
  <2>3. QED
    BY <1>11, <2>1, <2>2 DEF ParentRead, PaidInv
<1>12. ASSUME NEW c \in Lines, NEW target \in ChildTargets, ChildRead(c, target)
       PROVE  PaidInv'
  <2> DEFINE u == Update(c[1], FALSE, target, {c})
  <2>1. target # "paid"
    BY TargetsAssumption
  <2>2. target = "fulfilling" => c[1] \in paid
    BY <1>12, FulfillingWasPaid DEF ChildRead, TablesTyped, PaidInv
  <2>3. u.target = target /\ u.lines = {c}
    BY DEF Update
  <2>4. updates' = updates \cup {u}
    BY <1>12 DEF ChildRead
  <2> HIDE DEF u
  <2>5. QED
    BY <1>12, <2>1, <2>2, <2>3, <2>4 DEF ChildRead, PaidInv
<1>13. ASSUME NEW u \in updates, UpdateCommit(u) PROVE PaidInv'
  <2>1. \A c \in Lines : child'[c] = IF c \in u.lines THEN u.target ELSE child[c]
    BY <1>13 DEF UpdateCommit
  <2>2. \A c \in Lines : child'[c] \in {"paid", "fulfilling"} => c[1] \in paid
    BY <2>1 DEF PaidInv
  <2>3. QED
    BY <1>13, <2>2 DEF UpdateCommit, PaidInv
<1>14. ASSUME NEW o \in Orders, SyncRead(o) \/ QueryRead(o) PROVE PaidInv'
  BY <1>14 DEF SyncRead, QueryRead, PaidInv
<1>15. ASSUME NEW x \in syncs, SyncWrite(x) PROVE PaidInv'
  BY <1>15 DEF SyncWrite, PaidInv
<1>16. CASE UNCHANGED vars
  BY <1>16 DEF vars, PaidInv
<1>17. QED
  BY <1>1, <1>2, <1>3, <1>4, <1>5, <1>6, <1>7, <1>8, <1>9, <1>10, <1>11, <1>12, <1>13,
     <1>14, <1>15, <1>16 DEF Next, Deliver, UpdateStatus, SyncParentStatus

\* No line has a fulfillment record unless its order was paid, however old the
\* status is that a worker or an administrator acts on.
THEOREM NothingDeliveredUnpaid == Spec => []DeliveredOnlyWhenPaid
<1>1. Init => TablesTyped /\ PaidInv
  BY TypeInit, PaidInit
<1>2. TablesTyped /\ PaidInv /\ [Next]_vars => (TablesTyped /\ PaidInv)'
  BY TypeStep, PaidStep
<1>3. PaidInv => DeliveredOnlyWhenPaid
  BY DEF PaidInv
<1>4. QED
  BY <1>1, <1>2, <1>3, PTL DEF Spec

-----------------------------------------------------------------------------
(* Secrets and fulfillment records agree                                   *)

\* The inductive invariant: a line without an automatic record holds no
\* secret, one with it holds its quantity, and a delivery under way has
\* selected nothing or that many.
SecretInv ==
    /\ \A c \in Lines :
          IF fulfillment[c] = "auto" THEN Cardinality(UsedBy(c)) = Quantity[c]
                                     ELSE UsedBy(c) = {}
    /\ \A d \in deliveries : d.picked # {} => Cardinality(d.picked) = Quantity[d.line]

LEMMA SecretInit == Init => SecretInv
BY DEF Init, SecretInv, UsedBy

\* No transaction but AutoCommit's touches a used secret or makes one.
UsedKept ==
    \A s \in Secrets : /\ secret'[s].status = "used" <=> secret[s].status = "used"
                       /\ secret[s].status = "used" => secret'[s] = secret[s]

LEMMA UnchangedKeepsUsed == secret' = secret => UsedKept
BY DEF UsedKept

LEMMA CreateKeepsUsed ==
    ASSUME TablesTyped, NEW o \in Orders, CreateOrder(o)
    PROVE  UsedKept
<1>1. PICK pick \in [LinesOf(o) \cap AutoLines -> SUBSET Free] :
          secret' = [s \in Secrets |->
              IF \E c \in DOMAIN pick : s \in pick[c]
              THEN [status |-> "reserved", line |-> CHOOSE c \in DOMAIN pick : s \in pick[c]]
              ELSE secret[s]]
  BY DEF CreateOrder
<1>2. ASSUME NEW s \in Secrets, \E c \in DOMAIN pick : s \in pick[c]
      PROVE  secret[s].status = "available" /\ secret'[s].status = "reserved"
  BY <1>1, <1>2 DEF Free
<1>3. ASSUME NEW s \in Secrets, ~ \E c \in DOMAIN pick : s \in pick[c]
      PROVE  secret'[s] = secret[s]
  BY <1>1, <1>3
<1>4. QED
  BY <1>2, <1>3 DEF UsedKept

LEMMA UpdateKeepsUsed ==
    ASSUME TablesTyped, NEW u \in updates, UpdateCommit(u)
    PROVE  UsedKept
<1>1. CASE secret' = secret
  BY <1>1, UnchangedKeepsUsed
<1>2. CASE secret' = SecretsReleased(u.lines)
  <2>1. ASSUME NEW s \in Secrets, \E c \in u.lines : s \in ReservedFor(c)
        PROVE  secret[s].status = "reserved" /\ secret'[s].status = "available"
    BY <1>2, <2>1 DEF SecretsReleased, ReservedFor
  <2>2. ASSUME NEW s \in Secrets, ~ \E c \in u.lines : s \in ReservedFor(c)
        PROVE  secret'[s] = secret[s]
    BY <1>2, <2>2 DEF SecretsReleased
  <2>3. QED
    BY <2>1, <2>2 DEF UsedKept
<1>3. QED
  BY <1>1, <1>2 DEF UpdateCommit, pvars

LEMMA KeptUsedBy ==
    ASSUME TablesTyped, TablesTyped', UsedKept, NEW c \in Lines
    PROVE  UsedBy(c)' = UsedBy(c)
<1>1. ASSUME NEW s \in Secrets
      PROVE  secret'[s] = [status |-> "used", line |-> c]
             <=> secret[s] = [status |-> "used", line |-> c]
  BY DEF UsedKept
<1>2. QED
  BY <1>1 DEF UsedBy

\* A delivery that ends leaves its line with what it picked, every other line
\* with what it had.
LEMMA CommitUsedBy ==
    ASSUME TablesTyped, SecretInv, NEW d \in deliveries, AutoCommit(d)
    PROVE  /\ UsedBy(d.line) = {}
           /\ UsedBy(d.line)' = d.picked
           /\ \A c \in Lines \ {d.line} : UsedBy(c)' = UsedBy(c)
<1>1. d.line \in Lines /\ d.picked \in SUBSET Secrets
  BY DEF TablesTyped
<1>2. secret' = [s \in Secrets |->
          IF s \in d.picked THEN [status |-> "used", line |-> d.line] ELSE secret[s]]
  BY DEF AutoCommit
<1>3. UsedBy(d.line) = {}
  BY <1>1 DEF AutoCommit, SecretInv
<1>4. UsedBy(d.line)' = d.picked
  BY <1>1, <1>2, <1>3 DEF UsedBy
<1>5. ASSUME NEW c \in Lines \ {d.line} PROVE UsedBy(c)' = UsedBy(c)
  <2>1. \A s \in d.picked : s \notin UsedBy(c)
    BY <1>5 DEF AutoCommit, Usable, UsedBy
  <2>2. \A s \in d.picked : s \notin UsedBy(c)'
    BY <1>1, <1>2, <1>5 DEF UsedBy
  <2>3. \A s \in Secrets \ d.picked : s \in UsedBy(c)' <=> s \in UsedBy(c)
    BY <1>2 DEF UsedBy
  <2>4. QED
    BY <2>1, <2>2, <2>3 DEF UsedBy
<1>6. QED
  BY <1>3, <1>4, <1>5

\* Steps that keep the used secrets and the automatic records.
LEMMA SecretKept ==
    ASSUME TablesTyped, TablesTyped', SecretInv, UsedKept,
           \A c \in Lines : fulfillment'[c] = "auto" <=> fulfillment[c] = "auto",
           \A d \in deliveries' : d \in deliveries \/ d.picked = {}
    PROVE  SecretInv'
<1>1. \A c \in Lines : UsedBy(c)' = UsedBy(c)
  BY KeptUsedBy
<1>2. QED
  BY <1>1 DEF SecretInv

LEMMA SecretStep == TablesTyped /\ SecretInv /\ [Next]_vars => SecretInv'
<1> SUFFICES ASSUME TablesTyped, SecretInv, [Next]_vars PROVE SecretInv'
  OBVIOUS
<1> USE DEF pvars, wvars
<1>0. TablesTyped'
  BY TypeStep
<1>1. ASSUME NEW o \in Orders, CreateOrder(o) PROVE SecretInv'
  BY <1>0, <1>1, CreateKeepsUsed, SecretKept DEF CreateOrder
<1>2. ASSUME NEW o \in Orders, MarkOrderPaid(o) PROVE SecretInv'
  BY <1>0, <1>2, UnchangedKeepsUsed, SecretKept DEF MarkOrderPaid
<1>3. ASSUME NEW o \in Orders, Dispatch(o) PROVE SecretInv'
  BY <1>0, <1>3, UnchangedKeepsUsed, SecretKept DEF Dispatch
<1>4. ASSUME NEW c \in Lines, AutoStart(c) PROVE SecretInv'
  BY <1>0, <1>4, DeliveryType, UnchangedKeepsUsed, SecretKept DEF AutoStart
<1>5. ASSUME NEW c \in Lines, ManualStart(c) PROVE SecretInv'
  BY <1>0, <1>5, DeliveryType, UnchangedKeepsUsed, SecretKept DEF ManualStart
<1>6. ASSUME NEW d \in deliveries, AutoPick(d) PROVE SecretInv'
  <2>1. PICK S \in Selections(d.line) :
            deliveries' = (deliveries \ {d}) \cup {Delivery(d.line, "auto", S)}
    BY <1>6 DEF AutoPick
  <2>2. Cardinality(S) = Quantity[d.line]
    BY <2>1 DEF Selections
  <2>3. \A c \in Lines : UsedBy(c)' = UsedBy(c)
    BY <1>6 DEF AutoPick, UsedBy
  <2>4. ASSUME NEW e \in deliveries', e.picked # {} PROVE Cardinality(e.picked) = Quantity[e.line]
    BY <2>1, <2>2, <2>4 DEF SecretInv, Delivery
  <2>5. QED
    BY <1>6, <2>3, <2>4 DEF AutoPick, SecretInv
<1>7. ASSUME NEW d \in deliveries, AutoCommit(d) PROVE SecretInv'
  <2>1. d.line \in Lines
    BY DEF TablesTyped
  <2>2. fulfillment' = [fulfillment EXCEPT ![d.line] = "auto"] /\ deliveries' = deliveries \ {d}
    BY <1>7 DEF AutoCommit
  <2>3. Cardinality(UsedBy(d.line)') = Quantity[d.line]
    BY <1>7, CommitUsedBy DEF AutoCommit, SecretInv
  <2>4. fulfillment'[d.line] = "auto"
    BY <2>1, <2>2 DEF TablesTyped
  <2>5. ASSUME NEW c \in Lines \ {d.line}
        PROVE  UsedBy(c)' = UsedBy(c) /\ fulfillment'[c] = fulfillment[c]
    BY <1>7, <2>2, CommitUsedBy DEF TablesTyped
  <2>6. QED
    BY <2>2, <2>3, <2>4, <2>5 DEF SecretInv
<1>8. ASSUME NEW d \in deliveries, ManualCommit(d) PROVE SecretInv'
  <2>1. \A c \in Lines : fulfillment'[c] = "auto" <=> fulfillment[c] = "auto"
    BY <1>8 DEF ManualCommit, TablesTyped
  <2>2. QED
    BY <1>0, <1>8, <2>1, UnchangedKeepsUsed, SecretKept DEF ManualCommit
<1>9. ASSUME NEW d \in deliveries, DeliveryFails(d) PROVE SecretInv'
  BY <1>0, <1>9, UnchangedKeepsUsed, SecretKept DEF DeliveryFails
<1>10. ASSUME NEW o \in Orders, CancelRead(o) PROVE SecretInv'
  BY <1>0, <1>10, UnchangedKeepsUsed, SecretKept DEF CancelRead
<1>11. ASSUME NEW o \in Orders, NEW target \in ParentTargets, ParentRead(o, target)
       PROVE  SecretInv'
  BY <1>0, <1>11, UnchangedKeepsUsed, SecretKept DEF ParentRead
<1>12. ASSUME NEW c \in Lines, NEW target \in ChildTargets, ChildRead(c, target)
       PROVE  SecretInv'
  BY <1>0, <1>12, UnchangedKeepsUsed, SecretKept DEF ChildRead
<1>13. ASSUME NEW u \in updates, UpdateCommit(u) PROVE SecretInv'
  BY <1>0, <1>13, UpdateKeepsUsed, SecretKept DEF UpdateCommit
<1>14. ASSUME NEW o \in Orders, SyncRead(o) \/ QueryRead(o) PROVE SecretInv'
  BY <1>0, <1>14, UnchangedKeepsUsed, SecretKept DEF SyncRead, QueryRead
<1>15. ASSUME NEW x \in syncs, SyncWrite(x) PROVE SecretInv'
  BY <1>0, <1>15, UnchangedKeepsUsed, SecretKept DEF SyncWrite
<1>16. CASE UNCHANGED vars
  BY <1>0, <1>16, UnchangedKeepsUsed, SecretKept DEF vars
<1>17. QED
  BY <1>1, <1>2, <1>3, <1>4, <1>5, <1>6, <1>7, <1>8, <1>9, <1>10, <1>11, <1>12, <1>13,
     <1>14, <1>15, <1>16 DEF Next, Deliver, UpdateStatus, SyncParentStatus

LEMMA SecretInvariant == Spec => [](TablesTyped /\ SecretInv)
<1>1. Init => TablesTyped /\ SecretInv
  BY TypeInit, SecretInit
<1>2. TablesTyped /\ SecretInv /\ [Next]_vars => (TablesTyped /\ SecretInv)'
  BY TypeStep, SecretStep
<1>3. QED
  BY <1>1, <1>2, PTL DEF Spec

\* An automatically delivered line has exactly the secrets it was sold for and
\* no other line has any, for any number of workers, retries and cancellations.
THEOREM SecretsAlwaysMatch == Spec => []SecretsMatchFulfillment
<1>1. SecretInv => SecretsMatchFulfillment
  BY FS_EmptySet DEF SecretInv, SecretsMatchFulfillment
<1>2. QED
  BY <1>1, SecretInvariant, PTL

-----------------------------------------------------------------------------
(* The tables implement SecretDelivery                                     *)

Holder == [s \in Secrets |-> IF secret[s].status = "used" THEN secret[s].line ELSE Nobody]

DeliveredLines == {c \in Lines : fulfillment[c] = "auto"}

MappedStep == [Secret!DeliveryNext]_(Secret!dvars)

\* Every action but AutoCommit is a stutter of the promise.
LEMMA StutterMapped ==
    ASSUME UsedKept, \A c \in Lines : fulfillment'[c] = "auto" <=> fulfillment[c] = "auto"
    PROVE  MappedStep
<1>1. Holder' = Holder
  BY DEF Holder, UsedKept
<1>2. DeliveredLines' = DeliveredLines
  BY DEF DeliveredLines
<1>3. QED
  BY <1>1, <1>2 DEF MappedStep, Secret!dvars, Holder, DeliveredLines

\* AutoCommit is the delivery of what it picked.
LEMMA CommitMapped ==
    ASSUME TablesTyped, SecretInv, NEW d \in deliveries, AutoCommit(d)
    PROVE  MappedStep
<1>1. d.line \in Lines /\ d.picked \in SUBSET Secrets
  BY DEF TablesTyped
<1>2. d.line \notin DeliveredLines
  BY DEF AutoCommit, DeliveredLines
<1>3. \A s \in d.picked : Holder[s] = Nobody
  BY <1>1 DEF AutoCommit, Usable, Holder
<1>4. Cardinality(d.picked) = Quantity[d.line]
  BY DEF AutoCommit, SecretInv
<1>5. Holder' = [s \in Secrets |-> IF s \in d.picked THEN d.line ELSE Holder[s]]
  BY <1>1 DEF AutoCommit, Holder
<1>6. DeliveredLines' = DeliveredLines \cup {d.line}
  BY <1>1 DEF AutoCommit, DeliveredLines, TablesTyped
<1>7. Secret!Cardinality(d.picked) = Cardinality(d.picked)
  BY DEF Secret!Cardinality, Cardinality
<1>8. Secret!Deliver(d.line, d.picked)
  BY <1>2, <1>3, <1>4, <1>5, <1>6, <1>7 DEF Secret!Deliver, Holder, DeliveredLines
<1>9. QED
  BY <1>1, <1>8 DEF MappedStep, Secret!DeliveryNext

LEMMA EveryStepMapped == TablesTyped /\ SecretInv /\ [Next]_vars => MappedStep
<1> SUFFICES ASSUME TablesTyped, SecretInv, [Next]_vars PROVE MappedStep
  OBVIOUS
<1> USE DEF pvars, wvars
<1>1. ASSUME NEW o \in Orders, CreateOrder(o) PROVE MappedStep
  BY <1>1, CreateKeepsUsed, StutterMapped DEF CreateOrder
<1>2. ASSUME NEW u \in updates, UpdateCommit(u) PROVE MappedStep
  BY <1>2, UpdateKeepsUsed, StutterMapped DEF UpdateCommit
<1>3. ASSUME NEW d \in deliveries, AutoCommit(d) PROVE MappedStep
  BY <1>3, CommitMapped
<1>4. ASSUME NEW d \in deliveries, ManualCommit(d) PROVE MappedStep
  <2>1. \A c \in Lines : fulfillment'[c] = "auto" <=> fulfillment[c] = "auto"
    BY <1>4 DEF ManualCommit, TablesTyped
  <2>2. QED
    BY <1>4, <2>1, UnchangedKeepsUsed, StutterMapped DEF ManualCommit
<1>5. ASSUME secret' = secret, fulfillment' = fulfillment PROVE MappedStep
  BY <1>5, UnchangedKeepsUsed, StutterMapped
<1>6. ASSUME NEW o \in Orders, MarkOrderPaid(o) \/ Dispatch(o) PROVE MappedStep
  BY <1>5, <1>6 DEF MarkOrderPaid, Dispatch
<1>7. ASSUME NEW c \in Lines, AutoStart(c) \/ ManualStart(c) PROVE MappedStep
  BY <1>5, <1>7 DEF AutoStart, ManualStart
<1>8. ASSUME NEW d \in deliveries, AutoPick(d) \/ DeliveryFails(d) PROVE MappedStep
  BY <1>5, <1>8 DEF AutoPick, DeliveryFails
<1>9. ASSUME NEW o \in Orders, CancelRead(o) PROVE MappedStep
  BY <1>5, <1>9 DEF CancelRead
<1>10. ASSUME NEW o \in Orders, NEW target \in ParentTargets, ParentRead(o, target)
       PROVE  MappedStep
  BY <1>5, <1>10 DEF ParentRead
<1>11. ASSUME NEW c \in Lines, NEW target \in ChildTargets, ChildRead(c, target)
       PROVE  MappedStep
  BY <1>5, <1>11 DEF ChildRead
<1>12. ASSUME NEW o \in Orders, SyncRead(o) \/ QueryRead(o) PROVE MappedStep
  BY <1>5, <1>12 DEF SyncRead, QueryRead
<1>13. ASSUME NEW x \in syncs, SyncWrite(x) PROVE MappedStep
  BY <1>5, <1>13 DEF SyncWrite
<1>14. CASE UNCHANGED vars
  BY <1>5, <1>14 DEF vars
<1>15. QED
  BY <1>1, <1>2, <1>3, <1>4, <1>6, <1>7, <1>8, <1>9, <1>10, <1>11, <1>12, <1>13, <1>14
     DEF Next, Deliver, UpdateStatus, SyncParentStatus

\* The card_secrets and fulfillments tables keep the promise of automatic
\* delivery: each line once, its exact quantity, and each secret for good.
THEOREM TablesImplementDelivery == Spec => ImplementsDelivery
<1>1. Init => Secret!DeliveryInit
  BY DEF Init, Secret!DeliveryInit
<1>2. TablesTyped /\ SecretInv /\ [Next]_vars => [Secret!DeliveryNext]_(Secret!dvars)
  BY EveryStepMapped DEF MappedStep
<1>3. QED
  BY <1>1, <1>2, SecretInvariant, PTL DEF Spec, ImplementsDelivery, Secret!DeliverySpec

(* Where an order stands                                                   *)

NotCreated(o) ==
    /\ o \notin paid /\ parent[o] = "none"
    /\ \A c \in LinesOf(o) : child[c] = "none"

Unpaid(o) ==
    /\ o \notin paid /\ parent[o] \in {"pending_payment", "canceled"}
    /\ \A c \in LinesOf(o) : child[c] \in {"pending_payment", "canceled"}
    /\ parent[o] = "canceled" => \A c \in LinesOf(o) : child[c] = "canceled"

Sold(o) ==
    /\ o \in paid /\ parent[o] \notin {"none", "pending_payment"}
    /\ \A c \in LinesOf(o) : child[c] \notin {"none", "pending_payment"}

Stage(o) == NotCreated(o) \/ Unpaid(o) \/ Sold(o)

\* An update under way: an unpaid order can only be canceled, and as a whole.
UpdateStage(u) ==
    /\ parent[u.order] # "none"
    /\ u.lines \subseteq LinesOf(u.order)
    /\ u.target \notin {"pending_payment", "paid"}
    /\ u.order \notin paid => u.target = "canceled"
    /\ u.whole /\ u.target = "canceled" => u.lines = LinesOf(u.order)

\* A summary under way: an unpaid order's is due or says canceled, rightly.
SyncStage(x) ==
    /\ parent[x.order] # "none"
    /\ x.status # "pending_payment"
    /\ x.order \notin paid =>
          \/ x.status = "due"
          \/ x.status = "canceled" /\ \A c \in LinesOf(x.order) : child[c] = "canceled"

\* The inductive invariant.
StageInv ==
    /\ \A o \in Orders : Stage(o)
    /\ \A u \in updates : UpdateStage(u)
    /\ \A x \in syncs : SyncStage(x)

\* The part of TypeOK that TablesTyped leaves out, but for the stock.
RestTyped ==
    /\ parent \in [Orders -> StatusOrNone]
    /\ dispatches \subseteq Orders
    /\ tasks \in [Lines -> 0 .. MaxTries]
    /\ syncs \subseteq [order : Orders, status : OrderStatus \cup {"due"}]

LinesTyped == TablesTyped /\ RestTyped

LEMMA DueType ==
    ASSUME NEW o \in Orders
    PROVE  /\ Due(o) \in [order : Orders, status : OrderStatus \cup {"due"}]
           /\ Due(o).order = o /\ Due(o).status = "due"
BY DEF Due

\* A summary is a status, or what the parent had.
LEMMA SummaryType == \A S, current : Summary(S, current) \in OrderStatus \cup {current}
BY DEF Summary, OrderStatus

\* A summary says pending only if a line or the parent did, and canceled for
\* an order with no line beyond it only if every line is.
LEMMA SummaryOfPaid ==
    ASSUME NEW S, NEW current, "pending_payment" \notin S, current # "pending_payment"
    PROVE  Summary(S, current) # "pending_payment"
BY DEF Summary

LEMMA SummaryOfUnpaid ==
    ASSUME NEW S, NEW current, S \subseteq {"pending_payment", "canceled"}, S # {}
    PROVE  Summary(S, current) = IF S = {"canceled"} THEN "canceled" ELSE "pending_payment"
<1>1. CASE S = {"canceled"}
  BY <1>1 DEF Summary
<1>2. CASE S # {"canceled"}
  <2>1. "pending_payment" \in S
    BY <1>2
  <2>2. S # {"refunded"} /\ S # {"completed"} /\ ~(S \subseteq {"delivered", "completed"})
    BY <2>1
  <2>3. S \cap {"refunded", "partially_refunded"} = {} /\ S \cap {"delivered", "completed"} = {}
    OBVIOUS
  <2>4. "fulfilling" \notin S /\ "paid" \notin S
    OBVIOUS
  <2>5. QED
    BY <1>2, <2>1, <2>2, <2>3, <2>4 DEF Summary
<1>3. QED
  BY <1>1, <1>2

\* Every order has a line.
LEMMA SomeLine == \A o \in Orders : LinesOf(o) # {}
BY LinesAssumption DEF LinesOf

LEMMA LineOfOrder == \A c \in Lines : c \in LinesOf(c[1])
BY DEF LinesOf

LEMMA StageInit == Init => StageInv /\ RestTyped
BY BoundsAssumption DEF Init, StageInv, RestTyped, Stage, NotCreated, LinesOf, StatusOrNone

-----------------------------------------------------------------------------
(* Frames                                                                  *)

\* An order whose rows a step leaves alone keeps its stage.
LEMMA StageKept ==
    ASSUME NEW o \in Orders, Stage(o), parent'[o] = parent[o], o \in paid' <=> o \in paid,
           \A c \in LinesOf(o) : child'[c] = child[c]
    PROVE  Stage(o)'
BY DEF Stage, NotCreated, Unpaid, Sold, LinesOf

\* The records of requests under way stay right.
LEMMA RecordsKept ==
    ASSUME LinesTyped, StageInv, paid \subseteq paid',
           \A o \in Orders : parent[o] # "none" => parent'[o] # "none",
           \A c \in Lines : c[1] \notin paid' /\ child[c] = "canceled" => child'[c] = "canceled"
    PROVE  /\ \A u \in updates : UpdateStage(u)'
           /\ \A x \in syncs : SyncStage(x)'
<1>1. ASSUME NEW u \in updates PROVE UpdateStage(u)'
  <2>1. u.order \in Orders /\ UpdateStage(u)
    BY DEF LinesTyped, TablesTyped, StageInv
  <2>2. QED
    BY <2>1 DEF UpdateStage, LinesOf
<1>2. ASSUME NEW x \in syncs PROVE SyncStage(x)'
  <2>1. x.order \in Orders /\ SyncStage(x)
    BY DEF LinesTyped, RestTyped, StageInv
  <2>2. \A c \in LinesOf(x.order) : c \in Lines /\ c[1] = x.order
    BY DEF LinesOf
  <2>3. QED
    BY <2>1, <2>2 DEF SyncStage, LinesOf
<1>3. QED
  BY <1>1, <1>2

\* Steps that leave the statuses and the payments alone.
LEMMA AllKept ==
    ASSUME LinesTyped, StageInv, UNCHANGED <<parent, child, paid>>,
           \A u \in updates' : u \in updates \/ UpdateStage(u),
           \A x \in syncs' : x \in syncs \/ SyncStage(x)
    PROVE  StageInv'
<1>1. \A o \in Orders : Stage(o)'
  BY StageKept DEF StageInv
<1>2. ASSUME NEW u \in updates' PROVE UpdateStage(u)'
  <2>1. UpdateStage(u)
    BY DEF StageInv
  <2>2. QED
    BY <2>1 DEF UpdateStage, LinesOf
<1>3. ASSUME NEW x \in syncs' PROVE SyncStage(x)'
  <2>1. SyncStage(x)
    BY DEF StageInv
  <2>2. QED
    BY <2>1 DEF SyncStage, LinesOf
<1>4. QED
  BY <1>1, <1>2, <1>3 DEF StageInv

-----------------------------------------------------------------------------
(* Every step keeps the stages                                             *)

LEMMA CreateStage ==
    ASSUME LinesTyped, StageInv, NEW o \in Orders, CreateOrder(o)
    PROVE  StageInv'
<1>1. /\ parent[o] = "none" /\ paid' = paid /\ updates' = updates /\ syncs' = syncs
      /\ parent' = [parent EXCEPT ![o] = "pending_payment"]
      /\ child' = [c \in Lines |-> IF c[1] = o THEN "pending_payment" ELSE child[c]]
  BY DEF CreateOrder
<1>2. NotCreated(o)
  BY <1>1 DEF StageInv, Stage, Unpaid, Sold
<1>3. \A p \in Orders : parent'[p] = IF p = o THEN "pending_payment" ELSE parent[p]
  BY <1>1 DEF LinesTyped, RestTyped
<1>4. ASSUME NEW p \in Orders PROVE Stage(p)'
  <2>1. CASE p = o
    <3>1. \A c \in LinesOf(o) : child'[c] = "pending_payment"
      BY <1>1 DEF LinesOf
    <3>2. QED
      BY <1>1, <1>2, <1>3, <2>1, <3>1 DEF Stage, NotCreated, Unpaid, LinesOf
  <2>2. CASE p # o
    <3>1. \A c \in LinesOf(p) : child'[c] = child[c]
      BY <1>1, <2>2 DEF LinesOf
    <3>2. QED
      BY <1>1, <1>3, <2>2, <3>1, StageKept DEF StageInv
  <2>3. QED
    BY <2>1, <2>2
<1>5. \A p \in Orders : parent[p] # "none" => parent'[p] # "none"
  BY <1>3
<1>6. \A c \in Lines : child[c] = "canceled" => child'[c] = "canceled"
  BY <1>1, <1>2 DEF NotCreated, LinesOf
<1>7. QED
  BY <1>1, <1>4, <1>5, <1>6, RecordsKept DEF StageInv

\* What the parent of a paid order becomes.
LEMMA PaidParent ==
    ASSUME LinesTyped, NEW o \in Orders, MarkOrderPaid(o)
    PROVE  /\ parent'[o] \in {"paid", "fulfilling"}
           /\ \A p \in Orders \ {o} : parent'[p] = parent[p]
           /\ \A c \in LinesOf(o) : child'[c] \in {"paid", "fulfilling"}
           /\ \A c \in Lines : c[1] # o => child'[c] = child[c]
<1>1. child' = [c \in Lines |->
          IF c[1] # o THEN child[c] ELSE IF c \in AutoLines THEN "paid" ELSE "fulfilling"]
  BY PaidChildren DEF LinesTyped, TablesTyped
<1> DEFINE statuses == {child'[c] : c \in LinesOf(o)}
<1>2. parent' = [parent EXCEPT ![o] = Summary(statuses, "paid")]
  <2>1. parent' = [parent EXCEPT ![o] = Summary({[d \in Lines |->
            IF d[1] # o THEN child[d] ELSE IF d \in AutoLines THEN "paid" ELSE "fulfilling"][c]
                : c \in LinesOf(o)}, "paid")]
    BY DEF MarkOrderPaid
  <2>2. QED
    BY <1>1, <2>1
<1>3. \A c \in LinesOf(o) : child'[c] \in {"paid", "fulfilling"}
  BY <1>1 DEF LinesOf
<1>4. statuses \subseteq {"paid", "fulfilling"} /\ statuses # {}
  BY <1>3, SomeLine
<1> HIDE DEF statuses
<1>5. Summary(statuses, "paid") \in {"paid", "fulfilling"}
  <2>1. \E s \in {"paid", "fulfilling"} : s \in statuses
    BY <1>4
  <2>2. /\ statuses # {"canceled"} /\ statuses # {"refunded"} /\ statuses # {"completed"}
        /\ ~(statuses \subseteq {"delivered", "completed"})
    BY <1>4, <2>1
  <2>3. /\ statuses \cap {"refunded", "partially_refunded"} = {}
        /\ statuses \cap {"delivered", "completed"} = {}
    BY <1>4
  <2>4. QED
    BY <2>1, <2>2, <2>3 DEF Summary
<1>6. QED
  BY <1>1, <1>2, <1>3, <1>5 DEF LinesTyped, RestTyped

LEMMA PaidStage ==
    ASSUME LinesTyped, StageInv, NEW o \in Orders, MarkOrderPaid(o)
    PROVE  StageInv'
<1>1. /\ parent[o] = "pending_payment" /\ paid' = paid \cup {o}
      /\ updates' = updates /\ syncs' = syncs
  BY DEF MarkOrderPaid
<1>2. ASSUME NEW p \in Orders PROVE Stage(p)'
  <2>1. CASE p = o
    BY <1>1, <2>1, PaidParent DEF Stage, Sold, LinesOf
  <2>2. CASE p # o
    <3>1. \A c \in LinesOf(p) : child'[c] = child[c]
      BY <2>2, PaidParent DEF LinesOf
    <3>2. QED
      BY <1>1, <2>2, <3>1, PaidParent, StageKept DEF StageInv
  <2>3. QED
    BY <2>1, <2>2
<1>3. \A p \in Orders : parent[p] # "none" => parent'[p] # "none"
  BY PaidParent
<1>4. \A c \in Lines : c[1] \notin paid' /\ child[c] = "canceled" => child'[c] = "canceled"
  BY <1>1, PaidParent
<1>5. QED
  BY <1>1, <1>2, <1>3, <1>4, RecordsKept DEF StageInv

\* A status written to a line.
LEMMA LineStage ==
    ASSUME LinesTyped, StageInv, NEW c \in Lines, c[1] \in paid,
           NEW status \in StatusOrNone \ {"none", "pending_payment"},
           child' = [child EXCEPT ![c] = status], UNCHANGED <<parent, paid, updates>>,
           \A x \in syncs' : x \in syncs \/ x = Due(c[1])
    PROVE  StageInv'
<1>1. \A e \in Lines : child'[e] = IF e = c THEN status ELSE child[e]
  BY DEF LinesTyped, TablesTyped
<1>2. Sold(c[1])
  BY LineOrder DEF StageInv, Stage, NotCreated, Unpaid
<1>3. ASSUME NEW p \in Orders PROVE Stage(p)'
  <2>1. CASE p = c[1]
    BY <1>1, <1>2, <2>1 DEF Stage, Sold, LinesOf
  <2>2. CASE p # c[1]
    <3>1. \A e \in LinesOf(p) : child'[e] = child[e]
      BY <1>1, <2>2 DEF LinesOf
    <3>2. QED
      BY <3>1, StageKept DEF StageInv
  <2>3. QED
    BY <2>1, <2>2
<1>4. \A e \in Lines : e[1] \notin paid' /\ child[e] = "canceled" => child'[e] = "canceled"
  BY <1>1
<1>5. (\A u \in updates : UpdateStage(u)') /\ (\A x \in syncs : SyncStage(x)')
  BY <1>4, RecordsKept
<1>6. SyncStage(Due(c[1]))'
  BY <1>2, DueType, LineOrder DEF SyncStage, Sold
<1>7. QED
  BY <1>3, <1>5, <1>6 DEF StageInv

LEMMA CancelReadStage ==
    ASSUME NEW o \in Orders, CancelRead(o)
    PROVE  UpdateStage(Update(o, TRUE, "canceled", LinesOf(o)))
BY DEF CancelRead, UpdateStage, Update

\* An administrator's update of an order that is not paid finds no line to
\* take to its target.
LEMMA ParentReadStage ==
    ASSUME LinesTyped, StageInv, NEW o \in Orders, NEW target \in ParentTargets,
           ParentRead(o, target)
    PROVE  UpdateStage(Update(o, TRUE, target, {c \in LinesOf(o) : child[c] # target}))
<1>1. target \in {"completed", "partially_refunded", "refunded"}
  BY TargetsAssumption DEF ParentRead
<1>2. parent[o] # "none"
  BY DEF ParentRead
<1>3. o \in paid
  <2>1. SUFFICES ASSUME o \notin paid PROVE FALSE
    OBVIOUS
  <2>2. Unpaid(o)
    BY <1>2, <2>1 DEF StageInv, Stage, NotCreated, Sold
  <2>3. PICK c \in LinesOf(o) : TRUE
    BY SomeLine
  <2>4. child[c] \in {"pending_payment", "canceled"}
    BY <2>2, <2>3 DEF Unpaid
  <2>5. c \in {e \in LinesOf(o) : child[e] # target}
    BY <1>1, <2>3, <2>4
  <2>6. target # "completed"
    BY <2>2 DEF Unpaid, ParentRead
  <2>7. target \in Allowed(child[c])
    BY <2>5, <2>6 DEF ParentRead
  <2>8. QED
    BY <1>1, <2>4, <2>7 DEF Allowed
<1>4. QED
  BY <1>1, <1>2, <1>3 DEF UpdateStage, Update, LinesOf

LEMMA ChildReadStage ==
    ASSUME LinesTyped, StageInv, NEW c \in Lines, NEW target \in ChildTargets,
           ChildRead(c, target)
    PROVE  UpdateStage(Update(c[1], FALSE, target, {c}))
<1>1. target \notin {"paid", "pending_payment"}
  BY TargetsAssumption
<1>2. child[c] # "none" /\ target \in Allowed(child[c])
  BY DEF ChildRead
<1>3. parent[c[1]] # "none"
  BY <1>2, LineOrder, LineOfOrder DEF StageInv, Stage, NotCreated, Unpaid, Sold
<1>4. c[1] \notin paid => target = "canceled"
  <2>1. SUFFICES ASSUME c[1] \notin paid PROVE target = "canceled"
    OBVIOUS
  <2>2. child[c] \in {"pending_payment", "canceled"}
    BY <1>2, <2>1, LineOrder, LineOfOrder DEF StageInv, Stage, NotCreated, Unpaid, Sold
  <2>3. QED
    BY <1>1, <1>2, <2>2 DEF Allowed
<1>5. {c} \subseteq LinesOf(c[1])
  BY LineOfOrder
<1>6. QED
  BY <1>1, <1>3, <1>4, <1>5 DEF UpdateStage, Update

LEMMA UpdateCommitStage ==
    ASSUME LinesTyped, StageInv, NEW u \in updates, UpdateCommit(u)
    PROVE  StageInv'
<1> DEFINE o == u.order
<1>1. /\ o \in Orders /\ u.target \in OrderStatus /\ u.lines \in SUBSET Lines
      /\ u.whole \in BOOLEAN
  BY DEF LinesTyped, TablesTyped
<1>2. UpdateStage(u)
  BY DEF StageInv
<1>3. /\ \A c \in Lines : child'[c] = IF c \in u.lines THEN u.target ELSE child[c]
      /\ paid' = paid
      /\ u.whole => parent' = [parent EXCEPT ![o] = u.target] /\ syncs' = syncs
      /\ ~u.whole => parent' = parent /\ syncs' = syncs \cup {Due(o)}
      /\ updates' \subseteq updates
  BY DEF UpdateCommit
<1>4. \A p \in Orders : parent'[p] = IF p = o /\ u.whole THEN u.target ELSE parent[p]
  BY <1>1, <1>3 DEF LinesTyped, RestTyped
<1>5. u.target # "none" /\ u.target # "pending_payment"
  BY <1>1, <1>2 DEF OrderStatus, UpdateStage
<1>6. ASSUME NEW p \in Orders PROVE Stage(p)'
  <2>1. CASE p # o
    <3>1. \A c \in LinesOf(p) : child'[c] = child[c]
      BY <1>2, <1>3, <2>1 DEF UpdateStage, LinesOf
    <3>2. QED
      BY <1>3, <1>4, <2>1, <3>1, StageKept DEF StageInv
  <2>2. CASE p = o /\ o \in paid
    <3>1. Sold(o)
      BY <1>1, <2>2 DEF StageInv, Stage, NotCreated, Unpaid
    <3>2. \A c \in LinesOf(o) : child'[c] \notin {"none", "pending_payment"}
      BY <1>3, <1>5, <3>1 DEF Sold, LinesOf
    <3>3. parent'[o] \notin {"none", "pending_payment"}
      BY <1>1, <1>4, <1>5, <3>1 DEF Sold
    <3>4. QED
      BY <1>3, <2>2, <3>2, <3>3 DEF Stage, Sold, LinesOf
  <2>3. CASE p = o /\ o \notin paid
    <3>1. Unpaid(o)
      BY <1>1, <1>2, <2>3 DEF StageInv, Stage, NotCreated, Sold, UpdateStage
    <3>2. u.target = "canceled" /\ (u.whole => u.lines = LinesOf(o))
      BY <1>2, <2>3 DEF UpdateStage
    <3>3. \A c \in LinesOf(o) : /\ child'[c] \in {"pending_payment", "canceled"}
                                /\ child[c] = "canceled" => child'[c] = "canceled"
                                /\ u.whole => child'[c] = "canceled"
      BY <1>3, <3>1, <3>2 DEF Unpaid, LinesOf
    <3>4. parent'[o] \in {"pending_payment", "canceled"}
      BY <1>1, <1>4, <3>1, <3>2 DEF Unpaid
    <3>5. parent'[o] = "canceled" => \A c \in LinesOf(o) : child'[c] = "canceled"
      BY <1>1, <1>4, <3>1, <3>3 DEF Unpaid
    <3>6. QED
      BY <1>3, <2>3, <3>3, <3>4, <3>5 DEF Stage, Unpaid, LinesOf
  <2>4. QED
    BY <2>1, <2>2, <2>3
<1>7. \A p \in Orders : parent[p] # "none" => parent'[p] # "none"
  BY <1>4, <1>5
<1>8. \A c \in Lines : c[1] \notin paid' /\ child[c] = "canceled" => child'[c] = "canceled"
  <2>1. SUFFICES ASSUME NEW c \in Lines, c[1] \notin paid, child[c] = "canceled"
                 PROVE  child'[c] = "canceled"
    BY <1>3
  <2>2. c \in u.lines => c[1] = o
    BY <1>2 DEF UpdateStage, LinesOf
  <2>3. QED
    BY <1>2, <1>3, <2>1, <2>2 DEF UpdateStage
<1>9. (\A v \in updates : UpdateStage(v)') /\ (\A x \in syncs : SyncStage(x)')
  BY <1>3, <1>7, <1>8, RecordsKept
<1>10. SyncStage(Due(o))'
  BY <1>1, <1>2, <1>7, DueType DEF SyncStage, UpdateStage
<1>11. ASSUME NEW x \in syncs' PROVE SyncStage(x)'
  BY <1>1, <1>3, <1>9, <1>10
<1>12. QED
  BY <1>3, <1>6, <1>9, <1>11 DEF StageInv

\* A summary of an order's lines is right when it is read.
LEMMA SummaryStage ==
    ASSUME LinesTyped, StageInv, NEW o \in Orders, parent[o] # "none",
           ParentStatus(o) # parent[o]
    PROVE  /\ SyncStage([order |-> o, status |-> ParentStatus(o)])
           /\ ParentStatus(o) \in OrderStatus
<1> DEFINE statuses == {child[c] : c \in LinesOf(o)}
           x == [order |-> o, status |-> ParentStatus(o)]
<1>1. ParentStatus(o) = Summary(statuses, parent[o])
  BY DEF ParentStatus
<1>2. ParentStatus(o) \in OrderStatus
  BY <1>1, SummaryType
<1>3. CASE o \in paid
  <2>1. Sold(o)
    BY <1>3 DEF StageInv, Stage, NotCreated, Unpaid
  <2>2. "pending_payment" \notin statuses /\ parent[o] # "pending_payment"
    BY <2>1 DEF Sold
  <2>3. ParentStatus(o) # "pending_payment"
    BY <1>1, <2>2, SummaryOfPaid
  <2>4. QED
    BY <1>2, <1>3, <2>3 DEF SyncStage
<1>4. CASE o \notin paid
  <2>1. Unpaid(o)
    BY <1>4 DEF StageInv, Stage, NotCreated, Sold
  <2>2. statuses \subseteq {"pending_payment", "canceled"} /\ statuses # {}
    BY <2>1, SomeLine DEF Unpaid
  <2>3. ParentStatus(o) = IF statuses = {"canceled"} THEN "canceled" ELSE "pending_payment"
    BY <1>1, <2>2, SummaryOfUnpaid
  <2>4. statuses = {"canceled"} /\ ParentStatus(o) = "canceled"
    <3>1. SUFFICES ASSUME statuses # {"canceled"} PROVE FALSE
      BY <2>3
    <3>2. parent[o] # "pending_payment"
      BY <2>3, <3>1
    <3>3. \A c \in LinesOf(o) : child[c] = "canceled"
      BY <2>1, <3>2 DEF Unpaid
    <3>4. QED
      BY <2>2, <3>1, <3>3
  <2>5. \A c \in LinesOf(o) : child[c] = "canceled"
    BY <2>4
  <2>6. QED
    BY <1>2, <2>4, <2>5 DEF SyncStage
<1>5. QED
  BY <1>3, <1>4

LEMMA SyncReadStage ==
    ASSUME LinesTyped, StageInv, NEW o \in Orders, SyncRead(o) \/ QueryRead(o)
    PROVE  \A x \in syncs' : x \in syncs \/ (SyncStage(x) /\ x.order = o /\ x.status \in OrderStatus)
<1>1. SUFFICES ASSUME NEW x \in syncs', x \notin syncs
               PROVE  SyncStage(x) /\ x.order = o /\ x.status \in OrderStatus
  OBVIOUS
<1>2. x = [order |-> o, status |-> ParentStatus(o)] /\ ParentStatus(o) # parent[o]
  BY <1>1 DEF SyncRead, QueryRead
<1>3. parent[o] # "none"
  <2>1. CASE QueryRead(o)
    BY <2>1 DEF QueryRead
  <2>2. CASE SyncRead(o)
    BY <2>2, DueType DEF SyncRead, StageInv, SyncStage
  <2>3. QED
    BY <2>1, <2>2
<1>4. QED
  BY <1>2, <1>3, SummaryStage

LEMMA SyncWriteStage ==
    ASSUME LinesTyped, StageInv, NEW x \in syncs, SyncWrite(x)
    PROVE  StageInv'
<1> DEFINE o == x.order
<1>1. o \in Orders /\ x.status \in OrderStatus /\ SyncStage(x)
  BY DEF LinesTyped, RestTyped, StageInv, SyncWrite
<1>2. /\ parent' = [parent EXCEPT ![o] = x.status] /\ syncs' \subseteq syncs
      /\ paid' = paid /\ child' = child /\ updates' = updates /\ x.status # "due"
  BY DEF SyncWrite
<1>3. \A p \in Orders : parent'[p] = IF p = o THEN x.status ELSE parent[p]
  BY <1>1, <1>2 DEF LinesTyped, RestTyped
<1>4. x.status # "none" /\ x.status # "pending_payment"
  BY <1>1 DEF OrderStatus, SyncStage
<1>5. ASSUME NEW p \in Orders PROVE Stage(p)'
  <2>1. CASE p # o
    BY <1>2, <1>3, <2>1, StageKept DEF StageInv
  <2>2. CASE p = o /\ o \in paid
    <3>1. Sold(o)
      BY <1>1, <2>2 DEF StageInv, Stage, NotCreated, Unpaid
    <3>2. QED
      BY <1>1, <1>2, <1>3, <1>4, <2>2, <3>1 DEF Stage, Sold, LinesOf
  <2>3. CASE p = o /\ o \notin paid
    <3>1. Unpaid(o)
      BY <1>1, <2>3 DEF StageInv, Stage, NotCreated, Sold, SyncStage
    <3>2. x.status = "canceled" /\ \A c \in LinesOf(o) : child[c] = "canceled"
      BY <1>1, <1>2, <2>3 DEF SyncStage
    <3>3. QED
      BY <1>1, <1>2, <1>3, <2>3, <3>1, <3>2 DEF Stage, Unpaid, LinesOf
  <2>4. QED
    BY <2>1, <2>2, <2>3
<1>6. \A p \in Orders : parent[p] # "none" => parent'[p] # "none"
  BY <1>3, <1>4
<1>7. QED
  BY <1>2, <1>5, <1>6, RecordsKept DEF StageInv

\* Requests that only read, and steps that write no status.
LEMMA QuietStage ==
    ASSUME LinesTyped, StageInv, UNCHANGED <<parent, child, paid>>,
           updates' = updates, syncs' = syncs
    PROVE  StageInv'
BY AllKept

LEMMA StageStep == LinesTyped /\ PaidInv /\ StageInv /\ [Next]_vars => StageInv'
<1> SUFFICES ASSUME LinesTyped, PaidInv, StageInv, [Next]_vars PROVE StageInv'
  OBVIOUS
<1> USE DEF pvars, wvars
<1>1. ASSUME NEW o \in Orders, CreateOrder(o) PROVE StageInv'
  BY <1>1, CreateStage
<1>2. ASSUME NEW o \in Orders, MarkOrderPaid(o) PROVE StageInv'
  BY <1>2, PaidStage
<1>3. ASSUME NEW o \in Orders, Dispatch(o) PROVE StageInv'
  BY <1>3, QuietStage DEF Dispatch
<1>4. ASSUME NEW c \in Lines, AutoStart(c) \/ ManualStart(c) PROVE StageInv'
  BY <1>4, QuietStage DEF AutoStart, ManualStart
<1>5. ASSUME NEW d \in deliveries, AutoPick(d) \/ DeliveryFails(d) PROVE StageInv'
  BY <1>5, QuietStage DEF AutoPick, DeliveryFails
<1>6. ASSUME NEW d \in deliveries, AutoCommit(d) \/ ManualCommit(d) PROVE StageInv'
  <2>1. d.line \in Lines /\ d.line[1] \in paid
    BY DEF LinesTyped, TablesTyped, PaidInv
  <2>2. {"completed", "delivered"} \subseteq StatusOrNone \ {"none", "pending_payment"}
    BY DEF StatusOrNone, OrderStatus
  <2>3. \A x \in syncs' : x \in syncs \/ x = Due(d.line[1])
    BY <1>6 DEF AutoCommit, ManualCommit
  <2>4. CASE AutoCommit(d)
    BY <2>1, <2>2, <2>3, <2>4, LineStage DEF AutoCommit
  <2>5. CASE ManualCommit(d)
    BY <2>1, <2>2, <2>3, <2>5, LineStage DEF ManualCommit
  <2>6. QED
    BY <1>6, <2>4, <2>5
<1>7. ASSUME NEW o \in Orders, CancelRead(o) PROVE StageInv'
  BY <1>7, CancelReadStage, AllKept DEF CancelRead
<1>8. ASSUME NEW o \in Orders, NEW target \in ParentTargets, ParentRead(o, target)
      PROVE  StageInv'
  BY <1>8, ParentReadStage, AllKept DEF ParentRead
<1>9. ASSUME NEW c \in Lines, NEW target \in ChildTargets, ChildRead(c, target)
      PROVE  StageInv'
  BY <1>9, ChildReadStage, AllKept DEF ChildRead
<1>10. ASSUME NEW u \in updates, UpdateCommit(u) PROVE StageInv'
  BY <1>10, UpdateCommitStage
<1>11. ASSUME NEW o \in Orders, SyncRead(o) \/ QueryRead(o) PROVE StageInv'
  BY <1>11, SyncReadStage, AllKept DEF SyncRead, QueryRead
<1>12. ASSUME NEW x \in syncs, SyncWrite(x) PROVE StageInv'
  BY <1>12, SyncWriteStage
<1>13. CASE UNCHANGED vars
  BY <1>13, QuietStage DEF vars
<1>14. QED
  BY <1>1, <1>2, <1>3, <1>4, <1>5, <1>6, <1>7, <1>8, <1>9, <1>10, <1>11, <1>12, <1>13
     DEF Next, Deliver, UpdateStatus, SyncParentStatus

LEMMA RestStep ==
    LinesTyped /\ StageInv /\ [Next]_vars => RestTyped'
<1> SUFFICES ASSUME LinesTyped, StageInv, [Next]_vars PROVE RestTyped'
  OBVIOUS
<1> USE DEF pvars, wvars
<1>1. ASSUME NEW o \in Orders, CreateOrder(o) PROVE RestTyped'
  <2>1. "pending_payment" \in StatusOrNone
    BY DEF StatusOrNone, OrderStatus
  <2>2. QED
    BY <1>1, <2>1 DEF CreateOrder, LinesTyped, RestTyped
<1>2. ASSUME NEW o \in Orders, MarkOrderPaid(o) PROVE RestTyped'
  <2>1. parent' \in [Orders -> StatusOrNone]
    <3>1. DOMAIN parent' = Orders /\ parent' = [p \in Orders |-> parent'[p]]
      BY <1>2 DEF MarkOrderPaid, LinesTyped, RestTyped
    <3>2. \A p \in Orders : parent'[p] \in StatusOrNone
      BY <1>2, PaidParent DEF LinesTyped, RestTyped, StatusOrNone, OrderStatus
    <3>3. QED
      BY <3>1, <3>2
  <2>2. QED
    BY <1>2, <2>1 DEF MarkOrderPaid, LinesTyped, RestTyped
<1>3. ASSUME NEW o \in Orders, Dispatch(o) PROVE RestTyped'
  BY <1>3, BoundsAssumption DEF Dispatch, LinesTyped, RestTyped
<1>4. ASSUME NEW c \in Lines, AutoStart(c) PROVE RestTyped'
  <2>1. tasks[c] \in 1 .. MaxTries /\ MaxTries \in Nat
    BY <1>4, BoundsAssumption DEF AutoStart, LinesTyped, RestTyped
  <2>2. tasks[c] - 1 \in 0 .. MaxTries /\ 0 \in 0 .. MaxTries
    BY <2>1
  <2>3. tasks' \in [Lines -> 0 .. MaxTries]
    BY <1>4, <2>2 DEF AutoStart, LinesTyped, RestTyped
  <2>4. QED
    BY <1>4, <2>3 DEF AutoStart, LinesTyped, RestTyped
<1>5. ASSUME NEW c \in Lines, ManualStart(c) PROVE RestTyped'
  BY <1>5 DEF ManualStart, LinesTyped, RestTyped
<1>6. ASSUME NEW d \in deliveries, AutoPick(d) PROVE RestTyped'
  BY <1>6 DEF AutoPick, LinesTyped, RestTyped
<1>7. ASSUME NEW d \in deliveries, AutoCommit(d) PROVE RestTyped'
  <2>1. Due(d.line[1]) \in [order : Orders, status : OrderStatus \cup {"due"}]
    BY LineOrder, DueType DEF LinesTyped, TablesTyped
  <2>2. 0 \in 0 .. MaxTries
    BY BoundsAssumption
  <2>3. tasks' \in [Lines -> 0 .. MaxTries]
    BY <1>7, <2>2 DEF AutoCommit, LinesTyped, RestTyped
  <2>4. QED
    BY <1>7, <2>1, <2>3 DEF AutoCommit, LinesTyped, RestTyped
<1>8. ASSUME NEW d \in deliveries, ManualCommit(d) PROVE RestTyped'
  <2>1. Due(d.line[1]) \in [order : Orders, status : OrderStatus \cup {"due"}]
    BY LineOrder, DueType DEF LinesTyped, TablesTyped
  <2>2. QED
    BY <1>8, <2>1 DEF ManualCommit, LinesTyped, RestTyped
<1>9. ASSUME NEW d \in deliveries, DeliveryFails(d) PROVE RestTyped'
  <2>1. 0 \in 0 .. MaxTries
    BY BoundsAssumption
  <2>2. \A c \in Lines : tasks[c] \in 0 .. MaxTries
    BY DEF LinesTyped, RestTyped
  <2>3. d.line \in Lines
    BY DEF LinesTyped, TablesTyped
  <2>4. (IF d.by = "auto" /\ d.picked = {} /\ fulfillment[d.line] # "none"
         THEN 0 ELSE tasks[d.line]) \in 0 .. MaxTries
    BY <2>1, <2>2, <2>3
  <2>5. tasks' \in [Lines -> 0 .. MaxTries]
    BY <1>9, <2>4 DEF DeliveryFails, LinesTyped, RestTyped
  <2>6. QED
    BY <1>9, <2>5 DEF DeliveryFails, LinesTyped, RestTyped
<1>10. ASSUME NEW o \in Orders, CancelRead(o) PROVE RestTyped'
  BY <1>10 DEF CancelRead, LinesTyped, RestTyped
<1>11. ASSUME NEW o \in Orders, NEW target \in ParentTargets, ParentRead(o, target)
       PROVE  RestTyped'
  BY <1>11 DEF ParentRead, LinesTyped, RestTyped
<1>12. ASSUME NEW c \in Lines, NEW target \in ChildTargets, ChildRead(c, target)
       PROVE  RestTyped'
  BY <1>12 DEF ChildRead, LinesTyped, RestTyped
<1>13. ASSUME NEW u \in updates, UpdateCommit(u) PROVE RestTyped'
  <2>1. u.order \in Orders /\ u.target \in StatusOrNone
    BY DEF LinesTyped, TablesTyped, StatusOrNone
  <2>2. Due(u.order) \in [order : Orders, status : OrderStatus \cup {"due"}]
    BY <2>1, DueType
  <2>3. QED
    BY <1>13, <2>1, <2>2 DEF UpdateCommit, LinesTyped, RestTyped
<1>14. ASSUME NEW o \in Orders, SyncRead(o) \/ QueryRead(o) PROVE RestTyped'
  <2>1. syncs' \subseteq [order : Orders, status : OrderStatus \cup {"due"}]
    <3>1. SUFFICES ASSUME NEW x \in syncs', x \notin syncs
                   PROVE  x \in [order : Orders, status : OrderStatus \cup {"due"}]
      BY DEF LinesTyped, RestTyped
    <3>2. x = [order |-> o, status |-> x.status]
      BY <1>14, <3>1 DEF SyncRead, QueryRead
    <3>3. x.status \in OrderStatus
      BY <1>14, <3>1, SyncReadStage
    <3>4. QED
      BY <3>2, <3>3
  <2>2. QED
    BY <1>14, <2>1 DEF SyncRead, QueryRead, LinesTyped, RestTyped
<1>15. ASSUME NEW x \in syncs, SyncWrite(x) PROVE RestTyped'
  <2>1. x.order \in Orders /\ x.status \in StatusOrNone
    BY <1>15 DEF SyncWrite, LinesTyped, RestTyped, StatusOrNone
  <2>2. QED
    BY <1>15, <2>1 DEF SyncWrite, LinesTyped, RestTyped
<1>16. CASE UNCHANGED vars
  BY <1>16 DEF vars, LinesTyped, RestTyped
<1>17. QED
  BY <1>1, <1>2, <1>3, <1>4, <1>5, <1>6, <1>7, <1>8, <1>9, <1>10, <1>11, <1>12, <1>13,
     <1>14, <1>15, <1>16 DEF Next, Deliver, UpdateStatus, SyncParentStatus

\* What the rest of this module builds on.
OrdersInv == LinesTyped /\ PaidInv /\ StageInv

LEMMA OrdersInit == Init => OrdersInv
BY TypeInit, PaidInit, StageInit DEF OrdersInv, LinesTyped

LEMMA OrdersStep == OrdersInv /\ [Next]_vars => OrdersInv'
BY TypeStep, PaidStep, StageStep, RestStep DEF OrdersInv, LinesTyped

-----------------------------------------------------------------------------
(* Manual stock                                                            *)

LEMMA LinesFinite == IsFiniteSet(Lines)
<1>1. IsFiniteSet({"auto", "manual"})
  <2>1. IsFiniteSet({"auto"}) /\ IsFiniteSet({"manual"})
    BY FS_Singleton
  <2>2. {"auto", "manual"} = {"auto"} \cup {"manual"}
    OBVIOUS
  <2>3. QED
    BY <2>1, <2>2, FS_Union
<1>2. IsFiniteSet(Orders \X {"auto", "manual"})
  BY <1>1, StockAssumption, FS_Product
<1>3. QED
  BY <1>2, LinesAssumption, FS_Subset

\* Lines stand for a number of units, disjoint sets of lines for the sum.
LEMMA UnitsNat == \A S \in SUBSET Lines : Units(S) \in Nat
<1>1. SUFFICES ASSUME NEW S \in SUBSET Lines PROVE Units(S) \in Nat
  OBVIOUS
<1>2. IsFiniteSet(S \cap ManualLines) /\ \A c \in S \cap ManualLines : Quantity[c] \in Nat
  BY LinesFinite, LinesAssumption, FS_Subset
<1>3. QED
  BY <1>2, SumNat DEF Units

LEMMA UnitsUnion ==
    ASSUME NEW S \in SUBSET Lines, NEW T \in SUBSET Lines, S \cap T = {}
    PROVE  Units(S \cup T) = Units(S) + Units(T)
<1> DEFINE M == S \cap ManualLines
           N == T \cap ManualLines
<1>1. IsFiniteSet(M) /\ IsFiniteSet(N) /\ M \cap N = {}
  BY LinesFinite, FS_Subset
<1>2. \A c \in M \cup N : Quantity[c] \in Int
  BY LinesAssumption
<1>3. (S \cup T) \cap ManualLines = M \cup N
  OBVIOUS
<1>4. SumFunctionOnSet(Quantity, M \cup N)
          = SumFunctionOnSet(Quantity, M) + SumFunctionOnSet(Quantity, N)
  <2> HIDE DEF M, N
  <2> QED
    BY <1>1, <1>2, SumUnion
<1>5. QED
  BY <1>3, <1>4 DEF Units

PaidLines == {c \in Lines : c[1] \in paid}

\* The inductive invariant.
StockInv == stock \in [total : Nat, locked : Nat, sold : Nat] /\ StockBalanced

LEMMA StockInit == Init => StockInv
<1>1. SUFFICES ASSUME Init PROVE StockInv
  OBVIOUS
<1>2. PaidLines \cap ManualLines = {} /\ {c \in Lines : c[1] \in paid} = PaidLines
  BY <1>1 DEF Init, PaidLines
<1>3. Units(PaidLines) = 0
  BY <1>2, SumEmpty DEF Units
<1>4. QED
  BY <1>1, <1>2, <1>3, StockAssumption DEF Init, StockInv, StockBalanced

\* No statement on the stock's columns makes a unit or loses one.
LEMMA ColumnsKept ==
    ASSUME stock \in [total : Nat, locked : Nat, sold : Nat], NEW q \in Nat,
           \/ CanReserve(q) /\ stock' = Reserved(q)
           \/ stock' = Released(q)
    PROVE  /\ stock' \in [total : Nat, locked : Nat, sold : Nat]
           /\ stock'.total + stock'.locked + stock'.sold = stock.total + stock.locked + stock.sold
           /\ stock'.sold = stock.sold
<1>1. stock.total \in Nat /\ stock.locked \in Nat /\ stock.sold \in Nat
  OBVIOUS
<1>2. CASE CanReserve(q) /\ stock' = Reserved(q)
  <2>1. stock.total >= q
    BY <1>2 DEF CanReserve
  <2>2. stock' = [total |-> stock.total - q, locked |-> stock.locked + q, sold |-> stock.sold]
    BY <1>2 DEF Reserved
  <2>3. QED
    BY <1>1, <2>1, <2>2
<1>3. CASE stock' = Released(q) /\ stock.locked >= q
  <2>1. stock' = [total |-> stock.total + q, locked |-> stock.locked - q, sold |-> stock.sold]
    BY <1>3 DEF Released
  <2>2. QED
    BY <1>1, <1>3, <2>1
<1>4. CASE stock' = Released(q) /\ ~(stock.locked >= q)
  BY <1>1, <1>4 DEF Released
<1>5. QED
  BY <1>2, <1>3, <1>4

LEMMA ColumnsConsumed ==
    ASSUME stock \in [total : Nat, locked : Nat, sold : Nat], NEW q \in Nat,
           CanConsume(q), stock' = Consumed(q)
    PROVE  /\ stock' \in [total : Nat, locked : Nat, sold : Nat]
           /\ stock'.total + stock'.locked + stock'.sold = stock.total + stock.locked + stock.sold
           /\ stock'.sold = stock.sold + q
<1>1. stock.total \in Nat /\ stock.locked \in Nat /\ stock.sold \in Nat
  OBVIOUS
<1>2. CASE stock.locked >= q
  <2>1. stock' = [total |-> stock.total, locked |-> stock.locked - q, sold |-> stock.sold + q]
    BY <1>2 DEF Consumed
  <2>2. QED
    BY <1>1, <1>2, <2>1
<1>3. CASE ~(stock.locked >= q)
  <2>1. stock.total >= q - stock.locked
    BY <1>3 DEF CanConsume
  <2>2. stock' = [total |-> stock.total - (q - stock.locked), locked |-> 0,
                  sold |-> stock.sold + q]
    BY <1>3 DEF Consumed
  <2>3. QED
    BY <1>1, <1>3, <2>1, <2>2
<1>4. QED
  BY <1>2, <1>3

LEMMA StockStep == OrdersInv /\ StockInv /\ [Next]_vars => StockInv'
<1> SUFFICES ASSUME OrdersInv, StockInv, [Next]_vars PROVE StockInv'
  OBVIOUS
<1> USE DEF pvars, wvars
<1>1. ASSUME NEW o \in Orders, CreateOrder(o) PROVE StockInv'
  <2>1. Units(LinesOf(o)) \in Nat
    BY UnitsNat DEF LinesOf
  <2>2. QED
    BY <1>1, <2>1, ColumnsKept DEF CreateOrder, StockInv, StockBalanced
<1>2. ASSUME NEW o \in Orders, MarkOrderPaid(o) PROVE StockInv'
  <2>1. Units(LinesOf(o)) \in Nat /\ Units(PaidLines) \in Nat
    BY UnitsNat DEF LinesOf, PaidLines
  <2>2. o \notin paid
    BY <1>2 DEF MarkOrderPaid, OrdersInv, StageInv, Stage, NotCreated, Unpaid, Sold
  <2>3. paid' = paid \cup {o} /\ stock' = Consumed(Units(LinesOf(o))) /\ CanConsume(Units(LinesOf(o)))
    BY <1>2 DEF MarkOrderPaid
  <2>4. {c \in Lines : c[1] \in paid'} = PaidLines \cup LinesOf(o) /\ PaidLines \cap LinesOf(o) = {}
    BY <2>2, <2>3 DEF PaidLines, LinesOf
  <2>5. Units({c \in Lines : c[1] \in paid'}) = Units(PaidLines) + Units(LinesOf(o))
    <3>1. PaidLines \in SUBSET Lines /\ LinesOf(o) \in SUBSET Lines
      BY DEF PaidLines, LinesOf
    <3>2. QED
      BY <2>4, <3>1, UnitsUnion
  <2>6. stock.sold = Units(PaidLines)
    BY DEF StockInv, StockBalanced, PaidLines
  <2>7. QED
    BY <2>1, <2>3, <2>5, <2>6, ColumnsConsumed DEF StockInv, StockBalanced
<1>3. ASSUME NEW u \in updates, UpdateCommit(u) PROVE StockInv'
  <2>1. Units(u.lines) \in Nat
    BY UnitsNat DEF OrdersInv, LinesTyped, TablesTyped
  <2>2. CASE stock' = stock
    BY <1>3, <2>2 DEF UpdateCommit, StockInv, StockBalanced
  <2>3. CASE stock' = Released(Units(u.lines))
    BY <1>3, <2>1, <2>3, ColumnsKept DEF UpdateCommit, StockInv, StockBalanced
  <2>4. QED
    BY <1>3, <2>2, <2>3 DEF UpdateCommit
<1>4. ASSUME stock' = stock, paid' = paid PROVE StockInv'
  BY <1>4 DEF StockInv, StockBalanced
<1>5. ASSUME NEW o \in Orders, Dispatch(o) \/ SyncRead(o) \/ QueryRead(o) \/ CancelRead(o)
      PROVE  StockInv'
  BY <1>4, <1>5 DEF Dispatch, SyncRead, QueryRead, CancelRead
<1>6. ASSUME NEW c \in Lines, AutoStart(c) \/ ManualStart(c) PROVE StockInv'
  BY <1>4, <1>6 DEF AutoStart, ManualStart
<1>7. ASSUME NEW d \in deliveries,
             AutoPick(d) \/ AutoCommit(d) \/ ManualCommit(d) \/ DeliveryFails(d)
      PROVE  StockInv'
  BY <1>4, <1>7 DEF AutoPick, AutoCommit, ManualCommit, DeliveryFails
<1>8. ASSUME NEW o \in Orders, NEW target \in ParentTargets, ParentRead(o, target) PROVE StockInv'
  BY <1>4, <1>8 DEF ParentRead
<1>9. ASSUME NEW c \in Lines, NEW target \in ChildTargets, ChildRead(c, target) PROVE StockInv'
  BY <1>4, <1>9 DEF ChildRead
<1>10. ASSUME NEW x \in syncs, SyncWrite(x) PROVE StockInv'
  BY <1>4, <1>10 DEF SyncWrite
<1>11. CASE UNCHANGED vars
  BY <1>4, <1>11 DEF vars
<1>12. QED
  BY <1>1, <1>2, <1>3, <1>5, <1>6, <1>7, <1>8, <1>9, <1>10, <1>11
     DEF Next, Deliver, UpdateStatus, SyncParentStatus

LEMMA StockInvariant == Spec => [](OrdersInv /\ StockInv)
<1>1. Init => OrdersInv /\ StockInv
  BY OrdersInit, StockInit
<1>2. OrdersInv /\ StockInv /\ [Next]_vars => (OrdersInv /\ StockInv)'
  BY OrdersStep, StockStep
<1>3. QED
  BY <1>1, <1>2, PTL DEF Spec

\* Every table, task and request keeps its type, and the stock's columns stay
\* natural: no summary writes a status that is none.
THEOREM OrdersTyped == Spec => []TypeOK
<1>1. OrdersInv /\ StockInv => TypeOK
  BY DEF OrdersInv, LinesTyped, TablesTyped, RestTyped, StockInv, TypeOK
<1>2. QED
  BY <1>1, StockInvariant, PTL

\* The manual SKU's columns account for every unit, and exactly the paid
\* orders are sold: no race of payment, cancellation and summary sells one
\* twice or loses a reservation's units.
THEOREM StockAlwaysBalanced == Spec => []StockBalanced
<1>1. StockInv => StockBalanced
  BY DEF StockInv
<1>2. QED
  BY <1>1, StockInvariant, PTL

-----------------------------------------------------------------------------
(* Reservations of card secrets                                            *)

\* The inductive invariant: a line holds no more reserved secrets than it was
\* sold for, and a delivery that has selected secrets has selected all that
\* its line has reserved, so that none is left when it commits.
ReservedInv ==
    /\ \A c \in Lines : Cardinality(ReservedFor(c)) <= Quantity[c]
    /\ \A d \in deliveries : d.picked # {} => ReservedFor(d.line) \subseteq d.picked
    /\ ReservationsAreLive

LEMMA SomeSecretsFinite ==
    ASSUME NEW S \in SUBSET Secrets
    PROVE  IsFiniteSet(S) /\ Cardinality(S) \in Nat
BY StockAssumption, FS_Subset, FS_CardinalityType

LEMMA FewerSecrets ==
    ASSUME NEW S \in SUBSET Secrets, NEW T \in SUBSET S
    PROVE  Cardinality(T) <= Cardinality(S)
BY SomeSecretsFinite, FS_Subset

LEMMA ReservedInit == Init => ReservedInv
<1>1. SUFFICES ASSUME Init PROVE ReservedInv
  OBVIOUS
<1>2. \A c \in Lines : ReservedFor(c) = {}
  BY <1>1 DEF Init, ReservedFor
<1>3. Cardinality({}) = 0
  BY FS_EmptySet
<1>4. \A c \in Lines : Quantity[c] \in Nat
  BY LinesAssumption
<1>5. \A c \in Lines : Cardinality(ReservedFor(c)) <= Quantity[c]
  BY <1>2, <1>3, <1>4
<1>6. QED
  BY <1>1, <1>2, <1>5 DEF Init, ReservedInv, ReservationsAreLive

\* What a step must leave alone that makes no reservation and ends none wrongly.
LEMMA ReservedKept ==
    ASSUME OrdersInv, ReservedInv,
           \A c \in Lines : ReservedFor(c)' \subseteq ReservedFor(c),
           \A c \in Lines : ReservedFor(c)' # {} =>
               child'[c] \notin {"none", "canceled"} /\ fulfillment'[c] # "auto",
           \A d \in deliveries' : d \in deliveries \/ d.picked = {}
    PROVE  ReservedInv'
<1>1. ASSUME NEW c \in Lines PROVE Cardinality(ReservedFor(c)') <= Quantity[c]
  <2>1. ReservedFor(c) \in SUBSET Secrets /\ ReservedFor(c)' \in SUBSET ReservedFor(c)
    BY DEF ReservedFor
  <2>2. /\ Cardinality(ReservedFor(c)') <= Cardinality(ReservedFor(c))
        /\ Cardinality(ReservedFor(c)) \in Nat /\ Cardinality(ReservedFor(c)') \in Nat
    BY <2>1, FewerSecrets, SomeSecretsFinite
  <2>3. Cardinality(ReservedFor(c)) <= Quantity[c] /\ Quantity[c] \in Nat
    BY LinesAssumption DEF ReservedInv
  <2>4. QED
    BY <2>2, <2>3
<1>2. ASSUME NEW d \in deliveries', d.picked # {} PROVE ReservedFor(d.line)' \subseteq d.picked
  <2>1. d \in deliveries /\ d.line \in Lines
    BY <1>2 DEF OrdersInv, LinesTyped, TablesTyped
  <2>2. QED
    BY <1>2, <2>1 DEF ReservedInv
<1>3. ReservationsAreLive'
  BY DEF ReservationsAreLive
<1>4. QED
  BY <1>1, <1>2, <1>3 DEF ReservedInv

\* An order has one automatic line at most, which takes what was picked for it.
LEMMA CreateReserves ==
    ASSUME OrdersInv, ReservedInv, NEW o \in Orders, CreateOrder(o)
    PROVE  ReservedInv'
<1>1. /\ parent[o] = "none" /\ fulfillment' = fulfillment /\ deliveries' = deliveries
      /\ child' = [c \in Lines |-> IF c[1] = o THEN "pending_payment" ELSE child[c]]
  BY DEF CreateOrder, wvars
<1>2. PICK pick \in [LinesOf(o) \cap AutoLines -> SUBSET Free] :
          /\ \A c \in DOMAIN pick : Cardinality(pick[c]) = Quantity[c]
          /\ secret' = [s \in Secrets |->
                 IF \E c \in DOMAIN pick : s \in pick[c]
                 THEN [status |-> "reserved", line |-> CHOOSE c \in DOMAIN pick : s \in pick[c]]
                 ELSE secret[s]]
  BY DEF CreateOrder
<1>3. o \notin paid /\ \A c \in LinesOf(o) : child[c] = "none"
  BY <1>1 DEF OrdersInv, StageInv, Stage, NotCreated, Unpaid, Sold
<1>4. ASSUME NEW c \in Lines, c[1] # o PROVE ReservedFor(c)' = ReservedFor(c)
  <2>1. ASSUME NEW s \in Secrets, \E e \in DOMAIN pick : s \in pick[e]
        PROVE  s \notin ReservedFor(c) /\ s \notin ReservedFor(c)'
    <3>1. secret[s].status = "available"
      BY <2>1 DEF Free
    <3>2. secret'[s] = [status |-> "reserved", line |-> CHOOSE e \in DOMAIN pick : s \in pick[e]]
      BY <1>2, <2>1
    <3>3. (CHOOSE e \in DOMAIN pick : s \in pick[e]) \in DOMAIN pick
      BY <2>1
    <3>4. (CHOOSE e \in DOMAIN pick : s \in pick[e]) # c
      BY <1>4, <3>3 DEF LinesOf
    <3>5. QED
      BY <3>1, <3>2, <3>4 DEF ReservedFor
  <2>2. ASSUME NEW s \in Secrets, ~ \E e \in DOMAIN pick : s \in pick[e]
        PROVE  secret'[s] = secret[s]
    BY <1>2, <2>2
  <2>3. QED
    BY <2>1, <2>2 DEF ReservedFor
<1>5. ASSUME NEW c \in LinesOf(o)
      PROVE  Cardinality(ReservedFor(c)') <= Quantity[c] /\ fulfillment'[c] # "auto"
  <2>1. c \in Lines /\ c[1] = o /\ Quantity[c] \in Nat
    BY LinesAssumption DEF LinesOf
  <2>2. ReservedFor(c) = {}
    BY <1>3, <2>1 DEF ReservedInv, ReservationsAreLive
  <2>3. ASSUME NEW s \in ReservedFor(c)' PROVE c \in DOMAIN pick /\ s \in pick[c]
    <3>1. s \in Secrets /\ secret'[s] = [status |-> "reserved", line |-> c]
      BY DEF ReservedFor
    <3>2. \E e \in DOMAIN pick : s \in pick[e]
      <4>1. secret[s] # [status |-> "reserved", line |-> c]
        BY <2>2, <3>1 DEF ReservedFor
      <4>2. QED
        BY <1>2, <3>1, <4>1
    <3>3. secret'[s] = [status |-> "reserved", line |-> CHOOSE e \in DOMAIN pick : s \in pick[e]]
      BY <1>2, <3>1, <3>2
    <3>4. QED
      BY <3>1, <3>2, <3>3
  <2>4. Cardinality(ReservedFor(c)') <= Quantity[c]
    <3>1. CASE c \in DOMAIN pick
      <4>1. ReservedFor(c)' \in SUBSET pick[c] /\ pick[c] \in SUBSET Secrets
        BY <2>3, <3>1 DEF Free
      <4>2. QED
        BY <1>2, <3>1, <4>1, FewerSecrets
    <3>2. CASE c \notin DOMAIN pick
      <4>1. ReservedFor(c)' = {}
        BY <2>3, <3>2
      <4>2. QED
        BY <2>1, <4>1, FS_EmptySet
    <3>3. QED
      BY <3>1, <3>2
  <2>5. fulfillment'[c] # "auto"
    BY <1>1, <1>3, <2>1 DEF OrdersInv, PaidInv, DeliveredOnlyWhenPaid
  <2>6. QED
    BY <2>4, <2>5
<1>6. ASSUME NEW c \in Lines PROVE Cardinality(ReservedFor(c)') <= Quantity[c]
  BY <1>4, <1>5 DEF ReservedInv, LinesOf
<1>7. ASSUME NEW d \in deliveries', d.picked # {} PROVE ReservedFor(d.line)' \subseteq d.picked
  <2>1. d.line \in Lines /\ d.line[1] # o
    BY <1>1, <1>3 DEF OrdersInv, PaidInv, LinesTyped, TablesTyped
  <2>2. QED
    BY <1>1, <1>4, <1>7, <2>1 DEF ReservedInv
<1>8. ASSUME NEW c \in Lines, ReservedFor(c)' # {}
      PROVE  child'[c] \notin {"none", "canceled"} /\ fulfillment'[c] # "auto"
  BY <1>1, <1>4, <1>5, <1>8 DEF ReservedInv, ReservationsAreLive, LinesOf
<1>9. QED
  BY <1>6, <1>7, <1>8 DEF ReservedInv, ReservationsAreLive

\* A selection takes all of the line's reservations.
LEMMA SelectionTakesAll ==
    ASSUME OrdersInv, ReservedInv, NEW c \in Lines, NEW S \in Selections(c)
    PROVE  ReservedFor(c) \subseteq S
<1>1. ReservedFor(c) \in SUBSET Secrets
  BY DEF ReservedFor
<1>2. IsFiniteSet(ReservedFor(c)) /\ Cardinality(ReservedFor(c)) \in Nat
  BY <1>1, SomeSecretsFinite
<1>3. CASE S \subseteq ReservedFor(c)
  <2>1. Cardinality(ReservedFor(c)) <= Cardinality(S)
    BY DEF ReservedInv, Selections
  <2>2. S = ReservedFor(c)
    <3>1. SUFFICES ASSUME S # ReservedFor(c) PROVE FALSE
      OBVIOUS
    <3>2. Cardinality(S) \in Nat /\ Cardinality(S) < Cardinality(ReservedFor(c))
      BY <1>1, <1>2, <1>3, <3>1, FS_Subset, FS_CardinalityType
    <3>3. QED
      BY <1>2, <2>1, <3>2
  <2>3. QED
    BY <2>2
<1>4. QED
  BY <1>3 DEF Selections

LEMMA UnchangedReserved == secret' = secret => \A c \in Lines : ReservedFor(c)' = ReservedFor(c)
BY DEF ReservedFor

LEMMA ReservedStep == OrdersInv /\ ReservedInv /\ [Next]_vars => ReservedInv'
<1> SUFFICES ASSUME OrdersInv, ReservedInv, [Next]_vars PROVE ReservedInv'
  OBVIOUS
<1> USE DEF pvars, wvars
<1>0. /\ child \in [Lines -> StatusOrNone]
      /\ fulfillment \in [Lines -> {"none", "auto", "manual"}]
      /\ \A d \in deliveries : d.line \in Lines /\ d.picked \in SUBSET Secrets
      /\ \A c \in Lines : ReservedFor(c) # {} =>
             child[c] \notin {"none", "canceled"} /\ fulfillment[c] # "auto"
  BY DEF OrdersInv, LinesTyped, TablesTyped, ReservedInv, ReservationsAreLive
<1>1. ASSUME NEW o \in Orders, CreateOrder(o) PROVE ReservedInv'
  BY <1>1, CreateReserves
<1>2. ASSUME NEW o \in Orders, MarkOrderPaid(o) PROVE ReservedInv'
  <2>1. \A c \in Lines : child'[c] = child[c] \/ child'[c] \in {"paid", "fulfilling"}
    <3>1. \A c \in Lines : c[1] = o => c \in LinesOf(o)
      BY DEF LinesOf
    <3>2. QED
      BY <1>2, <3>1, PaidParent DEF OrdersInv
  <2>2. QED
    BY <1>0, <1>2, <2>1, UnchangedReserved, ReservedKept DEF MarkOrderPaid
<1>3. ASSUME secret' = secret, child' = child, fulfillment' = fulfillment,
             \A d \in deliveries' : d \in deliveries \/ d.picked = {}
      PROVE  ReservedInv'
  BY <1>0, <1>3, UnchangedReserved, ReservedKept
<1>4. ASSUME NEW o \in Orders, Dispatch(o) \/ SyncRead(o) \/ QueryRead(o) \/ CancelRead(o)
      PROVE  ReservedInv'
  BY <1>3, <1>4 DEF Dispatch, SyncRead, QueryRead, CancelRead
<1>5. ASSUME NEW c \in Lines, AutoStart(c) \/ ManualStart(c) PROVE ReservedInv'
  BY <1>3, <1>5, DeliveryType DEF AutoStart, ManualStart
<1>6. ASSUME NEW d \in deliveries, AutoPick(d) PROVE ReservedInv'
  <2>1. PICK S \in Selections(d.line) :
            deliveries' = (deliveries \ {d}) \cup {Delivery(d.line, "auto", S)}
    BY <1>6 DEF AutoPick
  <2>2. ReservedFor(d.line) \subseteq S
    BY <1>0, <2>1, SelectionTakesAll
  <2>3. Delivery(d.line, "auto", S).line = d.line /\ Delivery(d.line, "auto", S).picked = S
    BY DEF Delivery
  <2>4. \A c \in Lines : ReservedFor(c)' = ReservedFor(c)
    BY <1>6, UnchangedReserved DEF AutoPick
  <2>5. ASSUME NEW e \in deliveries', e.picked # {} PROVE ReservedFor(e.line)' \subseteq e.picked
    BY <1>0, <2>1, <2>2, <2>3, <2>4, <2>5 DEF ReservedInv
  <2>6. ReservationsAreLive'
    BY <1>0, <1>6, <2>4 DEF AutoPick, ReservationsAreLive
  <2>7. \A c \in Lines : Cardinality(ReservedFor(c)') <= Quantity[c]
    BY <2>4 DEF ReservedInv
  <2>8. QED
    BY <2>5, <2>6, <2>7 DEF ReservedInv
<1>7. ASSUME NEW d \in deliveries, AutoCommit(d) PROVE ReservedInv'
  <2>1. /\ secret' = [s \in Secrets |->
               IF s \in d.picked THEN [status |-> "used", line |-> d.line] ELSE secret[s]]
        /\ fulfillment' = [fulfillment EXCEPT ![d.line] = "auto"]
        /\ child' = [child EXCEPT ![d.line] = "completed"]
        /\ deliveries' = deliveries \ {d}
        /\ d.picked # {}
    BY <1>7 DEF AutoCommit
  <2>2. \A c \in Lines : ReservedFor(c)' \subseteq ReservedFor(c) \ d.picked
    BY <2>1 DEF ReservedFor
  <2>3. ReservedFor(d.line)' = {}
    BY <1>0, <2>1, <2>2 DEF ReservedInv
  <2>4. \A c \in Lines : ReservedFor(c)' # {} =>
            child'[c] \notin {"none", "canceled"} /\ fulfillment'[c] # "auto"
    BY <1>0, <2>1, <2>2, <2>3
  <2>5. QED
    BY <2>1, <2>2, <2>4, ReservedKept
<1>8. ASSUME NEW d \in deliveries, ManualCommit(d) PROVE ReservedInv'
  <2>1. \A c \in Lines : ReservedFor(c)' = ReservedFor(c)
    BY <1>8, UnchangedReserved DEF ManualCommit
  <2>2. \A c \in Lines : ReservedFor(c)' # {} =>
            child'[c] \notin {"none", "canceled"} /\ fulfillment'[c] # "auto"
    BY <1>0, <1>8, <2>1 DEF ManualCommit
  <2>3. QED
    BY <1>8, <2>1, <2>2, ReservedKept DEF ManualCommit
<1>9. ASSUME NEW d \in deliveries, DeliveryFails(d) PROVE ReservedInv'
  BY <1>3, <1>9 DEF DeliveryFails
<1>10. ASSUME NEW o \in Orders, NEW target \in ParentTargets, ParentRead(o, target)
       PROVE  ReservedInv'
  BY <1>3, <1>10 DEF ParentRead
<1>11. ASSUME NEW c \in Lines, NEW target \in ChildTargets, ChildRead(c, target)
       PROVE  ReservedInv'
  BY <1>3, <1>11 DEF ChildRead
<1>12. ASSUME NEW u \in updates, UpdateCommit(u) PROVE ReservedInv'
  <2>1. /\ child' = [c \in Lines |-> IF c \in u.lines THEN u.target ELSE child[c]]
        /\ fulfillment' = fulfillment /\ deliveries' = deliveries
        /\ u.target # "none" /\ u.lines \in SUBSET Lines
    BY <1>12 DEF UpdateCommit, OrdersInv, LinesTyped, TablesTyped, OrderStatus
  <2>2. CASE u.target = "canceled"
    <3>1. secret' = SecretsReleased(u.lines)
      BY <1>12, <2>2 DEF UpdateCommit
    <3>2. \A c \in Lines : ReservedFor(c)' \subseteq ReservedFor(c)
      BY <3>1 DEF SecretsReleased, ReservedFor
    <3>3. \A c \in u.lines : ReservedFor(c)' = {}
      BY <2>1, <3>1 DEF SecretsReleased, ReservedFor
    <3>4. \A c \in Lines : ReservedFor(c)' # {} =>
              child'[c] \notin {"none", "canceled"} /\ fulfillment'[c] # "auto"
      BY <1>0, <2>1, <3>2, <3>3
    <3>5. QED
      BY <2>1, <3>2, <3>4, ReservedKept
  <2>3. CASE u.target # "canceled"
    <3>1. \A c \in Lines : ReservedFor(c)' = ReservedFor(c)
      BY <1>12, <2>3, UnchangedReserved DEF UpdateCommit
    <3>2. \A c \in Lines : ReservedFor(c)' # {} =>
              child'[c] \notin {"none", "canceled"} /\ fulfillment'[c] # "auto"
      BY <1>0, <2>1, <2>3, <3>1
    <3>3. QED
      BY <2>1, <3>1, <3>2, ReservedKept
  <2>4. QED
    BY <2>2, <2>3
<1>13. ASSUME NEW x \in syncs, SyncWrite(x) PROVE ReservedInv'
  BY <1>3, <1>13 DEF SyncWrite
<1>14. CASE UNCHANGED vars
  BY <1>3, <1>14 DEF vars
<1>15. QED
  BY <1>1, <1>2, <1>4, <1>5, <1>6, <1>7, <1>8, <1>9, <1>10, <1>11, <1>12, <1>13, <1>14
     DEF Next, Deliver, UpdateStatus, SyncParentStatus

\* A line that is canceled or has got its secrets keeps no reservation, however
\* a delivery's selection and a cancellation interleave.
THEOREM ReservationsAlwaysLive == Spec => []ReservationsAreLive
<1>1. Init => OrdersInv /\ ReservedInv
  BY OrdersInit, ReservedInit
<1>2. OrdersInv /\ ReservedInv /\ [Next]_vars => (OrdersInv /\ ReservedInv)'
  BY OrdersStep, ReservedStep
<1>3. ReservedInv => ReservationsAreLive
  BY DEF ReservedInv
<1>4. QED
  BY <1>1, <1>2, <1>3, PTL DEF Spec

-----------------------------------------------------------------------------
(* The parent and its lines                                                *)

\* No administrator sets a line back to fulfilling or to partially delivered.
\* Without this a stale update takes a line back behind a parent that already
\* says delivered, until the summary that the update asked for is written.
NoLineSetBack == ChildTargets \cap {"fulfilling", "partially_delivered"} = {}

\* Statuses a line is not waited for in.
Settled == {"delivered", "completed", "canceled", "partially_refunded", "refunded"}

LinesSettled(o) == \A c \in LinesOf(o) : child[c] \in Settled

\* The inductive invariant: neither the parent nor a summary or update under
\* way says delivered while a line is waited for.
AheadInv ==
    /\ \A o \in Orders : parent[o] \in {"delivered", "completed"} => LinesSettled(o)
    /\ \A x \in syncs : x.status \in {"delivered", "completed"} => LinesSettled(x.order)
    /\ \A u \in updates :
          /\ u.target \in Settled
          /\ u.whole /\ u.target \in {"delivered", "completed"} =>
                \A c \in LinesOf(u.order) : c \in u.lines \/ child[c] \in Settled

LEMMA AheadInit == Init => AheadInv
BY DEF Init, AheadInv

\* A summary that differs from the parent says delivered only of settled lines.
LEMMA SummarySettled ==
    ASSUME NEW S, NEW current, Summary(S, current) # current,
           Summary(S, current) \in {"delivered", "completed"}
    PROVE  S \subseteq {"delivered", "completed"}
BY DEF Summary

\* Steps under which no settled line is waited for again and no parent comes
\* to say delivered.
LEMMA AheadKept ==
    ASSUME OrdersInv, AheadInv,
           \A o \in Orders : parent'[o] \in {"delivered", "completed"} => parent'[o] = parent[o],
           \A c \in Lines : child[c] \in Settled /\ c[1] \in paid => child'[c] \in Settled,
           \A x \in syncs' : x \in syncs \/ x.status = "due",
           updates' \subseteq updates
    PROVE  AheadInv'
<1>1. ASSUME NEW o \in Orders, parent[o] \in {"delivered", "completed"} PROVE o \in paid
  BY <1>1 DEF OrdersInv, StageInv, Stage, NotCreated, Unpaid, Sold
<1>2. \A o \in Orders : parent'[o] \in {"delivered", "completed"} => LinesSettled(o)'
  BY <1>1 DEF AheadInv, LinesSettled, LinesOf
<1>3. ASSUME NEW x \in syncs', x.status \in {"delivered", "completed"} PROVE LinesSettled(x.order)'
  <2>1. x \in syncs /\ x.order \in paid
    BY <1>3 DEF OrdersInv, StageInv, SyncStage
  <2>2. QED
    BY <1>3, <2>1 DEF AheadInv, LinesSettled, LinesOf
<1>4. ASSUME NEW u \in updates', u.whole, u.target \in {"delivered", "completed"},
             NEW c \in LinesOf(u.order), c \notin u.lines
      PROVE  child'[c] \in Settled
  <2>1. u \in updates /\ u.order \in paid /\ c \in Lines /\ c[1] = u.order
    BY <1>4 DEF OrdersInv, StageInv, UpdateStage, LinesOf
  <2>2. QED
    BY <1>4, <2>1 DEF AheadInv
<1>5. QED
  BY <1>2, <1>3, <1>4 DEF AheadInv, LinesOf

\* Reads leave the statuses alone; what they add must itself be right.
LEMMA AheadRead ==
    ASSUME AheadInv, UNCHANGED <<parent, child>>,
           \A x \in syncs' : x \in syncs \/
               (x.status \in {"delivered", "completed"} => LinesSettled(x.order)),
           \A u \in updates' : u \in updates \/
               (/\ u.target \in Settled
                /\ u.whole /\ u.target \in {"delivered", "completed"} =>
                      \A c \in LinesOf(u.order) : c \in u.lines \/ child[c] \in Settled)
    PROVE  AheadInv'
BY DEF AheadInv, LinesSettled, LinesOf

LEMMA AheadStep == NoLineSetBack /\ OrdersInv /\ AheadInv /\ [Next]_vars => AheadInv'
<1> SUFFICES ASSUME NoLineSetBack, OrdersInv, AheadInv, [Next]_vars PROVE AheadInv'
  OBVIOUS
<1> USE DEF pvars, wvars
<1>0. parent \in [Orders -> StatusOrNone] /\ child \in [Lines -> StatusOrNone]
  BY DEF OrdersInv, LinesTyped, TablesTyped, RestTyped
<1>1. ASSUME NEW o \in Orders, CreateOrder(o) PROVE AheadInv'
  <2>1. \A p \in Orders : parent'[p] = IF p = o THEN "pending_payment" ELSE parent[p]
    BY <1>0, <1>1 DEF CreateOrder
  <2>2. o \notin paid
    BY <1>1 DEF CreateOrder, OrdersInv, StageInv, Stage, NotCreated, Unpaid, Sold
  <2>3. \A c \in Lines : c[1] \in paid => child'[c] = child[c]
    BY <1>1, <2>2 DEF CreateOrder
  <2>4. QED
    BY <1>1, <2>1, <2>3, AheadKept DEF CreateOrder
<1>2. ASSUME NEW o \in Orders, MarkOrderPaid(o) PROVE AheadInv'
  <2>1. o \notin paid
    BY <1>2 DEF MarkOrderPaid, OrdersInv, StageInv, Stage, NotCreated, Unpaid, Sold
  <2>2. \A c \in Lines : c[1] \in paid => child'[c] = child[c]
    BY <1>2, <2>1, PaidParent DEF OrdersInv
  <2>3. \A p \in Orders : parent'[p] \in {"delivered", "completed"} => parent'[p] = parent[p]
    BY <1>2, PaidParent DEF OrdersInv
  <2>4. QED
    BY <1>2, <2>2, <2>3, AheadKept DEF MarkOrderPaid
<1>3. ASSUME NEW o \in Orders, Dispatch(o) PROVE AheadInv'
  BY <1>3, AheadRead DEF Dispatch
<1>4. ASSUME NEW c \in Lines, AutoStart(c) \/ ManualStart(c) PROVE AheadInv'
  BY <1>4, AheadRead DEF AutoStart, ManualStart
<1>5. ASSUME NEW d \in deliveries, AutoPick(d) \/ DeliveryFails(d) PROVE AheadInv'
  BY <1>5, AheadRead DEF AutoPick, DeliveryFails
<1>6. ASSUME NEW d \in deliveries, AutoCommit(d) \/ ManualCommit(d) PROVE AheadInv'
  <2>1. \A c \in Lines : child'[c] = child[c] \/ child'[c] \in Settled
    BY <1>0, <1>6 DEF AutoCommit, ManualCommit, Settled
  <2>2. \A x \in syncs' : x \in syncs \/ x.status = "due"
    BY <1>6 DEF AutoCommit, ManualCommit, Due
  <2>3. QED
    BY <1>6, <2>1, <2>2, AheadKept DEF AutoCommit, ManualCommit
<1>7. ASSUME NEW o \in Orders, CancelRead(o) PROVE AheadInv'
  <2>1. Update(o, TRUE, "canceled", LinesOf(o)).target = "canceled"
    BY DEF Update
  <2>2. QED
    BY <1>7, <2>1, AheadRead DEF CancelRead, Settled
<1>8. ASSUME NEW o \in Orders, NEW target \in ParentTargets, ParentRead(o, target)
      PROVE  AheadInv'
  <2> DEFINE behind == {c \in LinesOf(o) : child[c] # target}
             u == Update(o, TRUE, target, behind)
  <2>1. target \in Settled
    BY TargetsAssumption DEF Settled
  <2>2. u.target = target /\ u.order = o /\ u.lines = behind
    BY DEF Update
  <2>3. \A c \in LinesOf(o) : c \in u.lines \/ child[c] \in Settled
    BY <2>1, <2>2
  <2>4. updates' = updates \cup {u}
    BY <1>8 DEF ParentRead
  <2> HIDE DEF u
  <2>5. QED
    BY <1>8, <2>1, <2>2, <2>3, <2>4, AheadRead DEF ParentRead
<1>9. ASSUME NEW c \in Lines, NEW target \in ChildTargets, ChildRead(c, target) PROVE AheadInv'
  <2> DEFINE u == Update(c[1], FALSE, target, {c})
  <2>1. target \in Settled
    BY TargetsAssumption DEF NoLineSetBack, Settled, OrderStatus
  <2>2. u.target = target /\ u.whole = FALSE
    BY DEF Update
  <2>3. updates' = updates \cup {u}
    BY <1>9 DEF ChildRead
  <2> HIDE DEF u
  <2>4. QED
    BY <1>9, <2>1, <2>2, <2>3, AheadRead DEF ChildRead
<1>10. ASSUME NEW u \in updates, UpdateCommit(u) PROVE AheadInv'
  <2> DEFINE o == u.order
  <2>1. o \in Orders /\ u.target \in Settled /\ UpdateStage(u)
    BY DEF OrdersInv, StageInv, LinesTyped, TablesTyped, AheadInv
  <2>2. \A c \in Lines : child'[c] = IF c \in u.lines THEN u.target ELSE child[c]
    BY <1>10 DEF UpdateCommit
  <2>3. \A c \in Lines : child[c] \in Settled => child'[c] \in Settled
    BY <2>1, <2>2
  <2>4. updates' \subseteq updates
    BY <1>10 DEF UpdateCommit
  <2>5. \A x \in syncs' : x \in syncs \/ x.status = "due"
    BY <1>10 DEF UpdateCommit, Due
  <2>6. CASE ~u.whole \/ u.target \notin {"delivered", "completed"}
    <3>1. \A p \in Orders : parent'[p] \in {"delivered", "completed"} => parent'[p] = parent[p]
      BY <1>0, <1>10, <2>6 DEF UpdateCommit
    <3>2. QED
      BY <2>3, <2>4, <2>5, <3>1, AheadKept
  <2>7. CASE u.whole /\ u.target \in {"delivered", "completed"}
    <3>1. parent' = [parent EXCEPT ![o] = u.target] /\ syncs' = syncs
      BY <1>10, <2>7 DEF UpdateCommit
    <3>2. \A c \in LinesOf(o) : c \in u.lines \/ child[c] \in Settled
      BY <2>7 DEF AheadInv
    <3>3. LinesSettled(o)'
      BY <2>1, <2>2, <3>2 DEF LinesSettled, LinesOf
    <3>4. \A p \in Orders : parent'[p] \in {"delivered", "completed"} => LinesSettled(p)'
      BY <1>0, <2>3, <3>1, <3>3 DEF AheadInv, LinesSettled, LinesOf
    <3>5. \A x \in syncs' : x.status \in {"delivered", "completed"} => LinesSettled(x.order)'
      BY <2>3, <3>1 DEF AheadInv, LinesSettled, LinesOf
    <3>6. \A v \in updates' :
              /\ v.target \in Settled
              /\ v.whole /\ v.target \in {"delivered", "completed"} =>
                    \A c \in LinesOf(v.order) : c \in v.lines \/ child'[c] \in Settled
      BY <2>3, <2>4 DEF AheadInv, LinesOf
    <3>7. QED
      BY <3>4, <3>5, <3>6 DEF AheadInv, LinesOf
  <2>8. QED
    BY <2>6, <2>7
<1>11. ASSUME NEW o \in Orders, SyncRead(o) \/ QueryRead(o) PROVE AheadInv'
  <2>1. ASSUME NEW x \in syncs', x \notin syncs, x.status \in {"delivered", "completed"}
        PROVE  LinesSettled(x.order)
    <3>1. x = [order |-> o, status |-> ParentStatus(o)] /\ ParentStatus(o) # parent[o]
      BY <1>11, <2>1 DEF SyncRead, QueryRead
    <3>2. {child[c] : c \in LinesOf(o)} \subseteq {"delivered", "completed"}
      BY <2>1, <3>1, SummarySettled DEF ParentStatus
    <3>3. QED
      BY <3>1, <3>2 DEF LinesSettled, Settled
  <2>2. QED
    BY <1>11, <2>1, AheadRead DEF SyncRead, QueryRead
<1>12. ASSUME NEW x \in syncs, SyncWrite(x) PROVE AheadInv'
  <2>1. parent' = [parent EXCEPT ![x.order] = x.status] /\ syncs' \subseteq syncs
        /\ child' = child /\ updates' = updates
    BY <1>12 DEF SyncWrite
  <2>2. x.order \in Orders
    BY DEF OrdersInv, LinesTyped, RestTyped
  <2>3. \A p \in Orders : parent'[p] \in {"delivered", "completed"} => LinesSettled(p)
    BY <1>0, <2>1, <2>2 DEF AheadInv
  <2>4. QED
    BY <2>1, <2>3 DEF AheadInv, LinesSettled, LinesOf
<1>13. CASE UNCHANGED vars
  BY <1>13, AheadRead DEF vars
<1>14. QED
  BY <1>1, <1>2, <1>3, <1>4, <1>5, <1>6, <1>7, <1>8, <1>9, <1>10, <1>11, <1>12, <1>13
     DEF Next, Deliver, UpdateStatus, SyncParentStatus

\* The parent never says delivered while a line is waited for, whichever
\* summary or update wrote it last, as long as no administrator sets a line
\* back.
THEOREM ParentNeverAhead ==
    ASSUME NoLineSetBack
    PROVE  Spec => []ParentNotAhead
<1>1. Init => OrdersInv /\ AheadInv
  BY OrdersInit, AheadInit
<1>2. OrdersInv /\ AheadInv /\ [Next]_vars => (OrdersInv /\ AheadInv)'
  BY OrdersStep, AheadStep
<1>3. AheadInv => ParentNotAhead
  BY DEF AheadInv, LinesSettled, Settled, ParentNotAhead
<1>4. QED
  BY <1>1, <1>2, <1>3, PTL DEF Spec
==============================================================================
