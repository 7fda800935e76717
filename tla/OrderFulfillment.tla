--------------------------- MODULE OrderFulfillment ---------------------------
(***************************************************************************)
(* What an order's lines go through: an order is a parent row and one      *)
(* child order per line.  Creating it reserves card secrets or manual      *)
(* stock; paying it sets every child and consumes the stock; a worker      *)
(* delivers automatic lines, an administrator manual ones; cancellations   *)
(* and administrators' updates interleave with all of it; and the parent's *)
(* status is summarised from its children outside any transaction.         *)
(*                                                                         *)
(* An action is a database transaction, or a statement outside one.  What  *)
(* a request has read before its transaction is kept in its record.        *)
(***************************************************************************)
EXTENDS Integers, FiniteSets, Functions

CONSTANTS
    Orders,
    Lines,         \* child orders: <<order, "auto" or "manual">>
    Quantity,      \* the quantity of each line
    Nobody,        \* order_id of a secret no line has
    Secrets,       \* the card secrets of the automatic product
    StockTotal,    \* manual_stock_total of the manual SKU at the start
    MaxTries,      \* bound: runs of an auto-fulfil task (1 + asynq.MaxRetry)
    MaxInFlight,   \* bound: updates and queries that have read, not written
    ChildTargets,  \* what an administrator sets a child order to
    ParentTargets  \* what an administrator sets a parent order to

OrderStatus ==
    {"pending_payment", "paid", "fulfilling", "partially_delivered", "delivered",
     "completed", "canceled", "partially_refunded", "refunded"}

ASSUME LinesAssumption ==
    /\ Lines \subseteq Orders \X {"auto", "manual"}
    /\ \A o \in Orders : \E c \in Lines : c[1] = o
    /\ Quantity \in [Lines -> Nat \ {0}]
    /\ Nobody \notin Lines
ASSUME StockAssumption ==
    /\ StockTotal \in Nat
    /\ IsFiniteSet(Secrets)
    /\ IsFiniteSet(Orders)
ASSUME BoundsAssumption == MaxTries \in Nat /\ MaxInFlight \in Nat
ASSUME TargetsAssumption ==
    /\ ChildTargets \subseteq OrderStatus \ {"paid", "pending_payment"}
    /\ ParentTargets \subseteq {"canceled", "completed", "partially_refunded", "refunded"}

VARIABLES
    parent,      \* status of each parent order, "none" before it exists
    child,       \* status of each line's child order
    paid,        \* orders with paid_at
    secret,      \* the card_secrets table
    stock,       \* the manual SKU's total, locked and sold
    fulfillment, \* the fulfillments table: how a line was delivered
    dispatches,  \* paid orders whose follow-up work is not enqueued yet
    tasks,       \* runs left of each line's auto-fulfil task
    deliveries,  \* CreateAuto and CreateManual calls that passed their checks
    updates,     \* cancellations and status updates that passed their checks
    syncs        \* parent summaries, due or computed and not yet written

pvars == <<secret, stock>>
wvars == <<dispatches, tasks, deliveries>>
vars == <<parent, child, paid, secret, stock, fulfillment, dispatches, tasks,
          deliveries, updates, syncs>>

-----------------------------------------------------------------------------
LinesOf(o) == {c \in Lines : c[1] = o}

AutoLines == {c \in Lines : c[2] = "auto"}

ManualLines == {c \in Lines : c[2] = "manual"}

\* The units of manual stock that lines of one order stand for.
Units(S) == SumFunctionOnSet(Quantity, S \cap ManualLines)

\* allowedTransitions: the statuses IsTransitionAllowed leads to.
Allowed(status) ==
    CASE status = "pending_payment" -> {"paid", "canceled"}
      [] status = "paid" ->
            {"fulfilling", "partially_delivered", "delivered", "partially_refunded", "refunded"}
      [] status = "fulfilling" ->
            {"partially_delivered", "delivered", "partially_refunded", "refunded"}
      [] status = "partially_delivered" ->
            {"delivered", "completed", "partially_refunded", "refunded"}
      [] status = "delivered" -> {"completed", "partially_refunded", "refunded"}
      [] status = "completed" -> {"partially_refunded", "refunded"}
      [] status = "partially_refunded" -> {"refunded"}
      [] OTHER -> {}

\* CalcParentStatus: the children's statuses and, failing them, the current one.
Bug_Summary(statuses, current) ==
    IF statuses = {"canceled"} THEN "canceled"
    ELSE IF statuses \cap {"delivered", "completed"} # {} THEN "delivered"
    ELSE IF "fulfilling" \in statuses THEN "fulfilling"
    ELSE IF "paid" \in statuses THEN "paid"
    ELSE current

Summary(statuses, current) ==
    IF statuses = {"canceled"} THEN "canceled"
    ELSE IF statuses = {"refunded"} THEN "refunded"
    ELSE IF statuses \cap {"refunded", "partially_refunded"} # {} THEN "partially_refunded"
    ELSE IF statuses = {"completed"} THEN "completed"
    ELSE IF statuses \subseteq {"delivered", "completed"} THEN "delivered"
    ELSE IF statuses \cap {"delivered", "completed"} # {} THEN "partially_delivered"
    ELSE IF "fulfilling" \in statuses THEN "fulfilling"
    ELSE IF "paid" \in statuses THEN "paid"
    ELSE IF "pending_payment" \in statuses THEN "pending_payment"
    ELSE current

ParentStatus(o) == Summary({child[c] : c \in LinesOf(o)}, parent[o])

-----------------------------------------------------------------------------
(* Card secrets and manual stock                                           *)

Free == {s \in Secrets : secret[s].status = "available"}

ReservedFor(c) == {s \in Secrets : secret[s] = [status |-> "reserved", line |-> c]}

UsedBy(c) == {s \in Secrets : secret[s] = [status |-> "used", line |-> c]}

\* ReleaseByOrder for each line of S.
Bug_SecretsReleased(S) ==
    [s \in Secrets |-> IF \E c \in S : s \in ReservedFor(c) /\ child[c] = "pending_payment"
                       THEN [status |-> "available", line |-> Nobody]
                       ELSE secret[s]]

SecretsReleased(S) ==
    [s \in Secrets |-> IF \E c \in S : s \in ReservedFor(c)
                       THEN [status |-> "available", line |-> Nobody]
                       ELSE secret[s]]

\* Selections CreateAuto may make: reserved secrets first, free ones to fill up.
Selections(c) ==
    {S \in SUBSET (ReservedFor(c) \cup Free) :
        /\ Cardinality(S) = Quantity[c]
        /\ S \subseteq ReservedFor(c) \/ ReservedFor(c) \subseteq S}

\* MarkUsed's condition on a row.
Bug_Usable(s, c) == TRUE

Usable(s, c) ==
    \/ secret[s].status = "available"
    \/ secret[s] = [status |-> "reserved", line |-> c]

\* ReserveManualStock, ReleaseManualStock and ConsumeManualStock.
CanReserve(q) == stock.total >= q

Reserved(q) == [stock EXCEPT !.total = @ - q, !.locked = @ + q]

Bug_Released(q) == [stock EXCEPT !.total = @ + q, !.locked = @ - q]

Released(q) ==
    IF stock.locked >= q THEN [stock EXCEPT !.total = @ + q, !.locked = @ - q] ELSE stock

CanConsume(q) == stock.locked >= q \/ stock.total >= q - stock.locked

Bug_Consumed(q) ==
    IF stock.locked >= q
    THEN [stock EXCEPT !.locked = @ - q, !.sold = @ + q]
    ELSE [stock EXCEPT !.total = @ - q, !.locked = 0, !.sold = @ + q]

Consumed(q) ==
    IF stock.locked >= q
    THEN [stock EXCEPT !.locked = @ - q, !.sold = @ + q]
    ELSE [stock EXCEPT !.total = @ - (q - stock.locked), !.locked = 0, !.sold = @ + q]

-----------------------------------------------------------------------------
Init ==
    /\ parent = [o \in Orders |-> "none"]
    /\ child = [c \in Lines |-> "none"]
    /\ paid = {}
    /\ secret = [s \in Secrets |-> [status |-> "available", line |-> Nobody]]
    /\ stock = [total |-> StockTotal, locked |-> 0, sold |-> 0]
    /\ fulfillment = [c \in Lines |-> "none"]
    /\ dispatches = {}
    /\ tasks = [c \in Lines |-> 0]
    /\ deliveries = {}
    /\ updates = {}
    /\ syncs = {}

\* createOrder: the parent, its children, their secrets and their stock.
CreateOrder(o) ==
    /\ parent[o] = "none"
    /\ CanReserve(Units(LinesOf(o)))
    /\ \E pick \in [LinesOf(o) \cap AutoLines -> SUBSET Free] :
          /\ \A c \in DOMAIN pick : Cardinality(pick[c]) = Quantity[c]
          /\ secret' = [s \in Secrets |->
                 IF \E c \in DOMAIN pick : s \in pick[c]
                 THEN [status |-> "reserved", line |-> CHOOSE c \in DOMAIN pick : s \in pick[c]]
                 ELSE secret[s]]
    /\ stock' = Reserved(Units(LinesOf(o)))
    /\ parent' = [parent EXCEPT ![o] = "pending_payment"]
    /\ child' = [c \in Lines |-> IF c[1] = o THEN "pending_payment" ELSE child[c]]
    /\ UNCHANGED <<paid, fulfillment, wvars, updates, syncs>>

\* markOrderPaid, in the transaction that records the payment: every child is
\* set, whatever it was; without enough stock the transaction is undone.
MarkOrderPaid(o) ==
    LET units == Units(LinesOf(o))
        now == [c \in Lines |->
                   IF c[1] # o THEN child[c] ELSE IF c \in AutoLines THEN "paid" ELSE "fulfilling"]
    IN  /\ parent[o] = "pending_payment"
        /\ CanConsume(units)
        /\ child' = now
        /\ parent' = [parent EXCEPT ![o] = Summary({now[c] : c \in LinesOf(o)}, "paid")]
        /\ paid' = paid \cup {o}
        /\ stock' = Consumed(units)
        /\ dispatches' = dispatches \cup {o}
        /\ UNCHANGED <<secret, fulfillment, tasks, deliveries, updates, syncs>>

\* enqueueOrderPaidAsync, after that transaction: one task per automatic line.
Bug_Dispatch(o) ==
    /\ o \in dispatches
    /\ dispatches' = dispatches \ {o}
    /\ tasks' = [c \in Lines |-> IF c \in LinesOf(o) \cap AutoLines /\ parent[o] = "paid"
                                 THEN MaxTries ELSE tasks[c]]
    /\ UNCHANGED <<parent, child, paid, pvars, fulfillment, deliveries, updates, syncs>>

Dispatch(o) ==
    /\ o \in dispatches
    /\ dispatches' = dispatches \ {o}
    /\ tasks' = [c \in Lines |-> IF c \in LinesOf(o) \cap AutoLines THEN MaxTries ELSE tasks[c]]
    /\ UNCHANGED <<parent, child, paid, pvars, fulfillment, deliveries, updates, syncs>>

-----------------------------------------------------------------------------
(* Fulfillment                                                             *)

Delivery(c, by, picked) == [line |-> c, by |-> by, picked |-> picked]

Due(o) == [order |-> o, status |-> "due"]

\* The task runs: it is dropped unless the child is paid when it is read.
AutoStart(c) ==
    /\ tasks[c] > 0
    /\ IF child[c] = "paid"
       THEN /\ deliveries' = deliveries \cup {Delivery(c, "auto", {})}
            /\ tasks' = [tasks EXCEPT ![c] = @ - 1]
       ELSE tasks' = [tasks EXCEPT ![c] = 0] /\ UNCHANGED deliveries
    /\ UNCHANGED <<parent, child, paid, pvars, fulfillment, dispatches, updates, syncs>>

\* CreateAuto's transaction selects the secrets, without a lock.
AutoPick(d) ==
    /\ d \in deliveries
    /\ d.by = "auto" /\ d.picked = {}
    /\ fulfillment[d.line] = "none"
    /\ \E S \in Selections(d.line) :
          deliveries' = (deliveries \ {d}) \cup {Delivery(d.line, "auto", S)}
    /\ UNCHANGED <<parent, child, paid, pvars, fulfillment, dispatches, tasks, updates, syncs>>

\* It marks them used, if each still may be, and inserts the unique record.
AutoCommit(d) ==
    /\ d \in deliveries
    /\ d.by = "auto" /\ d.picked # {}
    /\ fulfillment[d.line] = "none"
    /\ \A s \in d.picked : Usable(s, d.line)
    /\ secret' = [s \in Secrets |->
           IF s \in d.picked THEN [status |-> "used", line |-> d.line] ELSE secret[s]]
    /\ fulfillment' = [fulfillment EXCEPT ![d.line] = "auto"]
    /\ child' = [child EXCEPT ![d.line] = "completed"]
    /\ syncs' = syncs \cup {Due(d.line[1])}
    /\ deliveries' = deliveries \ {d}
    /\ tasks' = [tasks EXCEPT ![d.line] = 0]
    /\ UNCHANGED <<parent, paid, stock, dispatches, updates>>

\* An administrator delivers a line, of either kind, by hand.
Bug_Deliverable == {"pending_payment", "paid", "fulfilling"}

Deliverable == {"paid", "fulfilling"}

ManualStart(c) ==
    /\ child[c] \in Deliverable
    /\ deliveries' = deliveries \cup {Delivery(c, "manual", {})}
    /\ UNCHANGED <<parent, child, paid, pvars, fulfillment, dispatches, tasks, updates, syncs>>

ManualCommit(d) ==
    /\ d \in deliveries
    /\ d.by = "manual"
    /\ fulfillment[d.line] = "none"
    /\ fulfillment' = [fulfillment EXCEPT ![d.line] = "manual"]
    /\ child' = [child EXCEPT ![d.line] = "delivered"]
    /\ syncs' = syncs \cup {Due(d.line[1])}
    /\ deliveries' = deliveries \ {d}
    /\ UNCHANGED <<parent, paid, pvars, dispatches, tasks, updates>>

\* The line already has a record, the secrets do not suffice, or one of them
\* has gone: the transaction is undone.  Only a record found before selecting
\* drops the task, any other failure has it run again.
DeliveryFails(d) ==
    /\ d \in deliveries
    /\ \/ fulfillment[d.line] # "none"
       \/ d.by = "auto" /\ d.picked = {} /\ Selections(d.line) = {}
       \/ \E s \in d.picked : ~Usable(s, d.line)
    /\ deliveries' = deliveries \ {d}
    /\ tasks' = [tasks EXCEPT ![d.line] =
           IF d.by = "auto" /\ d.picked = {} /\ fulfillment[d.line] # "none" THEN 0 ELSE @]
    /\ UNCHANGED <<parent, child, paid, pvars, fulfillment, dispatches, updates, syncs>>

-----------------------------------------------------------------------------
(* Cancellations and administrators' updates                               *)

Update(o, whole, target, lines) ==
    [order |-> o, whole |-> whole, target |-> target, lines |-> lines]

Room == Cardinality(updates) + Cardinality({x \in syncs : x.status # "due"}) < MaxInFlight

\* CancelOrder, CancelExpiredOrder and a query that finds the order overdue
\* cancel a pending order; an administrator cancels any.
CancelRead(o) ==
    /\ Room
    /\ \/ parent[o] = "pending_payment"
       \/ "canceled" \in ParentTargets /\ parent[o] \notin {"none", "canceled"}
    /\ updates' = updates \cup {Update(o, TRUE, "canceled", LinesOf(o))}
    /\ UNCHANGED <<parent, child, paid, pvars, fulfillment, wvars, syncs>>

\* UpdateOrderStatus of a parent: all of its lines must be able to follow.
ParentRead(o, target) ==
    LET behind == {c \in LinesOf(o) : child[c] # target}
    IN  /\ Room
        /\ target \in ParentTargets \ {"canceled"}
        /\ parent[o] \notin {"none", target}
        /\ IF target = "completed"
           THEN parent[o] = "delivered" /\ \A c \in behind : child[c] = "delivered"
           ELSE \A c \in behind : target \in Allowed(child[c])
        /\ updates' = updates \cup {Update(o, TRUE, target, behind)}
        /\ UNCHANGED <<parent, child, paid, pvars, fulfillment, wvars, syncs>>

\* UpdateOrderStatus of a child order.
ChildRead(c, target) ==
    /\ Room
    /\ target \in ChildTargets
    /\ child[c] # "none"
    /\ target \in Allowed(child[c])
    /\ updates' = updates \cup {Update(c[1], FALSE, target, {c})}
    /\ UNCHANGED <<parent, child, paid, pvars, fulfillment, wvars, syncs>>

\* The update's transaction writes without a condition on what is there now;
\* a cancellation gives back reserved secrets and locked stock.
UpdateCommit(u) ==
    /\ u \in updates
    /\ child' = [c \in Lines |-> IF c \in u.lines THEN u.target ELSE child[c]]
    /\ IF u.target = "canceled"
       THEN /\ secret' = SecretsReleased(u.lines)
            /\ stock' = Released(Units(u.lines))
       ELSE UNCHANGED pvars
    /\ IF u.whole
       THEN parent' = [parent EXCEPT ![u.order] = u.target] /\ UNCHANGED syncs
       ELSE syncs' = syncs \cup {Due(u.order)} /\ UNCHANGED parent
    /\ updates' = updates \ {u}
    /\ UNCHANGED <<paid, fulfillment, wvars>>

-----------------------------------------------------------------------------
(* The parent's status                                                     *)

\* SyncParentStatus reads the parent and its children; a canceled parent stays.
SyncRead(o) ==
    /\ Due(o) \in syncs
    /\ syncs' = (syncs \ {Due(o)}) \cup
           (IF parent[o] = "canceled" \/ ParentStatus(o) = parent[o]
            THEN {} ELSE {[order |-> o, status |-> ParentStatus(o)]})
    /\ UNCHANGED <<parent, child, paid, pvars, fulfillment, wvars, updates>>

\* A query of the order summarises it too, canceled or not.
QueryRead(o) ==
    /\ Room
    /\ parent[o] # "none"
    /\ ParentStatus(o) # parent[o]
    /\ syncs' = syncs \cup {[order |-> o, status |-> ParentStatus(o)]}
    /\ UNCHANGED <<parent, child, paid, pvars, fulfillment, wvars, updates>>

SyncWrite(x) ==
    /\ x \in syncs
    /\ x.status # "due"
    /\ parent' = [parent EXCEPT ![x.order] = x.status]
    /\ syncs' = syncs \ {x}
    /\ UNCHANGED <<child, paid, pvars, fulfillment, wvars, updates>>

-----------------------------------------------------------------------------
Deliver ==
    \/ \E c \in Lines : AutoStart(c) \/ ManualStart(c)
    \/ \E d \in deliveries : AutoPick(d) \/ AutoCommit(d) \/ ManualCommit(d) \/ DeliveryFails(d)

UpdateStatus ==
    \/ \E o \in Orders : CancelRead(o) \/ \E target \in ParentTargets : ParentRead(o, target)
    \/ \E c \in Lines, target \in ChildTargets : ChildRead(c, target)
    \/ \E u \in updates : UpdateCommit(u)

SyncParentStatus ==
    \/ \E o \in Orders : SyncRead(o) \/ QueryRead(o)
    \/ \E x \in syncs : SyncWrite(x)

Next ==
    \/ \E o \in Orders : CreateOrder(o) \/ MarkOrderPaid(o) \/ Dispatch(o)
    \/ Deliver
    \/ UpdateStatus
    \/ SyncParentStatus

Spec == Init /\ [][Next]_vars

\* The process that recorded the payment lives to enqueue the tasks, and the
\* queue runs a task it holds until the run ends.
FairSpec ==
    /\ Spec
    /\ \A o \in Orders : WF_vars(Dispatch(o))
    /\ \A c \in AutoLines :
          /\ WF_vars(AutoStart(c))
          /\ WF_vars(\E d \in deliveries : d.line = c /\ AutoPick(d))
          /\ WF_vars(\E d \in deliveries : d.line = c /\ (AutoCommit(d) \/ DeliveryFails(d)))
-----------------------------------------------------------------------------
(* Properties                                                              *)

StatusOrNone == OrderStatus \cup {"none"}

\* The tables and requests keep their types; the stock columns stay natural.
TypeOK ==
    /\ parent \in [Orders -> StatusOrNone]
    /\ child \in [Lines -> StatusOrNone]
    /\ paid \subseteq Orders
    /\ secret \in [Secrets -> [status : {"available", "reserved", "used"}, line : Lines \cup {Nobody}]]
    /\ stock \in [total : Nat, locked : Nat, sold : Nat]
    /\ fulfillment \in [Lines -> {"none", "auto", "manual"}]
    /\ dispatches \subseteq Orders
    /\ tasks \in [Lines -> 0 .. MaxTries]
    /\ deliveries \subseteq [line : Lines, by : {"auto", "manual"}, picked : SUBSET Secrets]
    /\ updates \subseteq [order : Orders, whole : BOOLEAN, target : OrderStatus, lines : SUBSET Lines]
    /\ syncs \subseteq [order : Orders, status : OrderStatus \cup {"due"}]

\* A line delivered automatically holds exactly the secrets it was sold for,
\* and no other line holds any: no interleaving of workers, cancellations and
\* a delivery by hand gives a secret away without its record or beside it.
SecretsMatchFulfillment ==
    \A c \in Lines :
        Cardinality(UsedBy(c)) = IF fulfillment[c] = "auto" THEN Quantity[c] ELSE 0

\* A canceled line keeps no reservation and nor does a line that got its
\* secrets: stock is not lost to an order that will never take it.
ReservationsAreLive ==
    \A c \in Lines : ReservedFor(c) # {} =>
        child[c] \notin {"none", "canceled"} /\ fulfillment[c] # "auto"

\* Nothing is handed out before the money is recorded, although the status
\* is checked before the delivery's transaction.
DeliveredOnlyWhenPaid == \A c \in Lines : fulfillment[c] # "none" => c[1] \in paid

\* The manual SKU's columns account for every unit: no reservation, release
\* or sale creates or loses one, and each paid order is sold once.
StockBalanced ==
    /\ stock.total + stock.locked + stock.sold = StockTotal
    /\ stock.sold = Units({c \in Lines : c[1] \in paid})

\* The parent never runs ahead of its lines: once it says delivered, whichever
\* summary or update wrote it last, no line is still waited for.
ParentNotAhead ==
    \A o \in Orders : parent[o] \in {"delivered", "completed"} =>
        \A c \in LinesOf(o) :
            child[c] \notin {"none", "pending_payment", "paid", "fulfilling", "partially_delivered"}

\* Refinement: the card_secrets and fulfillments tables implement the promise.
Secret == INSTANCE SecretDelivery
    WITH holder <- [s \in Secrets |-> IF secret[s].status = "used" THEN secret[s].line ELSE Nobody],
         delivered <- {c \in Lines : fulfillment[c] = "auto"}

\* Every behaviour delivers each secret at most once, for good, and each line
\* its exact quantity at once.
ImplementsDelivery == Secret!DeliverySpec

\* A paid automatic line does not wait forever: it is delivered from its own
\* reservation, or a cancellation that raced the payment took it away.
PaidLineLeavesPaid == \A c \in AutoLines : child[c] = "paid" ~> child[c] # "paid"
==============================================================================
