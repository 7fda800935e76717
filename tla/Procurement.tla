------------------------------ MODULE Procurement ------------------------------
(***************************************************************************)
(* One line of a paid order that this site, A, buys from another site, B,  *)
(* which runs the same code.  A keeps a procurement row and submits it in  *)
(* a task; B creates an order, its reference to A's order number, and pays *)
(* it from A's wallet in three transactions.  A learns the outcome from    *)
(* the response, from B's callback, from polls and from a periodic scan.   *)
(* Responses are lost, tasks run again, and administrators retry or cancel.*)
(*                                                                         *)
(* An action is one database transaction or one statement outside any;     *)
(* what a task has read before it is kept in the call or in the report.    *)
(***************************************************************************)
EXTENDS Naturals, FiniteSets

CONSTANTS
    Slots,             \* orders B may create for the line
    Calls,             \* bound: SubmitToUpstream runs at a time
    Unset,             \* an upstream order id of 0, no fulfillment record
    Protocols,         \* subset of {"dujiao", "sharedstock"}
    RetryMax,          \* the connection's retry limit
    PollMax,           \* len(pollIntervals)
    MaxCallbackTries,  \* maxCallbackRetries
    MaxQueued,         \* bound: equal tasks in a queue
    MaxReports,        \* bound: B's answers and callbacks on their way to A
    Faults             \* what else may go wrong: "overlap", "ref", "record"

ASSUME SlotsAssumption == Unset \notin Slots
ASSUME ProtocolsAssumption == Protocols \subseteq {"dujiao", "sharedstock"}
ASSUME LimitsAssumption ==
    /\ RetryMax \in Nat /\ PollMax \in Nat /\ MaxCallbackTries \in Nat \ {0}
    /\ MaxQueued \in Nat \ {0} /\ MaxReports \in Nat
ASSUME FaultsAssumption == Faults \subseteq {"overlap", "ref", "record"}

VARIABLES
    protocol,  \* the connection's protocol
    row,       \* A's procurement row: status, retry_count, upstream_order_id
    order,     \* status of A's child order
    record,    \* the upstream order A's fulfillment record was made from
    submits,   \* queued submit tasks
    polls,     \* queued poll tasks
    calls,     \* each SubmitToUpstream run and B's handler of its request
    upstream,  \* B's orders: status, whether the reference and fulfillment rows exist
    callback,  \* B's callback state of each order's reference, queued sends
    reports,   \* what A was told of a B order and has not written yet
    recording, \* delivered reports past the status update, before the record
    rollback,  \* a rollback has read "fulfilling" and not written "paid"
    canceling  \* CancelManual has read the row and not written it

aVars == <<row, order, record, submits, polls, rollback, canceling>>
bVars == <<upstream, callback>>
rVars == <<reports, recording>>
vars == <<protocol, aVars, bVars, rVars, calls>>

-----------------------------------------------------------------------------
RowStatus == {"none", "pending", "failed", "accepted", "uncertain", "rejected",
              "fulfilled", "canceled", "refunded"}

OrderStatus == {"paid", "fulfilling", "delivered"}

UpstreamStatus == {"none", "pending_payment", "paid", "delivered", "canceled", "refunded"}

Idle == [a |-> "idle", b |-> "none", read |-> "pending", retry |-> 0,
         slot |-> Unset, reply |-> "none"]

Queued(n) == IF n < MaxQueued THEN n + 1 ELSE n

Report(via, s, says, retry) == [via |-> via, slot |-> s, says |-> says, retry |-> retry]

\* B's paid_at: the orders A's wallet was debited for.
Bought == {s \in Slots : upstream[s].status \in {"paid", "delivered", "refunded"}}

\* Calls whose request B has found new and not answered yet.
Serving == {c \in Calls : calls[c].b \in {"checked", "created", "referenced", "paid"}}

Init ==
    /\ protocol \in Protocols
    /\ row = [status |-> "none", retry |-> 0, up |-> Unset]
    /\ order = "paid"
    /\ record = Unset
    /\ submits = 0 /\ polls = 0
    /\ calls = [c \in Calls |-> Idle]
    /\ upstream = [s \in Slots |-> [status |-> "none", ref |-> FALSE, given |-> FALSE]]
    /\ callback = [s \in Slots |-> [state |-> "pending", tries |-> 0, queued |-> 0]]
    /\ reports = {} /\ recording = {}
    /\ rollback = FALSE /\ canceling = FALSE

-----------------------------------------------------------------------------
(* A: creation, submission                                                  *)

\* createProcurementForSingleOrder; enqueueing may fail or never be reached.
CreateProcurement ==
    /\ row.status = "none"
    /\ row' = [row EXCEPT !.status = "pending"]
    /\ submits' \in {submits, Queued(submits)}
    /\ UNCHANGED <<protocol, order, record, polls, rollback, canceling, bVars, rVars, calls>>

\* SubmitToUpstream reads the row and checks its status.
SubmitRead(c) ==
    /\ submits > 0 /\ calls[c] = Idle
    /\ row.status \in {"pending", "failed"}
    /\ submits' = submits - 1
    /\ calls' = [calls EXCEPT ![c] =
            [Idle EXCEPT !.a = "preparing", !.read = row.status, !.retry = row.retry]]
    /\ UNCHANGED <<protocol, row, order, record, polls, rollback, canceling, bVars, rVars>>

\* ErrStatusInvalid, until the queue gives the task up.
SubmitRefused ==
    /\ submits > 0
    /\ row.status \notin {"pending", "failed"}
    /\ submits' = submits - 1
    /\ UNCHANGED <<protocol, row, order, record, polls, rollback, canceling, bVars, rVars, calls>>

\* markProcurementError: the status it has read is written back; the task is run again.
PrepareFails(c) ==
    /\ calls[c].a = "preparing"
    /\ row' = [row EXCEPT !.status = calls[c].read]
    /\ calls' = [calls EXCEPT ![c] = Idle]
    /\ submits' = Queued(submits)
    /\ UNCHANGED <<protocol, order, record, polls, rollback, canceling, bVars, rVars>>

\* rejectProcurement: a permanent configuration error.
PrepareRejects(c) ==
    /\ calls[c].a = "preparing"
    /\ row' = [row EXCEPT !.status = "rejected"]
    /\ rollback' = (rollback \/ order = "fulfilling")
    /\ calls' = [calls EXCEPT ![c] = Idle]
    /\ UNCHANGED <<protocol, order, record, submits, polls, canceling, bVars, rVars>>

Send(c) ==
    /\ calls[c].a = "preparing"
    /\ calls' = [calls EXCEPT ![c] =
            [Idle EXCEPT !.a = "waiting", !.b = "sent", !.retry = calls[c].retry]]
    /\ UNCHANGED <<protocol, aVars, bVars, rVars>>

\* A is done with the call; B's handler goes on without a reader.
Left(c) ==
    IF calls[c].b \in {"none", "replied"} THEN Idle
    ELSE [Idle EXCEPT !.a = "gone", !.b = calls[c].b, !.slot = calls[c].slot]

\* handleSubmitFailure
SubmitFails(c, retryable) ==
    /\ IF retryable /\ calls[c].retry < RetryMax
       THEN /\ row' = [row EXCEPT !.status = "failed", !.retry = calls[c].retry + 1]
            /\ UNCHANGED rollback
       ELSE /\ row' = [row EXCEPT !.status = "rejected"]
            /\ rollback' = (rollback \/ order = "fulfilling")
    /\ submits' = Queued(submits)
    /\ calls' = [calls EXCEPT ![c] = Left(c)]
    /\ UNCHANGED <<protocol, order, record, polls, canceling, bVars, rVars>>

ReplyFails(c) ==
    /\ calls[c].a = "waiting" /\ calls[c].b = "replied"
    /\ calls[c].reply \in {"retry", "refuse"}
    /\ SubmitFails(c, calls[c].reply = "retry")

\* No response in time: B may have done anything or nothing.
ReplyLost(c) ==
    /\ protocol = "dujiao"
    /\ calls[c].a = "waiting"
    /\ SubmitFails(c, TRUE)

\* The same under SharedStock: markSubmitUncertain, and no retry.
Bug_ReplyUncertain(c) ==
    /\ protocol = "sharedstock"
    /\ calls[c].a = "waiting"
    /\ row' = [row EXCEPT !.status = "accepted"]
    /\ calls' = [calls EXCEPT ![c] = Left(c)]
    /\ UNCHANGED <<protocol, order, record, submits, polls, rollback, canceling, bVars, rVars>>

ReplyUncertain(c) ==
    /\ protocol = "sharedstock"
    /\ calls[c].a = "waiting"
    /\ row' = [row EXCEPT !.status = "uncertain"]
    /\ calls' = [calls EXCEPT ![c] = Left(c)]
    /\ UNCHANGED <<protocol, order, record, submits, polls, rollback, canceling, bVars, rVars>>

Bug_ReplyAccepted(c) ==
    /\ calls[c].a = "waiting" /\ calls[c].b = "replied"
    /\ calls[c].reply \in {"ok", "secret"}
    /\ row' = [status |-> "submitted", retry |-> 0, up |-> calls[c].slot]
    /\ calls' = [calls EXCEPT ![c] = [@ EXCEPT !.a = "accepted", !.retry = 0]]
    /\ UNCHANGED <<protocol, order, record, submits, polls, rollback, canceling, bVars, rVars>>

\* The response is good: accepted, whatever the row has become meanwhile.
ReplyAccepted(c) ==
    /\ calls[c].a = "waiting" /\ calls[c].b = "replied"
    /\ calls[c].reply \in {"ok", "secret"}
    /\ row' = [status |-> "accepted", retry |-> 0, up |-> calls[c].slot]
    /\ calls' = [calls EXCEPT ![c] = [@ EXCEPT !.a = "accepted", !.retry = 0]]
    /\ UNCHANGED <<protocol, order, record, submits, polls, rollback, canceling, bVars, rVars>>

\* Then the local order, and the delivery the response carried or a poll.
SubmitEnds(c) ==
    /\ calls[c].a = "accepted"
    /\ order' = "fulfilling"
    /\ IF calls[c].reply = "secret"
       THEN /\ reports' = reports \cup {Report("submit", calls[c].slot, "delivered", 0)}
            /\ UNCHANGED polls
       ELSE polls' = Queued(polls) /\ UNCHANGED reports
    /\ calls' = [calls EXCEPT ![c] = Idle]
    /\ UNCHANGED <<protocol, row, record, submits, rollback, canceling, bVars, recording>>

\* The worker dies in the middle; the queue runs the task again.
SubmitDies(c) ==
    /\ calls[c].a \in {"preparing", "waiting", "accepted"}
    /\ calls' = [calls EXCEPT ![c] = Left(c)]
    /\ submits' = Queued(submits)
    /\ UNCHANGED <<protocol, row, order, record, polls, rollback, canceling, bVars, rVars>>

-----------------------------------------------------------------------------
(* B: CreateOrder and Trade                                                 *)

\* What B answers about an order it has: Trade needs the secret.
Answer(s) ==
    IF protocol = "dujiao" THEN "ok"
    ELSE IF upstream[s].status = "delivered" THEN "secret" ELSE "retry"

Replied(c, s, reply) ==
    calls' = [calls EXCEPT ![c] =
        IF @.a = "gone" THEN Idle ELSE [@ EXCEPT !.b = "replied", !.slot = s, !.reply = reply]]

\* EnqueueCallback: SharedStock orders have no callback URL.
Notified(s) ==
    IF upstream[s].ref /\ protocol = "dujiao"
    THEN [callback EXCEPT ![s] =
            [state |-> "pending",
             tries |-> IF @.state = "pending" THEN @.tries ELSE 0,
             queued |-> Queued(@.queued)]]
    ELSE callback

\* The idempotency check: a reference to this order number exists already.
ServeKnown(c, s) ==
    /\ calls[c].b = "sent"
    /\ upstream[s].ref
    /\ Replied(c, s, Answer(s))
    /\ UNCHANGED <<protocol, aVars, bVars, rVars>>

Bug_ServeCheck(c) ==
    /\ calls[c].b = "sent"
    /\ "overlap" \in Faults \/ Serving = {}
    /\ calls' = [calls EXCEPT ![c].b = "checked"]
    /\ UNCHANGED <<protocol, aVars, bVars, rVars>>

ServeCheck(c) ==
    /\ calls[c].b = "sent"
    /\ \A s \in Slots : ~upstream[s].ref
    /\ "overlap" \in Faults \/ Serving = {}
    /\ calls' = [calls EXCEPT ![c].b = "checked"]
    /\ UNCHANGED <<protocol, aVars, bVars, rVars>>

\* The order is refused before it exists: no stock, product off the shelf.
ServeRefuses(c) ==
    /\ calls[c].b = "checked"
    /\ Replied(c, Unset, "retry")
    /\ UNCHANGED <<protocol, aVars, bVars, rVars>>

ServeCreate(c, s) ==
    /\ calls[c].b = "checked"
    /\ upstream[s].status = "none"
    /\ upstream' = [upstream EXCEPT ![s].status = "pending_payment"]
    /\ calls' = [calls EXCEPT ![c] = [@ EXCEPT !.b = "created", !.slot = s]]
    /\ UNCHANGED <<protocol, aVars, callback, rVars>>

ServeRef(c) ==
    /\ calls[c].b = "created"
    /\ upstream' = [upstream EXCEPT ![calls[c].slot].ref = TRUE]
    /\ calls' = [calls EXCEPT ![c].b = "referenced"]
    /\ UNCHANGED <<protocol, aVars, callback, rVars>>

Canceled(s) == IF upstream[s].status = "pending_payment"
               THEN [upstream EXCEPT ![s].status = "canceled"] ELSE upstream

\* The reference cannot be written: CreateOrder goes on, Trade cancels.
ServeRefFails(c) ==
    /\ "ref" \in Faults
    /\ calls[c].b = "created"
    /\ IF protocol = "dujiao"
       THEN /\ calls' = [calls EXCEPT ![c].b = "referenced"]
            /\ UNCHANGED upstream
       ELSE /\ upstream' = Canceled(calls[c].slot)
            /\ Replied(c, Unset, "retry")
    /\ UNCHANGED <<protocol, aVars, callback, rVars>>

ServePay(c) ==
    /\ calls[c].b = "referenced"
    /\ upstream[calls[c].slot].status = "pending_payment"
    /\ upstream' = [upstream EXCEPT ![calls[c].slot].status = "paid"]
    /\ callback' = Notified(calls[c].slot)
    /\ calls' = [calls EXCEPT ![c].b = "paid"]
    /\ UNCHANGED <<protocol, aVars, rVars>>

\* A's wallet at B is short, or the order is no longer open.
ServePayFails(c) ==
    /\ calls[c].b = "referenced"
    /\ upstream' = Canceled(calls[c].slot)
    /\ Replied(c, Unset, IF protocol = "dujiao" THEN "refuse" ELSE "retry")
    /\ UNCHANGED <<protocol, aVars, callback, rVars>>

\* CreateOrder answers at once; Trade has waited for the delivery meanwhile.
ServeAnswers(c) ==
    /\ calls[c].b = "paid"
    /\ Replied(c, calls[c].slot, Answer(calls[c].slot))
    /\ UNCHANGED <<protocol, aVars, bVars, rVars>>

\* The request is lost on the way or B's process dies with it.
ServeDies(c) ==
    /\ calls[c].b \notin {"none", "replied"}
    /\ calls' = [calls EXCEPT ![c] =
            IF @.a = "gone" THEN Idle ELSE [@ EXCEPT !.b = "none", !.slot = Unset]]
    /\ UNCHANGED <<protocol, aVars, bVars, rVars>>

-----------------------------------------------------------------------------
(* B: what becomes of its order, and telling A                              *)

\* The timeout task of an order nobody pays.
UpstreamExpires(s) ==
    /\ upstream[s].status = "pending_payment"
    /\ upstream' = Canceled(s)
    /\ UNCHANGED <<protocol, aVars, callback, rVars, calls>>

UpstreamDelivers(s) ==
    /\ upstream[s].status = "paid"
    /\ upstream' = [upstream EXCEPT ![s].status = "delivered", ![s].given = TRUE]
    /\ callback' = Notified(s)
    /\ UNCHANGED <<protocol, aVars, rVars, calls>>

\* A refund notifies nobody.
UpstreamRefunds(s) ==
    /\ upstream[s].status \in {"paid", "delivered"}
    /\ upstream' = [upstream EXCEPT ![s].status = "refunded"]
    /\ UNCHANGED <<protocol, aVars, callback, rVars, calls>>

Final == {"delivered", "canceled", "refunded"}

Bug_Told(s) == IF s \in Bought THEN "delivered" ELSE "open"

\* mapProcurementUpstreamStatus of GetOrder; SharedStock tells only the secret.
Told(s) ==
    IF protocol = "sharedstock" THEN (IF upstream[s].given THEN "delivered" ELSE "open")
    ELSE IF upstream[s].status \in Final THEN upstream[s].status ELSE "open"

\* SendCallback reads the order as it is now.
SendCallback(s) ==
    /\ callback[s].queued > 0
    /\ Cardinality(reports) < MaxReports
    /\ callback' = [callback EXCEPT ![s].queued = @ - 1]
    /\ reports' = reports \cup {Report("callback", s, Told(s), callback[s].tries)}
    /\ UNCHANGED <<protocol, aVars, upstream, recording, calls>>

\* What SendCallback does with A's reply: sent, or handleCallbackFailure.
Outcome(r, ok) ==
    IF r.via # "callback" THEN callback
    ELSE IF ok THEN [callback EXCEPT ![r.slot].state = "sent", ![r.slot].tries = r.retry]
    ELSE IF r.retry + 1 >= MaxCallbackTries
    THEN [callback EXCEPT ![r.slot].state = "failed", ![r.slot].tries = r.retry + 1]
    ELSE [callback EXCEPT ![r.slot].tries = r.retry + 1, ![r.slot].queued = Queued(@)]

\* The callback does not arrive, A refuses it, or A's reply does not arrive.
CallbackLost(r) ==
    /\ r.via = "callback"
    /\ reports' = reports \ {r}
    /\ callback' = Outcome(r, FALSE)
    /\ UNCHANGED <<protocol, aVars, upstream, recording, calls>>

-----------------------------------------------------------------------------
(* A: polls, the periodic scan and HandleUpstreamCallback                   *)

PollRead ==
    /\ polls > 0
    /\ polls' = polls - 1
    /\ \/ /\ row.status # "accepted"
          /\ UNCHANGED reports
       \/ /\ row.status = "accepted"
          /\ Cardinality(reports) < MaxReports
          /\ \E says \in {"open"} \cup (IF row.up = Unset THEN {} ELSE {Told(row.up)}) :
                reports' = reports \cup {Report("poll", row.up, says, row.retry)}
    /\ UNCHANGED <<protocol, row, order, record, submits, rollback, canceling, bVars, recording, calls>>

Bug_ScanRead ==
    /\ row.status = "accepted" /\ row.up # Unset
    /\ \A r \in reports : r.via # "scan"
    /\ Told(row.up) = "delivered"
    /\ reports' = reports \cup {Report("scan", row.up, Told(row.up), 0)}
    /\ UNCHANGED <<protocol, aVars, bVars, recording, calls>>

\* SyncAcceptedOrders
ScanRead ==
    /\ row.status = "accepted" /\ row.up # Unset
    /\ \A r \in reports : r.via # "scan"
    /\ Told(row.up) # "open"
    /\ reports' = reports \cup {Report("scan", row.up, Told(row.up), 0)}
    /\ UNCHANGED <<protocol, aVars, bVars, recording, calls>>

\* HandleCallback's ownership check; only callbacks are checked.
Owned(r) == r.via # "callback" \/ row.up \in {Unset, r.slot}

\* requeuePoll: the status it has read is written back.
Requeue(r) ==
    /\ r.says = "open" /\ Owned(r)
    /\ reports' = reports \ {r}
    /\ callback' = Outcome(r, TRUE)
    /\ IF r.via = "poll" /\ r.retry < PollMax
       THEN /\ row' = [row EXCEPT !.status = "accepted", !.retry = r.retry + 1]
            /\ polls' = Queued(polls)
       ELSE UNCHANGED <<row, polls>>
    /\ UNCHANGED <<protocol, order, record, submits, rollback, canceling, upstream, recording, calls>>

\* HandleUpstreamCallback, "delivered": first the procurement row.
Delivered(r) ==
    /\ r.says = "delivered" /\ Owned(r)
    /\ row' = [row EXCEPT !.status = "fulfilled"]
    /\ reports' = reports \ {r}
    /\ recording' = recording \cup {r}
    /\ UNCHANGED <<protocol, order, record, submits, polls, rollback, canceling, bVars, calls>>

\* then the fulfillment record, once, and the local order.
Record(r) ==
    /\ recording' = recording \ {r}
    /\ record' = IF record = Unset THEN r.slot ELSE record
    /\ order' = "delivered"
    /\ callback' = Outcome(r, TRUE)
    /\ UNCHANGED <<protocol, row, submits, polls, rollback, canceling, upstream, reports, calls>>

RecordFails(r) ==
    /\ "record" \in Faults
    /\ recording' = recording \ {r}
    /\ callback' = Outcome(r, FALSE)
    /\ UNCHANGED <<protocol, aVars, upstream, reports, calls>>

\* "canceled", which rolls the local order back, and "refunded", which does not.
Withdrawn(r) ==
    /\ r.says \in {"canceled", "refunded"} /\ Owned(r)
    /\ row' = [row EXCEPT !.status = r.says]
    /\ rollback' = (rollback \/ (r.says = "canceled" /\ order = "fulfilling"))
    /\ reports' = reports \ {r}
    /\ callback' = Outcome(r, TRUE)
    /\ UNCHANGED <<protocol, order, record, submits, polls, canceling, upstream, recording, calls>>

\* rollbackLocalOrderOnProcurementFailure writes what it decided.
RollbackWrite ==
    /\ rollback
    /\ rollback' = FALSE
    /\ order' = "paid"
    /\ UNCHANGED <<protocol, row, record, submits, polls, canceling, bVars, rVars, calls>>

-----------------------------------------------------------------------------
(* Administrators                                                           *)

RetryManual ==
    /\ row.status \in {"failed", "rejected"}
    /\ row' = [row EXCEPT !.status = "pending", !.retry = 0]
    /\ submits' = Queued(submits)
    /\ UNCHANGED <<protocol, order, record, polls, rollback, canceling, bVars, rVars, calls>>

\* CancelManual reads, asks B to cancel an accepted order, ...
CancelRead ==
    /\ ~canceling
    /\ row.status \notin {"none", "fulfilled", "refunded", "canceled"}
    /\ canceling' = TRUE
    /\ upstream' \in
          IF row.status = "accepted" /\ row.up # Unset /\ protocol = "dujiao"
          THEN {upstream, Canceled(row.up)} ELSE {upstream}
    /\ UNCHANGED <<protocol, row, order, record, submits, polls, rollback, callback, rVars, calls>>

\* ... and writes, whatever B said and the row has become.
CancelWrite ==
    /\ canceling
    /\ canceling' = FALSE
    /\ row' = [row EXCEPT !.status = "canceled"]
    /\ UNCHANGED <<protocol, order, record, submits, polls, rollback, bVars, rVars, calls>>

-----------------------------------------------------------------------------
Submission ==
    \E c \in Calls :
        \/ SubmitRead(c) \/ PrepareFails(c) \/ PrepareRejects(c) \/ Send(c)
        \/ ReplyFails(c) \/ ReplyLost(c) \/ ReplyUncertain(c) \/ ReplyAccepted(c)
        \/ SubmitEnds(c) \/ SubmitDies(c)

Serve ==
    \E c \in Calls :
        \/ ServeCheck(c) \/ ServeRefuses(c) \/ ServeRef(c) \/ ServeRefFails(c)
        \/ ServePay(c) \/ ServePayFails(c) \/ ServeAnswers(c) \/ ServeDies(c)
        \/ \E s \in Slots : ServeKnown(c, s) \/ ServeCreate(c, s)

Supplier ==
    \E s \in Slots :
        UpstreamExpires(s) \/ UpstreamDelivers(s) \/ UpstreamRefunds(s) \/ SendCallback(s)

Handle == \E r \in reports : Requeue(r) \/ Delivered(r) \/ Withdrawn(r)

Next ==
    \/ CreateProcurement \/ SubmitRefused \/ Submission \/ Serve \/ Supplier
    \/ PollRead \/ ScanRead \/ Handle \/ RollbackWrite
    \/ \E r \in reports : CallbackLost(r)
    \/ \E r \in recording : Record(r) \/ RecordFails(r)
    \/ RetryManual \/ CancelRead \/ CancelWrite

Spec == Init /\ [][Next]_vars

\* The periodic scan runs every half hour, and what A was told is handled.
LiveSpec ==
    /\ Spec
    /\ WF_vars(ScanRead)
    /\ WF_vars(Handle)

-----------------------------------------------------------------------------
Phase == {"none", "sent", "checked", "created", "referenced", "paid", "replied"}

CallType ==
    [a : {"idle", "preparing", "waiting", "accepted", "gone"}, b : Phase,
     read : {"pending", "failed"}, retry : Nat, slot : Slots \cup {Unset},
     reply : {"none", "ok", "secret", "retry", "refuse"}]

RowType == [status : RowStatus, retry : Nat, up : Slots \cup {Unset}]

UpstreamType == [status : UpstreamStatus, ref : BOOLEAN, given : BOOLEAN]

CallbackType == [state : {"pending", "sent", "failed"}, tries : Nat, queued : 0..MaxQueued]

ReportType == [via : {"callback", "poll", "scan", "submit"}, slot : Slots \cup {Unset},
               says : Final \cup {"open"}, retry : Nat]

\* Every row, queue and call keeps the shape the code gives it.
TypeOK ==
    /\ protocol \in Protocols
    /\ row \in RowType
    /\ order \in OrderStatus
    /\ record \in Slots \cup {Unset}
    /\ submits \in 0..MaxQueued /\ polls \in 0..MaxQueued
    /\ calls \in [Calls -> CallType]
    /\ upstream \in [Slots -> UpstreamType]
    /\ callback \in [Slots -> CallbackType]
    /\ reports \subseteq ReportType /\ recording \subseteq ReportType
    /\ rollback \in BOOLEAN /\ canceling \in BOOLEAN

\* The upstream_order.go check that "the same downstream order number is not
\* created twice" for one credential: the line is paid for once at most.
BoughtOnce == Cardinality(Bought) <= 1

\* An accepted row names an upstream order that exists, although polls write
\* back the status they have read and a response may overtake or be overtaken.
AcceptedIsRegistered ==
    row.status = "accepted" => row.up # Unset /\ upstream[row.up].status # "none"

\* A row is fulfilled, and the buyer has a record, only when B has delivered
\* that very order, whatever stale reports and overtaken responses have written.
FulfilledWasDelivered ==
    /\ row.status = "fulfilled" => \E s \in Slots : upstream[s].given
    /\ record # Unset => upstream[record].given

\* As long as B serves one request of the line at a time and can write its
\* reference, the two sites buy and deliver the line as Supply promises.
SupplyOf == INSTANCE Supply WITH bought <- Bought, received <- record

ImplementsSupply == SupplyOf!SupplySpec

\* A finished upstream order does not leave its row accepted, whichever
\* callbacks are lost, polls give up and responses come late.
AcceptedIsResolved ==
    (row.status = "accepted" /\ row.up # Unset /\ Told(row.up) # "open")
        ~> (row.status # "accepted")
==============================================================================
