-------------------------- MODULE ProcurementProofs --------------------------
(***************************************************************************)
(* Theorems about Procurement, for every number of upstream orders, of     *)
(* submit runs at a time, of retries, polls, queued tasks and reports, and *)
(* under both protocols.                                                   *)
(***************************************************************************)
EXTENDS Procurement, TLAPS

(* Types                                                                   *)

LEMMA QueuedType == ASSUME NEW n \in 0..MaxQueued PROVE Queued(n) \in 0..MaxQueued
BY LimitsAssumption DEF Queued

\* A table with one row replaced is a table.
LEMMA CallsUpdate ==
    ASSUME TypeOK, NEW c \in Calls, NEW k \in CallType
    PROVE  [calls EXCEPT ![c] = k] \in [Calls -> CallType]
BY DEF TypeOK

LEMMA UpstreamUpdate ==
    ASSUME TypeOK, NEW s \in Slots, NEW u \in UpstreamType
    PROVE  [upstream EXCEPT ![s] = u] \in [Slots -> UpstreamType]
BY DEF TypeOK

LEMMA RowUpdate ==
    ASSUME TypeOK, NEW status \in RowStatus, NEW n \in Nat
    PROVE  /\ [row EXCEPT !.status = status] \in RowType
           /\ [row EXCEPT !.status = status, !.retry = n] \in RowType
BY DEF TypeOK, RowType

LEMMA IdleType == Idle \in CallType
BY DEF Idle, CallType, Phase

\* Changing a field of a call keeps its type.
LEMMA CallFields ==
    ASSUME NEW k \in CallType, NEW b \in Phase, NEW s \in Slots \cup {Unset},
           NEW reply \in {"none", "ok", "secret", "retry", "refuse"}
    PROVE  /\ [k EXCEPT !.b = b] \in CallType
           /\ [k EXCEPT !.b = b, !.slot = s] \in CallType
           /\ [k EXCEPT !.b = b, !.slot = s, !.reply = reply] \in CallType
           /\ [k EXCEPT !.a = "accepted", !.retry = 0] \in CallType
BY DEF CallType

LEMMA StartedCalls ==
    ASSUME NEW k \in CallType
    PROVE  /\ [Idle EXCEPT !.a = "waiting", !.b = "sent", !.retry = k.retry] \in CallType
           /\ [Idle EXCEPT !.a = "gone", !.b = k.b, !.slot = k.slot] \in CallType
BY DEF CallType, Idle, Phase

LEMMA UpstreamFields ==
    ASSUME NEW u \in UpstreamType, NEW status \in UpstreamStatus
    PROVE  /\ [u EXCEPT !.status = status] \in UpstreamType
           /\ [u EXCEPT !.status = status, !.given = TRUE] \in UpstreamType
           /\ [u EXCEPT !.ref = TRUE] \in UpstreamType
BY DEF UpstreamType

LEMMA LeftType == ASSUME TypeOK, NEW c \in Calls PROVE Left(c) \in CallType
<1>1. calls[c] \in CallType
  BY DEF TypeOK
<1>2. QED
  BY <1>1, IdleType, StartedCalls DEF Left

LEMMA RepliedType ==
    ASSUME TypeOK, NEW c \in Calls, NEW s \in Slots \cup {Unset},
           NEW reply \in {"ok", "secret", "retry", "refuse"}, Replied(c, s, reply)
    PROVE  calls' \in [Calls -> CallType]
<1>1. [calls[c] EXCEPT !.b = "replied", !.slot = s, !.reply = reply] \in CallType
  BY CallFields DEF TypeOK, Phase
<1>2. QED
  BY <1>1, IdleType DEF TypeOK, Replied

LEMMA ReportIsTyped ==
    ASSUME NEW via \in {"callback", "poll", "scan", "submit"}, NEW s \in Slots \cup {Unset},
           NEW says \in Final \cup {"open"}, NEW n \in Nat
    PROVE  Report(via, s, says, n) \in ReportType
BY DEF Report, ReportType

LEMMA ToldType == ASSUME TypeOK, NEW s \in Slots PROVE Told(s) \in Final \cup {"open"}
BY DEF Told, Final

LEMMA CanceledType ==
    ASSUME TypeOK, NEW s \in Slots
    PROVE  Canceled(s) \in [Slots -> UpstreamType]
BY DEF Canceled, TypeOK, UpstreamType, UpstreamStatus

LEMMA NotifiedType == ASSUME TypeOK, NEW s \in Slots PROVE Notified(s) \in [Slots -> CallbackType]
BY QueuedType DEF Notified, TypeOK, CallbackType

LEMMA OutcomeType ==
    ASSUME TypeOK, NEW r \in ReportType, NEW ok \in BOOLEAN
    PROVE  Outcome(r, ok) \in [Slots -> CallbackType]
<1>1. callback \in [Slots -> CallbackType]
  BY DEF TypeOK
<1>2. CASE r.via # "callback"
  BY <1>1, <1>2 DEF Outcome
<1>3. CASE r.slot \notin Slots
  BY <1>1, <1>3 DEF Outcome, CallbackType
<1>4. CASE r.slot \in Slots
  <2>1. Queued(callback[r.slot].queued) \in 0..MaxQueued
    BY <1>1, <1>4, QueuedType DEF CallbackType
  <2>2. r.retry \in Nat /\ r.retry + 1 \in Nat
    BY DEF ReportType
  <2>3. QED
    BY <1>1, <1>4, <2>1, <2>2 DEF Outcome, CallbackType
<1>5. QED
  BY <1>2, <1>3, <1>4

LEMMA TypeInit == Init => TypeOK
<1> SUFFICES ASSUME Init PROVE TypeOK
  OBVIOUS
<1>1. 0 \in 0..MaxQueued
  BY LimitsAssumption
<1>2. calls \in [Calls -> CallType]
  BY IdleType DEF Init
<1>3. row \in RowType
  BY DEF Init, RowType, RowStatus
<1>4. upstream \in [Slots -> UpstreamType]
  BY DEF Init, UpstreamType, UpstreamStatus
<1>5. callback \in [Slots -> CallbackType]
  BY <1>1 DEF Init, CallbackType
<1>6. QED
  BY <1>1, <1>2, <1>3, <1>4, <1>5 DEF Init, TypeOK, OrderStatus

LEMMA SubmissionType ==
    ASSUME TypeOK, NEW c \in Calls,
           \/ SubmitRead(c) \/ PrepareFails(c) \/ PrepareRejects(c) \/ Send(c)
           \/ ReplyFails(c) \/ ReplyLost(c) \/ ReplyUncertain(c) \/ ReplyAccepted(c)
           \/ SubmitEnds(c) \/ SubmitDies(c)
    PROVE  TypeOK'
<1> USE QueuedType, IdleType, LimitsAssumption DEF aVars, bVars, rVars
<1>0. /\ calls[c].read \in {"pending", "failed"} /\ calls[c].retry \in Nat
      /\ calls[c].slot \in Slots \cup {Unset} /\ calls[c] \in CallType
  BY DEF TypeOK, CallType
<1>1. CASE SubmitRead(c)
  <2> DEFINE k == [Idle EXCEPT !.a = "preparing", !.read = row.status, !.retry = row.retry]
  <2>0. k \in CallType
    BY <1>1 DEF SubmitRead, TypeOK, RowType, CallType, Phase, Idle
  <2>1. calls' \in [Calls -> CallType]
    BY <1>1, <2>0, CallsUpdate DEF SubmitRead
  <2>2. submits' \in 0..MaxQueued
    BY <1>1 DEF SubmitRead, TypeOK
  <2>3. QED
    BY <1>1, <2>1, <2>2 DEF SubmitRead, TypeOK
<1>2. CASE PrepareFails(c)
  <2>1. calls' \in [Calls -> CallType]
    BY <1>2, CallsUpdate DEF PrepareFails
  <2>2. row' \in RowType
    BY <1>2, <1>0 DEF RowType, PrepareFails, TypeOK, RowStatus
  <2>3. QED
    BY <1>2, <2>1, <2>2 DEF PrepareFails, TypeOK
<1>3. CASE PrepareRejects(c)
  <2>1. calls' \in [Calls -> CallType]
    BY <1>3, CallsUpdate DEF PrepareRejects
  <2>2. row' \in RowType
    BY <1>3 DEF RowType, PrepareRejects, TypeOK, RowStatus
  <2>3. QED
    BY <1>3, <2>1, <2>2 DEF PrepareRejects, TypeOK
<1>4. CASE Send(c)
  <2>1. calls' \in [Calls -> CallType]
    BY <1>4, <1>0, StartedCalls, CallsUpdate DEF Send
  <2>2. QED
    BY <1>4, <2>1 DEF Send, TypeOK
<1>5. ASSUME NEW b \in BOOLEAN, SubmitFails(c, b) PROVE TypeOK'
  <2>1. calls' \in [Calls -> CallType]
    BY <1>5, LeftType, CallsUpdate DEF SubmitFails
  <2>2. row' \in RowType
    <3>1. calls[c].retry + 1 \in Nat
      BY <1>0
    <3>2. QED
      BY <1>5, <3>1, RowUpdate DEF SubmitFails, RowStatus
  <2>3. rollback' \in BOOLEAN
    BY <1>5 DEF SubmitFails, TypeOK
  <2>4. QED
    BY <1>5, <2>1, <2>2, <2>3 DEF SubmitFails, TypeOK
<1>6. CASE ReplyFails(c)
  BY <1>5, <1>6 DEF ReplyFails
<1>7. CASE ReplyLost(c)
  BY <1>5, <1>7 DEF ReplyLost
<1>8. CASE ReplyUncertain(c)
  <2>1. calls' \in [Calls -> CallType]
    BY <1>8, LeftType, CallsUpdate DEF ReplyUncertain
  <2>2. row' \in RowType
    BY <1>8 DEF RowType, ReplyUncertain, TypeOK, RowStatus
  <2>3. QED
    BY <1>8, <2>1, <2>2 DEF ReplyUncertain, TypeOK
<1>9. CASE ReplyAccepted(c)
  <2> DEFINE k == [calls[c] EXCEPT !.a = "accepted", !.retry = 0]
  <2>0. k \in CallType
    BY <1>0, CallFields DEF Phase
  <2>1. calls' \in [Calls -> CallType]
    BY <1>9, <2>0, CallsUpdate DEF ReplyAccepted
  <2>2. row' \in RowType
    BY <1>9, <1>0 DEF RowType, ReplyAccepted, TypeOK, RowStatus
  <2>3. QED
    BY <1>9, <2>1, <2>2 DEF ReplyAccepted, TypeOK
<1>10. CASE SubmitEnds(c)
  <2>1. calls' \in [Calls -> CallType]
    BY <1>10, CallsUpdate DEF SubmitEnds
  <2>2. Report("submit", calls[c].slot, "delivered", 0) \in ReportType
    BY <1>0, ReportIsTyped DEF Final
  <2>3. reports' \subseteq ReportType /\ polls' \in 0..MaxQueued
    BY <1>10, <2>2 DEF SubmitEnds, TypeOK
  <2>4. QED
    BY <1>10, <2>1, <2>3 DEF SubmitEnds, TypeOK, OrderStatus
<1>11. CASE SubmitDies(c)
  <2>1. calls' \in [Calls -> CallType]
    BY <1>11, LeftType, CallsUpdate DEF SubmitDies
  <2>2. QED
    BY <1>11, <2>1 DEF SubmitDies, TypeOK
<1>12. QED
  BY <1>1, <1>2, <1>3, <1>4, <1>6, <1>7, <1>8, <1>9, <1>10, <1>11

\* A handler that is creating or paying works on an order of B's.
ServedSlots == \A c \in Calls :
    calls[c].b \in {"created", "referenced", "paid"} => calls[c].slot \in Slots

LEMMA ServeType ==
    ASSUME TypeOK, ServedSlots, NEW c \in Calls,
           \/ ServeCheck(c) \/ ServeRefuses(c) \/ ServeRef(c) \/ ServeRefFails(c)
           \/ ServePay(c) \/ ServePayFails(c) \/ ServeAnswers(c) \/ ServeDies(c)
           \/ \E s \in Slots : ServeKnown(c, s) \/ ServeCreate(c, s)
    PROVE  TypeOK'
<1> USE IdleType DEF aVars, bVars, rVars
<1>0. \A s \in Slots : Answer(s) \in {"ok", "secret", "retry", "refuse"}
  BY DEF Answer
<1>a. calls[c] \in CallType /\ calls[c].slot \in Slots \cup {Unset}
  BY DEF TypeOK, CallType
<1>1. CASE ServeCheck(c)
  <2> DEFINE k == [calls[c] EXCEPT !.b = "checked"]
  <2>0. k \in CallType
    BY <1>a, CallFields DEF Phase
  <2>1. calls' \in [Calls -> CallType]
    BY <1>1, <2>0, CallsUpdate DEF ServeCheck
  <2>2. QED
    BY <1>1, <2>1 DEF ServeCheck, TypeOK
<1>2. CASE ServeRefuses(c)
  <2>1. calls' \in [Calls -> CallType]
    BY <1>2, RepliedType DEF ServeRefuses
  <2>2. QED
    BY <1>2, <2>1 DEF ServeRefuses, TypeOK
<1>3. CASE ServeRef(c)
  <2> DEFINE k == [calls[c] EXCEPT !.b = "referenced"]
  <2>0. k \in CallType
    BY <1>a, CallFields DEF Phase
  <2>1. calls' \in [Calls -> CallType]
    BY <1>3, <2>0, CallsUpdate DEF ServeRef
  <2>2. upstream' \in [Slots -> UpstreamType]
    <3>1. calls[c].slot \in Slots
      BY <1>3 DEF ServeRef, ServedSlots
    <3>2. [upstream[calls[c].slot] EXCEPT !.ref = TRUE] \in UpstreamType
      BY <3>1, UpstreamFields DEF TypeOK, UpstreamStatus
    <3>3. QED
      BY <1>3, <3>1, <3>2, UpstreamUpdate DEF ServeRef
  <2>3. QED
    BY <1>3, <2>1, <2>2 DEF ServeRef, TypeOK
<1>4. CASE ServeRefFails(c)
  <2>1. calls' \in [Calls -> CallType]
    BY <1>4, RepliedType DEF ServeRefFails, TypeOK, CallType, Phase
  <2>2. upstream' \in [Slots -> UpstreamType]
    BY <1>4, CanceledType DEF ServeRefFails, ServedSlots, TypeOK
  <2>3. QED
    BY <1>4, <2>1, <2>2 DEF ServeRefFails, TypeOK
<1>5. CASE ServePay(c)
  <2> DEFINE k == [calls[c] EXCEPT !.b = "paid"]
  <2>0. k \in CallType
    BY <1>a, CallFields DEF Phase
  <2>1. calls' \in [Calls -> CallType]
    BY <1>5, <2>0, CallsUpdate DEF ServePay
  <2>2. upstream' \in [Slots -> UpstreamType]
    BY UpstreamFields, <1>5 DEF ServePay, TypeOK, UpstreamStatus
  <2>3. callback' \in [Slots -> CallbackType]
    BY <1>5, NotifiedType DEF ServePay, ServedSlots
  <2>4. QED
    BY <1>5, <2>1, <2>2, <2>3 DEF ServePay, TypeOK
<1>6. CASE ServePayFails(c)
  <2>1. calls' \in [Calls -> CallType]
    BY <1>6, RepliedType DEF ServePayFails
  <2>2. upstream' \in [Slots -> UpstreamType]
    BY <1>6, CanceledType DEF ServePayFails, ServedSlots
  <2>3. QED
    BY <1>6, <2>1, <2>2 DEF ServePayFails, TypeOK
<1>7. CASE ServeAnswers(c)
  <2>1. calls' \in [Calls -> CallType]
    BY <1>7, <1>0, RepliedType DEF ServeAnswers, ServedSlots
  <2>2. QED
    BY <1>7, <2>1 DEF ServeAnswers, TypeOK
<1>8. CASE ServeDies(c)
  <2> DEFINE k == [calls[c] EXCEPT !.b = "none", !.slot = Unset]
  <2>0. k \in CallType
    BY <1>a, CallFields DEF Phase
  <2>1. calls' \in [Calls -> CallType]
    BY <1>8, <2>0, CallsUpdate DEF ServeDies
  <2>2. QED
    BY <1>8, <2>1 DEF ServeDies, TypeOK
<1>9. ASSUME NEW s \in Slots, ServeKnown(c, s) PROVE TypeOK'
  <2>1. calls' \in [Calls -> CallType]
    BY <1>9, <1>0, RepliedType DEF ServeKnown
  <2>2. QED
    BY <1>9, <2>1 DEF ServeKnown, TypeOK
<1>10. ASSUME NEW s \in Slots, ServeCreate(c, s) PROVE TypeOK'
  <2> DEFINE k == [calls[c] EXCEPT !.b = "created", !.slot = s]
  <2>0. k \in CallType
    BY <1>a, CallFields DEF Phase
  <2>1. calls' \in [Calls -> CallType]
    BY <1>10, <2>0, CallsUpdate DEF ServeCreate
  <2>2. upstream' \in [Slots -> UpstreamType]
    BY UpstreamFields, <1>10 DEF ServeCreate, TypeOK, UpstreamStatus
  <2>3. QED
    BY <1>10, <2>1, <2>2 DEF ServeCreate, TypeOK
<1>11. QED
  BY <1>1, <1>2, <1>3, <1>4, <1>5, <1>6, <1>7, <1>8, <1>9, <1>10

LEMMA SupplierType ==
    ASSUME TypeOK, NEW s \in Slots,
           UpstreamExpires(s) \/ UpstreamDelivers(s) \/ UpstreamRefunds(s) \/ SendCallback(s)
    PROVE  TypeOK'
<1> USE DEF aVars, bVars, rVars
<1>1. CASE UpstreamExpires(s)
  BY <1>1, CanceledType DEF UpstreamExpires, TypeOK
<1>2. CASE UpstreamDelivers(s)
  <2>1. callback' \in [Slots -> CallbackType]
    BY <1>2, NotifiedType DEF UpstreamDelivers
  <2>2. QED
    BY <1>2, <2>1 DEF UpstreamDelivers, TypeOK, UpstreamType, UpstreamStatus
<1>3. CASE UpstreamRefunds(s)
  BY <1>3 DEF UpstreamRefunds, TypeOK, UpstreamType, UpstreamStatus
<1>4. CASE SendCallback(s)
  <2>1. Report("callback", s, Told(s), callback[s].tries) \in ReportType
    BY ReportIsTyped, ToldType DEF TypeOK, CallbackType
  <2>2. callback' \in [Slots -> CallbackType]
    BY <1>4, LimitsAssumption DEF SendCallback, TypeOK, CallbackType
  <2>3. QED
    BY <1>4, <2>1, <2>2 DEF SendCallback, TypeOK
<1>5. QED
  BY <1>1, <1>2, <1>3, <1>4

LEMMA ReportStepType ==
    ASSUME TypeOK, NEW r \in reports,
           CallbackLost(r) \/ Requeue(r) \/ Delivered(r) \/ Withdrawn(r)
    PROVE  TypeOK'
<1> USE QueuedType DEF aVars, bVars, rVars
<1>0. r \in ReportType
  BY DEF TypeOK
<1>1. CASE CallbackLost(r)
  BY <1>0, <1>1, OutcomeType DEF CallbackLost, TypeOK
<1>2. CASE Requeue(r)
  <2>1. row' \in RowType
    <3>1. r.retry + 1 \in Nat /\ row \in RowType
      BY <1>0 DEF ReportType, TypeOK
    <3>2. QED
      BY <1>2, <3>1, RowUpdate DEF Requeue, RowStatus
  <2>2. callback' \in [Slots -> CallbackType]
    BY <1>0, <1>2, OutcomeType DEF Requeue
  <2>3. QED
    BY <1>2, <2>1, <2>2 DEF Requeue, TypeOK
<1>3. CASE Delivered(r)
  BY <1>0, <1>3 DEF Delivered, TypeOK, RowType, RowStatus
<1>4. CASE Withdrawn(r)
  <2>1. callback' \in [Slots -> CallbackType]
    BY <1>0, <1>4, OutcomeType DEF Withdrawn
  <2>2. row' \in RowType
    BY <1>4 DEF RowType, Withdrawn, TypeOK, RowStatus
  <2>3. QED
    BY <1>4, <2>1, <2>2 DEF Withdrawn, TypeOK
<1>5. QED
  BY <1>1, <1>2, <1>3, <1>4

LEMMA RecordStepType ==
    ASSUME TypeOK, NEW r \in recording, Record(r) \/ RecordFails(r)
    PROVE  TypeOK'
<1> USE DEF aVars, bVars, rVars
<1>0. r \in ReportType /\ r.slot \in Slots \cup {Unset}
  BY DEF TypeOK, ReportType
<1>1. callback' \in [Slots -> CallbackType]
  BY <1>0, OutcomeType DEF Record, RecordFails
<1>2. QED
  BY <1>0, <1>1 DEF Record, RecordFails, TypeOK, OrderStatus

LEMMA TypeStep == TypeOK /\ ServedSlots /\ [Next]_vars => TypeOK'
<1> SUFFICES ASSUME TypeOK, ServedSlots, [Next]_vars PROVE TypeOK'
  OBVIOUS
<1> USE QueuedType DEF aVars, bVars, rVars
<1>1. CASE CreateProcurement
  BY <1>1 DEF CreateProcurement, TypeOK, RowType, RowStatus
<1>2. CASE SubmitRefused
  BY <1>2, LimitsAssumption DEF SubmitRefused, TypeOK
<1>3. CASE PollRead
  <2>1. polls' \in 0..MaxQueued
    BY <1>3, LimitsAssumption DEF PollRead, TypeOK
  <2>2. ASSUME NEW says \in {"open"} \cup (IF row.up = Unset THEN {} ELSE {Told(row.up)})
        PROVE  Report("poll", row.up, says, row.retry) \in ReportType
    BY <2>2, ReportIsTyped, ToldType DEF TypeOK, RowType, Final
  <2>3. reports' \subseteq ReportType
    BY <1>3, <2>2 DEF PollRead, TypeOK
  <2>4. QED
    BY <1>3, <2>1, <2>3 DEF PollRead, TypeOK
<1>4. CASE ScanRead
  <2>1. Report("scan", row.up, Told(row.up), 0) \in ReportType
    BY <1>4, ReportIsTyped, ToldType DEF ScanRead, TypeOK, RowType
  <2>2. QED
    BY <1>4, <2>1 DEF ScanRead, TypeOK
<1>5. CASE RollbackWrite
  BY <1>5 DEF RollbackWrite, TypeOK, OrderStatus
<1>6. CASE RetryManual
  BY <1>6 DEF RetryManual, TypeOK, RowType, RowStatus
<1>7. CASE CancelRead
  <2>1. upstream' \in [Slots -> UpstreamType]
    <3>1. upstream \in [Slots -> UpstreamType]
      BY DEF TypeOK
    <3>2. row.status = "accepted" /\ row.up # Unset => row.up \in Slots
      BY DEF TypeOK, RowType
    <3>3. QED
      BY <1>7, <3>1, <3>2, CanceledType DEF CancelRead
  <2>2. QED
    BY <1>7, <2>1 DEF CancelRead, TypeOK
<1>8. CASE CancelWrite
  BY <1>8 DEF CancelWrite, TypeOK, RowType, RowStatus
<1>9. CASE UNCHANGED vars
  BY <1>9 DEF vars, TypeOK
<1>10. QED
  BY <1>1, <1>2, <1>3, <1>4, <1>5, <1>6, <1>7, <1>8, <1>9,
     SubmissionType, ServeType, SupplierType, ReportStepType, RecordStepType
     DEF Next, Submission, Serve, Supplier, Handle
-----------------------------------------------------------------------------
(* What is delivered was delivered by B, for every fault                   *)

\* An order B has created.
Registered(s) == s \in Slots /\ upstream[s].status # "none"

\* What a call k may say when B's orders are u.
CallTrue(k, u) ==
    /\ k.b \in {"created", "referenced", "paid"} =>
          k.slot \in Slots /\ u[k.slot].status # "none"
    /\ k.reply \in {"ok", "secret"} =>
          k.b = "replied" /\ k.slot \in Slots /\ u[k.slot].status # "none"
    /\ k.reply = "secret" => u[k.slot].given

CallsTrue == \A c \in Calls : CallTrue(calls[c], upstream)

RefRegistered == \A s \in Slots : upstream[s].ref => upstream[s].status # "none"

GivenDelivered == \A s \in Slots :
    /\ upstream[s].status = "delivered" => upstream[s].given
    /\ upstream[s].given => upstream[s].status \in {"delivered", "refunded"}

ReportsTrue ==
    /\ \A r \in reports \cup recording :
          r.says = "delivered" => r.slot \in Slots /\ upstream[r.slot].given
    /\ \A r \in recording : r.says = "delivered"

RowRegistered ==
    /\ row.up # Unset => Registered(row.up)
    /\ row.status = "accepted" => row.up # Unset
    /\ \A r \in reports : r.via = "poll" => row.up # Unset

\* The inductive invariant that ties every claim about B's order to it.
Sourced ==
    /\ TypeOK
    /\ CallsTrue
    /\ RefRegistered /\ GivenDelivered
    /\ ReportsTrue
    /\ RowRegistered /\ FulfilledWasDelivered

LEMMA SourcedInit == Init => Sourced
<1> SUFFICES ASSUME Init PROVE Sourced
  OBVIOUS
<1>1. TypeOK
  BY TypeInit
<1>2. CallsTrue
  BY DEF Init, Idle, CallsTrue, CallTrue
<1>3. RefRegistered /\ GivenDelivered
  BY DEF Init, RefRegistered, GivenDelivered
<1>4. ReportsTrue /\ RowRegistered /\ FulfilledWasDelivered
  BY DEF Init, ReportsTrue, RowRegistered, FulfilledWasDelivered
<1>5. QED
  BY <1>1, <1>2, <1>3, <1>4 DEF Sourced

\* B's orders never vanish, and what was delivered stays so.
UpstreamGrows == \A s \in Slots :
    /\ upstream[s].status # "none" => upstream'[s].status # "none"
    /\ upstream[s].given => upstream'[s].given

LEMMA CanceledGrows ==
    ASSUME Sourced, NEW s \in Slots, upstream' = Canceled(s)
    PROVE  UpstreamGrows /\ RefRegistered' /\ GivenDelivered'
<1>1. CASE upstream' = upstream
  BY <1>1 DEF UpstreamGrows, Sourced, RefRegistered, GivenDelivered
<1>2. CASE /\ upstream[s].status = "pending_payment"
           /\ upstream' = [upstream EXCEPT ![s].status = "canceled"]
  BY <1>2 DEF UpstreamGrows, Sourced, RefRegistered, GivenDelivered, TypeOK, UpstreamType
<1>3. QED
  BY <1>1, <1>2 DEF Canceled

LEMMA UpstreamStep ==
    ASSUME Sourced, [Next]_vars
    PROVE  UpstreamGrows /\ RefRegistered' /\ GivenDelivered'
<1> USE DEF bVars
<1>1. CASE upstream' = upstream
  BY <1>1 DEF UpstreamGrows, Sourced, RefRegistered, GivenDelivered
<1>2. ASSUME NEW c \in Calls, ServeRefFails(c) \/ ServePayFails(c)
      PROVE  UpstreamGrows /\ RefRegistered' /\ GivenDelivered'
  <2>1. calls[c].slot \in Slots
    BY <1>2 DEF ServeRefFails, ServePayFails, Sourced, CallsTrue, CallTrue
  <2>2. QED
    BY <1>1, <1>2, <2>1, CanceledGrows DEF ServeRefFails, ServePayFails
<1>3. ASSUME NEW c \in Calls, ServeRef(c)
      PROVE  UpstreamGrows /\ RefRegistered' /\ GivenDelivered'
  <2>1. calls[c].slot \in Slots /\ upstream[calls[c].slot].status # "none"
    BY <1>3 DEF ServeRef, Sourced, CallsTrue, CallTrue
  <2>2. QED
    BY <1>3, <2>1 DEF ServeRef, UpstreamGrows, Sourced, RefRegistered,
       GivenDelivered, TypeOK, UpstreamType
<1>4. ASSUME NEW c \in Calls, ServePay(c)
      PROVE  UpstreamGrows /\ RefRegistered' /\ GivenDelivered'
  BY <1>4 DEF ServePay, UpstreamGrows, Sourced, RefRegistered, GivenDelivered,
     CallsTrue, CallTrue, TypeOK, UpstreamType
<1>5. ASSUME NEW c \in Calls, NEW s \in Slots, ServeCreate(c, s)
      PROVE  UpstreamGrows /\ RefRegistered' /\ GivenDelivered'
  BY <1>5 DEF ServeCreate, UpstreamGrows, Sourced, RefRegistered, GivenDelivered,
     TypeOK, UpstreamType
<1>6. ASSUME NEW s \in Slots, UpstreamExpires(s)
      PROVE  UpstreamGrows /\ RefRegistered' /\ GivenDelivered'
  BY <1>6, CanceledGrows DEF UpstreamExpires
<1>7. ASSUME NEW s \in Slots, UpstreamDelivers(s) \/ UpstreamRefunds(s)
      PROVE  UpstreamGrows /\ RefRegistered' /\ GivenDelivered'
  <2>1. upstream \in [Slots -> UpstreamType] /\ upstream[s] \in UpstreamType
    BY DEF Sourced, TypeOK
  <2>2. \A t \in Slots \ {s} : upstream'[t] = upstream[t]
    BY <1>7, <2>1 DEF UpstreamDelivers, UpstreamRefunds
  <2>3. /\ upstream'[s].status \in {"delivered", "refunded"}
        /\ upstream'[s].status = "delivered" => upstream'[s].given
        /\ upstream[s].given => upstream'[s].given
    BY <1>7, <2>1 DEF UpstreamDelivers, UpstreamRefunds, UpstreamType
  <2>4. QED
    BY <2>2, <2>3 DEF UpstreamGrows, Sourced, RefRegistered, GivenDelivered
<1>8. CASE CancelRead
  <2>1. row.status = "accepted" /\ row.up # Unset => row.up \in Slots
    BY DEF Sourced, TypeOK, RowType
  <2>2. QED
    BY <1>1, <1>8, <2>1, CanceledGrows DEF CancelRead
<1>9. \/ upstream' = upstream
      \/ \E c \in Calls : \/ ServeRefFails(c) \/ ServePayFails(c) \/ ServeRef(c) \/ ServePay(c)
                          \/ \E s \in Slots : ServeCreate(c, s)
      \/ \E s \in Slots : UpstreamExpires(s) \/ UpstreamDelivers(s) \/ UpstreamRefunds(s)
      \/ CancelRead
  <2> USE DEF vars
  <2>1. CASE Submission
    BY <2>1 DEF Submission, SubmitRead, PrepareFails, PrepareRejects, Send, ReplyFails, ReplyLost,
       SubmitFails, ReplyUncertain, ReplyAccepted, SubmitEnds, SubmitDies
  <2>2. CASE Serve
    BY <2>2 DEF Serve, ServeCheck, ServeRefuses, ServeAnswers, ServeDies, ServeKnown
  <2>3. CASE Supplier
    BY <2>3 DEF Supplier, SendCallback
  <2>4. CASE Handle
    BY <2>4 DEF Handle, Requeue, Delivered, Withdrawn
  <2>5. CASE \/ CreateProcurement \/ SubmitRefused \/ PollRead \/ ScanRead \/ RollbackWrite
             \/ \E r \in reports : CallbackLost(r)
             \/ \E r \in recording : Record(r) \/ RecordFails(r)
             \/ RetryManual \/ CancelWrite \/ UNCHANGED vars
    BY <2>5 DEF CreateProcurement, SubmitRefused, PollRead, ScanRead, RollbackWrite,
       CallbackLost, Record, RecordFails, RetryManual, CancelWrite
  <2>6. QED
    BY <2>1, <2>2, <2>3, <2>4, <2>5 DEF Next
<1>10. QED
  BY <1>1, <1>2, <1>3, <1>4, <1>5, <1>6, <1>7, <1>8, <1>9

\* A true call stays true while B's orders grow.
LEMMA CallTrueGrows ==
    ASSUME NEW k, CallTrue(k, upstream), UpstreamGrows
    PROVE  CallTrue(k, upstream')
BY DEF CallTrue, UpstreamGrows

LEMMA OneCallChanges ==
    ASSUME Sourced, UpstreamGrows, NEW c \in Calls, NEW k,
           calls' = [calls EXCEPT ![c] = k], CallTrue(k, upstream')
    PROVE  CallsTrue'
<1>1. ASSUME NEW d \in Calls PROVE CallTrue(calls'[d], upstream')
  <2>1. CASE d = c
    BY <2>1 DEF Sourced, TypeOK
  <2>2. CASE d # c
    BY <2>2, CallTrueGrows DEF Sourced, TypeOK, CallsTrue
  <2>3. QED
    BY <2>1, <2>2
<1>2. QED
  BY <1>1 DEF CallsTrue

LEMMA IdleTrue == ASSUME NEW u PROVE CallTrue(Idle, u)
BY DEF Idle, CallTrue

LEMMA LeftTrue == ASSUME Sourced, UpstreamGrows, NEW c \in Calls PROVE CallTrue(Left(c), upstream')
<1>1. CallTrue(calls[c], upstream)
  BY DEF Sourced, CallsTrue
<1>2. QED
  BY <1>1 DEF Left, Idle, CallTrue, UpstreamGrows

LEMMA RepliedTrue ==
    ASSUME Sourced, UpstreamGrows, NEW c \in Calls, NEW s,
           NEW reply \in {"ok", "secret", "retry", "refuse"}, Replied(c, s, reply),
           reply \in {"ok", "secret"} => Registered(s),
           reply = "secret" => upstream[s].given
    PROVE  CallsTrue'
<1> DEFINE k == [calls[c] EXCEPT !.b = "replied", !.slot = s, !.reply = reply]
<1>1. CASE calls[c].a = "gone"
  BY <1>1, IdleTrue, OneCallChanges DEF Replied
<1>2. CASE calls[c].a # "gone"
  <2>1. calls[c] \in CallType
    BY DEF Sourced, TypeOK
  <2>2. k.b = "replied" /\ k.slot = s /\ k.reply = reply
    BY <2>1 DEF CallType
  <2>3. CallTrue(k, upstream')
    BY <2>2 DEF CallTrue, Registered, UpstreamGrows
  <2>4. QED
    BY <1>2, <2>3, OneCallChanges DEF Replied
<1>3. QED
  BY <1>1, <1>2

LEMMA AnswerTrue ==
    ASSUME Sourced, NEW s, Registered(s)
    PROVE  /\ Answer(s) \in {"ok", "secret", "retry", "refuse"}
           /\ Answer(s) = "secret" => upstream[s].given
BY DEF Answer, Sourced, GivenDelivered, Registered

LEMMA SubmissionCalls ==
    ASSUME Sourced, UpstreamGrows, NEW c \in Calls,
           \/ SubmitRead(c) \/ PrepareFails(c) \/ PrepareRejects(c) \/ Send(c)
           \/ ReplyFails(c) \/ ReplyLost(c) \/ ReplyUncertain(c) \/ ReplyAccepted(c)
           \/ SubmitEnds(c) \/ SubmitDies(c)
    PROVE  CallsTrue'
<1>0. calls[c] \in CallType /\ CallTrue(calls[c], upstream')
  BY CallTrueGrows DEF Sourced, TypeOK, CallsTrue
<1>1. CASE SubmitRead(c)
  <2> DEFINE k == [Idle EXCEPT !.a = "preparing", !.read = row.status, !.retry = row.retry]
  <2>1. CallTrue(k, upstream')
    BY DEF Idle, CallTrue
  <2>2. QED
    BY <1>1, <2>1, OneCallChanges DEF SubmitRead
<1>2. CASE PrepareFails(c) \/ PrepareRejects(c) \/ SubmitEnds(c)
  BY <1>2, IdleTrue, OneCallChanges DEF PrepareFails, PrepareRejects, SubmitEnds
<1>3. CASE Send(c)
  <2> DEFINE k == [Idle EXCEPT !.a = "waiting", !.b = "sent", !.retry = calls[c].retry]
  <2>1. CallTrue(k, upstream')
    BY DEF Idle, CallTrue
  <2>2. QED
    BY <1>3, <2>1, OneCallChanges DEF Send
<1>4. CASE ReplyFails(c) \/ ReplyLost(c) \/ ReplyUncertain(c) \/ SubmitDies(c)
  <2>1. calls' = [calls EXCEPT ![c] = Left(c)]
    BY <1>4 DEF ReplyFails, ReplyLost, SubmitFails, ReplyUncertain, SubmitDies
  <2>2. QED
    BY <2>1, LeftTrue, OneCallChanges
<1>5. CASE ReplyAccepted(c)
  <2> DEFINE k == [calls[c] EXCEPT !.a = "accepted", !.retry = 0]
  <2>1. CallTrue(k, upstream')
    BY <1>0 DEF CallType, CallTrue
  <2>2. QED
    BY <1>5, <2>1, OneCallChanges DEF ReplyAccepted
<1>6. QED
  BY <1>1, <1>2, <1>3, <1>4, <1>5

LEMMA ServeCalls ==
    ASSUME Sourced, UpstreamGrows, NEW c \in Calls,
           \/ ServeCheck(c) \/ ServeRefuses(c) \/ ServeRef(c) \/ ServeRefFails(c)
           \/ ServePay(c) \/ ServePayFails(c) \/ ServeAnswers(c) \/ ServeDies(c)
           \/ \E s \in Slots : ServeKnown(c, s) \/ ServeCreate(c, s)
    PROVE  CallsTrue'
<1>0. /\ calls[c] \in CallType /\ CallTrue(calls[c], upstream)
      /\ CallTrue(calls[c], upstream')
  BY CallTrueGrows DEF Sourced, TypeOK, CallsTrue
<1>1. CASE ServeCheck(c)
  <2> DEFINE k == [calls[c] EXCEPT !.b = "checked"]
  <2>1. CallTrue(k, upstream')
    BY <1>0, <1>1 DEF ServeCheck, CallType, CallTrue
  <2>2. QED
    BY <1>1, <2>1, OneCallChanges DEF ServeCheck
<1>2. CASE ServeRefuses(c) \/ ServePayFails(c)
  BY <1>2, RepliedTrue DEF ServeRefuses, ServePayFails
<1>3. CASE ServeRef(c)
  <2> DEFINE k == [calls[c] EXCEPT !.b = "referenced"]
  <2>1. CallTrue(k, upstream')
    BY <1>0, <1>3 DEF ServeRef, CallType, CallTrue
  <2>2. QED
    BY <1>3, <2>1, OneCallChanges DEF ServeRef
<1>4. CASE ServeRefFails(c)
  <2> DEFINE k == [calls[c] EXCEPT !.b = "referenced"]
  <2>1. CallTrue(k, upstream')
    BY <1>0, <1>4 DEF ServeRefFails, CallType, CallTrue
  <2>2. QED
    BY <1>4, <2>1, OneCallChanges, RepliedTrue DEF ServeRefFails
<1>5. CASE ServePay(c)
  <2> DEFINE k == [calls[c] EXCEPT !.b = "paid"]
  <2>1. CallTrue(k, upstream')
    BY <1>0, <1>5 DEF ServePay, CallType, CallTrue
  <2>2. QED
    BY <1>5, <2>1, OneCallChanges DEF ServePay
<1>6. CASE ServeAnswers(c)
  <2>1. Registered(calls[c].slot)
    BY <1>0, <1>6 DEF ServeAnswers, CallTrue, Registered
  <2>2. QED
    BY <1>6, <2>1, AnswerTrue, RepliedTrue DEF ServeAnswers
<1>7. CASE ServeDies(c)
  <2> DEFINE k == [calls[c] EXCEPT !.b = "none", !.slot = Unset]
  <2>1. CallTrue(k, upstream')
    BY <1>0, <1>7 DEF ServeDies, CallType, CallTrue
  <2>2. QED
    BY <1>7, <2>1, IdleTrue, OneCallChanges DEF ServeDies
<1>8. ASSUME NEW s \in Slots, ServeKnown(c, s) PROVE CallsTrue'
  <2>1. Registered(s)
    BY <1>8 DEF ServeKnown, Sourced, RefRegistered, Registered
  <2>2. QED
    BY <1>8, <2>1, AnswerTrue, RepliedTrue DEF ServeKnown
<1>9. ASSUME NEW s \in Slots, ServeCreate(c, s) PROVE CallsTrue'
  <2> DEFINE k == [calls[c] EXCEPT !.b = "created", !.slot = s]
  <2>0. upstream \in [Slots -> UpstreamType] /\ upstream[s] \in UpstreamType
    BY DEF Sourced, TypeOK
  <2>1. upstream'[s].status # "none"
    BY <1>9, <2>0 DEF ServeCreate, UpstreamType
  <2>2. CallTrue(k, upstream')
    BY <1>0, <1>9, <2>1 DEF ServeCreate, CallType, CallTrue
  <2>3. QED
    BY <1>9, <2>2, OneCallChanges DEF ServeCreate
<1>10. QED
  BY <1>1, <1>2, <1>3, <1>4, <1>5, <1>6, <1>7, <1>8, <1>9

\* Two reports of one order differ at most in how they came.
LEMMA ReportFields ==
    ASSUME NEW via, NEW s, NEW says, NEW n
    PROVE  /\ Report(via, s, says, n).via = via /\ Report(via, s, says, n).slot = s
           /\ Report(via, s, says, n).says = says
BY DEF Report

\* What B tells of an order it has delivered, it has delivered.
LEMMA ToldTrue ==
    ASSUME Sourced, NEW s \in Slots, Told(s) = "delivered"
    PROVE  upstream[s].given
BY DEF Told, Final, Sourced, GivenDelivered

LEMMA OneReportMore ==
    ASSUME Sourced, UpstreamGrows, NEW r, reports' = reports \cup {r}, recording' = recording,
           r.says = "delivered" => r.slot \in Slots /\ upstream[r.slot].given
    PROVE  ReportsTrue'
BY DEF Sourced, ReportsTrue, UpstreamGrows

LEMMA FewerReports ==
    ASSUME Sourced, UpstreamGrows, reports' \subseteq reports, recording' \subseteq recording
    PROVE  ReportsTrue'
BY DEF Sourced, ReportsTrue, UpstreamGrows

LEMMA ReportsStep ==
    ASSUME Sourced, UpstreamGrows, [Next]_vars
    PROVE  ReportsTrue'
<1> USE DEF rVars
<1>1. ASSUME NEW c \in Calls, SubmitEnds(c) PROVE ReportsTrue'
  <2>1. calls[c].reply = "secret" => calls[c].slot \in Slots /\ upstream[calls[c].slot].given
    BY DEF Sourced, CallsTrue, CallTrue
  <2> DEFINE r == Report("submit", calls[c].slot, "delivered", 0)
  <2>2. CASE calls[c].reply = "secret"
    <3>1. r.says = "delivered" => r.slot \in Slots /\ upstream[r.slot].given
      BY <2>1, <2>2, ReportFields
    <3>2. reports' = reports \cup {r} /\ recording' = recording
      BY <1>1, <2>2 DEF SubmitEnds
    <3>3. QED
      BY <3>1, <3>2, OneReportMore
  <2>3. CASE calls[c].reply # "secret"
    BY <1>1, <2>3, FewerReports DEF SubmitEnds
  <2>4. QED
    BY <2>2, <2>3
<1>2. ASSUME NEW s \in Slots, SendCallback(s) PROVE ReportsTrue'
  <2> DEFINE r == Report("callback", s, Told(s), callback[s].tries)
  <2>1. r.says = "delivered" => r.slot \in Slots /\ upstream[r.slot].given
    BY ToldTrue, ReportFields
  <2>2. reports' = reports \cup {r} /\ recording' = recording
    BY <1>2 DEF SendCallback
  <2>3. QED
    BY <2>1, <2>2, OneReportMore
<1>3. CASE PollRead
  <2>1. CASE reports' = reports
    BY <1>3, <2>1, FewerReports DEF PollRead
  <2>2. ASSUME NEW says \in {"open"} \cup (IF row.up = Unset THEN {} ELSE {Told(row.up)}),
               reports' = reports \cup {Report("poll", row.up, says, row.retry)}
        PROVE  ReportsTrue'
    <3> DEFINE r == Report("poll", row.up, says, row.retry)
    <3>1. r.says = "delivered" => r.slot \in Slots /\ upstream[r.slot].given
      <4>1. says = "delivered" => row.up \in Slots /\ Told(row.up) = "delivered"
        BY DEF Sourced, TypeOK, RowType
      <4>2. QED
        BY <4>1, ToldTrue, ReportFields
    <3>2. QED
      BY <1>3, <2>2, <3>1, OneReportMore DEF PollRead
  <2>3. QED
    BY <1>3, <2>1, <2>2 DEF PollRead
<1>4. CASE ScanRead
  <2> DEFINE r == Report("scan", row.up, Told(row.up), 0)
  <2>1. row.up \in Slots
    BY <1>4 DEF ScanRead, Sourced, TypeOK, RowType
  <2>2. r.says = "delivered" => r.slot \in Slots /\ upstream[r.slot].given
    BY <2>1, ToldTrue, ReportFields
  <2>3. QED
    BY <1>4, <2>2, OneReportMore DEF ScanRead
<1>5. ASSUME NEW r \in reports, Delivered(r) PROVE ReportsTrue'
  BY <1>5 DEF Delivered, Sourced, ReportsTrue, UpstreamGrows
<1>6. CASE reports' \subseteq reports /\ recording' \subseteq recording
  BY <1>6, FewerReports
<1>7. \/ reports' \subseteq reports /\ recording' \subseteq recording
      \/ \E c \in Calls : SubmitEnds(c)
      \/ \E s \in Slots : SendCallback(s)
      \/ PollRead \/ ScanRead \/ \E r \in reports : Delivered(r)
  <2> USE DEF vars
  <2>1. CASE Submission
    BY <2>1 DEF Submission, SubmitRead, PrepareFails, PrepareRejects, Send, ReplyFails, ReplyLost,
       SubmitFails, ReplyUncertain, ReplyAccepted, SubmitDies
  <2>2. CASE Serve
    BY <2>2 DEF Serve, ServeCheck, ServeRefuses, ServeAnswers, ServeDies, ServeKnown, ServeCreate,
       ServeRef, ServeRefFails, ServePay, ServePayFails
  <2>3. CASE Supplier
    BY <2>3 DEF Supplier, UpstreamExpires, UpstreamDelivers, UpstreamRefunds
  <2>4. CASE Handle
    BY <2>4 DEF Handle, Requeue, Withdrawn
  <2>5. CASE \/ CreateProcurement \/ SubmitRefused \/ RollbackWrite
             \/ \E r \in reports : CallbackLost(r)
             \/ \E r \in recording : Record(r) \/ RecordFails(r)
             \/ RetryManual \/ CancelRead \/ CancelWrite \/ UNCHANGED vars
    BY <2>5 DEF CreateProcurement, SubmitRefused, RollbackWrite,
       CallbackLost, Record, RecordFails, RetryManual, CancelRead, CancelWrite
  <2>6. QED
    BY <2>1, <2>2, <2>3, <2>4, <2>5 DEF Next
<1>8. QED
  BY <1>1, <1>2, <1>3, <1>4, <1>5, <1>6, <1>7

\* A step that leaves the row's upstream order alone, and accepts nothing anew.
LEMMA RowKept ==
    ASSUME Sourced, UpstreamGrows, row'.up = row.up,
           row'.status = "accepted" => row.up # Unset,
           \A r \in reports' : r.via = "poll" => r \in reports \/ row.up # Unset
    PROVE  RowRegistered'
BY DEF Sourced, RowRegistered, Registered, UpstreamGrows

LEMMA RowRegisteredStep ==
    ASSUME Sourced, UpstreamGrows, [Next]_vars
    PROVE  RowRegistered'
<1> USE DEF aVars, rVars
<1>0. row \in RowType /\ (row.status = "accepted" => row.up # Unset)
  BY DEF Sourced, TypeOK, RowRegistered
<1>1. ASSUME NEW c \in Calls, ReplyAccepted(c) PROVE RowRegistered'
  <2>1. Registered(calls[c].slot)
    BY <1>1 DEF ReplyAccepted, Sourced, CallsTrue, CallTrue, Registered
  <2>2. row'.up = calls[c].slot /\ calls[c].slot # Unset
    BY <1>1, <2>1, SlotsAssumption DEF ReplyAccepted, Registered
  <2>3. QED
    BY <1>1, <2>1, <2>2 DEF ReplyAccepted, RowRegistered, Registered, UpstreamGrows
<1>2. ASSUME NEW c \in Calls, SubmitEnds(c) PROVE RowRegistered'
  BY <1>0, <1>2, RowKept, ReportFields DEF SubmitEnds
<1>3. ASSUME NEW s \in Slots, SendCallback(s) PROVE RowRegistered'
  BY <1>0, <1>3, RowKept, ReportFields DEF SendCallback
<1>4. CASE PollRead
  BY <1>0, <1>4, RowKept DEF PollRead
<1>5. CASE ScanRead
  BY <1>0, <1>5, RowKept, ReportFields DEF ScanRead
<1>6. ASSUME NEW r \in reports, Requeue(r) PROVE RowRegistered'
  <2>1. r.via = "poll" => row.up # Unset
    BY <1>6 DEF Sourced, RowRegistered
  <2>2. row'.up = row.up /\ (row'.status = "accepted" => row.up # Unset)
    BY <1>0, <1>6, <2>1 DEF Requeue, RowType
  <2>3. QED
    BY <1>6, <2>2, RowKept DEF Requeue
<1>7. CASE /\ row'.up = row.up /\ reports' \subseteq reports
           /\ row'.status = "accepted" => row.status = "accepted"
  BY <1>0, <1>7, RowKept
<1>8. \/ /\ row'.up = row.up /\ reports' \subseteq reports
         /\ row'.status = "accepted" => row.status = "accepted"
      \/ \E c \in Calls : ReplyAccepted(c) \/ SubmitEnds(c)
      \/ \E s \in Slots : SendCallback(s)
      \/ PollRead \/ ScanRead \/ \E r \in reports : Requeue(r)
  <2> USE <1>0 DEF vars, RowType
  <2>1. ASSUME NEW c \in Calls,
               \/ SubmitRead(c) \/ PrepareFails(c) \/ PrepareRejects(c) \/ Send(c)
               \/ ReplyFails(c) \/ ReplyLost(c) \/ ReplyUncertain(c) \/ SubmitDies(c)
        PROVE  /\ row'.up = row.up /\ reports' \subseteq reports
               /\ row'.status = "accepted" => row.status = "accepted"
    <3>1. calls[c].read # "accepted"
      BY DEF Sourced, TypeOK, CallType
    <3>2. QED
      BY <2>1, <3>1 DEF SubmitRead, PrepareFails, PrepareRejects, Send, ReplyFails, ReplyLost,
         SubmitFails, ReplyUncertain, SubmitDies
  <2>2. CASE Serve
    BY <2>2 DEF Serve, ServeCheck, ServeRefuses, ServeAnswers, ServeDies, ServeKnown, ServeCreate,
       ServeRef, ServeRefFails, ServePay, ServePayFails
  <2>3. CASE Supplier
    BY <2>3 DEF Supplier, UpstreamExpires, UpstreamDelivers, UpstreamRefunds
  <2>4. CASE Handle
    BY <2>4 DEF Handle, Delivered, Withdrawn
  <2>5. CASE \/ CreateProcurement \/ SubmitRefused \/ RollbackWrite
             \/ \E r \in reports : CallbackLost(r)
             \/ \E r \in recording : Record(r) \/ RecordFails(r)
             \/ RetryManual \/ CancelRead \/ CancelWrite \/ UNCHANGED vars
    BY <2>5 DEF CreateProcurement, SubmitRefused, RollbackWrite,
       CallbackLost, Record, RecordFails, RetryManual, CancelRead, CancelWrite
  <2>6. QED
    BY <2>1, <2>2, <2>3, <2>4, <2>5 DEF Next, Submission
<1>9. QED
  BY <1>1, <1>2, <1>3, <1>4, <1>5, <1>6, <1>7, <1>8

LEMMA FulfilledStep ==
    ASSUME Sourced, UpstreamGrows, [Next]_vars
    PROVE  FulfilledWasDelivered'
<1> USE DEF aVars
<1>0. row \in RowType /\ record \in Slots \cup {Unset}
  BY DEF Sourced, TypeOK
<1>1. ASSUME NEW r \in reports, Delivered(r) PROVE FulfilledWasDelivered'
  BY <1>0, <1>1 DEF Delivered, Sourced, ReportsTrue, UpstreamGrows, FulfilledWasDelivered
<1>2. ASSUME NEW r \in recording, Record(r) PROVE FulfilledWasDelivered'
  BY <1>0, <1>2 DEF Record, Sourced, ReportsTrue, UpstreamGrows, FulfilledWasDelivered
<1>3. CASE record' = record /\ (row'.status = "fulfilled" => row.status = "fulfilled")
  BY <1>0, <1>3 DEF Sourced, UpstreamGrows, FulfilledWasDelivered
<1>4. \/ record' = record /\ (row'.status = "fulfilled" => row.status = "fulfilled")
      \/ \E r \in reports : Delivered(r)
      \/ \E r \in recording : Record(r)
  <2> USE <1>0 DEF vars, RowType
  <2>1. ASSUME NEW c \in Calls,
               \/ SubmitRead(c) \/ PrepareFails(c) \/ PrepareRejects(c) \/ Send(c)
               \/ ReplyFails(c) \/ ReplyLost(c) \/ ReplyUncertain(c) \/ ReplyAccepted(c)
               \/ SubmitEnds(c) \/ SubmitDies(c)
        PROVE  record' = record /\ (row'.status = "fulfilled" => row.status = "fulfilled")
    <3>1. calls[c].read # "fulfilled"
      BY DEF Sourced, TypeOK, CallType
    <3>2. CASE ReplyFails(c) \/ ReplyLost(c) \/ ReplyUncertain(c)
      BY <3>2 DEF ReplyFails, ReplyLost, SubmitFails, ReplyUncertain
    <3>5. CASE ReplyAccepted(c)
      BY <3>5 DEF ReplyAccepted
    <3>3. CASE SubmitRead(c) \/ PrepareFails(c) \/ PrepareRejects(c) \/ Send(c)
               \/ SubmitEnds(c) \/ SubmitDies(c)
      BY <3>1, <3>3 DEF SubmitRead, PrepareFails, PrepareRejects, Send, SubmitEnds, SubmitDies
    <3>4. QED
      BY <2>1, <3>2, <3>3, <3>5
  <2>2. CASE Serve
    BY <2>2 DEF Serve, ServeCheck, ServeRefuses, ServeAnswers, ServeDies, ServeKnown, ServeCreate,
       ServeRef, ServeRefFails, ServePay, ServePayFails
  <2>3. CASE Supplier
    BY <2>3 DEF Supplier, UpstreamExpires, UpstreamDelivers, UpstreamRefunds, SendCallback
  <2>4. ASSUME NEW r \in reports, Requeue(r) \/ Withdrawn(r)
        PROVE  record' = record /\ (row'.status = "fulfilled" => row.status = "fulfilled")
    BY <2>4 DEF Requeue, Withdrawn
  <2>5. CASE \/ CreateProcurement \/ SubmitRefused \/ RollbackWrite \/ PollRead \/ ScanRead
             \/ \E r \in reports : CallbackLost(r)
             \/ \E r \in recording : RecordFails(r)
             \/ RetryManual \/ CancelRead \/ CancelWrite \/ UNCHANGED vars
    BY <2>5 DEF CreateProcurement, SubmitRefused, RollbackWrite, PollRead, ScanRead,
       CallbackLost, RecordFails, RetryManual, CancelRead, CancelWrite
  <2>6. QED
    BY <2>1, <2>2, <2>3, <2>4, <2>5 DEF Next, Submission, Handle
<1>5. QED
  BY <1>1, <1>2, <1>3, <1>4

LEMMA SourcedStep == Sourced /\ [Next]_vars => Sourced'
<1> SUFFICES ASSUME Sourced, [Next]_vars PROVE Sourced'
  OBVIOUS
<1>1. ServedSlots
  BY DEF Sourced, CallsTrue, CallTrue, ServedSlots
<1>2. TypeOK'
  BY <1>1, TypeStep DEF Sourced
<1>3. UpstreamGrows /\ RefRegistered' /\ GivenDelivered'
  BY UpstreamStep
<1>4. CallsTrue'
  <2>1. CASE calls' = calls
    <3>1. ASSUME NEW c \in Calls PROVE CallTrue(calls'[c], upstream')
      BY <1>3, <2>1, CallTrueGrows DEF Sourced, CallsTrue
    <3>2. QED
      BY <3>1 DEF CallsTrue
  <2>2. CASE Submission
    BY <1>3, <2>2, SubmissionCalls DEF Submission
  <2>3. CASE Serve
    BY <1>3, <2>3, ServeCalls DEF Serve
  <2>4. calls' = calls \/ Submission \/ Serve
    BY DEF Next, vars, Supplier, UpstreamExpires, UpstreamDelivers, UpstreamRefunds, SendCallback,
       Handle, Requeue, Delivered, Withdrawn, CreateProcurement, SubmitRefused, RollbackWrite,
       PollRead, ScanRead, CallbackLost, Record, RecordFails, RetryManual, CancelRead, CancelWrite
  <2>5. QED
    BY <2>1, <2>2, <2>3, <2>4
<1>5. ReportsTrue' /\ RowRegistered' /\ FulfilledWasDelivered'
  BY <1>3, ReportsStep, RowRegisteredStep, FulfilledStep
<1>6. QED
  BY <1>2, <1>3, <1>4, <1>5 DEF Sourced

\* The invariant: what each row, call and report says has its source among B's
\* orders.  The properties below are parts of it or follow.
THEOREM AlwaysSourced == Spec => []Sourced
<1>1. Init => Sourced
  BY SourcedInit
<1>2. Sourced /\ [Next]_vars => Sourced'
  BY SourcedStep
<1>3. QED
  BY <1>1, <1>2, PTL DEF Spec

\* Type correctness: rows, queues, calls and B's tables keep the shape the code
\* gives them, whatever fails and however the two sites interleave.
THEOREM TypeCorrect == Spec => []TypeOK
BY AlwaysSourced, PTL DEF Sourced

\* procurement's row is accepted only for an order that B has created, although
\* requeuePoll writes back a status it has read before.
THEOREM AcceptedAlwaysRegistered == Spec => []AcceptedIsRegistered
<1>1. Sourced => AcceptedIsRegistered
  BY DEF Sourced, RowRegistered, Registered, AcceptedIsRegistered
<1>2. QED
  BY <1>1, AlwaysSourced, PTL

\* HandleUpstreamCallback fulfills a row, and records a delivery for the buyer,
\* only when B has delivered, whichever of the four ways the news came by.
THEOREM FulfilledAlwaysDelivered == Spec => []FulfilledWasDelivered
BY AlwaysSourced, PTL DEF Sourced

-----------------------------------------------------------------------------
(* One purchase, when B serves one request of the line at a time and can   *)
(* always write its reference                                              *)

OneAtATime == Faults \cap {"overlap", "ref"} = {}

\* The inductive invariant: B's check, its order and its reference are one unit.
Exclusive ==
    /\ \A c, d \in Serving : c = d
    /\ \A c \in Calls : calls[c].b \in {"checked", "created"} => \A s \in Slots : ~upstream[s].ref
    /\ \A c \in Calls : calls[c].b \in {"referenced", "paid"} => upstream[calls[c].slot].ref
    /\ \A s, t \in Slots : upstream[s].ref /\ upstream[t].ref => s = t
    /\ \A s \in Bought : upstream[s].ref

\* A step in which no request gets any further at B.
NothingServed ==
    /\ \A c \in Calls : calls'[c].b \in {"checked", "created", "referenced", "paid"} =>
          calls'[c].b = calls[c].b /\ calls'[c].slot = calls[c].slot
    /\ \A s \in Slots : upstream'[s].ref = upstream[s].ref
    /\ Bought' \subseteq Bought

LEMMA ExclusiveKept == ASSUME Exclusive, Sourced, NothingServed PROVE Exclusive'
<1>1. Serving' \subseteq Serving
  BY DEF NothingServed, Serving
<1>2. \A s \in Bought : s \in Slots
  BY DEF Bought
<1>3. QED
  BY <1>1, <1>2 DEF Exclusive, NothingServed, Sourced, CallsTrue, CallTrue

LEMMA CanceledServesNothing ==
    ASSUME TypeOK, NEW s \in Slots, upstream' = Canceled(s)
    PROVE  Bought' \subseteq Bought /\ \A t \in Slots : upstream'[t].ref = upstream[t].ref
<1>1. upstream \in [Slots -> UpstreamType] /\ upstream[s] \in UpstreamType
  BY DEF TypeOK
<1>2. \A t \in Slots : upstream'[t].ref = upstream[t].ref
  BY <1>1 DEF Canceled, UpstreamType
<1>3. \A t \in Slots : upstream'[t].status = upstream[t].status \/ upstream'[t].status = "canceled"
  BY <1>1 DEF Canceled, UpstreamType
<1>4. QED
  BY <1>2, <1>3 DEF Bought

LEMMA RepliedServesNothing ==
    ASSUME TypeOK, NEW c \in Calls, NEW s, NEW reply, Replied(c, s, reply)
    PROVE  \A d \in Calls : calls'[d].b \in {"checked", "created", "referenced", "paid"} =>
              calls'[d].b = calls[d].b /\ calls'[d].slot = calls[d].slot
<1>1. calls \in [Calls -> CallType] /\ calls[c] \in CallType
  BY DEF TypeOK
<1>2. calls'[c].b \in {"none", "replied"}
  BY <1>1 DEF Replied, Idle, CallType
<1>3. \A d \in Calls \ {c} : calls'[d] = calls[d]
  BY <1>1 DEF Replied
<1>4. QED
  BY <1>2, <1>3

LEMMA SubmissionServesNothing ==
    ASSUME Sourced, NEW c \in Calls,
           \/ SubmitRead(c) \/ PrepareFails(c) \/ PrepareRejects(c) \/ Send(c)
           \/ ReplyFails(c) \/ ReplyLost(c) \/ ReplyUncertain(c) \/ ReplyAccepted(c)
           \/ SubmitEnds(c) \/ SubmitDies(c)
    PROVE  NothingServed
<1> USE DEF bVars
<1>1. calls \in [Calls -> CallType] /\ calls[c] \in CallType
  BY DEF Sourced, TypeOK
<1>2. upstream' = upstream
  BY DEF SubmitRead, PrepareFails, PrepareRejects, Send, ReplyFails, ReplyLost,
     SubmitFails, ReplyUncertain, ReplyAccepted, SubmitEnds, SubmitDies
<1>3. \A d \in Calls \ {c} : calls'[d] = calls[d]
  BY <1>1 DEF SubmitRead, PrepareFails, PrepareRejects, Send, ReplyFails, ReplyLost,
     SubmitFails, ReplyUncertain, ReplyAccepted, SubmitEnds, SubmitDies
<1>4. \/ calls'[c].b \in {"none", "sent"}
      \/ calls'[c].b = calls[c].b /\ calls'[c].slot = calls[c].slot
  <2>1. CASE PrepareFails(c) \/ PrepareRejects(c) \/ SubmitEnds(c)
    BY <1>1, <2>1 DEF PrepareFails, PrepareRejects, SubmitEnds, Idle
  <2>2. CASE ReplyFails(c) \/ ReplyLost(c) \/ ReplyUncertain(c) \/ SubmitDies(c)
    <3>1. calls'[c] = Left(c)
      BY <1>1, <2>2 DEF ReplyFails, ReplyLost, SubmitFails, ReplyUncertain, SubmitDies
    <3>2. Left(c).b = "none" \/ (Left(c).b = calls[c].b /\ Left(c).slot = calls[c].slot)
      BY DEF Left, Idle
    <3>3. QED
      BY <3>1, <3>2
  <2>5. CASE SubmitRead(c)
    <3>1. calls'[c] = [Idle EXCEPT !.a = "preparing", !.read = row.status, !.retry = row.retry]
      BY <1>1, <2>5 DEF SubmitRead
    <3>2. QED
      BY <3>1 DEF Idle
  <2>6. CASE Send(c)
    <3>1. calls'[c] = [Idle EXCEPT !.a = "waiting", !.b = "sent", !.retry = calls[c].retry]
      BY <1>1, <2>6 DEF Send
    <3>2. QED
      BY <3>1 DEF Idle
  <2>3. CASE ReplyAccepted(c)
    BY <1>1, <2>3 DEF ReplyAccepted, CallType
  <2>4. QED
    BY <2>1, <2>2, <2>3, <2>5, <2>6
<1>5. QED
  BY <1>2, <1>3, <1>4 DEF NothingServed, Bought

LEMMA ExclusiveServe ==
    ASSUME OneAtATime, Exclusive, Sourced, NEW c \in Calls,
           \/ ServeCheck(c) \/ ServeRefuses(c) \/ ServeRef(c) \/ ServeRefFails(c)
           \/ ServePay(c) \/ ServePayFails(c) \/ ServeAnswers(c) \/ ServeDies(c)
           \/ \E s \in Slots : ServeKnown(c, s) \/ ServeCreate(c, s)
    PROVE  Exclusive'
<1> USE DEF bVars
<1>1. /\ calls \in [Calls -> CallType] /\ calls[c] \in CallType
      /\ upstream \in [Slots -> UpstreamType] /\ TypeOK
  BY DEF Sourced, TypeOK
<1>2. calls[c].b \in {"created", "referenced", "paid"} => calls[c].slot \in Slots
  BY DEF Sourced, CallsTrue, CallTrue
<1>3. CASE ServeCheck(c)
  <2>1. Serving = {} /\ \A s \in Slots : ~upstream[s].ref
    BY <1>3 DEF ServeCheck, OneAtATime
  <2>2. calls'[c].b = "checked" /\ \A d \in Calls \ {c} : calls'[d] = calls[d]
    BY <1>1, <1>3 DEF ServeCheck, CallType
  <2>3. Serving' = {c}
    BY <2>1, <2>2 DEF Serving
  <2>4. upstream' = upstream
    BY <1>3 DEF ServeCheck
  <2>5. \A d \in Calls : calls'[d].b \in {"created", "referenced", "paid"} => FALSE
    BY <2>1, <2>2 DEF Serving
  <2>6. QED
    BY <2>1, <2>3, <2>4, <2>5 DEF Exclusive, Bought
<1>4. CASE ServeRefuses(c) \/ ServeAnswers(c)
  <2>1. upstream' = upstream
    BY <1>4 DEF ServeRefuses, ServeAnswers
  <2>2. NothingServed
    BY <1>1, <1>4, <2>1, RepliedServesNothing DEF ServeRefuses, ServeAnswers, NothingServed, Bought
  <2>3. QED
    BY <2>2, ExclusiveKept
<1>5. CASE ServeRef(c)
  <2>1. /\ calls[c].slot \in Slots /\ c \in Serving
        /\ \A s \in Slots : ~upstream[s].ref
    BY <1>2, <1>5 DEF ServeRef, Exclusive, Serving
  <2>2. /\ calls'[c].b = "referenced" /\ calls'[c].slot = calls[c].slot
        /\ \A d \in Calls \ {c} : calls'[d] = calls[d]
    BY <1>1, <1>5 DEF ServeRef, CallType
  <2>3. \A s \in Slots : /\ upstream'[s].ref <=> s = calls[c].slot
                         /\ upstream'[s].status = upstream[s].status
    BY <1>1, <1>5, <2>1 DEF ServeRef, UpstreamType
  <2>4. \A d \in Calls : d # c => d \notin Serving
    BY <2>1 DEF Exclusive
  <2>5. Serving' = {c}
    BY <2>2, <2>4 DEF Serving
  <2>6. Bought = {}
    BY <2>1 DEF Exclusive, Bought
  <2>7. Bought' = {}
    BY <2>3, <2>6 DEF Bought
  <2>8. QED
    BY <2>1, <2>2, <2>3, <2>4, <2>5, <2>7 DEF Exclusive, Serving
<1>6. ~ServeRefFails(c)
  BY DEF ServeRefFails, OneAtATime
<1>7. CASE ServePay(c)
  <2>1. calls[c].slot \in Slots /\ upstream[calls[c].slot].ref /\ c \in Serving
    BY <1>2, <1>7 DEF ServePay, Exclusive, Serving
  <2>2. /\ calls'[c].b = "paid" /\ calls'[c].slot = calls[c].slot
        /\ \A d \in Calls \ {c} : calls'[d] = calls[d]
    BY <1>1, <1>7 DEF ServePay, CallType
  <2>3. \A s \in Slots : /\ upstream'[s].ref = upstream[s].ref
                         /\ s # calls[c].slot => upstream'[s] = upstream[s]
    BY <1>1, <1>7, <2>1 DEF ServePay, UpstreamType
  <2>4. Serving' = Serving
    BY <2>1, <2>2 DEF Serving
  <2>5. \A s \in Bought' : s \in Bought \/ s = calls[c].slot
    BY <2>3 DEF Bought
  <2>6. \A d \in Calls : d # c => d \notin Serving
    BY <2>1 DEF Exclusive
  <2>7. QED
    BY <2>1, <2>2, <2>3, <2>4, <2>5, <2>6 DEF Exclusive, Serving, Bought
<1>8. CASE ServePayFails(c)
  <2>1. Bought' \subseteq Bought /\ \A t \in Slots : upstream'[t].ref = upstream[t].ref
    BY <1>1, <1>2, <1>8, CanceledServesNothing DEF ServePayFails
  <2>2. NothingServed
    BY <1>1, <1>8, <2>1, RepliedServesNothing DEF ServePayFails, NothingServed
  <2>3. QED
    BY <2>2, ExclusiveKept
<1>9. CASE ServeDies(c)
  <2>1. calls'[c].b = "none" /\ \A d \in Calls \ {c} : calls'[d] = calls[d]
    BY <1>1, <1>9 DEF ServeDies, CallType, Idle
  <2>2. NothingServed
    BY <1>9, <2>1 DEF ServeDies, NothingServed, Bought
  <2>3. QED
    BY <2>2, ExclusiveKept
<1>10. ASSUME NEW s \in Slots, ServeKnown(c, s) PROVE Exclusive'
  <2>1. NothingServed
    BY <1>1, <1>10, RepliedServesNothing DEF ServeKnown, NothingServed, Bought
  <2>2. QED
    BY <2>1, ExclusiveKept
<1>11. ASSUME NEW s \in Slots, ServeCreate(c, s) PROVE Exclusive'
  <2>1. c \in Serving /\ \A t \in Slots : ~upstream[t].ref
    BY <1>11 DEF ServeCreate, Exclusive, Serving
  <2>2. calls'[c].b = "created" /\ \A d \in Calls \ {c} : calls'[d] = calls[d]
    BY <1>1, <1>11 DEF ServeCreate, CallType
  <2>3. /\ upstream'[s].status = "pending_payment" /\ upstream'[s].ref = upstream[s].ref
        /\ \A t \in Slots \ {s} : upstream'[t] = upstream[t]
    <3>1. upstream[s] \in UpstreamType
      BY <1>1
    <3>2. upstream' = [upstream EXCEPT ![s] = [upstream[s] EXCEPT !.status = "pending_payment"]]
      BY <1>11 DEF ServeCreate
    <3>3. QED
      BY <1>1, <3>1, <3>2 DEF UpstreamType
  <2>4. \A d \in Calls : d # c => d \notin Serving
    BY <2>1 DEF Exclusive
  <2>5. Serving' = {c}
    BY <2>2, <2>4 DEF Serving
  <2>6. Bought' \subseteq Bought
    BY <2>3 DEF Bought
  <2>7. \A t \in Slots : ~upstream'[t].ref
    BY <2>1, <2>3
  <2>8. \A d \in Calls : calls'[d].b \in {"referenced", "paid"} => FALSE
    BY <2>2, <2>4 DEF Serving
  <2>9. Bought' = {}
    BY <2>1, <2>6 DEF Exclusive, Bought
  <2>10. QED
    BY <2>5, <2>7, <2>8, <2>9 DEF Exclusive
<1>12. QED
  BY <1>3, <1>4, <1>5, <1>6, <1>7, <1>8, <1>9, <1>10, <1>11

LEMMA ExclusiveStep == OneAtATime /\ Sourced /\ Exclusive /\ [Next]_vars => Exclusive'
<1> SUFFICES ASSUME OneAtATime, Sourced, Exclusive, [Next]_vars PROVE Exclusive'
  OBVIOUS
<1> USE DEF bVars
<1>0. upstream \in [Slots -> UpstreamType] /\ TypeOK
  BY DEF Sourced, TypeOK
<1>1. CASE Submission
  BY <1>1, SubmissionServesNothing, ExclusiveKept DEF Submission
<1>2. CASE Serve
  BY <1>2, ExclusiveServe DEF Serve
<1>3. ASSUME NEW s \in Slots, UpstreamExpires(s) PROVE Exclusive'
  <2>1. NothingServed
    BY <1>0, <1>3, CanceledServesNothing DEF UpstreamExpires, NothingServed
  <2>2. QED
    BY <2>1, ExclusiveKept
<1>4. ASSUME NEW s \in Slots, UpstreamDelivers(s) \/ UpstreamRefunds(s) PROVE Exclusive'
  <2>1. \A t \in Slots : upstream'[t].ref = upstream[t].ref
    BY <1>0, <1>4 DEF UpstreamDelivers, UpstreamRefunds, UpstreamType
  <2>2. \A t \in Slots \ {s} : upstream'[t] = upstream[t]
    BY <1>0, <1>4 DEF UpstreamDelivers, UpstreamRefunds
  <2>3. s \in Bought
    BY <1>4 DEF UpstreamDelivers, UpstreamRefunds, Bought
  <2>4. NothingServed
    BY <1>4, <2>1, <2>2, <2>3 DEF UpstreamDelivers, UpstreamRefunds, NothingServed, Bought
  <2>5. QED
    BY <2>4, ExclusiveKept
<1>5. CASE CancelRead
  <2>1. row.status = "accepted" /\ row.up # Unset => row.up \in Slots
    BY DEF Sourced, TypeOK, RowType
  <2>2. Bought' \subseteq Bought /\ \A t \in Slots : upstream'[t].ref = upstream[t].ref
    BY <1>0, <1>5, <2>1, CanceledServesNothing DEF CancelRead, Bought
  <2>3. NothingServed
    BY <1>5, <2>2 DEF CancelRead, NothingServed
  <2>4. QED
    BY <2>3, ExclusiveKept
<1>6. CASE upstream' = upstream /\ calls' = calls
  BY <1>6, ExclusiveKept DEF NothingServed, Bought
<1>7. \/ Submission \/ Serve \/ CancelRead
      \/ \E s \in Slots : UpstreamExpires(s) \/ UpstreamDelivers(s) \/ UpstreamRefunds(s)
      \/ upstream' = upstream /\ calls' = calls
  BY DEF Next, vars, Supplier, SendCallback, Handle, Requeue, Delivered, Withdrawn,
     CreateProcurement, SubmitRefused, RollbackWrite, PollRead, ScanRead, CallbackLost,
     Record, RecordFails, RetryManual, CancelWrite
<1>8. QED
  BY <1>1, <1>2, <1>3, <1>4, <1>5, <1>6, <1>7

LEMMA SupplyStep ==
    Sourced /\ Exclusive /\ [Next]_vars => [SupplyOf!SupplyNext]_(SupplyOf!supplyVars)
<1> SUFFICES ASSUME Sourced, Exclusive, [Next]_vars
             PROVE  [SupplyOf!SupplyNext]_(SupplyOf!supplyVars)
  OBVIOUS
<1> USE DEF SupplyOf!SupplyNext, SupplyOf!supplyVars, SupplyOf!Buy, SupplyOf!Receive, aVars, bVars
<1>0. upstream \in [Slots -> UpstreamType] /\ TypeOK
  BY DEF Sourced, TypeOK
<1>1. ASSUME NEW c \in Calls, ServePay(c) PROVE [SupplyOf!SupplyNext]_(SupplyOf!supplyVars)
  <2>1. calls[c].slot \in Slots /\ upstream[calls[c].slot].ref
    BY <1>1 DEF ServePay, Exclusive, Sourced, CallsTrue, CallTrue
  <2>2. calls[c].slot \notin Bought
    BY <1>1 DEF ServePay, Bought
  <2>3. Bought = {}
    BY <2>1, <2>2 DEF Exclusive, Bought
  <2>4. /\ upstream'[calls[c].slot].status = "paid"
        /\ \A t \in Slots \ {calls[c].slot} : upstream'[t] = upstream[t]
    BY <1>0, <1>1, <2>1 DEF ServePay, UpstreamType
  <2>5. Bought' = {calls[c].slot}
    BY <2>1, <2>3, <2>4 DEF Bought
  <2>6. record' = record
    BY <1>1 DEF ServePay
  <2>7. QED
    BY <2>1, <2>3, <2>5, <2>6
<1>2. ASSUME NEW r \in recording, Record(r) PROVE [SupplyOf!SupplyNext]_(SupplyOf!supplyVars)
  <2>1. r.slot \in Slots /\ upstream[r.slot].given
    BY DEF Sourced, ReportsTrue
  <2>2. r.slot \in Bought
    BY <2>1 DEF Sourced, GivenDelivered, Bought
  <2>3. Bought' = Bought
    BY <1>2 DEF Record, Bought
  <2>4. QED
    BY <1>2, <2>1, <2>2, <2>3 DEF Record
<1>3. CASE record' = record /\ Bought' = Bought
  BY <1>3
<1>4. \/ \E c \in Calls : ServePay(c)
      \/ \E r \in recording : Record(r)
      \/ record' = record /\ Bought' = Bought
  <2>1. ASSUME NEW s \in Slots, upstream' = Canceled(s) PROVE Bought' = Bought
    <3>1. upstream[s] \in UpstreamType
      BY <1>0
    <3>2. \A t \in Slots : \/ upstream'[t].status = upstream[t].status
                           \/ /\ upstream[t].status = "pending_payment"
                              /\ upstream'[t].status = "canceled"
      BY <1>0, <2>1, <3>1 DEF Canceled, UpstreamType
    <3>3. QED
      BY <3>2 DEF Bought
  <2>2. CASE Submission
    BY <2>2 DEF Submission, SubmitRead, PrepareFails, PrepareRejects, Send, ReplyFails, ReplyLost,
       SubmitFails, ReplyUncertain, ReplyAccepted, SubmitEnds, SubmitDies, Bought
  <2>3. ASSUME NEW c \in Calls,
               \/ ServeCheck(c) \/ ServeRefuses(c) \/ ServeAnswers(c) \/ ServeDies(c)
               \/ \E s \in Slots : ServeKnown(c, s)
        PROVE  record' = record /\ Bought' = Bought
    BY <2>3 DEF ServeCheck, ServeRefuses, ServeAnswers, ServeDies, ServeKnown, Bought
  <2>4. ASSUME NEW c \in Calls, ServeRefFails(c) \/ ServePayFails(c)
        PROVE  record' = record /\ Bought' = Bought
    <3>1. calls[c].slot \in Slots
      BY <2>4 DEF ServeRefFails, ServePayFails, Sourced, CallsTrue, CallTrue
    <3>2. upstream' = upstream \/ upstream' = Canceled(calls[c].slot)
      BY <2>4 DEF ServeRefFails, ServePayFails
    <3>3. Bought' = Bought
      BY <2>1, <3>1, <3>2 DEF Bought
    <3>4. QED
      BY <2>4, <3>3 DEF ServeRefFails, ServePayFails
  <2>5. ASSUME NEW c \in Calls, ServeRef(c) PROVE record' = record /\ Bought' = Bought
    <3>1. calls[c].slot \in Slots
      BY <2>5 DEF ServeRef, Sourced, CallsTrue, CallTrue
    <3>2. \A t \in Slots : upstream'[t].status = upstream[t].status
      BY <1>0, <2>5, <3>1 DEF ServeRef, UpstreamType
    <3>3. QED
      BY <2>5, <3>2 DEF ServeRef, Bought
  <2>6. ASSUME NEW c \in Calls, NEW s \in Slots, ServeCreate(c, s)
        PROVE  record' = record /\ Bought' = Bought
    <3>1. /\ upstream'[s].status = "pending_payment" /\ upstream[s].status = "none"
          /\ \A t \in Slots \ {s} : upstream'[t] = upstream[t]
      BY <1>0, <2>6 DEF ServeCreate, UpstreamType
    <3>2. QED
      BY <2>6, <3>1 DEF ServeCreate, Bought
  <2>7. ASSUME NEW s \in Slots, UpstreamExpires(s) \/ SendCallback(s)
        PROVE  record' = record /\ Bought' = Bought
    BY <2>1, <2>7 DEF UpstreamExpires, SendCallback, Bought
  <2>8. ASSUME NEW s \in Slots, UpstreamDelivers(s) \/ UpstreamRefunds(s)
        PROVE  record' = record /\ Bought' = Bought
    <3>1. /\ s \in Bought /\ upstream'[s].status \in {"delivered", "refunded"}
          /\ \A t \in Slots \ {s} : upstream'[t] = upstream[t]
      BY <1>0, <2>8 DEF UpstreamDelivers, UpstreamRefunds, UpstreamType, Bought
    <3>2. QED
      BY <2>8, <3>1 DEF UpstreamDelivers, UpstreamRefunds, Bought
  <2>9. CASE CancelRead
    <3>1. row.status = "accepted" /\ row.up # Unset => row.up \in Slots
      BY DEF Sourced, TypeOK, RowType
    <3>2. Bought' = Bought
      BY <2>1, <2>9, <3>1 DEF CancelRead, Bought
    <3>3. QED
      BY <2>9, <3>2 DEF CancelRead
  <2>10. CASE \/ CreateProcurement \/ SubmitRefused \/ RollbackWrite \/ PollRead \/ ScanRead
              \/ Handle \/ \E r \in reports : CallbackLost(r)
              \/ \E r \in recording : RecordFails(r)
              \/ RetryManual \/ CancelWrite \/ UNCHANGED vars
    BY <2>10 DEF CreateProcurement, SubmitRefused, RollbackWrite, PollRead, ScanRead,
       Handle, Requeue, Delivered, Withdrawn, CallbackLost, RecordFails, RetryManual,
       CancelWrite, Bought, vars
  <2>11. QED
    BY <2>2, <2>3, <2>4, <2>5, <2>6, <2>7, <2>8, <2>9, <2>10 DEF Next, Serve, Supplier
<1>5. QED
  BY <1>1, <1>2, <1>3, <1>4

\* When B never serves two requests of one line at once and its reference can be
\* written, the rows, tasks, retries and reports of both sites implement Supply:
\* the line is bought once at most and delivered from that purchase.
THEOREM SitesImplementSupply == OneAtATime => (Spec => ImplementsSupply)
<1> SUFFICES ASSUME OneAtATime PROVE Spec => ImplementsSupply
  OBVIOUS
<1>1. Init => Exclusive
  BY DEF Init, Exclusive, Serving, Bought, Idle
<1>2. Init => SupplyOf!SupplyInit
  BY DEF Init, SupplyOf!SupplyInit, Bought
<1>3. Sourced /\ Exclusive /\ [Next]_vars => Exclusive'
  BY ExclusiveStep
<1>4. Sourced /\ Exclusive /\ [Next]_vars => [SupplyOf!SupplyNext]_(SupplyOf!supplyVars)
  BY SupplyStep
<1>5. QED
  BY <1>1, <1>2, <1>3, <1>4, AlwaysSourced, PTL
     DEF Spec, ImplementsSupply, SupplyOf!SupplySpec
==============================================================================
