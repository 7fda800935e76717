---------------------------- MODULE WalletCredits ----------------------------
(***************************************************************************)
(* What is credited to the wallets of the users: recharges paid through a  *)
(* gateway, gift cards, and the corrections of administrators.  A recharge *)
(* is a payment row and a recharge row: created, opened at the gateway,    *)
(* expired by a task, and reported on by the gateway any number of times   *)
(* and in any order.  Every credit has a reference, unique in the ledger;  *)
(* a successful recharge starts a member level hook.                       *)
(*                                                                         *)
(* An action is one database transaction or one statement outside any.     *)
(***************************************************************************)
EXTENDS MemberLevels, Integers, Functions

CONSTANTS
    Recharges, Cards, Adjustments, \* what may be credited
    NoUser,
    Owner,                          \* the user of each recharge or adjustment
    Amount,                         \* of each recharge, card or adjustment
    Notices,                        \* bound: gateway reports handled at a time
    Reported,                       \* statuses the gateway reports
    Unlinked                        \* recharges the gateway may report on before
                                    \* its answer to their creation is stored

Sources == Recharges \cup Cards \cup Adjustments

ASSUME CreditsAssumption ==
    /\ NoUser \notin Users
    /\ Users # {} /\ Recharges # {} /\ Cards # {}
    /\ Owner \in [Recharges \cup Adjustments -> Users]
    /\ Amount \in [Sources -> Int]
    /\ \A s \in Recharges \cup Cards : Amount[s] > 0
    /\ Recharges \cap Cards = {} /\ Unlinked \subseteq Recharges
    /\ Adjustments \cap (Recharges \cup Cards) = {}
    /\ {"pending", "success"} \subseteq Reported /\ Reported \subseteq {"pending", "success", "failed", "expired"}
    /\ Notices \subseteq Hooks \ OrderHooks
    /\ IsFiniteSet(Hooks) /\ IsFiniteSet(Recharges)

VARIABLES
    payment,   \* status of each recharge's payment row, "none" before it exists
    recharge,  \* status of each recharge row
    creator,   \* where CreateWalletRechargePayment is
    timer,     \* recharges with an expiry task in the queue
    paid,      \* recharges the gateway has taken the money of
    notice,    \* gateway reports being handled, and what they have read
    card,      \* gift cards: status, user, deleted
    editor,    \* an administrator's edit of a card that has read it
    ledger,    \* the user each reference was credited to
    balance    \* of each user's wallet

rechargeVars == <<payment, recharge, creator, timer, paid>>
cardVars == <<card, editor>>
walletVars == <<ledger, balance>>
vars == <<memberVars, rechargeVars, notice, cardVars, walletVars>>

-----------------------------------------------------------------------------
PaymentStatus == {"none", "initiated", "pending", "success", "failed", "expired"}
RechargeStatus == {"none", "pending", "success", "failed", "expired"}
CardStatus == {"active", "disabled", "redeemed"}

CardType == [status : CardStatus, user : Users \cup {NoUser}, deleted : BOOLEAN]

\* A report: its step, its recharge, the status it carries and the payment
\* status it has read.
NoticeType == [pc : {"idle", "found", "apply", "meta"}, recharge : Recharges,
               status : Reported, seen : PaymentStatus]

EditorType == [pc : {"idle", "save"}, card : Cards, row : CardType]

NewCard == [status |-> "active", user |-> NoUser, deleted |-> FALSE]

NoNotice == [pc |-> "idle", recharge |-> CHOOSE r \in Recharges : TRUE,
             status |-> "pending", seen |-> "none"]
NoEdit == [pc |-> "idle", card |-> CHOOSE g \in Cards : TRUE, row |-> NewCard]

Init ==
    /\ MemberInit
    /\ payment = [r \in Recharges |-> "none"]
    /\ recharge = [r \in Recharges |-> "none"]
    /\ creator = [r \in Recharges |-> "idle"]
    /\ timer = {}
    /\ paid = {}
    /\ notice = [n \in Notices |-> NoNotice]
    /\ card = [g \in Cards |-> NewCard]
    /\ editor = NoEdit
    /\ ledger = [s \in Sources |-> NoUser]
    /\ balance = [u \in Users |-> 0]

-----------------------------------------------------------------------------
(* The ledger.                                                             *)

\* Mutant: the reference is looked up among the user's own transactions.
Bug_Credit(s, u) ==
    IF ledger[s] = u
      THEN UNCHANGED walletVars
      ELSE /\ ledger' = [ledger EXCEPT ![s] = u]
           /\ balance' = [balance EXCEPT ![u] = @ + Amount[s]]

\* CreditInTransaction: a reference that is there already credits nothing.
Credit(s, u) ==
    IF ledger[s] # NoUser
      THEN UNCHANGED walletVars
      ELSE /\ ledger' = [ledger EXCEPT ![s] = u]
           /\ balance' = [balance EXCEPT ![u] = @ + Amount[s]]

\* changeBalance: a correction under a reference of its own.
Adjust(a) ==
    /\ ledger[a] = NoUser
    /\ balance[Owner[a]] + Amount[a] >= 0
    /\ Credit(a, Owner[a])
    /\ UNCHANGED <<memberVars, rechargeVars, notice, cardVars>>

-----------------------------------------------------------------------------
(* The creation of a recharge and its expiry.                              *)

CreateRecharge(r) ==
    /\ creator[r] = "idle"
    /\ creator' = [creator EXCEPT ![r] = "opening"]
    /\ payment' = [payment EXCEPT ![r] = "initiated"]
    /\ recharge' = [recharge EXCEPT ![r] = "pending"]
    /\ UNCHANGED <<memberVars, timer, paid, notice, cardVars, walletVars>>

\* applyProviderPayment: the link is saved with the row read at creation.
Opened(r) ==
    /\ creator[r] = "opening"
    /\ creator' = [creator EXCEPT ![r] = "opened"]
    /\ payment' = [payment EXCEPT ![r] = "pending"]
    /\ UNCHANGED <<memberVars, recharge, timer, paid, notice, cardVars, walletVars>>

\* The gateway refuses: both rows fail, whatever they have become.
Refused(r) ==
    /\ creator[r] = "opening"
    /\ creator' = [creator EXCEPT ![r] = "refused"]
    /\ payment' = [payment EXCEPT ![r] = "failed"]
    /\ recharge' = [recharge EXCEPT ![r] = "failed"]
    /\ UNCHANGED <<memberVars, timer, paid, notice, cardVars, walletVars>>

Scheduled(r) ==
    /\ creator[r] = "opened"
    /\ creator' = [creator EXCEPT ![r] = "done"]
    /\ timer' = timer \cup {r}
    /\ UNCHANGED <<memberVars, payment, recharge, paid, notice, cardVars, walletVars>>

\* The expiry task cannot be queued: the payment fails, and the recharge
\* unless it has succeeded.
ScheduleFails(r) ==
    /\ creator[r] = "opened"
    /\ creator' = [creator EXCEPT ![r] = "done"]
    /\ payment' = [payment EXCEPT ![r] = "failed"]
    /\ recharge' = [recharge EXCEPT ![r] = IF @ = "success" THEN @ ELSE "failed"]
    /\ UNCHANGED <<memberVars, timer, paid, notice, cardVars, walletVars>>

\* The request ends between two steps, or the queue is disabled.
CreationEnds(r) ==
    /\ creator[r] \in {"opening", "opened"}
    /\ creator' = [creator EXCEPT ![r] = IF @ = "opened" THEN "done" ELSE "refused"]
    /\ UNCHANGED <<memberVars, payment, recharge, timer, paid, notice, cardVars, walletVars>>

CanExpire(r) == recharge[r] = "pending" /\ payment[r] \in {"initiated", "pending"}

\* Mutant: the recharge takes an order's status.
Bug_ExpireRecharge(r) ==
    /\ r \in timer
    /\ timer' = timer \ {r}
    /\ IF CanExpire(r)
         THEN /\ payment' = [payment EXCEPT ![r] = "expired"]
              /\ recharge' = [recharge EXCEPT ![r] = "canceled"]
         ELSE UNCHANGED <<payment, recharge>>
    /\ UNCHANGED <<memberVars, creator, paid, notice, cardVars, walletVars>>

ExpireRecharge(r) ==
    /\ r \in timer
    /\ timer' = timer \ {r}
    /\ IF CanExpire(r)
         THEN /\ payment' = [payment EXCEPT ![r] = "expired"]
              /\ recharge' = [recharge EXCEPT ![r] = "expired"]
         ELSE UNCHANGED <<payment, recharge>>
    /\ UNCHANGED <<memberVars, creator, paid, notice, cardVars, walletVars>>

-----------------------------------------------------------------------------
(* The gateway and its reports.                                            *)

\* The gateway has the order, and the payer a link to it.
Linked(r) == creator[r] \in {"opened", "done"} \/ (r \in Unlinked /\ creator[r] # "idle")

\* The payer pays, in time or after the shop has given the recharge up.
Pay(r) ==
    /\ Linked(r) /\ r \notin paid
    /\ paid' = paid \cup {r}
    /\ UNCHANGED <<memberVars, payment, recharge, creator, timer, notice, cardVars, walletVars>>

\* HandleCallback reads the payment; CapturePayment queries and feeds it too.
\* The slot's hook, which the same request runs after its commit, has ended.
Receive(n, r, status) ==
    /\ notice[n].pc = "idle" /\ hook[n].pc = "idle"
    /\ Linked(r)
    /\ status = "success" => r \in paid
    /\ notice' = [notice EXCEPT ![n] = [pc |-> "found", recharge |-> r, status |-> status,
                                        seen |-> payment[r]]]
    /\ UNCHANGED <<memberVars, rechargeVars, cardVars, walletVars>>

\* Mutant: no report changes a terminal state.
Bug_CanApply(paymentStatus, rechargeStatus, status) ==
    /\ paymentStatus \notin {"success", "failed", "expired"}
    /\ rechargeStatus \notin {"success", "failed", "expired"}

\* canApplyWalletRechargeCallback: success overrides a terminal state, no
\* other report changes one.
CanApply(paymentStatus, rechargeStatus, status) ==
    \/ status = "success"
    \/ /\ paymentStatus \notin {"success", "failed", "expired"}
       /\ rechargeStatus \notin {"success", "failed", "expired"}

\* handleWalletRechargeCallback reads the recharge and takes its branch.
Decide(n) ==
    LET k == notice[n] IN
    /\ k.pc = "found"
    /\ notice' = [notice EXCEPT ![n].pc =
          IF \/ k.seen \in {"success", k.status}
             \/ ~CanApply(k.seen, recharge[k.recharge], k.status)
          THEN "meta" ELSE "apply"]
    /\ UNCHANGED <<memberVars, rechargeVars, cardVars, walletVars>>

\* updateCallbackMeta saves the row that was read, its status included.
SaveMeta(n) ==
    LET k == notice[n] IN
    /\ k.pc = "meta"
    /\ payment' = [payment EXCEPT ![k.recharge] = k.seen]
    /\ notice' = [notice EXCEPT ![n] = NoNotice]
    /\ UNCHANGED <<memberVars, recharge, creator, timer, paid, cardVars, walletVars>>

\* applyWalletRechargePaymentUpdate under the locks: the report only leaves
\* its metadata ...
ApplyNothing(n) ==
    LET k == notice[n]
        r == k.recharge IN
    /\ k.pc = "apply"
    /\ \/ payment[r] \in {"success", k.status}
       \/ ~CanApply(payment[r], recharge[r], k.status)
    /\ notice' = [notice EXCEPT ![n] = NoNotice]
    /\ UNCHANGED <<memberVars, rechargeVars, cardVars, walletVars>>

\* Mutant: only a pending recharge is credited.
Bug_ApplyPending(n) ==
    LET k == notice[n]
        r == k.recharge IN
    /\ k.pc = "apply"
    /\ payment[r] \notin {"success", k.status}
    /\ CanApply(payment[r], recharge[r], k.status)
    /\ payment' = [payment EXCEPT ![r] = k.status]
    /\ IF recharge[r] = "pending" /\ k.status = "success"
         THEN /\ recharge' = [recharge EXCEPT ![r] = k.status]
              /\ Credit(r, Owner[r])
              /\ hook' = [hook EXCEPT ![n] = Started(Owner[r], "recharged", Amount[r])]
         ELSE UNCHANGED <<recharge, walletVars, hook>>
    /\ notice' = [notice EXCEPT ![n] = NoNotice]
    /\ UNCHANGED <<user, saver, saves, unsettled, creator, timer, paid, cardVars>>

\* Mutant: a recharge that has succeeded is applied again; its reference is
\* there, its hook starts.
Bug_ApplyAgain(n) ==
    LET k == notice[n]
        r == k.recharge IN
    /\ k.pc = "apply"
    /\ payment[r] \notin {"success", k.status}
    /\ CanApply(payment[r], recharge[r], k.status)
    /\ payment' = [payment EXCEPT ![r] = k.status]
    /\ recharge' = [recharge EXCEPT ![r] = k.status]
    /\ IF k.status = "success"
         THEN /\ Credit(r, Owner[r])
              /\ hook' = [hook EXCEPT ![n] = Started(Owner[r], "recharged", Amount[r])]
         ELSE UNCHANGED <<walletVars, hook>>
    /\ notice' = [notice EXCEPT ![n] = NoNotice]
    /\ UNCHANGED <<user, saver, saves, unsettled, creator, timer, paid, cardVars>>

\* ... or the payment takes its status and the recharge, unless it has
\* succeeded, follows: a success credits the wallet and starts the hook.
Apply(n) ==
    LET k == notice[n]
        r == k.recharge IN
    /\ k.pc = "apply"
    /\ payment[r] \notin {"success", k.status}
    /\ CanApply(payment[r], recharge[r], k.status)
    /\ payment' = [payment EXCEPT ![r] = k.status]
    /\ IF recharge[r] = "success"
         THEN UNCHANGED <<recharge, walletVars, hook>>
         ELSE /\ recharge' = [recharge EXCEPT ![r] = k.status]
              /\ IF k.status = "success"
                   THEN /\ Credit(r, Owner[r])
                        /\ hook' = [hook EXCEPT ![n] = Started(Owner[r], "recharged", Amount[r])]
                   ELSE UNCHANGED <<walletVars, hook>>
    /\ notice' = [notice EXCEPT ![n] = NoNotice]
    /\ UNCHANGED <<user, saver, saves, unsettled, creator, timer, paid, cardVars>>

\* The handling fails or its process ends; the gateway will report again.
NoticeLost(n) ==
    /\ notice[n].pc # "idle"
    /\ notice' = [notice EXCEPT ![n] = NoNotice]
    /\ UNCHANGED <<memberVars, rechargeVars, cardVars, walletVars>>

-----------------------------------------------------------------------------
(* Gift cards.                                                             *)

\* RedeemGiftCard, one transaction under the card's lock; an expired card is
\* refused, which leaves everything as it is.
Redeem(g, u) ==
    /\ card[g].status = "active" /\ ~card[g].deleted
    /\ Credit(g, u)
    /\ card' = [card EXCEPT ![g].status = "redeemed", ![g].user = u]
    /\ UNCHANGED <<memberVars, rechargeVars, notice, editor>>

\* Update reads the card; a redeemed one takes no new status.
EditRead(g, status) ==
    /\ editor.pc = "idle" /\ ~card[g].deleted
    /\ status # card[g].status => card[g].status # "redeemed" /\ status # "redeemed"
    /\ editor' = [pc |-> "save", card |-> g, row |-> [card[g] EXCEPT !.status = status]]
    /\ UNCHANGED <<memberVars, rechargeVars, notice, card, walletVars>>

\* Every column of the row it read: a deletion is undone with the rest.
EditSave ==
    /\ editor.pc = "save"
    /\ card' = [card EXCEPT ![editor.card] = editor.row]
    /\ editor' = NoEdit
    /\ UNCHANGED <<memberVars, rechargeVars, notice, walletVars>>

\* Delete checks the status and deletes in two statements: what it found may
\* have been redeemed, so the second is free of the first.
DeleteCard(g) ==
    /\ ~card[g].deleted
    /\ card' = [card EXCEPT ![g].deleted = TRUE]
    /\ UNCHANGED <<memberVars, rechargeVars, notice, editor, walletVars>>

BatchUpdateStatus(g, status) ==
    /\ card[g].status # "redeemed" /\ ~card[g].deleted
    /\ card' = [card EXCEPT ![g].status = status]
    /\ UNCHANGED <<memberVars, rechargeVars, notice, editor, walletVars>>

-----------------------------------------------------------------------------
CardNext ==
    \/ \E g \in Cards :
          \/ \E u \in Users : Redeem(g, u)
          \/ \E status \in CardStatus : EditRead(g, status)
          \/ DeleteCard(g)
          \/ \E status \in {"active", "disabled"} : BatchUpdateStatus(g, status)
    \/ EditSave

RechargeNext ==
    \E r \in Recharges :
       CreateRecharge(r) \/ Opened(r) \/ Refused(r) \/ Scheduled(r) \/ ScheduleFails(r)
          \/ CreationEnds(r) \/ ExpireRecharge(r) \/ Pay(r)

NoticeNext ==
    \E n \in Notices :
       \/ \E r \in Recharges, status \in Reported : Receive(n, r, status)
       \/ Decide(n) \/ SaveMeta(n) \/ ApplyNothing(n) \/ Apply(n) \/ NoticeLost(n)

Others == <<rechargeVars, notice, cardVars, walletVars>>

Next ==
    \/ MemberNext /\ UNCHANGED Others
    \/ RechargeNext
    \/ NoticeNext
    \/ CardNext
    \/ \E a \in Adjustments : Adjust(a)

Spec == Init /\ [][Next]_vars

-----------------------------------------------------------------------------
\* The gateway reports a payment until the shop has taken a report of it to
\* its end, and the shop takes every request; what it runs otherwise goes on.
SuccessOf(n, r) == notice[n].recharge = r /\ notice[n].status = "success"

LiveSpec ==
    /\ Spec
    /\ \A r \in Recharges :
          /\ SF_vars(\E n \in Notices : Receive(n, r, "success"))
          /\ SF_vars(\E n \in Notices : SuccessOf(n, r) /\ Decide(n))
          /\ SF_vars(\E n \in Notices : SuccessOf(n, r) /\ (SaveMeta(n) \/ ApplyNothing(n) \/ Apply(n)))
    /\ \A n \in Notices : WF_vars(Decide(n) \/ SaveMeta(n) \/ ApplyNothing(n) \/ Apply(n))
    /\ \A h \in Hooks : WF_vars(HookStep(h) /\ UNCHANGED Others)

TypeOK ==
    /\ MemberTypeOK
    /\ payment \in [Recharges -> PaymentStatus]
    /\ recharge \in [Recharges -> RechargeStatus]
    /\ creator \in [Recharges -> {"idle", "opening", "opened", "refused", "done"}]
    /\ timer \subseteq Recharges /\ paid \subseteq Recharges
    /\ notice \in [Notices -> NoticeType]
    /\ card \in [Cards -> CardType]
    /\ editor \in EditorType
    /\ ledger \in [Sources -> Users \cup {NoUser}]
    /\ balance \in [Users -> Int]

\* A payment or a recharge that says success has been credited to its user,
\* however reports, the expiry and the creation's rollback overlapped and
\* whatever row a report had read before it saved it.
SuccessIsCredited ==
    \A r \in Recharges :
        payment[r] = "success" \/ recharge[r] = "success" => ledger[r] = Owner[r]

\* A user's recharged total never exceeds what its recharges have credited,
\* what a running hook is about to add included: no recharge counts twice
\* toward a level.
Counting(u) ==
    [h \in Hooks |->
        IF hook[h].pc = "count" /\ hook[h].user = u /\ hook[h].total = "recharged"
        THEN hook[h].amount ELSE 0]

Credited(u) == [r \in Recharges |-> IF ledger[r] = u THEN Amount[r] ELSE 0]

CountedAtMostOnce ==
    \A u \in Users :
        user[u].recharged + SumFunctionOnSet(Counting(u), Hooks)
            <= SumFunctionOnSet(Credited(u), Recharges)

\* Money the gateway has taken reaches the wallet, also when the shop had
\* expired or failed the recharge before it was told.
PaidIsCredited == \A r \in Recharges : r \in paid ~> ledger[r] = Owner[r]

\* Every source is credited once, to a user it is for, when the money is in.
Credits == INSTANCE Credits WITH
    due <- paid \cup Cards \cup Adjustments, credited <- ledger,
    Holders <- [s \in Sources |-> IF s \in Cards THEN Users ELSE {Owner[s]}]

ImplementsCredits ==
    Credits!Init(Cards \cup Adjustments) /\ [][Credits!Next]_<<paid, ledger, balance>>
===============================================================================
