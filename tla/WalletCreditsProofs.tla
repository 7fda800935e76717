-------------------------- MODULE WalletCreditsProofs --------------------------
(***************************************************************************)
(* Theorems about WalletCredits, for every set of users, recharges, cards  *)
(* and corrections, every amount, level and threshold, and any number of   *)
(* reports, hooks and edits that overlap.                                  *)
(***************************************************************************)
EXTENDS WalletCredits, SumTheorems

(* The inductive invariant.                                                *)

\* What an upgrade writes is above what its hook has read.
UpgradesUp == \A h \in Hooks : hook[h].pc = "upgrade" => hook[h].target > hook[h].seen

RowsTyped ==
    /\ payment \in [Recharges -> PaymentStatus]
    /\ recharge \in [Recharges -> RechargeStatus]
    /\ creator \in [Recharges -> {"idle", "opening", "opened", "refused", "done"}]
    /\ timer \subseteq Recharges /\ paid \subseteq Recharges

CardsTyped ==
    /\ card \in [Cards -> CardType]
    /\ editor \in EditorType

WalletTyped ==
    /\ ledger \in [Sources -> Users \cup {NoUser}]
    /\ balance \in [Users -> Int]

\* No balance is negative.
BalancesCover == \A u \in Users : balance[u] >= 0

\* A recharge is credited to its owner, after the gateway took the money.
PostedWhenPaid ==
    \A r \in Recharges : ledger[r] # NoUser => ledger[r] = Owner[r] /\ r \in paid

\* A report of success is one of a payment, and a success it has read has
\* been credited.
ReportsTrue ==
    \A n \in Notices :
        /\ notice[n].status = "success" => notice[n].recharge \in paid
        /\ notice[n].seen = "success" => ledger[notice[n].recharge] = Owner[notice[n].recharge]

MemberInv == MemberTypeOK /\ UpgradesUp
NoticesTyped == notice \in [Notices -> NoticeType]
WalletInv == WalletTyped /\ BalancesCover

IInv ==
    /\ MemberInv
    /\ RowsTyped
    /\ NoticesTyped
    /\ CardsTyped
    /\ WalletInv
    /\ PostedWhenPaid
    /\ ReportsTrue
    /\ SuccessIsCredited

(* The member levels.                                                      *)

LEMMA NewTyped ==
    /\ NewUser \in UserType /\ AnyUser \in Users
    /\ NoHook \in HookType /\ NoHook.pc = "idle"
    /\ NoSave \in SaverType
<1>1. AnyUser \in Users
  BY CreditsAssumption DEF AnyUser
<1>2. NewUser \in UserType
  BY LevelsAssumption DEF NewUser, UserType, Level
<1>3. NoHook \in HookType /\ NoHook.pc = "idle"
  BY <1>1, LevelsAssumption DEF NoHook, Started, HookType, Level, MaxAttempts
<1>4. NoSave \in SaverType
  BY <1>1, <1>2, LevelsAssumption DEF NoSave, SaverType, Level
<1>5. QED
  BY <1>1, <1>2, <1>3, <1>4

\* A hook that begins is typed and upgrades nothing.
LEMMA StartedTyped ==
    ASSUME NEW u \in Users, NEW total \in {"recharged", "spent"}, NEW amount \in Nat
    PROVE  Started(u, total, amount) \in HookType /\ Started(u, total, amount).pc = "count"
BY LevelsAssumption DEF Started, HookType, Level, MaxAttempts

\* The level found is an enabled one above the user's own.
LEMMA TargetAbove ==
    ASSUME NEW row \in UserType, NEW l \in Highest(Reached(row))
    PROVE  l \in Level /\ l > row.level
BY LevelsAssumption DEF Highest, Reached, Level

LEMMA MemberStep == MemberInv /\ [MemberNext]_memberVars => MemberInv'
<1> SUFFICES ASSUME MemberInv, [MemberNext]_memberVars PROVE MemberInv'
  OBVIOUS
<1> USE DEF MemberInv, MemberTypeOK, UpgradesUp
<1>1. ASSUME NEW h \in Hooks, Count(h) PROVE MemberInv'
  <2>1. hook[h] \in HookType /\ user[hook[h].user] \in UserType
    BY DEF HookType
  <2>2. user' \in [Users -> UserType]
    BY <1>1, <2>1 DEF Count, UserType, HookType
  <2>3. hook' \in [Hooks -> HookType] /\ UpgradesUp'
    BY <1>1, <2>1 DEF Count, HookType
  <2>4. QED
    BY <1>1, <2>2, <2>3 DEF Count
<1>2. ASSUME NEW h \in Hooks, ReadMember(h) PROVE MemberInv'
  <2>1. hook[h] \in HookType /\ user[hook[h].user] \in UserType /\ hook[h].user \in Users
    BY DEF HookType
  <2>2. CASE hook' = [hook EXCEPT ![h] = NoHook]
    BY <1>2, <2>1, <2>2, NewTyped DEF ReadMember
  <2>3. ASSUME NEW l \in Highest(Reached(user[hook[h].user])),
               hook' = [hook EXCEPT ![h].pc = "upgrade", ![h].seen = user[hook[h].user].level,
                                    ![h].target = l]
        PROVE  MemberInv'
    <3>1. l \in Level /\ l > user[hook[h].user].level
      BY <2>1, TargetAbove
    <3>2. user[hook[h].user].level \in Level
      BY <2>1 DEF UserType
    <3>3. hook' \in [Hooks -> HookType] /\ UpgradesUp'
      BY <2>1, <2>3, <3>1, <3>2 DEF HookType
    <3>4. QED
      BY <1>2, <3>3 DEF ReadMember
  <2>4. QED
    BY <1>2, <2>2, <2>3 DEF ReadMember
<1>3. ASSUME NEW h \in Hooks, Upgrade(h) PROVE MemberInv'
  <2>1. hook[h] \in HookType /\ user[hook[h].user] \in UserType /\ hook[h].user \in Users
    BY DEF HookType
  <2>2. user' \in [Users -> UserType]
    BY <1>3, <2>1 DEF Upgrade, HookType, UserType
  <2>3. hook' \in [Hooks -> HookType] /\ UpgradesUp'
    BY <1>3, <2>1, NewTyped DEF Upgrade, HookType, MaxAttempts
  <2>4. unsettled' \subseteq Users
    BY <1>3, <2>1 DEF Upgrade
  <2>5. QED
    BY <1>3, <2>2, <2>3, <2>4 DEF Upgrade
<1>4. ASSUME NEW h \in Hooks, HookLost(h) PROVE MemberInv'
  <2>1. hook[h].user \in Users
    BY DEF HookType
  <2>2. QED
    BY <1>4, <2>1, NewTyped DEF HookLost
<1>5. ASSUME NEW h \in OrderHooks, NEW u \in Users, OrderPaid(h, u) PROVE MemberInv'
  <2>1. h \in Hooks
    BY HooksAssumption
  <2>2. QED
    BY <1>5, <2>1, StartedTyped DEF OrderPaid
<1>6. ASSUME NEW s \in Savers, NEW u \in Users, NEW by \in {"level", "account"},
             NEW l \in Level, ReadRow(s, u, by, l)
      PROVE  MemberInv'
  BY <1>6 DEF ReadRow, SaverType
<1>7. ASSUME NEW s \in Savers, SaveRow(s) PROVE MemberInv'
  <2>1. /\ saver[s].row \in UserType /\ saver[s].level \in Level /\ saver[s].user \in Users
    BY DEF SaverType
  <2>2. [saver[s].row EXCEPT !.level = saver[s].level] \in UserType
    BY <2>1 DEF UserType
  <2>3. QED
    BY <1>7, <2>1, <2>2, NewTyped DEF SaveRow
<1>8. ASSUME BackfillDefaultLevel PROVE MemberInv'
  <2>1. ASSUME NEW u \in Users PROVE [user[u] EXCEPT !.level = DefaultLevel] \in UserType
    BY LevelsAssumption DEF UserType, Level
  <2>2. user' \in [Users -> UserType]
    BY <1>8, <2>1 DEF BackfillDefaultLevel
  <2>3. QED
    BY <1>8, <2>2 DEF BackfillDefaultLevel
<1>9. CASE UNCHANGED memberVars
  BY <1>9 DEF memberVars
<1>10. ASSUME NEW s \in Savers, NEW u \in Users,
              SetUserLevel(s, u) \/ AssignDefaultLevel(s, u) \/ UpdateAccount(s, u)
       PROVE  MemberInv'
  <2>1. user[u].level \in Level /\ DefaultLevel \in Level
    BY LevelsAssumption DEF UserType, Level
  <2>2. QED
    BY <1>6, <1>10, <2>1 DEF SetUserLevel, AssignDefaultLevel, UpdateAccount
<1>11. QED
  BY <1>1, <1>2, <1>3, <1>4, <1>5, <1>7, <1>8, <1>9, <1>10 DEF MemberNext, HookStep

(* The rows, the reports, the cards and the wallets.                       *)

\* What a credit leaves of the wallets, when its amount is not negative.
LEMMA CreditStep ==
    ASSUME WalletInv, NEW s \in Sources, NEW u \in Users, Credit(s, u),
           balance[u] + Amount[s] >= 0
    PROVE  WalletInv'
<1>1. Amount[s] \in Int
  BY CreditsAssumption
<1>2. QED
  BY <1>1 DEF WalletInv, WalletTyped, BalancesCover, Credit, walletVars

\* Recharges and cards are credited an amount, which covers itself.
LEMMA CreditCovered ==
    ASSUME WalletInv, NEW s \in Recharges \cup Cards, NEW u \in Users
    PROVE  s \in Sources /\ balance[u] + Amount[s] >= 0
<1>1. s \in Sources /\ Amount[s] \in Int /\ Amount[s] > 0
  BY CreditsAssumption DEF Sources
<1>2. balance[u] \in Int /\ balance[u] >= 0
  BY DEF WalletInv, WalletTyped, BalancesCover
<1>3. QED
  BY <1>1, <1>2

\* The owner of a recharge, and what a credit of it posts.
LEMMA Posted ==
    ASSUME WalletInv, PostedWhenPaid, NEW r \in Recharges, r \in paid, Credit(r, Owner[r]),
           UNCHANGED paid
    PROVE  /\ Owner[r] \in Users /\ Owner[r] # NoUser
           /\ ledger'[r] = Owner[r]
           /\ \A s \in Sources : s # r => ledger'[s] = ledger[s]
           /\ WalletInv' /\ PostedWhenPaid'
<1>1. Owner[r] \in Users /\ Owner[r] # NoUser /\ r \in Sources
  BY CreditsAssumption DEF Sources
<1>2. WalletInv'
  BY <1>1, CreditCovered, CreditStep
<1>3. ledger'[r] = Owner[r] /\ \A s \in Sources : s # r => ledger'[s] = ledger[s]
  BY <1>1 DEF Credit, walletVars, WalletInv, WalletTyped, PostedWhenPaid
<1>4. PostedWhenPaid'
  BY <1>3 DEF PostedWhenPaid, Sources
<1>5. QED
  BY <1>1, <1>2, <1>3, <1>4

\* A step of a recharge's rows that writes no success.
LEMMA RechargeStep == IInv /\ RechargeNext => IInv'
<1> SUFFICES ASSUME IInv, NEW r \in Recharges,
                    \/ CreateRecharge(r) \/ Opened(r) \/ Refused(r) \/ Scheduled(r)
                    \/ ScheduleFails(r) \/ CreationEnds(r) \/ ExpireRecharge(r) \/ Pay(r)
             PROVE  IInv'
  BY DEF RechargeNext
<1>1. /\ UNCHANGED <<memberVars, notice, cardVars, walletVars>>
      /\ \/ UNCHANGED paid
         \/ paid' = paid \cup {r}
  BY DEF CreateRecharge, Opened, Refused, Scheduled, ScheduleFails, CreationEnds,
         ExpireRecharge, Pay
<1>2. MemberInv' /\ NoticesTyped' /\ CardsTyped' /\ WalletInv'
  BY <1>1 DEF IInv, MemberInv, MemberTypeOK, UpgradesUp, NoticesTyped, CardsTyped, WalletInv,
              WalletTyped, BalancesCover, memberVars, cardVars, walletVars
<1>3. PostedWhenPaid' /\ ReportsTrue'
  BY <1>1 DEF IInv, PostedWhenPaid, ReportsTrue, walletVars
<1>4. RowsTyped' /\ SuccessIsCredited'
  <2> USE DEF IInv, RowsTyped, SuccessIsCredited, PaymentStatus, RechargeStatus, walletVars
  <2>1. CASE CreateRecharge(r)
    BY <2>1, <1>1 DEF CreateRecharge
  <2>2. CASE Opened(r)
    BY <2>2, <1>1 DEF Opened
  <2>3. CASE Refused(r)
    BY <2>3, <1>1 DEF Refused
  <2>4. CASE Scheduled(r)
    BY <2>4, <1>1 DEF Scheduled
  <2>5. CASE ScheduleFails(r)
    BY <2>5, <1>1 DEF ScheduleFails
  <2>6. CASE CreationEnds(r)
    BY <2>6, <1>1 DEF CreationEnds
  <2>7. CASE ExpireRecharge(r)
    BY <2>7, <1>1 DEF ExpireRecharge
  <2>8. CASE Pay(r)
    BY <2>8, <1>1 DEF Pay
  <2>9. QED
    BY <2>1, <2>2, <2>3, <2>4, <2>5, <2>6, <2>7, <2>8
<1>5. QED
  BY <1>2, <1>3, <1>4 DEF IInv

LEMMA NoNoticeTyped ==
    /\ NoNotice \in NoticeType
    /\ NoNotice.status = "pending" /\ NoNotice.seen = "none"
<1>1. (CHOOSE r \in Recharges : TRUE) \in Recharges
  BY CreditsAssumption
<1>2. QED
  BY <1>1, CreditsAssumption DEF NoNotice, NoticeType, PaymentStatus

\* A report that ends leaves the others as they are.
LEMMA ReportEnds ==
    ASSUME NoticesTyped, ReportsTrue, NEW n \in Notices,
           notice' = [notice EXCEPT ![n] = NoNotice],
           UNCHANGED <<paid, ledger>>
    PROVE  NoticesTyped' /\ ReportsTrue'
BY NoNoticeTyped DEF NoticesTyped, ReportsTrue

\* What Apply does to the recharge and the wallet.
LEMMA ApplyStep == ASSUME IInv, NEW n \in Notices, Apply(n) PROVE IInv'
<1> DEFINE k == notice[n]
           r == k.recharge
<1>1. k \in NoticeType /\ r \in Recharges /\ k.status \in Reported
  BY DEF IInv, NoticesTyped, NoticeType
<1>2. k.status \in PaymentStatus /\ k.status \in RechargeStatus
  BY <1>1, CreditsAssumption DEF PaymentStatus, RechargeStatus
<1>3. /\ UNCHANGED <<paid, creator, timer, card, editor, user, saver, saves, unsettled>>
      /\ notice' = [notice EXCEPT ![n] = NoNotice]
      /\ payment' = [payment EXCEPT ![r] = k.status]
  BY DEF Apply, cardVars
<1>4. CardsTyped'
  BY <1>3 DEF IInv, CardsTyped
<1>5. n \in Hooks
  BY CreditsAssumption
<1>6. CASE recharge[r] = "success" \/ k.status # "success"
  <2>1. UNCHANGED <<walletVars, hook>>
    BY <1>6 DEF Apply
  <2>2. RowsTyped'
    BY <1>1, <1>2, <1>3, <1>6 DEF IInv, RowsTyped, Apply
  <2>3. SuccessIsCredited'
    BY <1>1, <1>3, <1>6, <2>1 DEF IInv, SuccessIsCredited, RowsTyped, Apply, walletVars
  <2>4. NoticesTyped' /\ ReportsTrue'
    BY <1>3, <2>1, ReportEnds DEF IInv, walletVars
  <2>5. MemberInv' /\ WalletInv' /\ PostedWhenPaid'
    BY <1>3, <2>1 DEF IInv, MemberInv, MemberTypeOK, UpgradesUp, WalletInv, WalletTyped,
                      BalancesCover, PostedWhenPaid, walletVars
  <2>6. QED
    BY <1>4, <2>2, <2>3, <2>4, <2>5 DEF IInv
<1>7. CASE recharge[r] # "success" /\ k.status = "success"
  <2>1. /\ Credit(r, Owner[r])
        /\ hook' = [hook EXCEPT ![n] = Started(Owner[r], "recharged", Amount[r])]
        /\ recharge' = [recharge EXCEPT ![r] = "success"]
    BY <1>7 DEF Apply
  <2>2. r \in paid
    BY <1>7 DEF IInv, ReportsTrue
  <2>3. /\ Owner[r] \in Users /\ Owner[r] # NoUser /\ ledger'[r] = Owner[r]
        /\ \A s \in Sources : s # r => ledger'[s] = ledger[s]
        /\ WalletInv' /\ PostedWhenPaid'
    BY <1>1, <1>3, <2>1, <2>2, Posted DEF IInv
  <2>4. RowsTyped'
    BY <1>1, <1>2, <1>3, <2>1 DEF IInv, RowsTyped, RechargeStatus
  <2>5. SuccessIsCredited'
    BY <1>1, <1>3, <2>1, <2>3 DEF IInv, SuccessIsCredited, RowsTyped, Sources
  <2>6. NoticesTyped' /\ ReportsTrue'
    <3>1. NoticesTyped'
      BY <1>3, NoNoticeTyped DEF IInv, NoticesTyped
    <3>2. ReportsTrue'
      BY <1>1, <1>3, <2>3, NoNoticeTyped
      DEF IInv, ReportsTrue, NoticesTyped, NoticeType, Sources
    <3>3. QED
      BY <3>1, <3>2
  <2>7. MemberInv'
    <3>1. Amount[r] \in Nat
      BY <1>1, CreditsAssumption DEF Sources
    <3>2. /\ Started(Owner[r], "recharged", Amount[r]) \in HookType
          /\ Started(Owner[r], "recharged", Amount[r]).pc = "count"
      BY <2>3, <3>1, StartedTyped
    <3>3. QED
      BY <1>3, <1>5, <2>1, <3>2 DEF IInv, MemberInv, MemberTypeOK, UpgradesUp
  <2>8. QED
    BY <1>4, <2>3, <2>4, <2>5, <2>6, <2>7 DEF IInv
<1>8. QED
  BY <1>6, <1>7

LEMMA NoticeStep == IInv /\ NoticeNext => IInv'
<1> SUFFICES ASSUME IInv, NEW n \in Notices,
                    \/ \E r \in Recharges, status \in Reported : Receive(n, r, status)
                    \/ Decide(n) \/ SaveMeta(n) \/ ApplyNothing(n) \/ Apply(n) \/ NoticeLost(n)
             PROVE  IInv'
  BY DEF NoticeNext
<1> DEFINE k == notice[n]
<1>1. k \in NoticeType /\ k.recharge \in Recharges /\ k.seen \in PaymentStatus
  BY DEF IInv, NoticesTyped, NoticeType
<1>2. ASSUME UNCHANGED <<memberVars, cardVars, walletVars>>
      PROVE  MemberInv' /\ CardsTyped' /\ WalletInv'
  BY <1>2 DEF IInv, MemberInv, MemberTypeOK, UpgradesUp, CardsTyped, WalletInv, WalletTyped,
              BalancesCover, memberVars, cardVars, walletVars
<1>3. ASSUME UNCHANGED <<rechargeVars, walletVars>>
      PROVE  RowsTyped' /\ PostedWhenPaid' /\ SuccessIsCredited'
  BY <1>3 DEF IInv, RowsTyped, PostedWhenPaid, SuccessIsCredited, rechargeVars, walletVars
<1>4. ASSUME NEW r \in Recharges, NEW status \in Reported, Receive(n, r, status) PROVE IInv'
  <2>1. NoticesTyped'
    BY <1>4 DEF Receive, IInv, NoticesTyped, NoticeType, RowsTyped
  <2>2. ReportsTrue'
    BY <1>4 DEF Receive, IInv, ReportsTrue, NoticesTyped, SuccessIsCredited,
                rechargeVars, walletVars
  <2>3. QED
    BY <1>2, <1>3, <1>4, <2>1, <2>2 DEF Receive, IInv
<1>5. ASSUME Decide(n) PROVE IInv'
  <2>1. NoticesTyped' /\ ReportsTrue'
    BY <1>1, <1>5 DEF Decide, IInv, ReportsTrue, NoticesTyped, NoticeType, rechargeVars, walletVars
  <2>2. QED
    BY <1>2, <1>3, <1>5, <2>1 DEF Decide, IInv
<1>6. ASSUME SaveMeta(n) PROVE IInv'
  <2>1. NoticesTyped' /\ ReportsTrue'
    BY <1>6, ReportEnds DEF SaveMeta, IInv, walletVars
  <2>2. RowsTyped'
    BY <1>1, <1>6 DEF SaveMeta, IInv, RowsTyped
  <2>3. SuccessIsCredited' /\ PostedWhenPaid'
    BY <1>1, <1>6
    DEF SaveMeta, IInv, SuccessIsCredited, PostedWhenPaid, ReportsTrue, RowsTyped, walletVars
  <2>4. QED
    BY <1>2, <1>6, <2>1, <2>2, <2>3 DEF SaveMeta, IInv
<1>7. ASSUME ApplyNothing(n) \/ NoticeLost(n) PROVE IInv'
  <2>1. /\ notice' = [notice EXCEPT ![n] = NoNotice]
        /\ UNCHANGED <<memberVars, rechargeVars, cardVars, walletVars>>
    BY <1>7 DEF ApplyNothing, NoticeLost
  <2>2. NoticesTyped' /\ ReportsTrue'
    BY <2>1, ReportEnds DEF IInv, rechargeVars, walletVars
  <2>3. QED
    BY <1>2, <1>3, <2>1, <2>2 DEF IInv
<1>8. QED
  BY <1>4, <1>5, <1>6, <1>7, ApplyStep

\* Cards and corrections leave the recharges alone and what they have posted.
LEMMA CardStep == IInv /\ CardNext => IInv'
<1> SUFFICES ASSUME IInv, CardNext PROVE IInv'
  OBVIOUS
<1> USE DEF IInv, CardsTyped
<1>1. /\ UNCHANGED <<memberVars, rechargeVars, notice>>
      /\ MemberInv' /\ RowsTyped' /\ NoticesTyped'
  BY DEF CardNext, Redeem, EditRead, EditSave, DeleteCard, BatchUpdateStatus, MemberInv,
         MemberTypeOK, UpgradesUp, RowsTyped, NoticesTyped, memberVars, rechargeVars
<1>2. ASSUME UNCHANGED walletVars
      PROVE  WalletInv' /\ PostedWhenPaid' /\ ReportsTrue' /\ SuccessIsCredited'
  BY <1>1, <1>2 DEF WalletInv, WalletTyped, BalancesCover, PostedWhenPaid, ReportsTrue,
                    SuccessIsCredited, walletVars, rechargeVars
<1>3. ASSUME NEW g \in Cards, NEW u \in Users, Redeem(g, u) PROVE IInv'
  <2>1. WalletInv'
    BY <1>3, CreditCovered, CreditStep DEF Redeem
  <2>2. \A s \in Recharges : ledger'[s] = ledger[s]
    BY <1>3, CreditsAssumption DEF Redeem, Credit, walletVars, WalletInv, WalletTyped, Sources
  <2>3. PostedWhenPaid' /\ ReportsTrue' /\ SuccessIsCredited'
    BY <1>1, <2>2 DEF PostedWhenPaid, ReportsTrue, SuccessIsCredited, NoticesTyped, NoticeType,
                      rechargeVars
  <2>4. CardsTyped'
    BY <1>3 DEF Redeem, CardType, CardStatus
  <2>5. QED
    BY <1>1, <2>1, <2>3, <2>4
<1>4. ASSUME NEW g \in Cards, NEW status \in CardStatus, EditRead(g, status) PROVE IInv'
  <2>1. [card[g] EXCEPT !.status = status] \in CardType
    BY DEF CardType
  <2>2. CardsTyped'
    BY <1>4, <2>1 DEF EditRead, EditorType
  <2>3. QED
    BY <1>1, <1>2, <1>4, <2>2 DEF EditRead
<1>5. ASSUME EditSave PROVE IInv'
  <2>1. NoEdit \in EditorType
    <3>1. (CHOOSE g \in Cards : TRUE) \in Cards
      BY CreditsAssumption
    <3>2. QED
      BY <3>1 DEF NoEdit, EditorType, NewCard, CardType, CardStatus
  <2>2. CardsTyped'
    BY <1>5, <2>1 DEF EditSave, EditorType
  <2>3. QED
    BY <1>1, <1>2, <1>5, <2>2 DEF EditSave
<1>6. ASSUME NEW g \in Cards,
             \/ DeleteCard(g)
             \/ \E status \in {"active", "disabled"} : BatchUpdateStatus(g, status)
      PROVE  IInv'
  <2>1. UNCHANGED walletVars /\ UNCHANGED editor
    BY <1>6 DEF DeleteCard, BatchUpdateStatus
  <2>2. CASE DeleteCard(g)
    BY <1>1, <1>2, <2>1, <2>2 DEF DeleteCard, CardType
  <2>3. ASSUME NEW status \in {"active", "disabled"}, BatchUpdateStatus(g, status) PROVE IInv'
    BY <1>1, <1>2, <2>1, <2>3 DEF BatchUpdateStatus, CardType, CardStatus
  <2>4. QED
    BY <1>6, <2>2, <2>3
<1>7. QED
  BY <1>3, <1>4, <1>5, <1>6 DEF CardNext

LEMMA AdjustStep == ASSUME IInv, NEW a \in Adjustments, Adjust(a) PROVE IInv'
<1> USE DEF IInv
<1>1. Owner[a] \in Users /\ a \in Sources
  BY CreditsAssumption DEF Sources
<1>2. WalletInv'
  BY <1>1, CreditStep DEF Adjust
<1>3. \A s \in Recharges : ledger'[s] = ledger[s]
  BY CreditsAssumption DEF Adjust, Credit, walletVars, WalletInv, WalletTyped, Sources
<1>4. MemberInv' /\ RowsTyped' /\ NoticesTyped' /\ CardsTyped'
  BY DEF Adjust, MemberInv, MemberTypeOK, UpgradesUp, RowsTyped, NoticesTyped, CardsTyped,
         memberVars, rechargeVars, cardVars
<1>5. PostedWhenPaid' /\ ReportsTrue' /\ SuccessIsCredited'
  BY <1>3 DEF Adjust, PostedWhenPaid, ReportsTrue, SuccessIsCredited, NoticesTyped, NoticeType,
              rechargeVars
<1>6. QED
  BY <1>2, <1>4, <1>5

(* The theorems.                                                           *)

LEMMA InvInit == Init => IInv
<1> SUFFICES ASSUME Init PROVE IInv
  OBVIOUS
<1> USE DEF Init
<1>1. MemberInv
  BY NewTyped DEF MemberInit, MemberInv, MemberTypeOK, UpgradesUp
<1>2. RowsTyped /\ WalletInv
  BY DEF RowsTyped, PaymentStatus, RechargeStatus, WalletInv, WalletTyped, BalancesCover
<1>3. NoticesTyped /\ ReportsTrue
  BY NoNoticeTyped DEF NoticesTyped, ReportsTrue
<1>4. CardsTyped
  <2>1. (CHOOSE g \in Cards : TRUE) \in Cards
    BY CreditsAssumption
  <2>2. QED
    BY <2>1 DEF CardsTyped, NoEdit, EditorType, NewCard, CardType, CardStatus
<1>5. PostedWhenPaid /\ SuccessIsCredited
  BY DEF PostedWhenPaid, SuccessIsCredited, Sources
<1>6. QED
  BY <1>1, <1>2, <1>3, <1>4, <1>5 DEF IInv

LEMMA InvStep == IInv /\ [Next]_vars => IInv'
<1> SUFFICES ASSUME IInv, [Next]_vars PROVE IInv'
  OBVIOUS
<1>1. CASE (MemberNext /\ UNCHANGED Others) \/ UNCHANGED vars
  <2>1. MemberInv'
    BY <1>1, MemberStep DEF IInv, vars
  <2>2. QED
    BY <1>1, <2>1 DEF IInv, Others, vars, rechargeVars, cardVars, walletVars, RowsTyped,
       NoticesTyped, CardsTyped, WalletInv, WalletTyped, BalancesCover, PostedWhenPaid,
       ReportsTrue, SuccessIsCredited
<1>2. QED
  BY <1>1, RechargeStep, NoticeStep, CardStep, AdjustStep DEF Next

\* The invariant, of which each of the properties below is a part or follows.
THEOREM InvAlways == Spec => []IInv
BY InvInit, InvStep, PTL DEF Spec

\* Every variable has its type: a report, a hook and an edit only carry
\* statuses and levels that the rows can have.
THEOREM TypeCorrect == Spec => []TypeOK
<1>1. IInv => TypeOK
  BY DEF IInv, TypeOK, MemberInv, RowsTyped, NoticesTyped, CardsTyped, WalletInv, WalletTyped
<1>2. QED
  BY <1>1, InvAlways, PTL

\* A recharge or payment that says success has been credited to its user,
\* however many reports overlap with the expiry and the creation's rollback.
THEOREM SuccessAlwaysCredited == Spec => []SuccessIsCredited
<1>1. IInv => SuccessIsCredited
  BY DEF IInv
<1>2. QED
  BY <1>1, InvAlways, PTL

\* A level goes down only to the one that a whole-row save of its user
\* carries, an administrator's or the user's own, as the save ends: no hook,
\* however long ago it has read the user, takes a level down.
THEOREM LevelsOnlyRise == Spec => UpgradeOnly
<1>1. IInv /\ [Next]_vars =>
         [\A u \in Users :
             user'[u].level < user[u].level =>
                \E s \in Savers : /\ saver[s].pc = "write" /\ saver'[s].pc = "idle"
                                  /\ saver[s].user = u
                                  /\ user'[u].level = saver[s].level]_memberVars
  <2> SUFFICES ASSUME IInv, [Next]_vars, NEW u \in Users, user'[u].level < user[u].level
               PROVE  \E s \in Savers : /\ saver[s].pc = "write" /\ saver'[s].pc = "idle"
                                        /\ saver[s].user = u
                                        /\ user'[u].level = saver[s].level
    OBVIOUS
  <2> USE DEF IInv, MemberInv, MemberTypeOK
  <2>1. user[u].level \in Level /\ user[u].level \in Int
    BY LevelsAssumption DEF UserType, Level
  <2>2. user' # user
    BY <2>1
  <2>3. MemberNext
    BY <2>2 DEF Next, vars, memberVars, RechargeNext, CreateRecharge, Opened, Refused, Scheduled,
       ScheduleFails, CreationEnds, ExpireRecharge, Pay, NoticeNext, Receive, Decide, SaveMeta,
       ApplyNothing, Apply, NoticeLost, CardNext, Redeem, EditRead, EditSave, DeleteCard,
       BatchUpdateStatus, Adjust
  <2>4. ASSUME NEW h \in Hooks, Count(h) PROVE FALSE
    <3>1. /\ hook[h].user \in Users /\ hook[h].total \in {"recharged", "spent"}
          /\ user[hook[h].user] \in UserType
      BY DEF HookType
    <3>2. user'[u].level = user[u].level
      BY <2>4, <3>1 DEF Count, UserType
    <3>3. QED
      BY <2>1, <3>2
  <2>5. ASSUME NEW h \in Hooks, Upgrade(h) PROVE FALSE
    <3>1. /\ hook[h].user \in Users /\ user[hook[h].user] \in UserType
          /\ hook[h].target > hook[h].seen
          /\ hook[h].target \in Int /\ hook[h].seen \in Int
      BY <2>5, LevelsAssumption DEF HookType, Upgrade, UpgradesUp, Level
    <3>2. CASE user[hook[h].user].level = hook[h].seen
      BY <2>1, <2>5, <3>1, <3>2 DEF Upgrade, UserType
    <3>3. CASE user[hook[h].user].level # hook[h].seen
      BY <2>2, <2>5, <3>3 DEF Upgrade
    <3>4. QED
      BY <3>2, <3>3
  <2>6. ASSUME BackfillDefaultLevel PROVE FALSE
    <3>1. user'[u].level = IF user[u].level = 0 THEN DefaultLevel ELSE user[u].level
      BY <2>6 DEF BackfillDefaultLevel, UserType
    <3>2. DefaultLevel \in Int /\ DefaultLevel >= 0
      BY LevelsAssumption
    <3>3. QED
      BY <2>1, <3>1, <3>2
  <2>7. ASSUME NEW s \in Savers, SaveRow(s)
        PROVE  /\ saver[s].pc = "write" /\ saver'[s].pc = "idle"
               /\ saver[s].user = u /\ user'[u].level = saver[s].level
    <3>1. saver[s].row \in UserType
      BY DEF SaverType
    <3>2. saver[s].user = u
      BY <2>1, <2>7 DEF SaveRow
    <3>3. user'[u].level = saver[s].level
      BY <2>7, <3>1, <3>2 DEF SaveRow, UserType
    <3>4. QED
      BY <2>7, <3>2, <3>3 DEF SaveRow, NoSave
  <2>8. QED
    BY <2>2, <2>3, <2>4, <2>5, <2>6, <2>7
    DEF MemberNext, HookStep, ReadMember, HookLost, OrderPaid, SetUserLevel,
        AssignDefaultLevel, UpdateAccount, ReadRow
<1>2. QED
  BY <1>1, InvAlways, PTL DEF Spec, UpgradeOnly

\* The shop implements Credits: each recharge, card and correction is credited
\* once, to a user it is for, when its money is in, and no balance is negative.
THEOREM CreditsImplemented == Spec => ImplementsCredits
<1> DEFINE due == paid \cup Cards \cup Adjustments
           holders == [s \in Sources |-> IF s \in Cards THEN Users ELSE {Owner[s]}]
<1>1. Init => Credits!Init(Cards \cup Adjustments)
  BY DEF Init, Credits!Init
<1>2. IInv /\ [Next]_vars => [Credits!Next]_<<paid, ledger, balance>>
  <2> SUFFICES ASSUME IInv, Next, ~UNCHANGED <<paid, ledger, balance>> PROVE Credits!Next
    BY DEF vars, rechargeVars, walletVars
  <2> USE DEF IInv
  <2>1. ASSUME NEW s \in Sources, NEW u \in Users, Credit(s, u), s \in due, u \in holders[s],
               balance[u] + Amount[s] >= 0, UNCHANGED paid
        PROVE  Credits!Next
    <3>1. ledger[s] = NoUser
      BY <2>1 DEF Credit, walletVars
    <3>2. Credits!Post(s, u)
      BY <2>1, <3>1 DEF Credit, Credits!Post
    <3>3. QED
      BY <3>2 DEF Credits!Next
  <2>2. ASSUME NEW n \in Notices, Apply(n) PROVE Credits!Next
    <3> DEFINE r == notice[n].recharge
    <3>1. r \in Recharges /\ UNCHANGED paid
      BY <2>2 DEF Apply, NoticesTyped, NoticeType
    <3>2. Credit(r, Owner[r]) /\ notice[n].status = "success"
      BY <2>2, <3>1 DEF Apply, walletVars
    <3>3. r \in paid
      BY <3>2 DEF ReportsTrue
    <3>4. Owner[r] \in Users /\ Owner[r] \in holders[r] /\ r \in Sources
      BY <3>1, CreditsAssumption DEF Sources
    <3>5. QED
      BY <2>1, <3>1, <3>2, <3>3, <3>4, CreditCovered
  <2>3. ASSUME NEW g \in Cards, NEW u \in Users, Redeem(g, u) PROVE Credits!Next
    <3>1. Credit(g, u) /\ UNCHANGED paid
      BY <2>3 DEF Redeem, rechargeVars
    <3>2. g \in Sources /\ u \in holders[g] /\ balance[u] + Amount[g] >= 0
      BY CreditCovered DEF Sources
    <3>3. QED
      BY <2>1, <3>1, <3>2
  <2>4. ASSUME NEW a \in Adjustments, Adjust(a) PROVE Credits!Next
    <3>1. Owner[a] \in Users /\ Owner[a] \in holders[a] /\ a \in Sources
      BY CreditsAssumption DEF Sources
    <3>2. QED
      BY <2>1, <2>4, <3>1 DEF Adjust, rechargeVars
  <2>5. ASSUME NEW r \in Recharges, Pay(r) PROVE Credits!Next
    <3>1. r \in Sources /\ r \notin due
      BY <2>5, CreditsAssumption DEF Pay, Sources
    <3>2. Credits!Earn(r)
      BY <2>5, <3>1 DEF Pay, Credits!Earn, walletVars
    <3>3. QED
      BY <3>1, <3>2 DEF Credits!Next
  <2>6. QED
    BY <2>2, <2>3, <2>4, <2>5
    DEF Next, Others, RechargeNext, CreateRecharge, Opened, Refused, Scheduled, ScheduleFails,
        CreationEnds, ExpireRecharge, NoticeNext, Receive, Decide, SaveMeta, ApplyNothing,
        NoticeLost, CardNext, EditRead, EditSave, DeleteCard, BatchUpdateStatus, rechargeVars,
        walletVars
<1>3. QED
  BY <1>1, <1>2, InvAlways, PTL DEF Spec, ImplementsCredits
-----------------------------------------------------------------------------
(* The levels catch up.                                                    *)

\* The run of a hook that will look at u again, or whose write will do: it has
\* not read the user yet, its level has risen since, or no total has.
Looks(h, u) ==
    /\ hook[h].user = u
    /\ \/ hook[h].pc \in {"count", "read"}
       \/ hook[h].pc = "upgrade" /\ hook[h].seen < user[u].level
       \/ /\ hook[h].pc = "upgrade" /\ hook[h].seen = user[u].level
          /\ \A l \in Reached(user[u]) : l <= hook[h].target

CatchesUp(u) == u \in unsettled \/ Reached(user[u]) = {} \/ \E h \in Hooks : Looks(h, u)

WillCatchUp == \A u \in Users : CatchesUp(u)

\* While a request handles a report, the hook it may start has not begun.
SlotsApart == \A n \in Notices : notice[n].pc # "idle" => hook[n].pc = "idle"

LookInv == WillCatchUp /\ SlotsApart

\* A user whom a step leaves alone, with the hooks that run for it.
LEMMA LeftAlone ==
    ASSUME NEW u \in Users, CatchesUp(u), user'[u] = user[u], u \in unsettled => u \in unsettled',
           \A h \in Hooks : hook[h].pc # "idle" /\ hook[h].user = u => hook'[h] = hook[h]
    PROVE  CatchesUp(u)'
<1>1. CASE u \in unsettled \/ Reached(user[u]) = {}
  BY <1>1 DEF CatchesUp, Reached, MeetsThreshold
<1>2. ASSUME NEW h \in Hooks, Looks(h, u) PROVE CatchesUp(u)'
  <2>1. hook'[h] = hook[h]
    BY <1>2 DEF Looks
  <2>2. Looks(h, u)'
    BY <1>2, <2>1 DEF Looks, Reached, MeetsThreshold
  <2>3. QED
    BY <2>2 DEF CatchesUp
<1>3. QED
  BY <1>1, <1>2 DEF CatchesUp

\* A user whose level rises, past a hook that has read it.
LEMMA LevelRises ==
    ASSUME NEW row \in UserType, NEW up \in Level, up > row.level
    PROVE  /\ [row EXCEPT !.level = up].level = up
           /\ Reached([row EXCEPT !.level = up]) = {l \in Reached(row) : l > up}
<1>1. row.level \in Int /\ up \in Int /\ \A l \in Active : l \in Int
  BY LevelsAssumption DEF UserType, Level
<1>2. [row EXCEPT !.level = up].level = up
  BY DEF UserType
<1>3. \A l \in Active : MeetsThreshold([row EXCEPT !.level = up], l) <=> MeetsThreshold(row, l)
  BY DEF UserType, MeetsThreshold
<1>4. QED
  BY <1>1, <1>2, <1>3 DEF Reached

LEMMA HooksCatchUp ==
    ASSUME MemberInv, WillCatchUp, NEW h \in Hooks, HookStep(h) \/ HookLost(h)
    PROVE  WillCatchUp'
<1> SUFFICES ASSUME NEW u \in Users PROVE CatchesUp(u)'
  BY DEF WillCatchUp
<1> DEFINE k == hook[h]
<1> USE DEF MemberInv, MemberTypeOK, UpgradesUp
<1>1. k \in HookType /\ k.user \in Users /\ user[u] \in UserType
  BY DEF HookType
<1>2. CatchesUp(u)
  BY DEF WillCatchUp
<1>3. CASE k.user # u
  <2>1. /\ user'[u] = user[u] /\ (u \in unsettled => u \in unsettled')
        /\ \A g \in Hooks : g # h => hook'[g] = hook[g]
    BY <1>1, <1>3 DEF HookStep, Count, ReadMember, Upgrade, HookLost
  <2>2. QED
    BY <1>2, <1>3, <2>1, LeftAlone
<1>4. CASE k.user = u /\ Count(h)
  <2>1. Looks(h, u)'
    BY <1>1, <1>4 DEF Count, Looks, HookType
  <2>2. QED
    BY <2>1 DEF CatchesUp
<1>5. CASE k.user = u /\ ReadMember(h)
  <2>1. user' = user
    BY <1>5 DEF ReadMember
  <2>2. CASE Reached(user[u]) = {}
    BY <2>1, <2>2 DEF CatchesUp, Reached, MeetsThreshold
  <2>3. ASSUME NEW l \in Highest(Reached(user[u])),
               hook' = [hook EXCEPT ![h].pc = "upgrade", ![h].seen = user[u].level, ![h].target = l]
        PROVE  CatchesUp(u)'
    <3>1. /\ hook'[h].user = u /\ hook'[h].pc = "upgrade"
          /\ hook'[h].seen = user'[u].level /\ hook'[h].target = l
      BY <1>1, <1>5, <2>1, <2>3 DEF HookType
    <3>2. \A m \in Reached(user'[u]) : m <= l
      BY <2>1 DEF Highest, Reached, MeetsThreshold
    <3>3. Looks(h, u)'
      BY <3>1, <3>2 DEF Looks, Reached, MeetsThreshold
    <3>4. QED
      BY <3>3 DEF CatchesUp
  <2>4. QED
    BY <1>5, <2>2, <2>3 DEF ReadMember
<1>6. CASE k.user = u /\ Upgrade(h) /\ user[u].level = k.seen
  <2>1. /\ user'[u] = [user[u] EXCEPT !.level = k.target] /\ unsettled' = unsettled
        /\ \A g \in Hooks : g # h => hook'[g] = hook[g]
        /\ k.target \in Level /\ k.target > user[u].level
    BY <1>1, <1>6 DEF Upgrade, HookType
  <2>2. /\ user'[u].level = k.target
        /\ Reached(user'[u]) = {l \in Reached(user[u]) : l > k.target}
    BY <1>1, <2>1, LevelRises
  <2>3. user[u].level \in Int /\ k.target \in Int /\ \A l \in Reached(user[u]) : l \in Int
    BY <1>1, <2>1, LevelsAssumption DEF UserType, Level, Reached
  <2>4. CASE u \in unsettled
    BY <2>1, <2>4 DEF CatchesUp
  <2>5. CASE \A l \in Reached(user[u]) : l <= k.target
    <3>1. Reached(user'[u]) = {}
      BY <2>2, <2>3, <2>5
    <3>2. QED
      BY <3>1 DEF CatchesUp, Reached, MeetsThreshold
  <2>6. ASSUME NEW g \in Hooks, Looks(g, u), \E l \in Reached(user[u]) : ~(l <= k.target)
        PROVE  CatchesUp(u)'
    <3>1. hook[g].seen \in Int
      BY LevelsAssumption DEF HookType, Level
    <3>2. g # h
      <4>1. ~(k.seen < user[u].level)
        BY <1>6, <2>3
      <4>2. ~Looks(h, u)
        BY <1>6, <2>6, <4>1 DEF Looks, Upgrade
      <4>3. QED
        BY <2>6, <4>2
    <3>3. Looks(g, u)'
      BY <2>1, <2>2, <2>3, <2>6, <3>1, <3>2 DEF Looks
    <3>4. QED
      BY <3>3 DEF CatchesUp
  <2>7. QED
    BY <1>2, <2>4, <2>5, <2>6 DEF CatchesUp
<1>7. CASE k.user = u /\ Upgrade(h) /\ user[u].level # k.seen
  <2>1. CASE hook' = [hook EXCEPT ![h].pc = "read", ![h].attempt = @ + 1]
    <3>1. Looks(h, u)'
      BY <1>1, <1>7, <2>1 DEF Looks, HookType
    <3>2. QED
      BY <3>1 DEF CatchesUp
  <2>2. CASE unsettled' = unsettled \cup {k.user}
    BY <1>7, <2>2 DEF CatchesUp
  <2>3. QED
    BY <1>7, <2>1, <2>2 DEF Upgrade
<1>8. CASE k.user = u /\ HookLost(h)
  BY <1>8 DEF HookLost, CatchesUp
<1>9. QED
  BY <1>3, <1>4, <1>5, <1>6, <1>7, <1>8 DEF HookStep

LEMMA MemberLooks ==
    ASSUME MemberInv, WillCatchUp, [MemberNext]_memberVars
    PROVE  WillCatchUp'
<1> USE DEF MemberInv, MemberTypeOK
<1>1. ASSUME NEW h \in OrderHooks, NEW v \in Users, OrderPaid(h, v) PROVE WillCatchUp'
  <2>1. /\ user' = user /\ unsettled' = unsettled
        /\ \A g \in Hooks : hook[g].pc # "idle" => hook'[g] = hook[g]
    BY <1>1 DEF OrderPaid
  <2>2. QED
    BY <2>1, LeftAlone DEF WillCatchUp
<1>2. ASSUME NEW s \in Savers, SaveRow(s) PROVE WillCatchUp'
  <2> SUFFICES ASSUME NEW u \in Users PROVE CatchesUp(u)'
    BY DEF WillCatchUp
  <2>1. hook' = hook /\ unsettled \subseteq unsettled'
    BY <1>2 DEF SaveRow
  <2>2. CASE user'[u] = user[u]
    BY <2>1, <2>2, LeftAlone DEF WillCatchUp
  <2>3. CASE user'[u] # user[u]
    <3>1. u \in unsettled'
      BY <1>2, <2>3 DEF SaveRow
    <3>2. QED
      BY <3>1 DEF CatchesUp
  <2>4. QED
    BY <2>2, <2>3
<1>3. CASE BackfillDefaultLevel
  <2> SUFFICES ASSUME NEW u \in Users PROVE CatchesUp(u)'
    BY DEF WillCatchUp
  <2>1. hook' = hook /\ unsettled' = unsettled /\ CatchesUp(u) /\ user[u] \in UserType
    BY <1>3 DEF BackfillDefaultLevel, WillCatchUp
  <2>2. CASE user[u].level # 0
    <3>1. user'[u] = user[u]
      BY <1>3, <2>2 DEF BackfillDefaultLevel
    <3>2. QED
      BY <2>1, <3>1, LeftAlone
  <2>3. CASE user[u].level = 0
    <3>1. /\ user'[u] = [user[u] EXCEPT !.level = DefaultLevel]
          /\ DefaultLevel \in Level /\ DefaultLevel > user[u].level
      BY <1>3, <2>3, LevelsAssumption DEF BackfillDefaultLevel, Level
    <3>2. user'[u].level = DefaultLevel /\ Reached(user'[u]) \subseteq Reached(user[u])
      BY <2>1, <3>1, LevelRises
    <3>3. CASE u \in unsettled \/ Reached(user[u]) = {}
      BY <2>1, <3>2, <3>3 DEF CatchesUp, Reached, MeetsThreshold
    <3>4. ASSUME NEW h \in Hooks, Looks(h, u) PROVE CatchesUp(u)'
      <4>1. hook[h].seen \in Int /\ DefaultLevel \in Int
        BY LevelsAssumption DEF HookType, Level
      <4>2. Looks(h, u)'
        BY <2>1, <2>3, <3>1, <3>2, <3>4, <4>1 DEF Looks
      <4>3. QED
        BY <4>2 DEF CatchesUp
    <3>5. QED
      BY <2>1, <3>3, <3>4 DEF CatchesUp
  <2>4. QED
    BY <2>2, <2>3
<1>4. CASE \/ \E s \in Savers, u \in Users :
                 SetUserLevel(s, u) \/ AssignDefaultLevel(s, u) \/ UpdateAccount(s, u)
           \/ UNCHANGED memberVars
  <2>1. user' = user /\ hook' = hook /\ unsettled' = unsettled
    BY <1>4 DEF SetUserLevel, AssignDefaultLevel, UpdateAccount, ReadRow, memberVars
  <2>2. QED
    BY <2>1, LeftAlone DEF WillCatchUp
<1>5. QED
  BY <1>1, <1>2, <1>3, <1>4, HooksCatchUp DEF MemberNext

\* The hook of a report begins where none ran.
LEMMA ApplyLooks ==
    ASSUME IInv, LookInv, NEW n \in Notices, Apply(n)
    PROVE  WillCatchUp'
<1>1. hook[n].pc = "idle" /\ n \in Hooks
  BY CreditsAssumption DEF LookInv, SlotsApart, Apply
<1>2. /\ user' = user /\ unsettled' = unsettled
      /\ \A g \in Hooks : hook[g].pc # "idle" => hook'[g] = hook[g]
  <2>1. \/ hook' = hook
        \/ \E new : hook' = [hook EXCEPT ![n] = new]
    BY DEF Apply
  <2>2. QED
    BY <1>1, <2>1 DEF Apply, IInv, MemberInv, MemberTypeOK
<1>3. QED
  BY <1>2, LeftAlone DEF LookInv, WillCatchUp

LEMMA SlotStep == IInv /\ LookInv /\ [Next]_vars => SlotsApart'
<1> SUFFICES ASSUME IInv, LookInv, [Next]_vars, NEW n \in Notices, notice'[n].pc # "idle"
             PROVE  hook'[n].pc = "idle"
  BY DEF SlotsApart
<1> USE DEF IInv, MemberInv, MemberTypeOK, NoticesTyped
<1>1. n \in Hooks /\ n \notin OrderHooks /\ NoHook.pc = "idle" /\ NoNotice.pc = "idle"
  BY CreditsAssumption, NewTyped DEF NoNotice
<1>2. notice[n].pc # "idle" => hook[n].pc = "idle"
  BY DEF LookInv, SlotsApart
<1>3. CASE MemberNext /\ UNCHANGED Others
  <2>1. hook[n].pc = "idle"
    BY <1>2, <1>3 DEF Others
  <2>2. QED
    BY <1>1, <1>3, <2>1 DEF MemberNext, HookStep, Count, ReadMember, Upgrade, HookLost,
       OrderPaid, SetUserLevel, AssignDefaultLevel, UpdateAccount, ReadRow, SaveRow,
       BackfillDefaultLevel
<1>4. ASSUME NEW m \in Notices, NEW r \in Recharges, NEW status \in Reported,
             Receive(m, r, status)
      PROVE  hook'[n].pc = "idle"
  BY <1>2, <1>4 DEF Receive, memberVars
<1>5. ASSUME NEW m \in Notices,
             Decide(m) \/ SaveMeta(m) \/ ApplyNothing(m) \/ Apply(m) \/ NoticeLost(m)
      PROVE  hook'[n].pc = "idle"
  <2>1. notice[n].pc # "idle"
    BY <1>1, <1>5 DEF Decide, SaveMeta, ApplyNothing, Apply, NoticeLost
  <2>2. m = n => ~Apply(m)
    BY <1>1 DEF Apply
  <2>3. hook'[n] = hook[n]
    <3>1. ASSUME Apply(m) PROVE hook'[n] = hook[n]
      <4>1. \/ hook' = hook
            \/ \E new : hook' = [hook EXCEPT ![m] = new]
        BY <3>1 DEF Apply
      <4>2. QED
        BY <1>1, <2>2, <3>1, <4>1
    <3>2. QED
      BY <1>5, <3>1 DEF Decide, SaveMeta, ApplyNothing, NoticeLost, memberVars
  <2>4. QED
    BY <1>2, <2>1, <2>3
<1>6. CASE UNCHANGED <<notice, hook>>
  BY <1>2, <1>6
<1>7. QED
  BY <1>3, <1>4, <1>5, <1>6
  DEF Next, vars, memberVars, NoticeNext, RechargeNext, CreateRecharge, Opened, Refused,
      Scheduled, ScheduleFails, CreationEnds, ExpireRecharge, Pay, CardNext, Redeem, EditRead,
      EditSave, DeleteCard, BatchUpdateStatus, Adjust

LEMMA LookStep == IInv /\ LookInv /\ [Next]_vars => LookInv'
<1> SUFFICES ASSUME IInv, LookInv, [Next]_vars PROVE WillCatchUp'
  BY SlotStep DEF LookInv
<1>1. CASE [MemberNext]_memberVars
  BY <1>1, MemberLooks DEF IInv, LookInv
<1>2. CASE \E n \in Notices : Apply(n)
  BY <1>2, ApplyLooks
<1>3. QED
  BY <1>1, <1>2
  DEF Next, vars, NoticeNext, Receive, Decide, SaveMeta, ApplyNothing, NoticeLost,
      RechargeNext, CreateRecharge, Opened, Refused, Scheduled, ScheduleFails, CreationEnds,
      ExpireRecharge, Pay, CardNext, Redeem, EditRead, EditSave, DeleteCard, BatchUpdateStatus,
      Adjust

LEMMA LooksAlways == Spec => []LookInv
<1>1. Init => LookInv
  <2>1. ASSUME Init, NEW u \in Users PROVE Reached(user[u]) = {}
    <3>1. user[u] = NewUser
      BY <2>1 DEF Init, MemberInit
    <3>2. QED
      <4>1. user[u].recharged = 0 /\ user[u].spent = 0
        BY <3>1 DEF NewUser
      <4>2. \A l \in Active : RechargeThreshold[l] \in Nat /\ SpendThreshold[l] \in Nat
        BY LevelsAssumption
      <4>3. \A l \in Active : ~MeetsThreshold(user[u], l)
        BY <4>1, <4>2 DEF MeetsThreshold
      <4>4. QED
        BY <4>3 DEF Reached
  <2>2. QED
    BY <2>1 DEF Init, LookInv, WillCatchUp, CatchesUp, SlotsApart, NoNotice
<1>2. QED
  BY <1>1, LookStep, InvAlways, PTL DEF Spec

\* When no hook runs for a user, its level is the highest its totals reach,
\* unless a whole-row save that changed the row or a hook that ended early
\* came last: however many hooks of one user overlap, and whichever saves of
\* a row nobody has changed come between, the last look is not a stale one.
THEOREM LevelAlwaysCatchesUp == Spec => []LevelCaughtUp
<1>1. LookInv => LevelCaughtUp
  BY DEF LookInv, WillCatchUp, CatchesUp, Looks, LevelCaughtUp
<1>2. QED
  BY <1>1, LooksAlways, PTL
-----------------------------------------------------------------------------
(* A recharge counts once.                                                 *)

\* The gateway reports on no recharge before its answer to the creation.
NoEarlyReport == Unlinked = {}

\* What is credited to a user and not about to be added to its total.
Room(u) == SumFunctionOnSet(Credited(u), Recharges) - SumFunctionOnSet(Counting(u), Hooks)

\* The totals, and those in the rows that are to be saved back.
TotalsWithin ==
    /\ \A u \in Users : user[u].recharged <= Room(u)
    /\ \A u \in Users, s \in Savers :
          saver[s].pc = "write" /\ saver[s].user = u => saver[s].row.recharged <= Room(u)

\* A recharge is paid after it was opened, when nothing fails it any more
\* once it has succeeded.
PaidOpened == \A r \in paid : creator[r] \in {"opened", "done"}

CreditedStands == \A r \in Recharges : ledger[r] # NoUser => recharge[r] = "success"

CountInv == TotalsWithin /\ PaidOpened /\ CreditedStands

LEMMA CountingTyped ==
    ASSUME MemberTypeOK, NEW u \in Users
    PROVE  \A h \in Hooks : Counting(u)[h] \in Nat
BY DEF MemberTypeOK, HookType, Counting

LEMMA CreditedTyped == ASSUME NEW u \in Users PROVE \A r \in Recharges : Credited(u)[r] \in Nat
BY CreditsAssumption DEF Credited, Sources

LEMMA SumsTyped ==
    ASSUME MemberTypeOK, NEW u \in Users
    PROVE  /\ SumFunctionOnSet(Counting(u), Hooks) \in Int
           /\ SumFunctionOnSet(Credited(u), Recharges) \in Int
           /\ user[u].recharged \in Int
<1>1. \A h \in Hooks : Counting(u)[h] \in Int
  BY CountingTyped
<1>2. \A r \in Recharges : Credited(u)[r] \in Int
  BY CreditedTyped
<1>3. /\ SumFunctionOnSet(Counting(u), Hooks) \in Int
      /\ SumFunctionOnSet(Credited(u), Recharges) \in Int
  BY <1>1, <1>2, CreditsAssumption, SumInt
<1>4. QED
  BY <1>3 DEF MemberTypeOK, UserType

\* What the hooks are about to add, after a step of one of them.
LEMMA CountingMoves ==
    ASSUME MemberTypeOK, MemberTypeOK', NEW u \in Users, NEW h \in Hooks,
           \A g \in Hooks : g # h => hook'[g] = hook[g]
    PROVE  SumFunctionOnSet(Counting(u), Hooks)'
             = SumFunctionOnSet(Counting(u), Hooks) - Counting(u)[h] + Counting(u)'[h]
<1>1. \A g \in Hooks : Counting(u)[g] \in Int /\ Counting(u)'[g] \in Int
  <2>1. \A g \in Hooks : Counting(u)[g] \in Nat
    BY CountingTyped
  <2>2. (\A g \in Hooks : Counting(u)[g] \in Nat)'
    BY DEF MemberTypeOK, HookType, Counting
  <2>3. QED
    BY <2>1, <2>2
<1>2. \A g \in Hooks \ {h} : Counting(u)[g] = Counting(u)'[g]
  BY DEF Counting
<1>3. IsFiniteSet(Hooks)
  BY CreditsAssumption
<1>4. QED
  BY <1>1, <1>2, <1>3, SumChange

LEMMA RoomTyped == ASSUME MemberTypeOK, NEW u \in Users PROVE Room(u) \in Int
BY SumsTyped DEF Room

\* A hook's step leaves as much more room as it is about to add less.
LEMMA RoomMoves ==
    ASSUME MemberTypeOK, MemberTypeOK', UNCHANGED ledger, NEW u \in Users, NEW h \in Hooks,
           \A g \in Hooks : g # h => hook'[g] = hook[g]
    PROVE  Room(u)' = Room(u) + Counting(u)[h] - Counting(u)'[h]
<1> DEFINE s == SumFunctionOnSet(Counting(u), Hooks)
           c == SumFunctionOnSet(Credited(u), Recharges)
<1>1. s' = s - Counting(u)[h] + Counting(u)'[h]
  BY CountingMoves
<1>2. c' = c
  BY DEF Credited
<1>3. s \in Int /\ c \in Int
  BY SumsTyped
<1>4. Counting(u)[h] \in Int
  BY CountingTyped
<1>5. Counting(u)'[h] \in Int
  <2>1. (\A g \in Hooks : Counting(u)[g] \in Nat)'
    BY DEF MemberTypeOK, HookType, Counting
  <2>2. QED
    BY <2>1
<1>6. Room(u) = c - s /\ Room(u)' = c' - s'
  BY DEF Room
<1> HIDE DEF s, c
<1>7. QED
  BY <1>1, <1>2, <1>3, <1>4, <1>5, <1>6

LEMMA RoomStays ==
    ASSUME hook' = hook, \A r \in Recharges : ledger'[r] = ledger[r], NEW u \in Users
    PROVE  Room(u)' = Room(u)
<1>1. Counting(u)' = Counting(u) /\ Credited(u)' = Credited(u)
  BY DEF Counting, Credited
<1>2. QED
  BY <1>1 DEF Room

LEMMA MemberCounts ==
    ASSUME MemberInv, MemberInv', TotalsWithin, UNCHANGED ledger, [MemberNext]_memberVars
    PROVE  TotalsWithin'
<1> USE DEF MemberInv, MemberTypeOK
<1>1. /\ \A u \in Users : /\ user[u] \in UserType /\ user[u].recharged \in Int
                          /\ Room(u) \in Int
      /\ \A s \in Savers : /\ saver[s].user \in Users /\ saver[s].row \in UserType
                           /\ saver[s].row.recharged \in Int
  BY RoomTyped DEF UserType, SaverType
<1>2. ASSUME NEW h \in Hooks, Count(h) PROVE TotalsWithin'
  <2> DEFINE k == hook[h]
  <2>1. /\ k \in HookType /\ k.user \in Users /\ k.amount \in Nat /\ k.total \in {"recharged", "spent"}
        /\ k.pc = "count" /\ hook'[h].pc = "read"
        /\ \A g \in Hooks : g # h => hook'[g] = hook[g]
    BY <1>2 DEF Count, HookType
  <2>2. ASSUME NEW u \in Users
        PROVE  user'[u].recharged = user[u].recharged + Counting(u)[h]
    BY <1>1, <1>2, <2>1 DEF Count, Counting, UserType
  <2>3. \A u \in Users : Counting(u)'[h] = 0 /\ Counting(u)[h] \in Nat
    BY <2>1, CountingTyped DEF Counting
  <2>4. \A u \in Users : Room(u)' = Room(u) + Counting(u)[h] - Counting(u)'[h]
    BY <2>1, RoomMoves
  <2>5. \A u \in Users : /\ Room(u)' = Room(u) + Counting(u)[h]
                         /\ user'[u].recharged <= Room(u)' /\ Room(u) <= Room(u)'
    BY <1>1, <2>2, <2>3, <2>4 DEF TotalsWithin
  <2>6. \A u \in Users : Room(u)' \in Int
    BY <1>1, <2>3, <2>5
  <2>7. saver' = saver
    BY <1>2 DEF Count
  <2>8. \A u \in Users, s \in Savers :
           saver[s].pc = "write" /\ saver[s].user = u => saver[s].row.recharged <= Room(u)'
    BY <1>1, <2>5, <2>6 DEF TotalsWithin
  <2>9. QED
    BY <2>5, <2>7, <2>8 DEF TotalsWithin
<1>3. ASSUME NEW h \in Hooks,
             \/ ReadMember(h) \/ Upgrade(h) \/ HookLost(h)
             \/ h \in OrderHooks /\ \E v \in Users : OrderPaid(h, v)
      PROVE  TotalsWithin'
  <2>1. /\ \A g \in Hooks : g # h => hook'[g] = hook[g]
        /\ hook'[h].pc # "count" \/ hook'[h].total = "spent"
        /\ saver' = saver
    <3>1. hook[h] \in HookType
      OBVIOUS
    <3>2. QED
      BY <1>3, <3>1, NewTyped DEF ReadMember, Upgrade, HookLost, OrderPaid, Started, HookType
  <2>2. \A u \in Users : user'[u].recharged = user[u].recharged
    <3>1. hook[h].user \in Users
      BY DEF HookType
    <3>2. QED
      BY <1>1, <1>3, <3>1 DEF ReadMember, Upgrade, HookLost, OrderPaid, UserType
  <2>3. \A u \in Users : Counting(u)'[h] = 0 /\ Counting(u)[h] \in Nat
    BY <2>1, CountingTyped DEF Counting
  <2>4. \A u \in Users : Room(u)' = Room(u) + Counting(u)[h] - Counting(u)'[h]
    BY <2>1, RoomMoves
  <2>5. \A u \in Users : Room(u) <= Room(u)' /\ Room(u)' \in Int
    BY <1>1, <2>3, <2>4
  <2>6. \A u \in Users : user'[u].recharged <= Room(u)'
    BY <1>1, <2>2, <2>5 DEF TotalsWithin
  <2>7. \A u \in Users, s \in Savers :
           saver[s].pc = "write" /\ saver[s].user = u => saver[s].row.recharged <= Room(u)'
    BY <1>1, <2>5 DEF TotalsWithin
  <2>8. QED
    BY <2>1, <2>6, <2>7 DEF TotalsWithin
<1>4. ASSUME hook' = hook PROVE \A u \in Users : Room(u)' = Room(u)
  BY <1>4, RoomStays
<1>5. ASSUME NEW s \in Savers, SaveRow(s) PROVE TotalsWithin'
  <2>1. \A u \in Users : Room(u)' = Room(u)
    BY <1>4, <1>5 DEF SaveRow
  <2>2. \A u \in Users : \/ user'[u].recharged = user[u].recharged
                         \/ u = saver[s].user /\ user'[u].recharged = saver[s].row.recharged
    BY <1>1, <1>5 DEF SaveRow, UserType
  <2>3. \A u \in Users : user'[u].recharged <= Room(u)'
    BY <1>5, <2>1, <2>2 DEF TotalsWithin, SaveRow
  <2>4. \A x \in Savers : saver'[x].pc = "write" => saver'[x] = saver[x]
    BY <1>5 DEF SaveRow, NoSave
  <2>5. \A u \in Users, x \in Savers :
           saver'[x].pc = "write" /\ saver'[x].user = u => saver'[x].row.recharged <= Room(u)'
    BY <1>1, <2>1, <2>4 DEF TotalsWithin
  <2>6. QED
    BY <2>3, <2>5 DEF TotalsWithin
<1>6. ASSUME NEW s \in Savers, NEW u \in Users,
             SetUserLevel(s, u) \/ AssignDefaultLevel(s, u) \/ UpdateAccount(s, u)
      PROVE  TotalsWithin'
  <2>1. /\ hook' = hook /\ user' = user
        /\ saver'[s].user = u /\ saver'[s].row = user[u]
        /\ \A x \in Savers : x # s => saver'[x] = saver[x]
    BY <1>6 DEF SetUserLevel, AssignDefaultLevel, UpdateAccount, ReadRow
  <2>2. \A v \in Users : Room(v)' = Room(v)
    BY <1>4, <2>1
  <2>3. \A v \in Users, x \in Savers :
           saver'[x].pc = "write" /\ saver'[x].user = v => saver'[x].row.recharged <= Room(v)'
    BY <1>1, <2>1, <2>2 DEF TotalsWithin
  <2>4. QED
    BY <2>1, <2>2, <2>3 DEF TotalsWithin
<1>7. CASE BackfillDefaultLevel \/ UNCHANGED memberVars
  <2>1. /\ hook' = hook /\ saver' = saver
        /\ \A u \in Users : user'[u].recharged = user[u].recharged
    BY <1>1, <1>7 DEF BackfillDefaultLevel, memberVars, UserType
  <2>2. \A u \in Users : Room(u)' = Room(u)
    BY <1>4, <2>1
  <2>3. QED
    BY <1>1, <2>1, <2>2 DEF TotalsWithin
<1>8. QED
  BY <1>2, <1>3, <1>5, <1>6, <1>7, HooksAssumption DEF MemberNext, HookStep

\* A success credits the recharge as it starts the hook that counts it.
LEMMA ApplyCounts ==
    ASSUME IInv, IInv', LookInv, CountInv, NEW n \in Notices, Apply(n),
           notice[n].status = "success", recharge[notice[n].recharge] # "success"
    PROVE  TotalsWithin'
<1> USE DEF IInv, MemberInv
<1>0. user' = user /\ saver' = saver
  BY DEF Apply
<1> SUFFICES ASSUME NEW u \in Users PROVE Room(u)' = Room(u)
  BY <1>0 DEF CountInv, TotalsWithin
<1> DEFINE r == notice[n].recharge
           s == SumFunctionOnSet(Counting(u), Hooks)
           c == SumFunctionOnSet(Credited(u), Recharges)
<1>1. /\ r \in Recharges /\ r \in Sources /\ Owner[r] \in Users /\ Owner[r] # NoUser
      /\ n \in Hooks /\ hook[n].pc = "idle" /\ ledger[r] = NoUser /\ NoUser \notin Users
  <2>1. r \in Recharges
    BY DEF NoticesTyped, NoticeType
  <2>2. QED
    BY <2>1, CreditsAssumption DEF Sources, LookInv, SlotsApart, Apply, CountInv, CreditedStands
<1>2. /\ user' = user
      /\ hook' = [hook EXCEPT ![n] = Started(Owner[r], "recharged", Amount[r])]
      /\ ledger' = [ledger EXCEPT ![r] = Owner[r]]
  BY <1>1 DEF Apply, Credit
<1> DEFINE add == IF u = Owner[r] THEN Amount[r] ELSE 0
<1>3. s' = s + add
  <2>1. s' = s - Counting(u)[n] + Counting(u)'[n]
    BY <1>1, <1>2, CountingMoves
  <2>2. Counting(u)[n] = 0 /\ Counting(u)'[n] = add
    BY <1>1, <1>2 DEF Counting, Started, MemberTypeOK
  <2>3. s \in Int /\ add \in Int
    BY <1>1, SumsTyped, CreditsAssumption
  <2> HIDE DEF s, add
  <2>4. QED
    BY <2>1, <2>2, <2>3
<1>4. c' = c + add
  <2> DEFINE before == Credited(u)
             after == Credited(u)'
  <2>1. before[r] = 0 /\ after[r] = add
    BY <1>1, <1>2 DEF Credited, WalletInv, WalletTyped
  <2>2. \A x \in Recharges \ {r} : before[x] = after[x]
    BY <1>2 DEF Credited
  <2>3. \A x \in Recharges : before[x] \in Int /\ after[x] \in Int
    <3>1. \A x \in Recharges : before[x] \in Nat
      BY CreditedTyped
    <3>2. (\A x \in Recharges : Credited(u)[x] \in Nat)'
      BY CreditsAssumption DEF Credited, Sources
    <3>3. QED
      BY <3>1, <3>2
  <2>4. IsFiniteSet(Recharges)
    BY CreditsAssumption
  <2> HIDE DEF before, after
  <2>5. SumFunctionOnSet(after, Recharges)
          = SumFunctionOnSet(before, Recharges) - before[r] + after[r]
    BY <1>1, <2>2, <2>3, <2>4, SumChange
  <2>6. c' = SumFunctionOnSet(after, Recharges) /\ c = SumFunctionOnSet(before, Recharges)
    BY DEF before, after
  <2>7. c \in Int /\ add \in Int
    BY <1>1, SumsTyped, CreditsAssumption
  <2> HIDE DEF c, add
  <2>8. QED
    BY <2>1, <2>5, <2>6, <2>7
<1>5. s \in Int /\ c \in Int /\ add \in Int
  BY <1>1, SumsTyped, CreditsAssumption
<1>6. Room(u) = c - s /\ Room(u)' = c' - s'
  BY DEF Room
<1> HIDE DEF s, c, add
<1>7. QED
  BY <1>3, <1>4, <1>5, <1>6

LEMMA RowsStand ==
    ASSUME NoEarlyReport, IInv, IInv', CountInv, Next
    PROVE  PaidOpened' /\ CreditedStands'
<1> USE DEF IInv, CountInv, RowsTyped, PaidOpened, CreditedStands
<1>1. ASSUME NEW r \in Recharges, CreateRecharge(r) PROVE PaidOpened' /\ CreditedStands'
  <2>1. r \notin paid /\ ledger[r] = NoUser
    BY <1>1 DEF CreateRecharge, PostedWhenPaid
  <2>2. QED
    BY <1>1, <2>1 DEF CreateRecharge, walletVars
<1>2. ASSUME NEW r \in Recharges, Refused(r) PROVE PaidOpened' /\ CreditedStands'
  <2>1. r \notin paid /\ ledger[r] = NoUser
    BY <1>2 DEF Refused, PostedWhenPaid
  <2>2. QED
    BY <1>2, <2>1 DEF Refused, walletVars
<1>3. ASSUME NEW r \in Recharges,
             Opened(r) \/ Scheduled(r) \/ ScheduleFails(r) \/ CreationEnds(r)
                \/ ExpireRecharge(r) \/ Pay(r)
      PROVE  PaidOpened' /\ CreditedStands'
  <2>1. CASE Opened(r)
    BY <2>1 DEF Opened, walletVars
  <2>2. CASE Scheduled(r)
    BY <2>2 DEF Scheduled, walletVars
  <2>3. CASE ScheduleFails(r)
    BY <2>3 DEF ScheduleFails, walletVars
  <2>4. CASE CreationEnds(r)
    BY <2>4 DEF CreationEnds, walletVars
  <2>5. CASE ExpireRecharge(r)
    BY <2>5 DEF ExpireRecharge, CanExpire, walletVars
  <2>6. CASE Pay(r)
    BY <2>6 DEF Pay, Linked, NoEarlyReport, walletVars
  <2>7. QED
    BY <1>3, <2>1, <2>2, <2>3, <2>4, <2>5, <2>6
<1>4. ASSUME NEW n \in Notices, Apply(n) PROVE PaidOpened' /\ CreditedStands'
  <2> DEFINE r == notice[n].recharge
  <2>1. r \in Recharges /\ Recharges \subseteq Sources
    BY DEF NoticesTyped, NoticeType, Sources
  <2>2. CASE recharge[r] = "success" \/ notice[n].status # "success"
    BY <1>4, <2>1, <2>2 DEF Apply, walletVars
  <2>3. CASE recharge[r] # "success" /\ notice[n].status = "success"
    <3>1. /\ recharge' = [recharge EXCEPT ![r] = "success"]
          /\ ledger' = [ledger EXCEPT ![r] = Owner[r]]
          /\ UNCHANGED <<paid, creator>>
      BY <1>4, <2>1, <2>3 DEF Apply, Credit
    <3>2. QED
      BY <2>1, <3>1
  <2>4. QED
    BY <2>2, <2>3
<1>5. ASSUME UNCHANGED <<paid, creator, recharge>>,
             \A r \in Recharges : ledger'[r] = ledger[r]
      PROVE  PaidOpened' /\ CreditedStands'
  BY <1>5
<1>6. ASSUME NEW s \in Cards \cup Adjustments, NEW u \in Users, Credit(s, u)
      PROVE  \A r \in Recharges : ledger'[r] = ledger[r]
  BY <1>6, CreditsAssumption DEF Credit, walletVars, WalletInv, WalletTyped, Sources
<1>7. CASE CardNext \/ \E a \in Adjustments : Adjust(a)
  <2>1. /\ UNCHANGED <<paid, creator, recharge>>
        /\ \/ UNCHANGED walletVars
           \/ \E s \in Cards \cup Adjustments, u \in Users : Credit(s, u)
    BY <1>7, CreditsAssumption DEF CardNext, Redeem, EditRead, EditSave, DeleteCard,
       BatchUpdateStatus, Adjust, rechargeVars
  <2>2. QED
    BY <1>5, <1>6, <2>1 DEF walletVars
<1>8. CASE \/ MemberNext /\ UNCHANGED Others
           \/ \E n \in Notices :
                 \/ \E r \in Recharges, status \in Reported : Receive(n, r, status)
                 \/ Decide(n) \/ SaveMeta(n) \/ ApplyNothing(n) \/ NoticeLost(n)
  <2>1. UNCHANGED <<paid, creator, recharge, ledger>>
    BY <1>8 DEF Others, Receive, Decide, SaveMeta, ApplyNothing, NoticeLost, rechargeVars, walletVars
  <2>2. QED
    BY <1>5, <2>1
<1>9. QED
  BY <1>1, <1>2, <1>3, <1>4, <1>7, <1>8 DEF Next, RechargeNext, NoticeNext

LEMMA CountStep ==
    ASSUME NoEarlyReport, IInv, IInv', LookInv, CountInv, [Next]_vars
    PROVE  CountInv'
<1> USE DEF IInv, MemberInv
<1>1. ASSUME UNCHANGED <<memberVars, ledger>> PROVE TotalsWithin'
  BY <1>1, MemberCounts DEF CountInv
<1>2. ASSUME UNCHANGED memberVars, \A r \in Recharges : ledger'[r] = ledger[r]
      PROVE  TotalsWithin'
  <2>1. user' = user /\ hook' = hook /\ saver' = saver
    BY <1>2 DEF memberVars
  <2>2. \A u \in Users : Room(u)' = Room(u)
    BY <1>2, <2>1, RoomStays
  <2>3. QED
    BY <2>1, <2>2 DEF CountInv, TotalsWithin
<1>3. CASE UNCHANGED vars
  BY <1>1, <1>3
  DEF vars, rechargeVars, walletVars, CountInv, PaidOpened, CreditedStands
<1>4. CASE MemberNext /\ UNCHANGED Others
  BY <1>4, MemberCounts, RowsStand DEF CountInv, Next, Others, walletVars
<1>5. ASSUME NEW n \in Notices, Apply(n) PROVE TotalsWithin'
  <2>1. CASE recharge[notice[n].recharge] = "success" \/ notice[n].status # "success"
    BY <1>1, <1>5, <2>1 DEF Apply, walletVars, memberVars
  <2>2. QED
    BY <1>5, <2>1, ApplyCounts
<1>6. ASSUME NEW s \in Cards \cup Adjustments, NEW u \in Users, Credit(s, u), UNCHANGED memberVars
      PROVE  TotalsWithin'
  <2>1. \A r \in Recharges : ledger'[r] = ledger[r]
    BY <1>6, CreditsAssumption DEF Credit, walletVars, WalletInv, WalletTyped, Sources
  <2>2. QED
    BY <1>2, <1>6, <2>1
<1>7. ASSUME Next, UNCHANGED memberVars,
             \/ UNCHANGED walletVars
             \/ \E s \in Cards \cup Adjustments, u \in Users : Credit(s, u)
      PROVE  TotalsWithin'
  BY <1>1, <1>6, <1>7 DEF walletVars
<1>8. CASE Next
  <2>1. PaidOpened' /\ CreditedStands'
    BY <1>8, RowsStand
  <2>2. CASE RechargeNext
    BY <1>7, <1>8, <2>1, <2>2
    DEF CountInv, RechargeNext, CreateRecharge, Opened, Refused, Scheduled, ScheduleFails,
        CreationEnds, ExpireRecharge, Pay
  <2>3. CASE NoticeNext
    BY <1>5, <1>7, <1>8, <2>1, <2>3
    DEF CountInv, NoticeNext, Receive, Decide, SaveMeta, ApplyNothing, NoticeLost
  <2>4. CASE CardNext
    BY <1>7, <1>8, <2>1, <2>4
    DEF CountInv, CardNext, Redeem, EditRead, EditSave, DeleteCard, BatchUpdateStatus
  <2>5. CASE \E a \in Adjustments : Adjust(a)
    BY <1>7, <1>8, <2>1, <2>5, CreditsAssumption DEF CountInv, Adjust
  <2>6. QED
    BY <1>4, <1>8, <2>2, <2>3, <2>4, <2>5 DEF Next
<1>9. QED
  BY <1>3, <1>8

\* No recharge counts twice toward a level: a user's recharged total, with what
\* running hooks are about to add, is within what its recharges credited, for
\* any number of reports of a success.  It needs NoEarlyReport: a success that
\* overtakes the answer to the creation is rolled back and counted again.
THEOREM RechargesCountOnce == NoEarlyReport => (Spec => []CountedAtMostOnce)
<1> SUFFICES ASSUME NoEarlyReport PROVE Spec => []CountedAtMostOnce
  OBVIOUS
<1>1. Init => CountInv
  <2> SUFFICES ASSUME Init PROVE CountInv
    OBVIOUS
  <2>1. PaidOpened /\ CreditedStands
    BY DEF Init, PaidOpened, CreditedStands, Sources
  <2>2. ASSUME NEW u \in Users PROVE user[u].recharged <= Room(u)
    <3>1. user[u].recharged = 0 /\ \A h \in Hooks : Counting(u)[h] = 0
      BY NewTyped DEF Init, MemberInit, NewUser, Counting
    <3>2. \A r \in Recharges : Credited(u)[r] \in Nat
      BY CreditedTyped
    <3>3. IsFiniteSet(Hooks) /\ IsFiniteSet(Recharges)
      BY CreditsAssumption
    <3>4. SumFunctionOnSet(Counting(u), Hooks) = 0
      BY <3>1, <3>3, SumEmpty, SumOutside
    <3>5. SumFunctionOnSet(Credited(u), Recharges) \in Nat
      BY <3>2, <3>3, SumNat
    <3>6. QED
      BY <3>1, <3>4, <3>5 DEF Room
  <2>3. \A s \in Savers : saver[s].pc = "idle"
    BY DEF Init, MemberInit, NoSave
  <2>4. QED
    BY <2>1, <2>2, <2>3 DEF CountInv, TotalsWithin
<1>2. IInv /\ IInv' /\ LookInv /\ CountInv /\ [Next]_vars => CountInv'
  BY CountStep
<1>3. IInv /\ CountInv => CountedAtMostOnce
  <2> SUFFICES ASSUME IInv, CountInv, NEW u \in Users
               PROVE  user[u].recharged + SumFunctionOnSet(Counting(u), Hooks)
                        <= SumFunctionOnSet(Credited(u), Recharges)
    BY DEF CountedAtMostOnce
  <2>1. /\ SumFunctionOnSet(Counting(u), Hooks) \in Int
        /\ SumFunctionOnSet(Credited(u), Recharges) \in Int
        /\ user[u].recharged \in Int
    BY SumsTyped DEF IInv, MemberInv
  <2>2. user[u].recharged <= Room(u)
    BY DEF CountInv, TotalsWithin
  <2>3. QED
    BY <2>1, <2>2 DEF Room
<1>4. QED
  BY <1>1, <1>2, <1>3, InvAlways, LooksAlways, PTL DEF Spec
================================================================================
