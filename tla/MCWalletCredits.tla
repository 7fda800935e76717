---------------------------- MODULE MCWalletCredits ----------------------------
(***************************************************************************)
(* A small instance of WalletCredits: u1 recharges and pays an order, which*)
(* reach different levels; u1 and u2 redeem a card.                        *)
(***************************************************************************)
EXTENDS WalletCredits

CONSTANTS u1, u2, r1, g1, a1, n1, n2, o1, s1

MCOwner == [s \in {r1, a1} |-> u1]
MCAmount == [s \in {r1, g1, a1} |-> IF s = a1 THEN -1 ELSE 1]
MCRechargeThreshold == <<1, 0>>
MCSpendThreshold == <<0, 1>>

MCMaxSpent == [u \in {u1, u2} |-> IF u = u1 THEN 1 ELSE 0]

MCBusy == {n \in Notices : notice[n].pc # "idle" \/ hook[n].pc # "idle"}

\* Cards and corrections share nothing with recharges and levels but the
\* ledger, each under references of its own: a behaviour explores either.
\* Reports overlap with each other, the creation and the expiry of a recharge
\* before a user's row is saved whole, an order is paid or the default
\* level is filled in, not after.
MCFocus ==
    \/ /\ \A r \in Recharges : creator[r] = "idle"
       /\ \A h \in Hooks : hook[h] = NoHook
       /\ \A u \in Users : user[u] = NewUser
    \/ /\ \A g \in Cards : card[g] = NewCard /\ ledger[g] = NoUser
       /\ \A a \in Adjustments : ledger[a] = NoUser
       /\ editor = NoEdit
       /\ \/ Cardinality(MCBusy) <= 1 /\ timer = {} /\ \A r \in Recharges : creator[r] = "done"
          \/ /\ \A u \in Users : saves[u] = 0 /\ user[u].spent = 0
             /\ \A h \in OrderHooks : hook[h] = NoHook
             /\ \E u \in Users : user[u].level = 0
================================================================================
