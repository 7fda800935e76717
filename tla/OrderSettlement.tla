--------------------------- MODULE OrderSettlement ---------------------------
(***************************************************************************)
(* What the payment subsystem promises about one order, without links,     *)
(* wallets, callbacks or stale reads: the order is open until exactly one  *)
(* payment settles it or it is closed; it never reopens; and a fee hold on *)
(* the reseller's purchasing wallet outlives the open phase only when it   *)
(* belongs to the payment that settled the order.                          *)
(***************************************************************************)
CONSTANTS PaymentIds, NoPayment

VARIABLES phase,    \* "open", "settled" or "closed"
          payer,    \* the payment that settled the order
          holders   \* the payments whose fee hold is in force

svars == <<phase, payer, holders>>

SettlementTypeOK ==
    /\ phase \in {"open", "settled", "closed"}
    /\ payer \in PaymentIds \cup {NoPayment}
    /\ holders \subseteq PaymentIds

SettlementInit ==
    /\ phase = "open"
    /\ payer = NoPayment
    /\ holders = {}

\* A link is created for an open order and its fee deficit is put on hold.
PlaceHold(p) ==
    /\ phase = "open"
    /\ holders' = holders \cup {p}
    /\ UNCHANGED <<phase, payer>>

\* Holds are given back: a link failed, expired or was replaced.
DropHolds ==
    /\ holders' \in SUBSET holders
    /\ UNCHANGED <<phase, payer>>

\* One payment covers the open order.
Settle(p) ==
    /\ phase = "open"
    /\ phase' = "settled"
    /\ payer' = p
    /\ holders' \subseteq {p}
    /\ holders' \subseteq holders

\* The order is canceled: every hold is given back.
Close ==
    /\ phase' = "closed"
    /\ holders' = {}
    /\ UNCHANGED payer

SettlementNext ==
    \/ \E p \in PaymentIds : PlaceHold(p) \/ Settle(p)
    \/ DropHolds
    \/ Close

SettlementSpec == SettlementInit /\ [][SettlementNext]_svars
==============================================================================
