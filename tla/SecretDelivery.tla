---------------------------- MODULE SecretDelivery ----------------------------
(***************************************************************************)
(* What automatic fulfillment promises about card secrets, without orders'  *)
(* statuses, reservations, task retries or concurrent administrators: a     *)
(* line is delivered at most once, with exactly the quantity it was sold    *)
(* for, and a secret goes to at most one line and stays with it.            *)
(***************************************************************************)
EXTENDS FiniteSets

CONSTANTS Lines, Quantity, Secrets, Nobody

VARIABLES holder,    \* the line a secret was delivered to
          delivered  \* the lines that got their secrets

dvars == <<holder, delivered>>

DeliveryInit ==
    /\ holder = [s \in Secrets |-> Nobody]
    /\ delivered = {}

Deliver(c, S) ==
    /\ c \notin delivered
    /\ \A s \in S : holder[s] = Nobody
    /\ Cardinality(S) = Quantity[c]
    /\ holder' = [s \in Secrets |-> IF s \in S THEN c ELSE holder[s]]
    /\ delivered' = delivered \cup {c}

DeliveryNext == \E c \in Lines, S \in SUBSET Secrets : Deliver(c, S)

DeliverySpec == DeliveryInit /\ [][DeliveryNext]_dvars
==============================================================================
