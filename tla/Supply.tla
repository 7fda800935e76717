-------------------------------- MODULE Supply --------------------------------
(***************************************************************************)
(* What procurement promises about one order line, without rows, tasks,    *)
(* retries or reports: it is bought upstream at most once, and delivered   *)
(* to the buyer at most once, from the purchase that was made.             *)
(***************************************************************************)
CONSTANTS Slots, Unset

VARIABLES bought,   \* the upstream orders that were paid for the line
          received  \* the upstream order its fulfillment came from

supplyVars == <<bought, received>>

SupplyInit == bought = {} /\ received = Unset

Buy(s) ==
    /\ bought = {}
    /\ bought' = {s}
    /\ UNCHANGED received

Receive(s) ==
    /\ s \in bought
    /\ received = Unset
    /\ received' = s
    /\ UNCHANGED bought

SupplyNext == \E s \in Slots : Buy(s) \/ Receive(s)

SupplySpec == SupplyInit /\ [][SupplyNext]_supplyVars
==============================================================================
