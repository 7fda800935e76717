-------------------------- MODULE MCOrderFulfillment --------------------------
(***************************************************************************)
(* Small instances of OrderFulfillment: a mixed order and an order of one  *)
(* kind that competes with it for the last secret or the last unit.        *)
(***************************************************************************)
EXTENDS OrderFulfillment, TLC

CONSTANTS o1, o2, s1, s2

MCMixedLine == {<<o1, "auto">>, <<o1, "manual">>}
MCMixedRival == MCMixedLine \cup {<<o2, "auto">>}
MCManualRivals == MCMixedLine \cup {<<o2, "manual">>}
MCTwoAutoLines == {<<o1, "auto">>, <<o2, "auto">>}
MCUnevenQuantity == [c \in Lines |-> IF c[1] = o1 THEN 1 ELSE 2]
MCUnitQuantity == [c \in Lines |-> 1]
MCSymmetry == Permutations(Orders) \cup Permutations(Secrets)
==============================================================================
