----------------------------- MODULE MCAfterSale -----------------------------
(***************************************************************************)
(* A small instance of AfterSale: the sale r1 with the line l1 and the sale*)
(* r2 without lines, sold by a reseller or referred by an affiliate.       *)
(***************************************************************************)
EXTENDS AfterSale, FiniteSets

CONSTANTS r1, r2, l1

MCParentOf == [l \in {l1} |-> r1]
MCTotal == [o \in {r1, r2, l1} |-> IF o = r2 THEN 1 ELSE 3]
MCAmounts == [o \in {r1, r2, l1} |-> IF o = r1 THEN {1, 2} ELSE {MCTotal[o]}]
MCFee == [r \in {r1, r2} |-> IF r = r1 THEN 0 ELSE 1]

MCResold == [r \in {r1, r2} |-> [gross |-> IF r = r1 THEN 2 ELSE 1, commission |-> 0, guest |-> FALSE]]
MCReferred == [r \in {r1, r2} |-> [gross |-> 0, commission |-> IF r = r1 THEN 2 ELSE 1, guest |-> r = r2]]
MCTerms == {MCResold, MCReferred}

\* What is under way; what does nothing on the terms of the sales overlaps with
\* nothing.
MCBusy ==
    LET hooks == {r \in {r1, r2} : paidHook[r] = "started"}
        task == IF confirming.running THEN 1 ELSE 0
        resold == terms = MCResold
    IN  Cardinality({r \in {r1, r2} : ~Idle(r)})
          + Cardinality(hooks) * (IF resold THEN 2 ELSE 1)
          + task * (IF resold THEN 1 ELSE 2)
          + IF canceling # {} THEN 1 ELSE 0

\* Sales are paid and become due in the order r1, r2; two things at most are
\* under way at a time, one once money is withdrawn; a sale that is canceled or
\* refunded by line is not withdrawn from, but for commissions a cancellation
\* has read.
MCFocus ==
    /\ status[r1] = "pending_payment" => status[r2] = "pending_payment"
    /\ r2 \in due => r1 \in due
    /\ MCBusy <= 2
    /\ withdraws # <<>> => MCBusy <= 1
    /\ (refunded[l1] > 0 \/ (status[r1] = "canceled" /\ terms = MCResold))
           => payouts = <<>> /\ withdraws = <<>> /\ MCBusy = 0
==============================================================================
