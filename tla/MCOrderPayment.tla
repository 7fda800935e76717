--------------------------- MODULE MCOrderPayment ---------------------------
(***************************************************************************)
(* Small instances of OrderPayment.  The reseller absorbs a deficit on the *)
(* first channel, at every amount; the second channel costs nothing.       *)
(***************************************************************************)
EXTENDS OrderPayment

CONSTANTS c1, c2

MCFeeDeficit == [x \in Channels \X (1 .. Total) |-> IF x[1] = c1 THEN 1 ELSE 0]

\* Another order takes one unit of the buyer's wallet, or a recharge adds one,
\* and either may be undone.
MCMoves == {-1, 0, 1}

\* The wallet moves while a canceller holds an allocation it has read, or after
\* that made a difference: otherwise a smaller or larger wallet says as much.
MCFocus == outside = 0 \/ misread # 0 \/ \E k \in Cancellers : cancels[k] \notin {NotReading, 0}

\* Of the order's links the first may have a notice that saves the row it read.
MCSavesFirst == \A s \in saves : s.id = 1
==============================================================================
