---------------------------- MODULE WithdrawalRows ----------------------------
(***************************************************************************)
(* How a withdrawal picks the rows that pay for it: whole rows in a given  *)
(* order as long as they fit, and of the next row the part that is missing.*)
(* Both the resellers' ledger and the commissions are withdrawn this way.  *)
(*                                                                         *)
(* The order of the candidates is given as a function upTo: upTo[i] is row *)
(* i and the candidates before it.                                         *)
(***************************************************************************)
EXTENDS Integers, Sequences, Functions

\* Sum of the amounts of the rows at the indices S.
SumOf(table, S) == SumFunctionOnSet([i \in DOMAIN table |-> table[i].amount], S)

\* The rows taken whole.
Whole(table, upTo, a) == {i \in DOMAIN upTo : SumOf(table, upTo[i]) <= a}

Missing(table, upTo, a) == a - SumOf(table, Whole(table, upTo, a))

Covered(table, upTo, a) == SumOf(table, DOMAIN upTo) >= a

\* The row that is split, if one is: the first that does not fit.
Cut(table, upTo, a) ==
    {i \in DOMAIN upTo \ Whole(table, upTo, a) :
        /\ Missing(table, upTo, a) > 0
        /\ upTo[i] \ {i} \subseteq Whole(table, upTo, a)}

\* The rows after the withdrawal: those taken become as in bound, the one that is
\* split keeps the missing part, and what is left of it is a row of its own.
Taken(table, bound, upTo, a) ==
    [i \in DOMAIN table |->
        IF i \in Whole(table, upTo, a) THEN bound[i]
        ELSE IF i \in Cut(table, upTo, a)
          THEN [bound[i] EXCEPT !.amount = Missing(table, upTo, a)]
        ELSE table[i]]

\* Mutant: what is left is the whole row.
Bug_Remainder(table, upTo, a) ==
    LET cut == CHOOSE i \in Cut(table, upTo, a) : TRUE
    IN  IF Cut(table, upTo, a) = {} THEN <<>> ELSE <<table[cut]>>

Remainder(table, upTo, a) ==
    LET cut == CHOOSE i \in Cut(table, upTo, a) : TRUE
    IN  IF Cut(table, upTo, a) = {}
          THEN <<>>
          ELSE <<[table[cut] EXCEPT !.amount = @ - Missing(table, upTo, a)]>>

\* decimal.Round of x * a / t: half a cent rounds up.
Share(x, a, t) == (2 * x * a + t) \div (2 * t)
===============================================================================
