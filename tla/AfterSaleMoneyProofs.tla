-------------------------- MODULE AfterSaleMoneyProofs --------------------------
(***************************************************************************)
(* Theorems about the money in AfterSale: the entries and the commissions  *)
(* that a withdrawal takes are worth what was asked for, refunds take back *)
(* the profit and no more, withdrawals of the ledger implement Payouts,    *)
(* and every variable keeps its type.                                      *)
(*                                                                         *)
(* First the sums over rows, then what a withdrawal makes of any rows (the *)
(* candidates are a chain, so at most one row is split), then the ledger   *)
(* and the commissions, step by step.                                      *)
(***************************************************************************)
EXTENDS AfterSaleProofs

(* Amounts of rows, and their sums.                                        *)

AmountsOf(rows) == [i \in DOMAIN rows |-> rows[i].amount]

\* Rows with amounts, at the indices 1 .. Len.
Amounted(rows) ==
    /\ Len(rows) \in Nat
    /\ DOMAIN rows = 1 .. Len(rows)
    /\ \A i \in DOMAIN rows : rows[i].amount \in Int

LEMMA AmountFacts ==
    ASSUME NEW rows, Amounted(rows)
    PROVE  /\ IsFiniteSet(DOMAIN rows)
           /\ DOMAIN AmountsOf(rows) = DOMAIN rows
           /\ \A i \in DOMAIN rows : AmountsOf(rows)[i] = rows[i].amount /\ AmountsOf(rows)[i] \in Int
           /\ \A S \in SUBSET DOMAIN rows :
                  /\ IsFiniteSet(S)
                  /\ SumOf(rows, S) = SumFunctionOnSet(AmountsOf(rows), S)
                  /\ SumOf(rows, S) \in Int
<1>1. IsFiniteSet(DOMAIN rows)
  <2>1. Len(rows) \in Int /\ 1 \in Int /\ DOMAIN rows = 1 .. Len(rows)
    BY DEF Amounted
  <2>2. QED
    BY <2>1, FS_Interval
<1>2. /\ DOMAIN AmountsOf(rows) = DOMAIN rows
      /\ \A i \in DOMAIN rows : AmountsOf(rows)[i] = rows[i].amount /\ AmountsOf(rows)[i] \in Int
  BY DEF AmountsOf, Amounted
<1>3. ASSUME NEW S \in SUBSET DOMAIN rows
      PROVE  /\ IsFiniteSet(S)
             /\ SumOf(rows, S) = SumFunctionOnSet(AmountsOf(rows), S)
             /\ SumOf(rows, S) \in Int
  <2>1. IsFiniteSet(S)
    BY <1>1, FS_Subset
  <2>2. SumOf(rows, S) = SumFunctionOnSet(AmountsOf(rows), S)
    BY DEF SumOf, AmountsOf
  <2>3. \A i \in S : AmountsOf(rows)[i] \in Int
    BY <1>2
  <2>4. SumFunctionOnSet(AmountsOf(rows), S) \in Int
    BY <2>1, <2>3, SumInt
  <2>5. QED
    BY <2>1, <2>2, <2>4
<1>4. QED
  BY <1>1, <1>2, <1>3

LEMMA SumOfNone == \A rows : SumOf(rows, {}) = 0
BY SumEmpty DEF SumOf

LEMMA SumOfOne ==
    ASSUME NEW rows, Amounted(rows), NEW i \in DOMAIN rows
    PROVE  SumOf(rows, {i}) = rows[i].amount
<1>1. {i} \in SUBSET DOMAIN rows /\ IsFiniteSet({i})
  BY FS_Singleton
<1>2. SumFunctionOnSet(AmountsOf(rows), {i})
        = AmountsOf(rows)[i] + SumFunctionOnSet(AmountsOf(rows), {i} \ {i})
  BY <1>1, AmountFacts, SumRemove
<1>3. {i} \ {i} = {} /\ SumFunctionOnSet(AmountsOf(rows), {}) = 0
  BY SumEmpty
<1>4. AmountsOf(rows)[i] = rows[i].amount /\ rows[i].amount \in Int
  BY AmountFacts DEF Amounted
<1>5. SumOf(rows, {i}) = SumFunctionOnSet(AmountsOf(rows), {i})
  BY <1>1, AmountFacts
<1>6. QED
  BY <1>2, <1>3, <1>4, <1>5

LEMMA SumOfUnion ==
    ASSUME NEW rows, Amounted(rows), NEW S \in SUBSET DOMAIN rows, NEW T \in SUBSET DOMAIN rows,
           S \cap T = {}
    PROVE  SumOf(rows, S \cup T) = SumOf(rows, S) + SumOf(rows, T)
<1>1. IsFiniteSet(S) /\ IsFiniteSet(T) /\ S \cup T \in SUBSET DOMAIN rows
  BY AmountFacts
<1>2. \A i \in S \cup T : AmountsOf(rows)[i] \in Int
  BY AmountFacts
<1>3. SumFunctionOnSet(AmountsOf(rows), S \cup T)
        = SumFunctionOnSet(AmountsOf(rows), S) + SumFunctionOnSet(AmountsOf(rows), T)
  BY <1>1, <1>2, SumUnion
<1>4. QED
  BY <1>1, <1>3, AmountFacts

LEMMA SumOfAdd ==
    ASSUME NEW rows, Amounted(rows), NEW S \in SUBSET DOMAIN rows, NEW i \in DOMAIN rows \ S
    PROVE  SumOf(rows, S \cup {i}) = SumOf(rows, S) + rows[i].amount
<1>1. {i} \in SUBSET DOMAIN rows /\ S \cap {i} = {}
  OBVIOUS
<1>2. SumOf(rows, S \cup {i}) = SumOf(rows, S) + SumOf(rows, {i})
  BY <1>1, SumOfUnion
<1>3. QED
  BY <1>2, SumOfOne

\* The sum over rows that kept their amounts, wherever they are bound now.
LEMMA SumOfSame ==
    ASSUME NEW rows, Amounted(rows), NEW more, Amounted(more),
           NEW S \in SUBSET DOMAIN rows, S \subseteq DOMAIN more,
           \A i \in S : more[i].amount = rows[i].amount
    PROVE  SumOf(more, S) = SumOf(rows, S)
<1>1. IsFiniteSet(S) /\ SumOf(rows, S) = SumFunctionOnSet(AmountsOf(rows), S)
  BY AmountFacts
<1>2. S \in SUBSET DOMAIN more /\ SumOf(more, S) = SumFunctionOnSet(AmountsOf(more), S)
  BY AmountFacts
<1>3. \A i \in S : AmountsOf(rows)[i] = AmountsOf(more)[i]
  BY <1>2 DEF AmountsOf
<1>4. SumFunctionOnSet(AmountsOf(rows), S) = SumFunctionOnSet(AmountsOf(more), S)
  BY <1>1, <1>3, SumSame
<1>5. QED
  BY <1>1, <1>2, <1>4

\* Amounts that are not negative: fewer rows are worth no more, nor rows that
\* have lost some of their amount.
LEMMA SumOfLess ==
    ASSUME NEW rows, Amounted(rows), NEW S \in SUBSET DOMAIN rows, NEW T \in SUBSET S,
           \A i \in S : rows[i].amount \in Nat
    PROVE  0 <= SumOf(rows, T) /\ SumOf(rows, T) <= SumOf(rows, S)
<1>1. IsFiniteSet(S) /\ T \in SUBSET DOMAIN rows /\ \A i \in S : AmountsOf(rows)[i] \in Nat
  BY AmountFacts
<1>2. /\ SumFunctionOnSet(AmountsOf(rows), T) \in Nat
      /\ SumFunctionOnSet(AmountsOf(rows), T) <= SumFunctionOnSet(AmountsOf(rows), S)
  BY <1>1, SumNat
<1>3. QED
  BY <1>1, <1>2, AmountFacts

LEMMA SumOfLower ==
    ASSUME NEW rows, Amounted(rows), NEW more, Amounted(more),
           NEW S \in SUBSET DOMAIN rows, NEW T \in SUBSET S, T \subseteq DOMAIN more,
           \A i \in S : rows[i].amount \in Nat,
           \A i \in T : more[i].amount <= rows[i].amount
    PROVE  SumOf(more, T) <= SumOf(rows, S)
<1>1. T \in SUBSET DOMAIN rows /\ IsFiniteSet(T) /\ T \in SUBSET DOMAIN more
  BY AmountFacts
<1>2. \A i \in T : /\ AmountsOf(more)[i] \in Int /\ AmountsOf(rows)[i] \in Int
                   /\ AmountsOf(more)[i] <= AmountsOf(rows)[i]
  <2> SUFFICES ASSUME NEW i \in T
               PROVE  /\ AmountsOf(more)[i] \in Int /\ AmountsOf(rows)[i] \in Int
                      /\ AmountsOf(more)[i] <= AmountsOf(rows)[i]
    OBVIOUS
  <2>1. AmountsOf(more)[i] = more[i].amount /\ AmountsOf(more)[i] \in Int
    BY <1>1, AmountFacts
  <2>2. AmountsOf(rows)[i] = rows[i].amount /\ AmountsOf(rows)[i] \in Int
    BY <1>1, AmountFacts
  <2>3. QED
    BY <2>1, <2>2
<1>3. SumFunctionOnSet(AmountsOf(more), T) <= SumFunctionOnSet(AmountsOf(rows), T)
  BY <1>1, <1>2, SumBelow
<1>4. SumOf(more, T) <= SumOf(rows, T)
  BY <1>1, <1>3, AmountFacts
<1>5. SumOf(rows, T) <= SumOf(rows, S)
  BY SumOfLess
<1>6. SumOf(more, T) \in Int /\ SumOf(rows, T) \in Int /\ SumOf(rows, S) \in Int
  BY <1>1, AmountFacts
<1>7. QED
  BY <1>4, <1>5, <1>6

(* The candidates of a withdrawal.                                         *)

\* upTo orders the rows D, all of which are worth something.
Chain(rows, D, upTo) ==
    /\ D \subseteq DOMAIN rows
    /\ DOMAIN upTo = D
    /\ \A i \in D : rows[i].amount \in Nat \ {0} /\ i \in upTo[i] /\ upTo[i] \subseteq D
    /\ \A i, j \in D : j \in upTo[i] \/ i \in upTo[j]
    /\ \A i, j \in D : j \in upTo[i] /\ i \in upTo[j] => i = j
    /\ \A i, j \in D : j \in upTo[i] => upTo[j] \subseteq upTo[i]

\* Among any of them there is a last one and a first one.
LEMMA ChainEnds ==
    ASSUME NEW rows, Amounted(rows), NEW D, NEW upTo, Chain(rows, D, upTo),
           NEW S \in SUBSET D, S # {}
    PROVE  /\ \E t \in S : \A i \in S : i \in upTo[t]
           /\ \E b \in S : \A i \in S : b \in upTo[i]
<1> DEFINE G == {T \in SUBSET S : T = {} \/ /\ \E t \in T : \A i \in T : i \in upTo[t]
                                            /\ \E b \in T : \A i \in T : b \in upTo[i]}
<1>1. IsFiniteSet(S)
  BY AmountFacts DEF Chain
<1>2. ASSUME NEW T \in SUBSET S, T # {}, \A x \in T : T \ {x} \in G
      PROVE  T \in G
  <2>1. PICK x \in T : TRUE
    BY <1>2
  <2> DEFINE R == T \ {x}
  <2>2. x \in D /\ x \in upTo[x] /\ T \subseteq D
    BY DEF Chain
  <2>3. CASE R = {}
    <3>1. T = {x}
      BY <2>3
    <3>2. QED
      BY <2>2, <3>1
  <2>4. CASE R # {}
    <3>1. R \in G
      BY <1>2
    <3>2. PICK t \in R : \A i \in R : i \in upTo[t]
      BY <2>4, <3>1
    <3>3. PICK b \in R : \A i \in R : b \in upTo[i]
      BY <2>4, <3>1
    <3>4. t \in D /\ b \in D /\ t \in upTo[t] /\ b \in upTo[b] /\ t \in T /\ b \in T
      BY <2>2 DEF Chain
    <3>5. \E u \in T : \A i \in T : i \in upTo[u]
      <4>1. CASE x \in upTo[t]
        <5>1. \A i \in T : i \in upTo[t]
          BY <3>2, <4>1
        <5>2. QED
          BY <3>4, <5>1
      <4>2. CASE t \in upTo[x]
        <5>1. upTo[t] \subseteq upTo[x]
          BY <2>2, <3>4, <4>2 DEF Chain
        <5>2. \A i \in T : i \in upTo[x]
          BY <2>2, <3>2, <5>1
        <5>3. QED
          BY <2>1, <5>2
      <4>3. QED
        BY <2>2, <3>4, <4>1, <4>2 DEF Chain
    <3>6. \E u \in T : \A i \in T : u \in upTo[i]
      <4>1. CASE x \in upTo[b]
        <5>1. \A i \in R : upTo[b] \subseteq upTo[i]
          BY <2>2, <3>3, <3>4 DEF Chain
        <5>2. \A i \in T : x \in upTo[i]
          BY <2>2, <4>1, <5>1
        <5>3. QED
          BY <2>1, <5>2
      <4>2. CASE b \in upTo[x]
        <5>1. \A i \in T : b \in upTo[i]
          BY <3>3, <4>2
        <5>2. QED
          BY <3>4, <5>1
      <4>3. QED
        BY <2>2, <3>4, <4>1, <4>2 DEF Chain
    <3>7. QED
      BY <3>5, <3>6
  <2>5. QED
    BY <2>3, <2>4
<1>3. {} \in G
  OBVIOUS
<1> HIDE DEF G
<1>4. SUBSET S \subseteq G
  BY <1>1, <1>2, <1>3, SubsetsIn
<1>5. S \in G
  BY <1>4
<1>6. QED
  BY <1>5 DEF G

\* The rows taken whole fit, and the one that is split, if one is, is worth more
\* than what is missing.
LEMMA Fits ==
    ASSUME NEW rows, Amounted(rows), NEW D, NEW upTo, Chain(rows, D, upTo),
           NEW a \in Nat, Covered(rows, upTo, a)
    PROVE  /\ Whole(rows, upTo, a) \subseteq D
           /\ Missing(rows, upTo, a) \in Nat
           /\ SumOf(rows, Whole(rows, upTo, a)) + Missing(rows, upTo, a) = a
           /\ \/ Missing(rows, upTo, a) = 0 /\ Cut(rows, upTo, a) = {}
              \/ /\ Missing(rows, upTo, a) > 0
                 /\ \E c \in D \ Whole(rows, upTo, a) :
                        /\ Cut(rows, upTo, a) = {c}
                        /\ rows[c].amount > Missing(rows, upTo, a)
<1> DEFINE W == Whole(rows, upTo, a)
           m == Missing(rows, upTo, a)
           C == Cut(rows, upTo, a)
<1>1. D \subseteq DOMAIN rows /\ DOMAIN upTo = D
  BY DEF Chain
<1>2. W \subseteq D /\ \A i \in D : i \in W <=> SumOf(rows, upTo[i]) <= a
  BY <1>1 DEF Whole
<1>3. \A S \in SUBSET D : SumOf(rows, S) \in Int
  BY <1>1, AmountFacts
<1>4. \A S \in SUBSET D : \A i \in S : rows[i].amount \in Nat
  BY DEF Chain
<1>5. m = a - SumOf(rows, W)
  BY DEF Missing
<1>6. SumOf(rows, D) >= a
  BY <1>1 DEF Covered
<1>7. C = {i \in D \ W : m > 0 /\ upTo[i] \ {i} \subseteq W}
  BY <1>1 DEF Cut
<1> HIDE DEF W, m, C
<1>8. SumOf(rows, W) <= a
  <2>1. CASE W = {}
    BY <2>1, SumOfNone
  <2>2. CASE W # {}
    <3>1. PICK t \in W : \A i \in W : i \in upTo[t]
      BY <1>2, <2>2, ChainEnds
    <3>2. t \in D /\ upTo[t] \in SUBSET DOMAIN rows /\ upTo[t] \in SUBSET D /\ W \in SUBSET upTo[t]
      BY <1>1, <1>2, <3>1 DEF Chain
    <3>3. SumOf(rows, W) <= SumOf(rows, upTo[t])
      BY <1>4, <3>2, SumOfLess
    <3>4. SumOf(rows, upTo[t]) <= a
      BY <1>2, <3>2
    <3>5. QED
      BY <1>2, <1>3, <3>2, <3>3, <3>4
  <2>3. QED
    BY <2>1, <2>2
<1>9. m \in Nat /\ SumOf(rows, W) + m = a
  BY <1>2, <1>3, <1>5, <1>8
<1>10. ASSUME m > 0
       PROVE  \E c \in D \ W : C = {c} /\ rows[c].amount > m
  <2>1. D \ W # {}
    <3>1. SUFFICES ASSUME D \ W = {} PROVE FALSE
      OBVIOUS
    <3>2. W = D
      BY <1>2, <3>1
    <3>3. QED
      BY <1>2, <1>3, <1>6, <1>9, <1>10, <3>2
  <2>2. PICK c \in D \ W : \A i \in D \ W : c \in upTo[i]
    <3> DEFINE left == D \ W
    <3>1. left \in SUBSET D /\ left # {}
      BY <2>1
    <3> HIDE DEF left
    <3>2. \E b \in left : \A i \in left : b \in upTo[i]
      BY <3>1, ChainEnds
    <3>3. QED
      BY <3>2 DEF left
  <2>3. upTo[c] \ {c} \subseteq W
    BY <2>2 DEF Chain
  <2>4. \A i \in D \ W : upTo[i] \ {i} \subseteq W => i = c
    BY <2>2
  <2>5. C = {c}
    BY <1>7, <1>10, <2>3, <2>4
  <2>6. rows[c].amount > m
    <3> DEFINE R == upTo[c] \ {c}
    <3>1. /\ R \in SUBSET DOMAIN rows /\ c \in DOMAIN rows \ R /\ upTo[c] = R \cup {c}
          /\ R \in SUBSET W /\ W \in SUBSET DOMAIN rows /\ W \in SUBSET D
      BY <1>1, <1>2, <2>3 DEF Chain
    <3>2. SumOf(rows, upTo[c]) = SumOf(rows, R) + rows[c].amount
      BY <3>1, SumOfAdd
    <3>3. SumOf(rows, R) <= SumOf(rows, W)
      BY <1>4, <3>1, SumOfLess
    <3>4. ~(SumOf(rows, upTo[c]) <= a)
      BY <1>2
    <3>5. SumOf(rows, R) \in Int /\ SumOf(rows, W) \in Int /\ rows[c].amount \in Int
      BY <1>3, <3>1 DEF Amounted
    <3> HIDE DEF R
    <3>6. QED
      BY <1>9, <3>2, <3>3, <3>4, <3>5
  <2>7. QED
    BY <2>5, <2>6
<1>11. ASSUME m = 0
       PROVE  C = {}
  BY <1>7, <1>11
<1>12. m = 0 \/ m > 0
  BY <1>9
<1>13. QED
  BY <1>2, <1>9, <1>10, <1>11, <1>12 DEF W, m, C

(* What a withdrawal makes of the rows.                                    *)

\* It takes the rows W whole and, where C has one, m of the row in C; the rest
\* of that row is a row of its own.
Split(rows, bound, W, C, m, more) ==
    /\ W \subseteq DOMAIN rows /\ C \subseteq DOMAIN rows \ W
    /\ \A i \in DOMAIN rows :
           more[i] = IF i \in W THEN bound[i]
                     ELSE IF i \in C THEN [bound[i] EXCEPT !.amount = m]
                     ELSE rows[i]
    /\ \/ C = {} /\ m = 0 /\ Len(more) = Len(rows)
       \/ \E c \in DOMAIN rows :
              /\ C = {c} /\ m > 0 /\ rows[c].amount > m
              /\ Len(more) = Len(rows) + 1
              /\ more[Len(rows) + 1] = [rows[c] EXCEPT !.amount = @ - m]
    /\ Len(more) \in Nat /\ DOMAIN more = 1 .. Len(more)
    /\ more = [i \in 1 .. Len(more) |-> more[i]]
    /\ m \in Nat

\* It takes what was asked for, of the candidates D.
Withdraws(rows, bound, D, a, more) ==
    \E W, C, m : /\ Split(rows, bound, W, C, m, more)
                 /\ W \subseteq D /\ C \subseteq D
                 /\ SumOf(rows, W) + m = a

LEMMA SplitRows ==
    ASSUME NEW rows, Amounted(rows), NEW D, NEW upTo, Chain(rows, D, upTo), NEW bound,
           NEW a \in Nat, Covered(rows, upTo, a),
           NEW more, more = Taken(rows, bound, upTo, a) \o Remainder(rows, upTo, a)
    PROVE  Withdraws(rows, bound, D, a, more)
<1> DEFINE W == Whole(rows, upTo, a)
           C == Cut(rows, upTo, a)
           m == Missing(rows, upTo, a)
           taken == Taken(rows, bound, upTo, a)
           rest == Remainder(rows, upTo, a)
           B == {taken[i] : i \in DOMAIN rows}
<1>1. /\ W \subseteq D /\ m \in Nat /\ SumOf(rows, W) + m = a
      /\ \/ m = 0 /\ C = {}
         \/ m > 0 /\ \E c \in D \ W : C = {c} /\ rows[c].amount > m
  BY Fits
<1>2. D \subseteq DOMAIN rows /\ Len(rows) \in Nat /\ DOMAIN rows = 1 .. Len(rows)
  BY DEF Chain, Amounted
<1>3. /\ taken = [i \in DOMAIN rows |-> taken[i]]
      /\ \A i \in DOMAIN rows :
             taken[i] = IF i \in W THEN bound[i]
                        ELSE IF i \in C THEN [bound[i] EXCEPT !.amount = m]
                        ELSE rows[i]
  BY DEF Taken
<1>4. ASSUME NEW c, C = {c}
      PROVE  rest = <<[rows[c] EXCEPT !.amount = @ - m]>>
  <2>1. (CHOOSE i \in C : TRUE) = c /\ C # {}
    BY <1>4
  <2>2. QED
    BY <2>1 DEF Remainder
<1>5. C = {} => rest = <<>>
  BY DEF Remainder
<1> HIDE DEF W, C, m, taken, rest
<1>6. taken \in Seq(B) /\ Len(taken) = Len(rows)
  BY <1>2, <1>3
<1> HIDE DEF B
<1>7. ASSUME m = 0 /\ C = {}
      PROVE  Split(rows, bound, W, C, m, more) /\ C \subseteq D
  <2>1. more = taken
    BY <1>5, <1>6, <1>7 DEF taken, rest
  <2>2. Len(more) = Len(rows) /\ DOMAIN more = 1 .. Len(more)
        /\ more = [i \in 1 .. Len(more) |-> more[i]]
    BY <1>6, <2>1
  <2>3. Split(rows, bound, W, C, m, more)
    BY <1>1, <1>2, <1>3, <1>7, <2>1, <2>2 DEF Split
  <2>4. QED
    BY <1>7, <2>3
<1>8. ASSUME NEW c \in D \ W, C = {c}, rows[c].amount > m, m > 0
      PROVE  Split(rows, bound, W, C, m, more) /\ C \subseteq D
  <2> DEFINE e == [rows[c] EXCEPT !.amount = @ - m]
  <2>1. rest = <<e>>
    BY <1>4, <1>8
  <2>2. more = taken \o rest
    BY DEF taken, rest
  <2> HIDE DEF e
  <2>3. more = Append(taken, e)
    BY <1>6, <2>1, <2>2
  <2>4. more \in Seq(B \cup {e}) /\ Len(more) = Len(rows) + 1 /\ DOMAIN more = 1 .. Len(more)
        /\ more = [i \in 1 .. Len(more) |-> more[i]]
        /\ (\A i \in 1 .. Len(rows) : more[i] = taken[i]) /\ more[Len(rows) + 1] = e
    <3>1. taken \in Seq(B \cup {e}) /\ e \in B \cup {e}
      BY <1>6
    <3>2. more \in Seq(B \cup {e})
      BY <2>3, <3>1
    <3>3. more = [i \in 1 .. Len(more) |-> more[i]]
      BY ONLY <3>2
    <3>4. QED
      BY <1>2, <1>6, <2>3, <3>1, <3>2, <3>3
  <2>5. c \in DOMAIN rows /\ more[Len(rows) + 1] = [rows[c] EXCEPT !.amount = @ - m]
    BY <1>2, <1>8, <2>4 DEF e
  <2>6. \A i \in DOMAIN rows :
            more[i] = IF i \in W THEN bound[i]
                      ELSE IF i \in C THEN [bound[i] EXCEPT !.amount = m]
                      ELSE rows[i]
    BY <1>2, <1>3, <2>4
  <2>7. W \subseteq DOMAIN rows /\ C \subseteq DOMAIN rows \ W /\ Len(more) \in Nat /\ C \subseteq D
    <3>1. Len(more) \in Nat
      BY <1>2, <2>4
    <3>2. W \subseteq D /\ C \subseteq D \ W
      BY <1>1, <1>8
    <3>3. QED
      BY <1>2, <3>1, <3>2
  <2>8. QED
    BY <1>1, <1>8, <2>4, <2>5, <2>6, <2>7 DEF Split
<1>9. Split(rows, bound, W, C, m, more) /\ C \subseteq D
  BY <1>1, <1>7, <1>8
<1>10. QED
  BY <1>1, <1>9 DEF Withdraws

\* The amounts of the rows after it.
SplitAmounts(rows, more, C, m) ==
    /\ \A i \in DOMAIN rows \ C : more[i].amount = rows[i].amount
    /\ \/ C = {} /\ m = 0 /\ DOMAIN more = DOMAIN rows
       \/ \E c \in DOMAIN rows : \E n \in DOMAIN more \ DOMAIN rows :
              /\ C = {c} /\ DOMAIN more = DOMAIN rows \cup {n}
              /\ more[c].amount = m /\ more[n].amount = rows[c].amount - m

\* Rows that are told apart by what a split leaves alone are worth what they were.
LEMMA SplitKeepsSum ==
    ASSUME NEW rows, Amounted(rows), NEW more, Amounted(more), NEW C, NEW m \in Int,
           SplitAmounts(rows, more, C, m),
           NEW S \in SUBSET DOMAIN rows, NEW T \in SUBSET DOMAIN more, T \cap DOMAIN rows = S,
           \A n \in DOMAIN more \ DOMAIN rows : n \in T <=> C \subseteq S
    PROVE  SumOf(more, T) = SumOf(rows, S)
<1>1. CASE C = {} /\ DOMAIN more = DOMAIN rows
  <2>1. T = S /\ \A i \in S : more[i].amount = rows[i].amount
    BY <1>1 DEF SplitAmounts
  <2>2. QED
    BY <1>1, <2>1, SumOfSame
<1>2. ASSUME NEW c \in DOMAIN rows, NEW n \in DOMAIN more \ DOMAIN rows,
             C = {c}, DOMAIN more = DOMAIN rows \cup {n},
             more[c].amount = m, more[n].amount = rows[c].amount - m
      PROVE  SumOf(more, T) = SumOf(rows, S)
  <2>1. CASE c \notin S
    <3>1. T = S /\ \A i \in S : more[i].amount = rows[i].amount
      BY <1>2, <2>1 DEF SplitAmounts
    <3>2. QED
      BY <1>2, <3>1, SumOfSame
  <2>2. CASE c \in S
    <3> DEFINE R == S \ {c}
    <3>1. /\ S = R \cup {c} /\ T = (R \cup {c}) \cup {n}
          /\ R \in SUBSET DOMAIN rows /\ c \in DOMAIN rows \ R
          /\ R \in SUBSET DOMAIN more /\ c \in DOMAIN more \ R
          /\ R \cup {c} \in SUBSET DOMAIN more /\ n \in DOMAIN more \ (R \cup {c})
      BY <1>2, <2>2
    <3>2. \A i \in R : more[i].amount = rows[i].amount
      BY <1>2 DEF SplitAmounts
    <3> HIDE DEF R
    <3>3. SumOf(rows, S) = SumOf(rows, R) + rows[c].amount
      BY <3>1, SumOfAdd
    <3>4. SumOf(more, R \cup {c}) = SumOf(more, R) + more[c].amount
      BY <3>1, SumOfAdd
    <3>5. SumOf(more, T) = SumOf(more, R \cup {c}) + more[n].amount
      BY <3>1, SumOfAdd
    <3>6. SumOf(more, R) = SumOf(rows, R)
      BY <3>1, <3>2, SumOfSame
    <3>7. SumOf(rows, R) \in Int /\ rows[c].amount \in Int
      BY <3>1, AmountFacts DEF Amounted
    <3>8. QED
      BY <1>2, <3>3, <3>4, <3>5, <3>6, <3>7
  <2>3. QED
    BY <2>1, <2>2
<1>3. QED
  BY <1>1, <1>2 DEF SplitAmounts

\* The rows taken are worth what was asked for.
LEMMA SplitTakes ==
    ASSUME NEW rows, Amounted(rows), NEW more, Amounted(more), NEW C, NEW m \in Int,
           SplitAmounts(rows, more, C, m),
           NEW W \in SUBSET DOMAIN rows, W \cap C = {}
    PROVE  /\ W \cup C \subseteq DOMAIN more
           /\ SumOf(more, W \cup C) = SumOf(rows, W) + m
<1>1. /\ W \in SUBSET DOMAIN more
      /\ \A i \in W : more[i].amount = rows[i].amount
  BY DEF SplitAmounts
<1>2. SumOf(more, W) = SumOf(rows, W) /\ SumOf(rows, W) \in Int
  BY <1>1, SumOfSame, AmountFacts
<1>3. CASE C = {} /\ m = 0
  <2>1. W \cup C = W
    BY <1>3
  <2>2. QED
    BY <1>1, <1>2, <1>3, <2>1
<1>4. ASSUME NEW c \in DOMAIN rows, NEW n \in DOMAIN more \ DOMAIN rows,
             C = {c}, DOMAIN more = DOMAIN rows \cup {n}, more[c].amount = m
      PROVE  /\ W \cup C \subseteq DOMAIN more
             /\ SumOf(more, W \cup C) = SumOf(rows, W) + m
  <2>1. c \in DOMAIN more \ W /\ W \cup C = W \cup {c}
    BY <1>4
  <2>2. SumOf(more, W \cup {c}) = SumOf(more, W) + more[c].amount
    BY <1>1, <2>1, SumOfAdd
  <2>3. QED
    BY <1>1, <1>2, <1>4, <2>1, <2>2
<1>5. QED
  BY <1>3, <1>4 DEF SplitAmounts

\* What is left of the rows that could be taken.
LEMMA SplitLeaves ==
    ASSUME NEW rows, Amounted(rows), NEW more, Amounted(more), NEW C, NEW m \in Int,
           SplitAmounts(rows, more, C, m),
           NEW W \in SUBSET DOMAIN rows, W \cap C = {},
           NEW S \in SUBSET DOMAIN rows, W \cup C \subseteq S,
           NEW T, T = (S \ (W \cup C)) \cup (DOMAIN more \ DOMAIN rows)
    PROVE  T \subseteq DOMAIN more /\ SumOf(more, T) = SumOf(rows, S) - (SumOf(rows, W) + m)
<1> DEFINE U == S \cup (DOMAIN more \ DOMAIN rows)
           V == W \cup C
<1>1. DOMAIN rows \subseteq DOMAIN more
  BY DEF SplitAmounts
<1>2. U \in SUBSET DOMAIN more /\ U \cap DOMAIN rows = S
      /\ \A n \in DOMAIN more \ DOMAIN rows : n \in U <=> C \subseteq S
  BY <1>1
<1>3. SumOf(more, U) = SumOf(rows, S)
  BY <1>2, SplitKeepsSum
<1>4. V \in SUBSET DOMAIN more /\ SumOf(more, V) = SumOf(rows, W) + m
  <2>1. /\ W \cup C \subseteq DOMAIN more
        /\ SumOf(more, W \cup C) = SumOf(rows, W) + m
    BY ONLY Amounted(rows), Amounted(more), m \in Int, SplitAmounts(rows, more, C, m),
       W \in SUBSET DOMAIN rows, W \cap C = {}, SplitTakes
  <2>2. QED
    BY <2>1
<1>5. T \in SUBSET DOMAIN more /\ T \cap V = {} /\ T \cup V = U
  BY <1>1
<1> HIDE DEF U, V
<1>6. SumOf(more, U) = SumOf(more, T) + SumOf(more, V)
  BY <1>4, <1>5, SumOfUnion
<1>7. SumOf(more, T) \in Int /\ SumOf(more, V) \in Int
  BY <1>4, <1>5, AmountFacts
<1>8. QED
  BY <1>3, <1>4, <1>5, <1>6, <1>7

(* The money of the ledger.                                                *)

Counted == \A i \in DOMAIN ledger : ledger[i].amount \in Int

\* A sale that has paid and left a profit has it posted, and every entry is of
\* such a sale.
EntriesPosted ==
    /\ \A i \in DOMAIN ledger : posted[ledger[i].sale] # 0
    /\ \A r \in Sales : PaidAt(r) /\ terms[r].gross > 0 => posted[r] # 0
    /\ \A r \in Sales : posted[r] # 0 => terms[r].gross > 0

\* What has been refunded of a sale and what is being refunded fit its total.
RefundsFit ==
    /\ refunded \in [Orders -> Nat]
    /\ \A r \in Sales :
           /\ refunded[r] <= Total[r]
           /\ ~PaidAt(r) => refunded[r] = 0
           /\ ~Idle(r) => /\ refunding[r].amount \in Amounts[r]
                          /\ refunded[r] + refunding[r].amount <= Total[r]

RowsFor(rows, q) == {i \in DOMAIN rows : rows[i].request = q}

\* The entries bound to a request are worth what was asked for.
RequestsBacked ==
    \A q \in DOMAIN payouts :
        payouts[q].status # "rejected" => SumOf(ledger, RowsFor(ledger, q)) = payouts[q].amount

MoneyInv == IInv /\ Counted /\ EntriesPosted /\ RefundsFit /\ ProfitReversed /\ RequestsBacked

LEMMA LedgerAmounted ==
    ASSUME NEW rows, IsLedger(rows), \A i \in DOMAIN rows : rows[i].amount \in Int
    PROVE  Amounted(rows)
BY LedgerFacts DEF Amounted

\* The entries of a sale of one type.
Kind(rows, s, t) == {i \in DOMAIN rows : rows[i].sale = s /\ rows[i].type = t}

LEMMA KindSums ==
    \A r \in Sales : /\ ProfitRows(r) = Kind(ledger, r, "order_profit")
                     /\ Deducted(r) = -SumOf(ledger, Kind(ledger, r, "refund_deduct"))
                     /\ ProfitRows(r)' = Kind(ledger', r, "order_profit")
                     /\ Deducted(r)' = -SumOf(ledger', Kind(ledger', r, "refund_deduct"))
BY DEF ProfitRows, Deducted, Kind

\* A new entry adds to its kind.
LEMMA KindAppended ==
    ASSUME NEW rows, Amounted(rows), NEW more, Amounted(more), NEW n, n \notin DOMAIN rows,
           DOMAIN more = DOMAIN rows \cup {n}, \A i \in DOMAIN rows : more[i] = rows[i],
           NEW s, NEW t
    PROVE  SumOf(more, Kind(more, s, t))
             = SumOf(rows, Kind(rows, s, t))
                 + (IF more[n].sale = s /\ more[n].type = t THEN more[n].amount ELSE 0)
<1> DEFINE K == Kind(rows, s, t)
<1>1. K \in SUBSET DOMAIN rows /\ K \in SUBSET DOMAIN more /\ n \in DOMAIN more \ K
  BY DEF Kind
<1>2. SumOf(more, K) = SumOf(rows, K) /\ SumOf(rows, K) \in Int
  BY <1>1, SumOfSame, AmountFacts
<1>3. CASE more[n].sale = s /\ more[n].type = t
  <2>1. Kind(more, s, t) = K \cup {n}
    BY <1>3 DEF Kind
  <2>2. SumOf(more, K \cup {n}) = SumOf(more, K) + more[n].amount
    BY <1>1, SumOfAdd
  <2>3. QED
    BY <1>2, <1>3, <2>1, <2>2
<1>4. CASE ~(more[n].sale = s /\ more[n].type = t)
  <2>1. Kind(more, s, t) = K
    BY <1>4 DEF Kind
  <2>2. QED
    BY <1>2, <1>4, <2>1
<1>5. QED
  BY <1>3, <1>4

\* Rows that are split keep their sale and type.
KindsKept(rows, more, C) ==
    /\ \A i \in DOMAIN rows : more[i].sale = rows[i].sale /\ more[i].type = rows[i].type
    /\ \A n \in DOMAIN more \ DOMAIN rows : \A c \in C :
           more[n].sale = rows[c].sale /\ more[n].type = rows[c].type

LEMMA KindSplit ==
    ASSUME NEW rows, Amounted(rows), NEW more, Amounted(more), NEW C, NEW m \in Int,
           SplitAmounts(rows, more, C, m), KindsKept(rows, more, C), NEW s, NEW t
    PROVE  SumOf(more, Kind(more, s, t)) = SumOf(rows, Kind(rows, s, t))
<1> DEFINE S == Kind(rows, s, t)
           T == Kind(more, s, t)
<1>1. S \in SUBSET DOMAIN rows /\ T \in SUBSET DOMAIN more /\ DOMAIN rows \subseteq DOMAIN more
  BY DEF Kind, SplitAmounts
<1>2. T \cap DOMAIN rows = S
  BY <1>1 DEF Kind, KindsKept
<1>3. ASSUME NEW n \in DOMAIN more \ DOMAIN rows
      PROVE  n \in T <=> C \subseteq S
  <2>1. PICK c \in DOMAIN rows : C = {c}
    BY <1>3 DEF SplitAmounts
  <2>2. more[n].sale = rows[c].sale /\ more[n].type = rows[c].type
    BY <1>3, <2>1 DEF KindsKept
  <2>3. QED
    BY <1>3, <2>1, <2>2 DEF Kind
<1> HIDE DEF S, T
<1>4. SumOf(more, T) = SumOf(rows, S)
  BY <1>1, <1>2, <1>3, SplitKeepsSum
<1>5. QED
  BY <1>4 DEF S, T

\* The order in which entries are withdrawn: sales by the entry of their profit,
\* and the entries of a sale by id.
LEMMA OldestIsChain ==
    ASSUME IInv, Counted, EntriesPosted
    PROVE  Chain(ledger, Withdrawable, Oldest)
<1> DEFINE D == Withdrawable
           p(i) == posted[ledger[i].sale]
<1>1. D \subseteq DOMAIN ledger /\ \A i \in D : i \in Nat /\ ledger[i].amount \in Nat \ {0}
  BY LedgerFacts DEF Withdrawable, Counted, IInv, LedgerInv, LedgerTyped
<1>2. \A i \in D : p(i) \in Nat \ {0} /\ ledger[i].sale \in Sales /\ ledger[p(i)].sale = ledger[i].sale
  BY <1>1, EntrySale DEF EntriesPosted, IInv, LedgerInv, LedgerTyped, PostedIsProfit
<1>3. \A i, j \in D : p(i) = p(j) <=> ledger[i].sale = ledger[j].sale
  BY <1>2
<1>4. \A i, j \in D : Earlier(i, j) <=> p(i) < p(j) \/ (p(i) = p(j) /\ i < j)
  BY <1>3 DEF Earlier
<1>5. Oldest = [i \in D |-> {j \in D : j = i \/ Earlier(j, i)}]
  BY DEF Oldest
<1>6. \A i \in D : p(i) \in Nat /\ i \in Nat
  BY <1>1, <1>2
<1> HIDE DEF D, p
<1>7. \A i, j \in D : j \in Oldest[i] <=> j = i \/ p(j) < p(i) \/ (p(j) = p(i) /\ j < i)
  BY <1>4, <1>5
<1>8. \A i \in D : i \in Oldest[i] /\ Oldest[i] \subseteq D
  BY <1>5
<1>9. \A i, j \in D : j \in Oldest[i] \/ i \in Oldest[j]
  BY <1>6, <1>7
<1>10. \A i, j \in D : j \in Oldest[i] /\ i \in Oldest[j] => i = j
  BY <1>6, <1>7
<1>11. ASSUME NEW i \in D, NEW j \in D, j \in Oldest[i]
       PROVE  Oldest[j] \subseteq Oldest[i]
  <2> SUFFICES ASSUME NEW k \in Oldest[j]
               PROVE  k \in Oldest[i]
    OBVIOUS
  <2>1. k \in D
    BY <1>8
  <2>2. QED
    BY <1>6, <1>7, <1>11, <2>1
<1>12. DOMAIN Oldest = D
  BY <1>5
<1>13. QED
  BY <1>1, <1>8, <1>9, <1>10, <1>11, <1>12 DEF Chain, D

\* What an ApplyWithdraw does to the entries.
LEMMA LedgerSplit ==
    ASSUME IInv, Counted, EntriesPosted, NEW a \in Nat, ApplyWithdraw(a)
    PROVE  Withdraws(ledger, Bound(Len(payouts) + 1), Withdrawable, a, ledger')
<1>1. Amounted(ledger) /\ Chain(ledger, Withdrawable, Oldest)
  BY LedgerAmounted, OldestIsChain DEF Counted, IInv, LedgerInv, LedgerTyped
<1>2. Covered(ledger, Oldest, a)
      /\ ledger' = Taken(ledger, Bound(Len(payouts) + 1), Oldest, a) \o Remainder(ledger, Oldest, a)
  BY DEF ApplyWithdraw
<1>3. QED
  BY ONLY a \in Nat, <1>1, <1>2, SplitRows

LEMMA SplitEntry ==
    ASSUME NEW A, NEW e \in EntryOf(A), NEW q, NEW m
    PROVE  /\ LET l == Lock(q, e) IN
                  /\ l.sale = e.sale /\ l.type = e.type /\ l.amount = e.amount
                  /\ l.status = "locked" /\ l.request = q
           /\ LET l == [Lock(q, e) EXCEPT !.amount = m] IN
                  /\ l.sale = e.sale /\ l.type = e.type /\ l.amount = m
                  /\ l.status = "locked" /\ l.request = q
           /\ LET l == [e EXCEPT !.amount = @ - m] IN
                  /\ l.sale = e.sale /\ l.type = e.type /\ l.amount = e.amount - m
                  /\ l.status = e.status /\ l.request = e.request
BY DEF Lock, EntryOf

\* The rows and the sums after an ApplyWithdraw: every kind of entry is worth
\* what it was, the new request what was asked for, older ones are left alone, and
\* what may be asked for is less by what was asked for.
LEMMA WithdrawSums ==
    ASSUME IInv, Counted, EntriesPosted, NEW a \in Nat, ApplyWithdraw(a)
    PROVE  /\ Amounted(ledger) /\ Amounted(ledger')
           /\ \A s, t : SumOf(ledger', Kind(ledger', s, t)) = SumOf(ledger, Kind(ledger, s, t))
           /\ SumOf(ledger', RowsFor(ledger', Len(payouts) + 1)) = a
           /\ \A n \in DOMAIN payouts :
                  SumOf(ledger', RowsFor(ledger', n)) = SumOf(ledger, RowsFor(ledger, n))
           /\ Net(ledger') = Net(ledger) - a
           /\ \A i \in DOMAIN ledger' : \E j \in DOMAIN ledger : ledger'[i].sale = ledger[j].sale
<1> DEFINE q == Len(payouts) + 1
           rows == ledger
           more == ledger'
<1>1. IsLedger(rows) /\ Amounted(rows) /\ Len(rows) \in Nat /\ DOMAIN rows = 1 .. Len(rows)
  BY LedgerAmounted, LedgerFacts DEF Counted, IInv, LedgerInv, LedgerTyped
<1>2. PICK W, C, m : /\ Split(rows, Bound(q), W, C, m, more)
                     /\ W \subseteq Withdrawable /\ C \subseteq Withdrawable
                     /\ SumOf(rows, W) + m = a
  BY LedgerSplit DEF Withdraws
<1>3. \A i \in Withdrawable : /\ i \in DOMAIN rows /\ rows[i].status = "available"
                              /\ rows[i].request = 0
  BY DEF Withdrawable
<1>4. PICK A : \A i \in DOMAIN rows : rows[i] \in EntryOf(A)
  BY <1>1, LedgerFacts
<1>5. \A i \in DOMAIN rows : Bound(q)[i] = Lock(q, rows[i])
  BY DEF Bound
<1>6. /\ W \in SUBSET DOMAIN rows /\ C \in SUBSET DOMAIN rows /\ W \cap C = {} /\ m \in Int
      /\ Len(more) \in Nat /\ DOMAIN more = 1 .. Len(more)
  <2>1. /\ W \subseteq DOMAIN rows /\ C \subseteq DOMAIN rows \ W /\ m \in Nat
        /\ Len(more) \in Nat /\ DOMAIN more = 1 .. Len(more)
    BY <1>2 DEF Split
  <2>2. QED
    BY ONLY <2>1
<1>old. \A i \in DOMAIN rows :
           more[i] = IF i \in W THEN Bound(q)[i]
                     ELSE IF i \in C THEN [Bound(q)[i] EXCEPT !.amount = m]
                     ELSE rows[i]
  BY <1>2 DEF Split
<1>new. \/ C = {} /\ m = 0 /\ Len(more) = Len(rows)
        \/ \E c \in DOMAIN rows :
               /\ C = {c} /\ Len(more) = Len(rows) + 1
               /\ more[Len(rows) + 1] = [rows[c] EXCEPT !.amount = @ - m]
  BY <1>2 DEF Split
<1> HIDE DEF q, rows, more
<1>7. \A i \in W : /\ more[i].sale = rows[i].sale /\ more[i].type = rows[i].type
                   /\ more[i].amount = rows[i].amount
                   /\ more[i].status = "locked" /\ more[i].request = q
  <2> SUFFICES ASSUME NEW i \in W
               PROVE  /\ more[i].sale = rows[i].sale /\ more[i].type = rows[i].type
                      /\ more[i].amount = rows[i].amount
                      /\ more[i].status = "locked" /\ more[i].request = q
    OBVIOUS
  <2>1. i \in DOMAIN rows
    BY <1>6
  <2>2. rows[i] \in EntryOf(A) /\ more[i] = Lock(q, rows[i])
    BY <1>4, <1>5, <1>6, <1>old, <2>1
  <2>3. QED
    BY <2>2, SplitEntry
<1>8. \A i \in C : /\ more[i].sale = rows[i].sale /\ more[i].type = rows[i].type
                   /\ more[i].amount = m /\ more[i].status = "locked" /\ more[i].request = q
  <2> SUFFICES ASSUME NEW i \in C
               PROVE  /\ more[i].sale = rows[i].sale /\ more[i].type = rows[i].type
                      /\ more[i].amount = m /\ more[i].status = "locked" /\ more[i].request = q
    OBVIOUS
  <2>1. i \in DOMAIN rows /\ i \notin W
    BY <1>6
  <2>2. rows[i] \in EntryOf(A) /\ more[i] = [Lock(q, rows[i]) EXCEPT !.amount = m]
    BY <1>4, <1>5, <1>6, <1>old, <2>1
  <2>3. QED
    BY <2>2, SplitEntry
<1>9. \A i \in DOMAIN rows \ (W \cup C) : more[i] = rows[i]
  BY <1>old
<1>10. \/ C = {} /\ m = 0 /\ DOMAIN more = DOMAIN rows
       \/ \E c \in DOMAIN rows : \E n \in DOMAIN more \ DOMAIN rows :
              /\ C = {c} /\ DOMAIN more = DOMAIN rows \cup {n}
              /\ more[n].sale = rows[c].sale /\ more[n].type = rows[c].type
              /\ more[n].amount = rows[c].amount - m
              /\ more[n].status = rows[c].status /\ more[n].request = rows[c].request
  <2>1. CASE C = {} /\ m = 0 /\ Len(more) = Len(rows)
    BY <1>1, <1>6, <2>1
  <2>2. ASSUME NEW c \in DOMAIN rows, C = {c}, Len(more) = Len(rows) + 1,
               more[Len(rows) + 1] = [rows[c] EXCEPT !.amount = @ - m]
        PROVE  \E n \in DOMAIN more \ DOMAIN rows :
                  /\ C = {c} /\ DOMAIN more = DOMAIN rows \cup {n}
                  /\ more[n].sale = rows[c].sale /\ more[n].type = rows[c].type
                  /\ more[n].amount = rows[c].amount - m
                  /\ more[n].status = rows[c].status /\ more[n].request = rows[c].request
    <3> DEFINE n == Len(rows) + 1
    <3>1. n \in DOMAIN more \ DOMAIN rows /\ DOMAIN more = DOMAIN rows \cup {n}
      <4>1. Len(rows) \in Nat /\ DOMAIN rows = 1 .. Len(rows) /\ DOMAIN more = 1 .. Len(rows) + 1
        BY <1>1, <1>6, <2>2
      <4>2. QED
        BY ONLY <4>1
    <3>2. rows[c] \in EntryOf(A)
      BY <1>4
    <3>3. /\ more[n].sale = rows[c].sale /\ more[n].type = rows[c].type
          /\ more[n].amount = rows[c].amount - m
          /\ more[n].status = rows[c].status /\ more[n].request = rows[c].request
      BY <2>2, <3>2, SplitEntry
    <3> HIDE DEF n
    <3>4. QED
      BY <2>2, <3>1, <3>3
  <2>3. QED
    BY <1>new, <2>1, <2>2
<1>11. Amounted(more)
  <2>1. \A i \in DOMAIN rows : rows[i].amount \in Int
    BY <1>1 DEF Amounted
  <2>2. \A i \in DOMAIN rows : more[i].amount \in Int
    <3>1. m \in Int
      BY <1>6
    <3>2. QED
      BY <1>7, <1>8, <1>9, <2>1, <3>1
  <2>3. \A i \in DOMAIN more \ DOMAIN rows : more[i].amount \in Int
    <3>1. m \in Int
      BY <1>6
    <3>2. QED
      <4>1. ASSUME NEW i \in DOMAIN more \ DOMAIN rows
            PROVE  more[i].amount \in Int
        <5>1. PICK c \in DOMAIN rows : more[i].amount = rows[c].amount - m
          BY <1>10
        <5>2. rows[c].amount \in Int
          BY <2>1
        <5>3. QED
          BY <3>1, <5>1, <5>2
      <4>2. QED
        BY <4>1
  <2>4. QED
    BY <1>6, <2>2, <2>3 DEF Amounted
<1>12. SplitAmounts(rows, more, C, m)
  BY <1>7, <1>8, <1>9, <1>10 DEF SplitAmounts
<1>13. KindsKept(rows, more, C)
  BY <1>7, <1>8, <1>9, <1>10 DEF KindsKept
<1>14. /\ Amounted(rows) /\ Amounted(more) /\ m \in Int /\ SplitAmounts(rows, more, C, m)
       /\ W \in SUBSET DOMAIN rows /\ W \cap C = {}
  BY <1>1, <1>6, <1>11, <1>12
<1>15. \A s, t : SumOf(more, Kind(more, s, t)) = SumOf(rows, Kind(rows, s, t))
  BY ONLY <1>13, <1>14, KindSplit
<1>16. \A i \in DOMAIN rows : rows[i].request # q /\ (rows[i].request # 0 => i \notin W \cup C)
  <2>1. payouts \in Seq([amount: Nat, status: PayoutStatus])
    BY DEF IInv, LedgerInv, LedgerTyped
  <2>2. Len(payouts) \in Nat /\ DOMAIN payouts = 1 .. Len(payouts) /\ q # 0 /\ q \notin DOMAIN payouts
    BY <2>1 DEF q
  <2>3. QED
    BY <1>2, <1>3, <2>2 DEF rows, IInv, LedgerInv, RowsFollowRequests
<1>17. SumOf(more, RowsFor(more, q)) = a
  <2>1. SumOf(more, W \cup C) = SumOf(rows, W) + m
    BY ONLY <1>14, SplitTakes
  <2>2. q # 0
    <3>1. payouts \in Seq([amount: Nat, status: PayoutStatus])
      BY DEF IInv, LedgerInv, LedgerTyped
    <3>2. QED
      BY <3>1 DEF q
  <2>3. \A c \in C : rows[c].request = 0
    BY <1>2, <1>3
  <2>4. RowsFor(more, q) = W \cup C
    <3>1. DOMAIN rows \subseteq DOMAIN more
      BY <1>10
    <3>2. W \cup C \subseteq RowsFor(more, q)
      BY <1>6, <1>7, <1>8, <3>1 DEF RowsFor
    <3>3. ASSUME NEW i \in RowsFor(more, q), i \notin W \cup C
          PROVE  FALSE
      <4>1. i \in DOMAIN more /\ more[i].request = q
        BY <3>3 DEF RowsFor
      <4>2. CASE i \in DOMAIN rows
        BY <1>9, <1>16, <3>3, <4>1, <4>2
      <4>3. CASE i \notin DOMAIN rows
        BY <1>10, <2>2, <2>3, <4>1, <4>3
      <4>4. QED
        BY <4>2, <4>3
    <3>4. QED
      BY <3>2, <3>3
  <2>5. QED
    BY <1>2, <2>1, <2>4
<1>18. ASSUME NEW n \in DOMAIN payouts
       PROVE  SumOf(more, RowsFor(more, n)) = SumOf(rows, RowsFor(rows, n))
  <2>1. n # 0 /\ n # q
    <3>1. payouts \in Seq([amount: Nat, status: PayoutStatus])
      BY DEF IInv, LedgerInv, LedgerTyped
    <3>2. QED
      BY <1>18, <3>1 DEF q
  <2>2. \A c \in C : rows[c].request = 0
    BY <1>2, <1>3
  <2>3. DOMAIN rows \subseteq DOMAIN more
    BY <1>10
  <2>4. ASSUME NEW i \in DOMAIN more
        PROVE  i \in RowsFor(more, n) <=> i \in RowsFor(rows, n)
    <3>1. CASE i \in W \cup C
      BY <1>3, <1>2, <1>6, <1>7, <1>8, <2>1, <3>1 DEF RowsFor
    <3>2. CASE i \in DOMAIN rows \ (W \cup C)
      BY <1>9, <2>3, <3>2 DEF RowsFor
    <3>3. CASE i \notin DOMAIN rows
      BY <1>10, <2>1, <2>2, <2>4, <3>3 DEF RowsFor
    <3>4. QED
      BY <3>1, <3>2, <3>3
  <2>5. RowsFor(more, n) = RowsFor(rows, n)
    <3>1. RowsFor(more, n) \subseteq DOMAIN more /\ RowsFor(rows, n) \subseteq DOMAIN more
      BY <2>3 DEF RowsFor
    <3>2. QED
      BY <2>4, <3>1
  <2>6. \A i \in RowsFor(rows, n) : more[i].amount = rows[i].amount
    BY <1>9, <1>16, <2>1 DEF RowsFor
  <2>7. RowsFor(rows, n) \in SUBSET DOMAIN rows /\ RowsFor(rows, n) \subseteq DOMAIN more
    BY <2>3 DEF RowsFor
  <2>8. SumOf(more, RowsFor(rows, n)) = SumOf(rows, RowsFor(rows, n))
    BY <1>1, <1>11, <2>6, <2>7, SumOfSame
  <2>9. QED
    BY <2>5, <2>8
<1>19. Net(more) = Net(rows) - a
  <2> DEFINE S == In(rows, "available")
             T == In(more, "available")
  <2>1. S \in SUBSET DOMAIN rows /\ W \cup C \subseteq S
    BY <1>2, <1>3 DEF In
  <2>2. \A c \in C : rows[c].status = "available"
    BY <1>2, <1>3
  <2>3. DOMAIN rows \subseteq DOMAIN more
    BY <1>10
  <2>4. ASSUME NEW i \in DOMAIN more
        PROVE  i \in T <=> i \in (S \ (W \cup C)) \cup (DOMAIN more \ DOMAIN rows)
    <3>1. CASE i \in W \cup C
      BY <1>6, <1>7, <1>8, <3>1 DEF In
    <3>2. CASE i \in DOMAIN rows \ (W \cup C)
      BY <1>9, <2>3, <3>2 DEF In
    <3>3. CASE i \notin DOMAIN rows
      BY <1>10, <2>2, <2>4, <3>3 DEF In
    <3>4. QED
      BY <3>1, <3>2, <3>3
  <2>5. T = (S \ (W \cup C)) \cup (DOMAIN more \ DOMAIN rows)
    <3>1. T \subseteq DOMAIN more /\ S \subseteq DOMAIN more
      BY <2>1, <2>3 DEF In
    <3>2. QED
      BY <2>4, <3>1
  <2> HIDE DEF S, T
  <2>6. SumOf(more, T) = SumOf(rows, S) - (SumOf(rows, W) + m)
    BY ONLY <1>14, <2>1, <2>5, SplitLeaves
  <2>7. QED
    BY <1>2, <2>6 DEF Net, S, T
<1>20. \A i \in DOMAIN more : \E j \in DOMAIN rows : more[i].sale = rows[j].sale
  <2> SUFFICES ASSUME NEW i \in DOMAIN more
               PROVE  \E j \in DOMAIN rows : more[i].sale = rows[j].sale
    OBVIOUS
  <2>1. CASE i \in DOMAIN rows
    BY <1>7, <1>8, <1>9, <2>1
  <2>2. CASE i \notin DOMAIN rows
    BY <1>10, <2>2
  <2>3. QED
    BY <2>1, <2>2
<1>21. QED
  BY <1>1, <1>11, <1>15, <1>17, <1>18, <1>19, <1>20 DEF q, rows, more

LEMMA LedgerFactsNow ==
    ASSUME IInv, Counted
    PROVE  /\ IsLedger(ledger) /\ Amounted(ledger)
           /\ Len(ledger) \in Nat /\ DOMAIN ledger = 1 .. Len(ledger)
           /\ payouts \in Seq([amount: Nat, status: PayoutStatus])
           /\ Len(payouts) \in Nat /\ DOMAIN payouts = 1 .. Len(payouts)
<1>1. IsLedger(ledger) /\ payouts \in Seq([amount: Nat, status: PayoutStatus])
  BY DEF IInv, LedgerInv, LedgerTyped
<1>2. QED
  BY <1>1, LedgerAmounted, LedgerFacts DEF Counted

LEMMA SaleFacts ==
    ASSUME IInv, NEW r \in Sales
    PROVE  /\ terms[r].gross \in Nat /\ terms[r].commission \in Nat /\ terms[r].guest \in BOOLEAN
           /\ r \in Orders /\ Total[r] \in Nat \ {0} /\ Amounts[r] \in SUBSET (Nat \ {0})
           /\ Fee[r] \in Nat /\ refunding[r].amount \in Nat
<1>1. terms \in [Sales -> [gross: Nat, commission: Nat, guest: BOOLEAN]]
  BY AfterSaleAssumption DEF IInv, SaleInv, SalesTyped
<1>2. QED
  BY <1>1, AfterSaleAssumption, SaleIsRoot DEF IInv, SaleInv, SalesTyped

LEMMA EarnedInt ==
    ASSUME NEW gross \in Nat, NEW fee \in Nat
    PROVE  Earned(gross, fee) \in Nat
BY DEF Earned

LEMMA ShareNat ==
    ASSUME NEW x \in Nat, NEW a \in Nat, NEW t \in Nat \ {0}
    PROVE  Share(x, a, t) \in Nat
<1> DEFINE n == 2 * x * a + t
           d == 2 * t
<1>1. n \in Nat /\ d \in Nat /\ d > 0
  <2>1. x * a \in Nat /\ 2 * x * a \in Nat
    OBVIOUS
  <2>2. QED
    BY <2>1
<1> HIDE DEF n, d
<1>2. n \div d \in Nat
  BY <1>1
<1>3. QED
  BY <1>2 DEF Share, n, d

(* The sums after a step.                                                  *)

\* What the profit of a sale and its reversal come to.
Profit(rows, r) == SumOf(rows, Kind(rows, r, "order_profit"))
Back(rows, r) == -SumOf(rows, Kind(rows, r, "refund_deduct"))

LEMMA SumsInt ==
    ASSUME NEW rows, Amounted(rows)
    PROVE  /\ \A s, t : SumOf(rows, Kind(rows, s, t)) \in Int
           /\ \A q : SumOf(rows, RowsFor(rows, q)) \in Int
           /\ \A r : Profit(rows, r) \in Int /\ Back(rows, r) \in Int
<1>1. \A s, t : SumOf(rows, Kind(rows, s, t)) \in Int
  <2> SUFFICES ASSUME NEW s, NEW t
               PROVE  SumOf(rows, Kind(rows, s, t)) \in Int
    OBVIOUS
  <2>1. Kind(rows, s, t) \in SUBSET DOMAIN rows
    BY DEF Kind
  <2>2. QED
    BY <2>1, AmountFacts
<1>2. \A q : SumOf(rows, RowsFor(rows, q)) \in Int
  <2> SUFFICES ASSUME NEW q
               PROVE  SumOf(rows, RowsFor(rows, q)) \in Int
    OBVIOUS
  <2>1. RowsFor(rows, q) \in SUBSET DOMAIN rows
    BY DEF RowsFor
  <2>2. QED
    BY <2>1, AmountFacts
<1>3. QED
  BY <1>1, <1>2 DEF Profit, Back

LEMMA NowReversed ==
    ASSUME ProfitReversed
    PROVE  \A r \in Sales : posted[r] # 0 =>
               /\ Profit(ledger, r) = Earned(terms[r].gross, Fee[r])
               /\ Back(ledger, r) \in 0 .. terms[r].gross
               /\ refunded[r] = Total[r] => Back(ledger, r) = terms[r].gross
BY KindSums DEF ProfitReversed, Profit, Back

LEMMA NextReversed ==
    ASSUME \A r \in Sales : posted'[r] # 0 =>
               /\ Profit(ledger', r) = Earned(terms'[r].gross, Fee[r])
               /\ Back(ledger', r) \in 0 .. terms'[r].gross
               /\ refunded'[r] = Total[r] => Back(ledger', r) = terms'[r].gross
    PROVE  ProfitReversed'
BY KindSums DEF ProfitReversed, Profit, Back

\* A step that leaves the sums of every sale, its terms and its refunds alone.
LEMMA ReversedKept ==
    ASSUME ProfitReversed, UNCHANGED <<terms, posted>>,
           \A r \in Sales : refunded'[r] = refunded[r],
           \A s, t : SumOf(ledger', Kind(ledger', s, t)) = SumOf(ledger, Kind(ledger, s, t))
    PROVE  ProfitReversed'
<1>1. \A r \in Sales : Profit(ledger', r) = Profit(ledger, r) /\ Back(ledger', r) = Back(ledger, r)
  BY DEF Profit, Back
<1>2. QED
  BY <1>1, NowReversed, NextReversed

\* Entries that keep their sale, type and amount.
LEMMA AmountsStay ==
    ASSUME IInv, Counted, IInv', DOMAIN ledger' = DOMAIN ledger,
           \A i \in DOMAIN ledger : /\ ledger'[i].sale = ledger[i].sale
                                    /\ ledger'[i].type = ledger[i].type
                                    /\ ledger'[i].amount = ledger[i].amount
    PROVE  /\ Counted' /\ Amounted(ledger')
           /\ \A s, t : SumOf(ledger', Kind(ledger', s, t)) = SumOf(ledger, Kind(ledger, s, t))
           /\ \A S \in SUBSET DOMAIN ledger : SumOf(ledger', S) = SumOf(ledger, S)
<1>1. Counted' /\ IsLedger(ledger')
  BY DEF Counted, IInv, LedgerInv, LedgerTyped, IsLedger
<1>2. Amounted(ledger) /\ Amounted(ledger')
  BY <1>1, LedgerFactsNow, LedgerAmounted DEF Counted
<1>3. \A S \in SUBSET DOMAIN ledger : SumOf(ledger', S) = SumOf(ledger, S)
  <2> SUFFICES ASSUME NEW S \in SUBSET DOMAIN ledger
               PROVE  SumOf(ledger', S) = SumOf(ledger, S)
    OBVIOUS
  <2>1. S \subseteq DOMAIN ledger' /\ \A i \in S : ledger'[i].amount = ledger[i].amount
    OBVIOUS
  <2>2. QED
    BY ONLY <1>2, <2>1, S \in SUBSET DOMAIN ledger, SumOfSame
<1>4. \A s, t : Kind(ledger', s, t) = Kind(ledger, s, t) /\ Kind(ledger, s, t) \in SUBSET DOMAIN ledger
  BY DEF Kind
<1>5. QED
  BY <1>1, <1>2, <1>3, <1>4

\* The entries of a request that a step leaves alone.
LEMMA RequestStays ==
    ASSUME NEW rows, Amounted(rows), NEW more, Amounted(more), DOMAIN rows \subseteq DOMAIN more,
           NEW q,
           \A i \in DOMAIN rows : /\ more[i].request = q <=> rows[i].request = q
                                  /\ rows[i].request = q => more[i].amount = rows[i].amount,
           \A i \in DOMAIN more \ DOMAIN rows : more[i].request # q
    PROVE  SumOf(more, RowsFor(more, q)) = SumOf(rows, RowsFor(rows, q))
<1> DEFINE S == RowsFor(rows, q)
<1>1. RowsFor(more, q) = S
  BY DEF RowsFor
<1>2. S \in SUBSET DOMAIN rows /\ S \subseteq DOMAIN more /\ \A i \in S : more[i].amount = rows[i].amount
  BY DEF RowsFor
<1>3. SumOf(more, S) = SumOf(rows, S)
  BY <1>2, SumOfSame
<1>4. QED
  BY <1>1, <1>3

\* A new entry of the sale r.
LEMMA Appended ==
    ASSUME IInv, Counted, IInv', NEW e, ledger' = Append(ledger, e), e.amount \in Int, e.request = 0,
           payouts' = payouts
    PROVE  /\ Counted' /\ Amounted(ledger) /\ Amounted(ledger')
           /\ DOMAIN ledger' = DOMAIN ledger \cup {Len(ledger) + 1} /\ Len(ledger) + 1 \notin DOMAIN ledger
           /\ ledger'[Len(ledger) + 1] = e /\ \A i \in DOMAIN ledger : ledger'[i] = ledger[i]
           /\ \A s, t : SumOf(ledger', Kind(ledger', s, t))
                          = SumOf(ledger, Kind(ledger, s, t))
                              + (IF e.sale = s /\ e.type = t THEN e.amount ELSE 0)
           /\ RequestsBacked => RequestsBacked'
<1> DEFINE n == Len(ledger) + 1
<1>1. /\ IsLedger(ledger) /\ Amounted(ledger)
      /\ Len(ledger) \in Nat /\ DOMAIN ledger = 1 .. Len(ledger)
      /\ Len(payouts) \in Nat /\ DOMAIN payouts = 1 .. Len(payouts)
  BY LedgerFactsNow
<1>2. /\ DOMAIN ledger' = 1 .. n /\ ledger'[n] = e
      /\ \A i \in DOMAIN ledger : ledger'[i] = ledger[i]
  <2>1. PICK A : ledger \in Seq(EntryOf(A))
    BY <1>1, LedgerFacts
  <2> DEFINE B == EntryOf(A) \cup {e}
  <2>2. ledger \in Seq(B) /\ e \in B
    BY <2>1
  <2> HIDE DEF B
  <2>3. QED
    BY <1>1, <2>2
<1>3. DOMAIN ledger' = DOMAIN ledger \cup {n} /\ n \notin DOMAIN ledger
  BY <1>1, <1>2
<1> HIDE DEF n
<1>4. Counted'
  BY <1>2, <1>3 DEF Counted
<1>5. Amounted(ledger')
  <2>1. IsLedger(ledger')
    BY DEF IInv, LedgerInv, LedgerTyped, IsLedger
  <2>2. QED
    BY <1>4, <2>1, LedgerAmounted DEF Counted
<1>6. \A s, t : SumOf(ledger', Kind(ledger', s, t))
                  = SumOf(ledger, Kind(ledger, s, t))
                      + (IF e.sale = s /\ e.type = t THEN e.amount ELSE 0)
  <2> SUFFICES ASSUME NEW s, NEW t
               PROVE  SumOf(ledger', Kind(ledger', s, t))
                        = SumOf(ledger, Kind(ledger, s, t))
                            + (IF e.sale = s /\ e.type = t THEN e.amount ELSE 0)
    OBVIOUS
  <2>1. /\ Amounted(ledger) /\ Amounted(ledger') /\ n \notin DOMAIN ledger
        /\ DOMAIN ledger' = DOMAIN ledger \cup {n} /\ \A i \in DOMAIN ledger : ledger'[i] = ledger[i]
    BY <1>1, <1>2, <1>3, <1>5
  <2>2. SumOf(ledger', Kind(ledger', s, t))
          = SumOf(ledger, Kind(ledger, s, t))
              + (IF ledger'[n].sale = s /\ ledger'[n].type = t THEN ledger'[n].amount ELSE 0)
    BY ONLY <2>1, KindAppended
  <2>3. QED
    BY <1>2, <2>2
<1>7. ASSUME RequestsBacked
      PROVE  RequestsBacked'
  <2> SUFFICES ASSUME NEW q \in DOMAIN payouts, payouts[q].status # "rejected"
               PROVE  SumOf(ledger', RowsFor(ledger', q)) = payouts[q].amount
    BY DEF RequestsBacked
  <2>1. q # 0
    BY <1>1
  <2>2. \A i \in DOMAIN ledger' \ DOMAIN ledger : ledger'[i].request # q
    BY <1>2, <1>3, <2>1
  <2>3. DOMAIN ledger \subseteq DOMAIN ledger'
        /\ \A i \in DOMAIN ledger : /\ ledger'[i].amount = ledger[i].amount
                                    /\ ledger'[i].request = q <=> ledger[i].request = q
    BY <1>2, <1>3
  <2>4. SumOf(ledger', RowsFor(ledger', q)) = SumOf(ledger, RowsFor(ledger, q))
    BY ONLY <1>1, <1>5, <2>2, <2>3, RequestStays
  <2>5. QED
    BY <1>7, <2>4 DEF RequestsBacked
<1>8. QED
  BY <1>1, <1>2, <1>3, <1>4, <1>5, <1>6, <1>7 DEF n

\* A step that leaves the ledger alone.
LEMMA MoneyKept ==
    ASSUME MoneyInv, IInv', UNCHANGED <<ledger, posted, payouts, terms>>,
           RefundsFit', \A r \in Sales : refunded'[r] = refunded[r],
           \A r \in Sales : PaidAt(r)' => PaidAt(r)
    PROVE  MoneyInv'
<1>1. Counted' /\ RequestsBacked'
  BY DEF MoneyInv, Counted, RequestsBacked
<1>2. ProfitReversed'
  BY ReversedKept DEF MoneyInv
<1>3. EntriesPosted'
  BY DEF MoneyInv, EntriesPosted
<1>4. QED
  BY <1>1, <1>2, <1>3 DEF MoneyInv

\* Refunds that stay as they are.
LEMMA RefundsStay ==
    ASSUME MoneyInv, UNCHANGED refunded,
           \A r \in Sales : PaidAt(r) => PaidAt(r)',
           \A r \in Sales : ~Idle(r)' => ~Idle(r) /\ refunding'[r] = refunding[r]
    PROVE  RefundsFit'
BY DEF MoneyInv, RefundsFit

LEMMA MoneyInit ==
    ASSUME Init
    PROVE  MoneyInv
<1>1. IInv /\ ledger = <<>> /\ payouts = <<>> /\ posted = [r \in Sales |-> 0]
  BY InitInv DEF Init, LedgerInit
<1>2. Counted /\ RequestsBacked /\ ProfitReversed
  BY <1>1 DEF Counted, RequestsBacked, ProfitReversed
<1>3. \A r \in Sales : ~PaidAt(r)
  BY PaidAtSale, AfterSaleAssumption DEF Init, CommissionsInit
<1>4. EntriesPosted
  BY <1>1, <1>3 DEF EntriesPosted
<1>5. RefundsFit
  <2>1. refunded \in [Orders -> Nat] /\ \A r \in Sales : refunded[r] = 0 /\ Idle(r)
    BY SaleIsRoot DEF Init, Idle
  <2>2. QED
    BY <1>1, <2>1, SaleFacts DEF RefundsFit
<1>6. QED
  BY <1>1, <1>2, <1>4, <1>5 DEF MoneyInv

\* The payment posts the profit of a sale that has no entry yet.
LEMMA PayKeepsMoney ==
    ASSUME MoneyInv, IInv', NEW r \in Sales, Pay(r)
    PROVE  MoneyInv'
<1>1. paidHook[r] = "none" /\ ~PaidAt(r) /\ PaidAt(r)'
  BY PaidAtSale DEF Pay, MoneyInv, IInv, SaleInv, SalesTyped, PaidLeft
<1>2. \A s \in Sales \ {r} : PaidAt(s)' = PaidAt(s)
  BY PaidAtSale DEF Pay, MoneyInv, IInv, SaleInv, SalesTyped
<1>3. \A i \in DOMAIN ledger : ledger[i].sale # r /\ ledger[i].sale \in Sales
  BY <1>1, EntrySale DEF MoneyInv, IInv, SaleInv, EntriesOfPaid
<1>4. posted[r] = 0 /\ posted \in [Sales -> Nat]
  BY <1>3 DEF MoneyInv, IInv, LedgerInv, PostedIsProfit, LedgerTyped
<1>5. refunded[r] = 0
  BY <1>1 DEF MoneyInv, RefundsFit
<1>6. RefundsFit'
  <2>1. UNCHANGED <<refunded, refunding, terms>>
    BY DEF Pay
  <2>2. QED
    BY <1>1, <1>2, <2>1, RefundsStay DEF Idle
<1>7. CASE terms[r].gross <= 0
  <2>1. UNCHANGED <<ledger, posted, payouts, terms>>
    BY <1>7 DEF Pay, PostOrderProfit
  <2>2. Counted' /\ RequestsBacked'
    BY <2>1 DEF MoneyInv, Counted, RequestsBacked
  <2>3. ProfitReversed'
    BY <2>1, ReversedKept DEF MoneyInv, Pay
  <2>4. EntriesPosted'
    BY <1>2, <1>7, <2>1, SaleFacts DEF MoneyInv, EntriesPosted
  <2>5. QED
    BY <1>6, <2>2, <2>3, <2>4 DEF MoneyInv
<1>8. CASE ~(terms[r].gross <= 0)
  <2> DEFINE e == Entry(r, "order_profit", Earned(terms[r].gross, Fee[r]), "pending_confirm")
             n == Len(ledger) + 1
  <2>1. /\ ledger' = Append(ledger, e) /\ posted' = [posted EXCEPT ![r] = n]
        /\ UNCHANGED <<payouts, terms, refunded>>
    BY <1>4, <1>8 DEF Pay, PostOrderProfit
  <2>2. e.sale = r /\ e.type = "order_profit" /\ e.request = 0
        /\ e.amount = Earned(terms[r].gross, Fee[r])
    BY DEF Entry
  <2>3. terms[r].gross \in Nat /\ Earned(terms[r].gross, Fee[r]) \in Nat /\ Total[r] \in Nat \ {0}
    BY SaleFacts, EarnedInt DEF MoneyInv
  <2> HIDE DEF e
  <2>4. /\ Counted' /\ RequestsBacked' /\ Amounted(ledger) /\ Amounted(ledger')
        /\ DOMAIN ledger' = DOMAIN ledger \cup {n}
        /\ ledger'[n] = e /\ \A i \in DOMAIN ledger : ledger'[i] = ledger[i]
        /\ \A s, t : SumOf(ledger', Kind(ledger', s, t))
                       = SumOf(ledger, Kind(ledger, s, t))
                           + (IF e.sale = s /\ e.type = t THEN e.amount ELSE 0)
    BY <2>1, <2>2, <2>3, Appended DEF MoneyInv
  <2>5. n # 0
    BY LedgerFactsNow DEF MoneyInv
  <2> HIDE DEF n
  <2>6. EntriesPosted'
    <3>1. \A i \in DOMAIN ledger' : posted'[ledger'[i].sale] # 0
      BY <1>3, <1>4, <2>1, <2>2, <2>4, <2>5 DEF MoneyInv, EntriesPosted
    <3>2. \A s \in Sales : /\ PaidAt(s)' /\ terms'[s].gross > 0 => posted'[s] # 0
                           /\ posted'[s] # 0 => terms'[s].gross > 0
      BY <1>2, <1>4, <1>8, <2>1, <2>3, <2>5 DEF MoneyInv, EntriesPosted
    <3>3. QED
      BY <3>1, <3>2 DEF EntriesPosted
  <2>7. ProfitReversed'
    <3> SUFFICES ASSUME NEW s \in Sales, posted'[s] # 0
                 PROVE  /\ Profit(ledger', s) = Earned(terms[s].gross, Fee[s])
                        /\ Back(ledger', s) \in 0 .. terms[s].gross
                        /\ refunded[s] = Total[s] => Back(ledger', s) = terms[s].gross
      BY <2>1, NextReversed
    <3>1. CASE s = r
      <4>1. \A t : Kind(ledger, r, t) = {}
        BY <1>3 DEF Kind
      <4>2. \A t : SumOf(ledger, Kind(ledger, r, t)) = 0
        BY <4>1, SumOfNone
      <4>3. Profit(ledger', r) = 0 + e.amount /\ Back(ledger', r) = -(0 + 0)
        BY <2>2, <2>4, <4>2 DEF Profit, Back
      <4>4. QED
        BY <1>5, <2>2, <2>3, <3>1, <4>3
    <3>2. CASE s # r
      <4>1. posted[s] # 0
        BY <1>4, <2>1, <3>2
      <4>2. SumOf(ledger, Kind(ledger, s, "order_profit")) \in Int
            /\ SumOf(ledger, Kind(ledger, s, "refund_deduct")) \in Int
        BY <2>4, SumsInt
      <4>3. Profit(ledger', s) = Profit(ledger, s) /\ Back(ledger', s) = Back(ledger, s)
        BY <2>2, <2>4, <3>2, <4>2 DEF Profit, Back
      <4>4. QED
        BY <4>1, <4>3, NowReversed DEF MoneyInv
    <3>3. QED
      BY <3>1, <3>2
  <2>8. QED
    BY <1>6, <2>4, <2>6, <2>7 DEF MoneyInv
<1>9. QED
  BY <1>7, <1>8

\* What a refund takes back: never more than is left of the profit, and all of it
\* with the last of the total.
LEMMA DeductFits ==
    ASSUME NEW s, NEW gross \in Nat, NEW total \in Nat \ {0}, NEW before \in Nat, NEW a \in Nat,
           Deducted(s) \in 0 .. gross
    PROVE  LET d == Deduct(s, gross, total, before, a)
           IN  /\ d \in Int
               /\ d <= gross - Deducted(s)
               /\ before + a >= total => d = gross - Deducted(s)
<1>1. Share(gross, a, total) \in Nat
  BY ShareNat
<1>2. QED
  BY <1>1 DEF Deduct

LEMMA RefundKeepsMoney ==
    ASSUME MoneyInv, IInv', NEW r \in Sales, RefundCommits(r)
    PROVE  MoneyInv'
<1> DEFINE a == refunding[r].amount
           gross == terms[r].gross
           d == Deduct(r, gross, Total[r], refunded[r], a)
           e == Entry(r, "refund_deduct", -d, DeductStatus(refunding[r].seen))
<1>1. /\ PaidAt(r) /\ \A s \in Sales : PaidAt(s)' = PaidAt(s)
  <2>1. paidHook' = paidHook
    BY DEF RefundCommits, HandleOrderRefunded, commissionVars
  <2>2. PaidAt(r)
    BY DEF RefundCommits, MoneyInv, IInv, SaleInv, SeenHolds
  <2>3. QED
    BY <2>1, <2>2, PaidAtSale
<1>2. /\ gross \in Nat /\ Total[r] \in Nat \ {0} /\ a \in Nat \ {0}
      /\ refunded[r] \in Nat /\ refunded[r] + a <= Total[r] /\ r \in Orders
  <2>1. a \in Amounts[r] /\ refunded[r] + a <= Total[r]
    BY DEF RefundCommits, MoneyInv, RefundsFit
  <2>2. QED
    BY <2>1, SaleFacts DEF MoneyInv, RefundsFit
<1>3. /\ UNCHANGED <<terms, posted, payouts>>
      /\ refunded' = [refunded EXCEPT ![r] = refunded[r] + a]
      /\ refunding' = [refunding EXCEPT ![r] = NoRefund]
  BY DEF RefundCommits, HandleRefundDeduct
<1>4. RefundsFit'
  <2>1. refunded' \in [Orders -> Nat] /\ refunded'[r] = refunded[r] + a
        /\ \A s \in Sales \ {r} : refunded'[s] = refunded[s] /\ refunding'[s] = refunding[s]
    BY <1>2, <1>3, SaleIsRoot DEF MoneyInv, RefundsFit, IInv, SaleInv, SalesTyped
  <2>2. Idle(r)'
    BY <1>3 DEF Idle, MoneyInv, IInv, SaleInv, SalesTyped
  <2>3. \A s \in Sales : ~Idle(s)' => s # r /\ ~Idle(s)
    BY <2>1, <2>2 DEF Idle
  <2>4. QED
    BY <1>1, <1>2, <2>1, <2>3 DEF MoneyInv, RefundsFit
<1>5. gross > 0 => posted[r] # 0
  BY <1>1 DEF MoneyInv, EntriesPosted
<1>6. posted[r] # 0 => /\ Deducted(r) \in 0 .. gross /\ Back(ledger, r) = Deducted(r)
                       /\ Profit(ledger, r) = Earned(gross, Fee[r])
  BY NowReversed, KindSums DEF MoneyInv, Back
<1>7. \A s \in Sales \ {r} : refunded'[s] = refunded[s]
  BY <1>3 DEF MoneyInv, RefundsFit
<1>8. refunded'[r] = refunded[r] + a
  BY <1>2, <1>3 DEF MoneyInv, RefundsFit
<1> HIDE DEF a, gross
<1>9. CASE UNCHANGED ledger
  <2>1. Counted' /\ RequestsBacked' /\ EntriesPosted'
    BY <1>1, <1>3, <1>9 DEF MoneyInv, Counted, RequestsBacked, EntriesPosted
  <2>2. ProfitReversed'
    <3> SUFFICES ASSUME NEW s \in Sales, posted[s] # 0
                 PROVE  /\ Profit(ledger, s) = Earned(terms[s].gross, Fee[s])
                        /\ Back(ledger, s) \in 0 .. terms[s].gross
                        /\ refunded'[s] = Total[s] => Back(ledger, s) = terms[s].gross
      BY <1>3, <1>9, NextReversed
    <3>1. CASE s = r
      <4>1. gross > 0 /\ refunded[r] < Total[r]
        BY <1>2, <3>1 DEF MoneyInv, EntriesPosted, gross
      <4>2. d <= 0
        <5> SUFFICES ASSUME ~(d <= 0)
                     PROVE  FALSE
          OBVIOUS
        <5>1. ledger' = Append(ledger, e)
          BY <1>2, <4>1 DEF RefundCommits, HandleRefundDeduct, a, gross
        <5>2. Len(ledger) \in Nat /\ IsLedger(ledger)
          BY LedgerFactsNow DEF MoneyInv
        <5>3. PICK A : ledger \in Seq(EntryOf(A))
          BY <5>2, LedgerFacts
        <5>4. Len(Append(ledger, e)) = Len(ledger) + 1
          BY <5>3
        <5>5. QED
          BY <1>9, <5>1, <5>2, <5>4
      <4>3. /\ d \in Int /\ d <= gross - Deducted(r)
            /\ refunded[r] + a >= Total[r] => d = gross - Deducted(r)
        BY <1>2, <1>6, <3>1, DeductFits
      <4> HIDE DEF d
      <4>4. Deducted(r) \in 0 .. gross /\ Back(ledger, r) = Deducted(r)
        BY <1>6, <3>1
      <4>5. refunded'[r] = Total[r] => Back(ledger, r) = gross
        BY <1>2, <1>8, <4>2, <4>3, <4>4
      <4>6. QED
        BY <1>6, <3>1, <4>4, <4>5 DEF gross
    <3>2. CASE s # r
      BY <1>7, <3>2, NowReversed DEF MoneyInv
    <3>3. QED
      BY <3>1, <3>2
  <2>3. QED
    BY <1>4, <2>1, <2>2 DEF MoneyInv
<1>10. CASE ~UNCHANGED ledger
  <2>1. ledger' = Append(ledger, e) /\ gross > 0 /\ d > 0
    <3>1. ~(gross <= 0) /\ ~(d <= 0) /\ ledger' = Append(ledger, e)
      BY <1>10 DEF RefundCommits, HandleRefundDeduct, a, gross
    <3>2. gross > 0 /\ posted[r] # 0
      BY <1>2, <1>5, <3>1
    <3>3. d \in Int
      BY <1>2, <1>6, <3>2, DeductFits
    <3> HIDE DEF d
    <3>4. QED
      BY <3>1, <3>2, <3>3
  <2>2. posted[r] # 0
    BY <1>5, <2>1
  <2>3. /\ d \in Int /\ d <= gross - Deducted(r)
        /\ refunded[r] + a >= Total[r] => d = gross - Deducted(r)
    BY <1>2, <1>6, <2>2, DeductFits
  <2>4. e.sale = r /\ e.type = "refund_deduct" /\ e.request = 0 /\ e.amount = -d
    BY DEF Entry
  <2>5. e.amount \in Int
    BY <2>3, <2>4
  <2> HIDE DEF d, e
  <2>6. /\ Counted' /\ RequestsBacked' /\ Amounted(ledger) /\ Amounted(ledger')
        /\ DOMAIN ledger' = DOMAIN ledger \cup {Len(ledger) + 1}
        /\ ledger'[Len(ledger) + 1] = e /\ \A i \in DOMAIN ledger : ledger'[i] = ledger[i]
        /\ \A s, t : SumOf(ledger', Kind(ledger', s, t))
                       = SumOf(ledger, Kind(ledger, s, t))
                           + (IF e.sale = s /\ e.type = t THEN e.amount ELSE 0)
    BY <1>3, <2>1, <2>4, <2>5, Appended DEF MoneyInv
  <2>7. EntriesPosted'
    <3>1. \A i \in DOMAIN ledger' : posted'[ledger'[i].sale] # 0
      BY <1>3, <2>2, <2>4, <2>6 DEF MoneyInv, EntriesPosted
    <3>2. QED
      BY <1>1, <1>3, <3>1 DEF MoneyInv, EntriesPosted
  <2>8. ProfitReversed'
    <3> SUFFICES ASSUME NEW s \in Sales, posted[s] # 0
                 PROVE  /\ Profit(ledger', s) = Earned(terms[s].gross, Fee[s])
                        /\ Back(ledger', s) \in 0 .. terms[s].gross
                        /\ refunded'[s] = Total[s] => Back(ledger', s) = terms[s].gross
      BY <1>3, NextReversed
    <3>1. SumOf(ledger, Kind(ledger, s, "order_profit")) \in Int
          /\ SumOf(ledger, Kind(ledger, s, "refund_deduct")) \in Int
      BY <2>6, SumsInt
    <3>2. Profit(ledger', s) = Profit(ledger, s)
      BY <2>4, <2>6, <3>1 DEF Profit
    <3>3. CASE s = r
      <4>1. SumOf(ledger', Kind(ledger', r, "refund_deduct"))
              = SumOf(ledger, Kind(ledger, r, "refund_deduct")) + (-d)
        BY <2>4, <2>6
      <4>2. Back(ledger', r) = Back(ledger, r) + d
        BY <2>3, <3>1, <3>3, <4>1 DEF Back
      <4>3. Deducted(r) \in 0 .. gross /\ Back(ledger, r) = Deducted(r)
        BY <1>6, <2>2
      <4>4. Back(ledger', r) \in 0 .. gross
        BY <1>2, <2>1, <2>3, <4>2, <4>3
      <4>5. refunded'[r] = Total[r] => Back(ledger', r) = gross
        BY <1>2, <1>8, <2>3, <4>2, <4>3
      <4>6. QED
        BY <1>6, <2>2, <3>2, <3>3, <4>4, <4>5 DEF gross
    <3>4. CASE s # r
      <4>1. Back(ledger', s) = Back(ledger, s)
        BY <2>4, <2>6, <3>1, <3>4 DEF Back
      <4>2. QED
        BY <1>7, <3>2, <3>4, <4>1, NowReversed DEF MoneyInv
    <3>5. QED
      BY <3>3, <3>4
  <2>9. QED
    BY <1>4, <2>6, <2>7, <2>8 DEF MoneyInv
<1>11. QED
  BY <1>9, <1>10

\* Steps of the orders that leave the ledger alone.
LEMMA OrdersKeepMoney ==
    ASSUME MoneyInv, IInv',
           \/ \E r \in Sales :
                 \/ PaidHook(r) \/ Cancel(r) \/ RefundFails(r)
                 \/ \E a \in Amounts[r] : RefundBegins(r, a)
           \/ \E l \in Lines : \E a \in Amounts[l] : RefundLine(l, a)
    PROVE  MoneyInv'
<1> USE DEF ledgerVars
<1>1. \A r \in Sales : PaidAt(r)' = PaidAt(r)
  BY PaidAtSale DEF PaidHook, HandleOrderPaid, Cancel, CancelReads, RefundFails, RefundBegins, RefundLine,
     commissionVars, MoneyInv, IInv, SaleInv, SalesTyped
<1>2. UNCHANGED <<ledger, posted, payouts, terms>>
  BY DEF PaidHook, Cancel, RefundFails, RefundBegins, RefundLine, saleVars
<1>3. ASSUME NEW r \in Sales, PaidHook(r) \/ Cancel(r) \/ RefundFails(r)
      PROVE  MoneyInv'
  <2>1. UNCHANGED refunded
    BY <1>3 DEF PaidHook, Cancel, RefundFails, saleVars
  <2>2. \A s \in Sales : ~Idle(s)' => ~Idle(s) /\ refunding'[s] = refunding[s]
    BY <1>3 DEF PaidHook, Cancel, RefundFails, saleVars, Idle, MoneyInv, IInv, SaleInv, SalesTyped
  <2>3. QED
    BY <1>1, <1>2, <2>1, <2>2, RefundsStay, MoneyKept
<1>4. ASSUME NEW r \in Sales, NEW a \in Amounts[r], RefundBegins(r, a)
      PROVE  MoneyInv'
  <2>1. /\ refunded' = refunded /\ PaidAt(r) /\ a <= Total[r] - refunded[r]
        /\ refunding' = [refunding EXCEPT ![r] = [amount |-> a, seen |-> ProfitStatus(r)]]
    BY <1>4 DEF RefundBegins, Refundable
  <2>2. \A s \in Sales \ {r} : refunding'[s] = refunding[s] /\ Idle(s)' = Idle(s)
    BY <2>1 DEF Idle, MoneyInv, IInv, SaleInv, SalesTyped
  <2>3. refunding'[r].amount = a
    BY <2>1 DEF MoneyInv, IInv, SaleInv, SalesTyped
  <2>4. refunded[r] + a <= Total[r]
    BY <2>1, SaleFacts DEF MoneyInv, RefundsFit
  <2>5. RefundsFit'
    BY <1>1, <2>1, <2>2, <2>3, <2>4 DEF MoneyInv, RefundsFit
  <2>6. QED
    BY <1>1, <1>2, <2>1, <2>5, MoneyKept
<1>5. ASSUME NEW l \in Lines, NEW a \in Amounts[l], RefundLine(l, a)
      PROVE  MoneyInv'
  <2>1. l \in Orders /\ a \in Nat /\ l \notin Sales
    BY AfterSaleAssumption DEF Orders
  <2>2. refunded' = [refunded EXCEPT ![l] = @ + a] /\ refunding' = refunding
    BY <1>5 DEF RefundLine
  <2>3. refunded' \in [Orders -> Nat] /\ \A r \in Sales : refunded'[r] = refunded[r]
    BY <2>1, <2>2, SaleIsRoot DEF MoneyInv, RefundsFit
  <2>4. RefundsFit'
    BY <1>1, <2>2, <2>3 DEF MoneyInv, RefundsFit, Idle
  <2>5. QED
    BY <1>1, <1>2, <2>3, <2>4, MoneyKept
<1>6. QED
  BY <1>3, <1>4, <1>5

\* Entries whose status or request is changed.
LEMMA Marked ==
    ASSUME NEW rows, IsLedger(rows), NEW i \in DOMAIN rows, NEW st
    PROVE  /\ LET l == [rows[i] EXCEPT !.status = st] IN
                  /\ l.sale = rows[i].sale /\ l.type = rows[i].type /\ l.amount = rows[i].amount
                  /\ l.status = st /\ l.request = rows[i].request
           /\ LET l == [rows[i] EXCEPT !.status = st, !.request = 0] IN
                  /\ l.sale = rows[i].sale /\ l.type = rows[i].type /\ l.amount = rows[i].amount
                  /\ l.status = st /\ l.request = 0
BY RowFacts

\* A step of the ledger that leaves the sales as they are.
LEMMA LedgerMoneyKept ==
    ASSUME MoneyInv, IInv', UNCHANGED <<saleVars, paidHook, posted>>, Counted',
           \A s, t : SumOf(ledger', Kind(ledger', s, t)) = SumOf(ledger, Kind(ledger, s, t)),
           \A i \in DOMAIN ledger' : \E j \in DOMAIN ledger : ledger'[i].sale = ledger[j].sale,
           RequestsBacked'
    PROVE  MoneyInv'
<1> USE DEF saleVars
<1>1. \A r \in Sales : PaidAt(r)' = PaidAt(r)
  BY PaidAtSale
<1>2. ProfitReversed'
  BY ReversedKept DEF MoneyInv
<1>3. EntriesPosted'
  BY <1>1 DEF MoneyInv, EntriesPosted
<1>4. RefundsFit'
  BY <1>1, RefundsStay DEF Idle
<1>5. QED
  BY <1>2, <1>3, <1>4 DEF MoneyInv

LEMMA MarksKeepMoney ==
    ASSUME MoneyInv, IInv', UNCHANGED <<saleVars, paidHook>>, ConfirmMarks
    PROVE  MoneyInv'
<1>1. /\ IInv /\ Counted /\ IsLedger(ledger) /\ Amounted(ledger)
      /\ Len(payouts) \in Nat /\ DOMAIN payouts = 1 .. Len(payouts)
  BY LedgerFactsNow DEF MoneyInv
<1>2. /\ DOMAIN ledger' = DOMAIN ledger
      /\ \A i \in DOMAIN ledger : /\ ledger'[i].sale = ledger[i].sale
                                  /\ ledger'[i].type = ledger[i].type
                                  /\ ledger'[i].amount = ledger[i].amount
                                  /\ ledger'[i].request = ledger[i].request
  BY <1>1, Marked DEF ConfirmMarks
<1>3. UNCHANGED <<posted, payouts>>
  BY DEF ConfirmMarks
<1>4. /\ Counted' /\ Amounted(ledger')
      /\ \A s, t : SumOf(ledger', Kind(ledger', s, t)) = SumOf(ledger, Kind(ledger, s, t))
  BY <1>1, <1>2, AmountsStay
<1>5. RequestsBacked'
  <2> SUFFICES ASSUME NEW q \in DOMAIN payouts, payouts[q].status # "rejected"
               PROVE  SumOf(ledger', RowsFor(ledger', q)) = payouts[q].amount
    BY <1>3 DEF RequestsBacked
  <2>1. SumOf(ledger', RowsFor(ledger', q)) = SumOf(ledger, RowsFor(ledger, q))
    BY <1>1, <1>2, <1>4, RequestStays
  <2>2. QED
    BY <2>1 DEF MoneyInv, RequestsBacked
<1>6. QED
  BY <1>2, <1>3, <1>4, <1>5, LedgerMoneyKept

\* What a review makes of the entries.
LEMMA Reviewed ==
    ASSUME IInv, Counted, IInv', NEW n \in DOMAIN payouts, RejectWithdraw(n) \/ PayWithdraw(n)
    PROVE  /\ IsLedger(ledger) /\ Amounted(ledger) /\ Amounted(ledger') /\ n # 0 /\ Counted'
           /\ DOMAIN ledger' = DOMAIN ledger
           /\ \A i \in DOMAIN ledger :
                  /\ ledger'[i].sale = ledger[i].sale /\ ledger'[i].type = ledger[i].type
                  /\ ledger'[i].amount = ledger[i].amount
                  /\ ledger[i].request # n => ledger'[i] = ledger[i]
                  /\ ledger[i].request = n /\ PayWithdraw(n) =>
                         ledger'[i].request = n /\ ledger'[i].status = "withdrawn"
                  /\ ledger[i].request = n /\ ~PayWithdraw(n) =>
                         ledger'[i].request = 0 /\ ledger'[i].status = "available"
           /\ \A s, t : SumOf(ledger', Kind(ledger', s, t)) = SumOf(ledger, Kind(ledger, s, t))
           /\ \A S \in SUBSET DOMAIN ledger : SumOf(ledger', S) = SumOf(ledger, S)
           /\ payouts[n].status = "pending" /\ UNCHANGED posted
           /\ payouts' = [payouts EXCEPT ![n].status = IF PayWithdraw(n) THEN "paid" ELSE "rejected"]
           /\ DOMAIN payouts' = DOMAIN payouts
           /\ \A q \in DOMAIN payouts : /\ payouts'[q].amount = payouts[q].amount
                                        /\ q # n => payouts'[q] = payouts[q]
           /\ payouts'[n].status = IF PayWithdraw(n) THEN "paid" ELSE "rejected"
<1> DEFINE paying == PayWithdraw(n)
<1>1. /\ IsLedger(ledger) /\ Amounted(ledger) /\ payouts \in Seq([amount: Nat, status: PayoutStatus])
      /\ n # 0 /\ DOMAIN payouts = 1 .. Len(payouts)
  BY LedgerFactsNow
<1>2. /\ payouts[n].status = "pending" /\ UNCHANGED posted
      /\ payouts' = [payouts EXCEPT ![n].status = IF paying THEN "paid" ELSE "rejected"]
  BY DEF RejectWithdraw, PayWithdraw
<1> DEFINE kept(i) ==
               /\ ledger'[i].sale = ledger[i].sale /\ ledger'[i].type = ledger[i].type
               /\ ledger'[i].amount = ledger[i].amount
               /\ ledger[i].request # n => ledger'[i] = ledger[i]
<1>3. ASSUME paying
      PROVE  /\ DOMAIN ledger' = DOMAIN ledger
             /\ \A i \in DOMAIN ledger : kept(i) /\
                    (ledger[i].request = n => ledger'[i].request = n /\ ledger'[i].status = "withdrawn")
  <2>1. ledger' = [i \in DOMAIN ledger |->
                      IF ledger[i].request = n
                        THEN [ledger[i] EXCEPT !.status = "withdrawn"]
                        ELSE ledger[i]]
    BY <1>3 DEF PayWithdraw
  <2>2. ASSUME NEW i \in DOMAIN ledger
        PROVE  kept(i) /\ (ledger[i].request = n => ledger'[i].request = n /\ ledger'[i].status = "withdrawn")
    <3> DEFINE l == [ledger[i] EXCEPT !.status = "withdrawn"]
    <3>1. /\ l.sale = ledger[i].sale /\ l.type = ledger[i].type /\ l.amount = ledger[i].amount
          /\ l.status = "withdrawn" /\ l.request = ledger[i].request
      BY <1>1, Marked
    <3>2. ledger'[i] = IF ledger[i].request = n THEN l ELSE ledger[i]
      BY <2>1
    <3> HIDE DEF l
    <3>3. QED
      BY <3>1, <3>2
  <2>3. DOMAIN ledger' = DOMAIN ledger
    BY <2>1
  <2>4. QED
    BY <2>2, <2>3
<1>4. ASSUME ~paying
      PROVE  /\ DOMAIN ledger' = DOMAIN ledger
             /\ \A i \in DOMAIN ledger : kept(i) /\
                    (ledger[i].request = n => ledger'[i].request = 0 /\ ledger'[i].status = "available")
  <2>1. ledger' = [i \in DOMAIN ledger |->
                      IF ledger[i].request = n
                        THEN [ledger[i] EXCEPT !.status = "available", !.request = 0]
                        ELSE ledger[i]]
    BY <1>4 DEF RejectWithdraw
  <2>2. ASSUME NEW i \in DOMAIN ledger
        PROVE  kept(i) /\ (ledger[i].request = n => ledger'[i].request = 0 /\ ledger'[i].status = "available")
    <3> DEFINE l == [ledger[i] EXCEPT !.status = "available", !.request = 0]
    <3>1. /\ l.sale = ledger[i].sale /\ l.type = ledger[i].type /\ l.amount = ledger[i].amount
          /\ l.status = "available" /\ l.request = 0
      BY <1>1, Marked
    <3>2. ledger'[i] = IF ledger[i].request = n THEN l ELSE ledger[i]
      BY <2>1
    <3> HIDE DEF l
    <3>3. QED
      BY <3>1, <3>2
  <2>3. DOMAIN ledger' = DOMAIN ledger
    BY <2>1
  <2>4. QED
    BY <2>2, <2>3
<1> HIDE DEF paying
<1>5. /\ DOMAIN ledger' = DOMAIN ledger
      /\ \A i \in DOMAIN ledger :
             /\ ledger'[i].sale = ledger[i].sale /\ ledger'[i].type = ledger[i].type
             /\ ledger'[i].amount = ledger[i].amount
             /\ ledger[i].request # n => ledger'[i] = ledger[i]
             /\ ledger[i].request = n /\ paying =>
                    ledger'[i].request = n /\ ledger'[i].status = "withdrawn"
             /\ ledger[i].request = n /\ ~paying =>
                    ledger'[i].request = 0 /\ ledger'[i].status = "available"
  BY <1>3, <1>4
<1>6. /\ Counted' /\ Amounted(ledger')
      /\ \A s, t : SumOf(ledger', Kind(ledger', s, t)) = SumOf(ledger, Kind(ledger, s, t))
      /\ \A S \in SUBSET DOMAIN ledger : SumOf(ledger', S) = SumOf(ledger, S)
  BY <1>5, AmountsStay
<1>7. /\ DOMAIN payouts' = DOMAIN payouts
      /\ \A q \in DOMAIN payouts : /\ payouts'[q].amount = payouts[q].amount
                                   /\ q # n => payouts'[q] = payouts[q]
      /\ payouts'[n].status = IF paying THEN "paid" ELSE "rejected"
  <2>1. payouts[n] \in [amount: Nat, status: PayoutStatus]
    BY <1>1, ElementOfSeq
  <2>2. QED
    BY <1>1, <1>2, <2>1
<1>8. QED
  BY <1>1, <1>2, <1>5, <1>6, <1>7 DEF paying

LEMMA ReviewKeepsMoney ==
    ASSUME MoneyInv, IInv', UNCHANGED <<saleVars, paidHook>>, NEW n \in DOMAIN payouts,
           RejectWithdraw(n) \/ PayWithdraw(n)
    PROVE  MoneyInv'
<1>1. IInv /\ Counted
  BY DEF MoneyInv
<1>2. RequestsBacked'
  <2> SUFFICES ASSUME NEW q \in DOMAIN payouts, payouts'[q].status # "rejected"
               PROVE  SumOf(ledger', RowsFor(ledger', q)) = payouts'[q].amount
    BY <1>1, Reviewed DEF RequestsBacked
  <2>1. q = n => PayWithdraw(n) /\ payouts[n].status # "rejected"
    BY <1>1, Reviewed
  <2>2. q # n => payouts'[q] = payouts[q]
    BY <1>1, Reviewed
  <2>3. SumOf(ledger, RowsFor(ledger, q)) = payouts[q].amount
    BY <2>1, <2>2 DEF MoneyInv, RequestsBacked
  <2>4. q # 0
    BY <1>1, LedgerFactsNow
  <2>5. Amounted(ledger) /\ Amounted(ledger') /\ DOMAIN ledger' = DOMAIN ledger
    BY <1>1, Reviewed
  <2>6. \A i \in DOMAIN ledger : /\ ledger'[i].amount = ledger[i].amount
                                 /\ ledger'[i].request = q <=> ledger[i].request = q
    BY <1>1, <2>1, <2>4, Reviewed
  <2>7. SumOf(ledger', RowsFor(ledger', q)) = SumOf(ledger, RowsFor(ledger, q))
    BY <2>5, <2>6, RequestStays
  <2>8. payouts'[q].amount = payouts[q].amount
    BY <1>1, Reviewed
  <2>9. QED
    BY <2>3, <2>7, <2>8
<1>3. /\ Counted' /\ UNCHANGED posted
      /\ \A s, t : SumOf(ledger', Kind(ledger', s, t)) = SumOf(ledger, Kind(ledger, s, t))
      /\ \A i \in DOMAIN ledger' : \E j \in DOMAIN ledger : ledger'[i].sale = ledger[j].sale
  BY <1>1, Reviewed
<1>4. QED
  BY <1>2, <1>3, LedgerMoneyKept

LEMMA ApplyKeepsMoney ==
    ASSUME MoneyInv, IInv', UNCHANGED <<saleVars, paidHook>>, NEW a \in Nat, ApplyWithdraw(a)
    PROVE  MoneyInv'
<1> DEFINE q == Len(payouts) + 1
<1>1. IInv /\ Counted /\ EntriesPosted
  BY DEF MoneyInv
<1>2. /\ Amounted(ledger')
      /\ \A s, t : SumOf(ledger', Kind(ledger', s, t)) = SumOf(ledger, Kind(ledger, s, t))
      /\ SumOf(ledger', RowsFor(ledger', q)) = a
      /\ \A n \in DOMAIN payouts :
             SumOf(ledger', RowsFor(ledger', n)) = SumOf(ledger, RowsFor(ledger, n))
      /\ \A i \in DOMAIN ledger' : \E j \in DOMAIN ledger : ledger'[i].sale = ledger[j].sale
  BY <1>1, WithdrawSums
<1>3. Counted' /\ UNCHANGED posted
  BY <1>2 DEF Counted, Amounted, ApplyWithdraw
<1>4. /\ DOMAIN payouts' = DOMAIN payouts \cup {q}
      /\ payouts'[q].amount = a /\ \A n \in DOMAIN payouts : payouts'[n] = payouts[n]
  <2>1. payouts \in Seq([amount: Nat, status: PayoutStatus])
    BY <1>1, LedgerFactsNow
  <2> DEFINE new == [amount |-> a, status |-> "pending"]
  <2>2. payouts' = Append(payouts, new) /\ new \in [amount: Nat, status: PayoutStatus] /\ new.amount = a
    BY DEF ApplyWithdraw, PayoutStatus
  <2> HIDE DEF new
  <2>3. QED
    BY <2>1, <2>2
<1> HIDE DEF q
<1>5. RequestsBacked'
  BY <1>2, <1>4 DEF MoneyInv, RequestsBacked
<1>6. QED
  BY <1>2, <1>3, <1>5, LedgerMoneyKept

LEMMA NextKeepsMoney ==
    ASSUME MoneyInv, [Next]_vars
    PROVE  MoneyInv'
<1>1. IInv'
  BY NextKeepsInv DEF MoneyInv
<1>2. ASSUME UNCHANGED <<saleVars, ledger, posted, payouts>>,
             \A r \in Sales : (paidHook'[r] # "none") = (paidHook[r] # "none")
      PROVE  MoneyInv'
  <2>1. \A r \in Sales : PaidAt(r)' = PaidAt(r)
    BY <1>2, PaidAtSale
  <2>2. RefundsFit'
    BY <1>2, <2>1, RefundsStay DEF saleVars, Idle
  <2>3. QED
    BY <1>1, <1>2, <2>1, <2>2, MoneyKept DEF saleVars
<1>3. CASE UNCHANGED vars
  BY <1>2, <1>3 DEF vars, ledgerVars, commissionVars
<1>4. CASE LedgerNext /\ UNCHANGED <<saleVars, commissionVars>>
  <2>1. UNCHANGED <<saleVars, paidHook>>
    BY <1>4 DEF commissionVars
  <2>2. CASE (\E s \in Sales : Mature(s)) \/ ConfirmLists \/ ConfirmLost
    BY <1>2, <2>1, <2>2 DEF Mature, ConfirmLists, ConfirmLost
  <2>3. \A a \in 1 .. MaxAsked : a \in Nat
    BY LedgerAssumption
  <2>4. QED
    BY <1>1, <1>4, <2>1, <2>2, <2>3, MarksKeepMoney, ApplyKeepsMoney, ReviewKeepsMoney DEF LedgerNext
<1>5. CASE CommissionsNext(due) /\ UNCHANGED <<saleVars, ledgerVars>>
  <2>1. \A r \in Sales : (paidHook'[r] # "none") = (paidHook[r] # "none")
    BY <1>5, AfterSaleAssumption DEF CommissionsNext, PaidHookLost, ConfirmDueCommissions, CancelSaves,
       CancelLost, ApplyCommissionWithdraw, RejectCommissionWithdraw, PayCommissionWithdraw,
       MoneyInv, IInv, SaleInv, SalesTyped
  <2>2. QED
    BY <1>2, <1>5, <2>1 DEF ledgerVars
<1>6. QED
  BY <1>1, <1>3, <1>4, <1>5, PayKeepsMoney, RefundKeepsMoney, OrdersKeepMoney DEF Next

\* The entries of every reachable ledger add up, and refunds fit the orders' totals.
THEOREM MoneyAlways == Spec => []MoneyInv
<1>1. Init => MoneyInv
  BY MoneyInit
<1>2. MoneyInv /\ [Next]_vars => MoneyInv'
  BY NextKeepsMoney
<1>3. QED
  BY <1>1, <1>2, PTL DEF Spec

\* Withdrawals split the profit of a sale but neither add to it nor lose of it, and
\* refunds of any sizes take back at most the profit before the payment fee, and
\* exactly that once the sale is refunded in full.
THEOREM ProfitAlwaysReversed == Spec => []ProfitReversed
<1>1. MoneyInv => ProfitReversed
  BY DEF MoneyInv
<1>2. QED
  BY <1>1, MoneyAlways, PTL

\* A request that waits or is paid is backed, to the cent, by the entries bound to
\* it, whatever was split, refunded or confirmed since.
THEOREM RequestsAlwaysBacked == Spec => []RequestsBacked
<1>1. MoneyInv => RequestsBacked
  BY DEF MoneyInv
<1>2. QED
  BY <1>1, MoneyAlways, PTL

(* Withdrawals of the ledger implement Payouts.                            *)

LEMMA StepImplements ==
    ASSUME MoneyInv, [Next]_vars
    PROVE  [Withdrawals!Next]_<<Net(ledger), payouts>>
<1>1. CASE payouts' = payouts
  BY <1>1 DEF Withdrawals!Next, Withdrawals!Move
<1>2. ASSUME NEW a \in 1 .. MaxAsked, ApplyWithdraw(a)
      PROVE  Withdrawals!Ask
  <2>1. a \in Nat /\ a >= 1 /\ a <= Net(ledger) /\ payouts' = Append(payouts, [amount |-> a, status |-> "pending"])
    BY <1>2, LedgerAssumption DEF ApplyWithdraw
  <2>2. Net(ledger') = Net(ledger) - a
    BY <1>2, <2>1, WithdrawSums DEF MoneyInv
  <2>3. Net(ledger) \in Int
    <3>1. In(ledger, "available") \in SUBSET DOMAIN ledger
      BY DEF In
    <3>2. QED
      BY <3>1, LedgerFactsNow, AmountFacts DEF MoneyInv, Net
  <2>4. a \in 1 .. Net(ledger)
    BY <2>1, <2>3
  <2>5. QED
    BY <2>1, <2>2, <2>4 DEF Withdrawals!Ask, Net, In
<1>3. ASSUME NEW n \in DOMAIN payouts, RejectWithdraw(n) \/ PayWithdraw(n)
      PROVE  Withdrawals!Pay(n) \/ Withdrawals!Reject(n)
  <2> DEFINE S == In(ledger, "available")
             R == RowsFor(ledger, n)
  <2>1. IInv /\ Counted /\ IInv'
    BY NextKeepsInv DEF MoneyInv
  <2>2. S \in SUBSET DOMAIN ledger /\ R \in SUBSET DOMAIN ledger
    BY DEF In, RowsFor
  <2>3. \A i \in R : ledger[i].status = "locked"
    BY <1>3, <2>1, Reviewed DEF RowsFor, IInv, LedgerInv, RowsFollowRequests
  <2>4. S \cap R = {}
    BY <2>3 DEF In
  <2>5. CASE PayWithdraw(n)
    <3>1. In(ledger', "available") = S
      BY <1>3, <2>1, <2>3, <2>5, Reviewed DEF In, RowsFor
    <3>2. Net(ledger') = Net(ledger)
      BY <1>3, <2>1, <2>2, <3>1, Reviewed DEF Net
    <3>3. QED
      BY <1>3, <2>1, <2>5, <3>2, Reviewed DEF Withdrawals!Pay, Net, In
  <2>6. CASE ~PayWithdraw(n)
    <3>1. In(ledger', "available") = S \cup R
      BY <1>3, <2>1, <2>6, Reviewed DEF In, RowsFor
    <3>2. SumOf(ledger', S \cup R) = SumOf(ledger, S \cup R)
      BY <1>3, <2>1, <2>2, Reviewed
    <3>3. SumOf(ledger, S \cup R) = SumOf(ledger, S) + SumOf(ledger, R)
      BY <2>1, <2>2, <2>4, LedgerFactsNow, SumOfUnion
    <3>4. payouts[n].status = "pending" /\ SumOf(ledger, R) = payouts[n].amount
      BY <1>3, <2>1, Reviewed DEF MoneyInv, RequestsBacked
    <3>5. Net(ledger') = Net(ledger) + payouts[n].amount
      BY <3>1, <3>2, <3>3, <3>4 DEF Net
    <3>6. QED
      BY <1>3, <2>1, <2>6, <3>4, <3>5, Reviewed DEF Withdrawals!Reject, Net, In
  <2>7. QED
    BY <2>5, <2>6
<1>4. CASE LedgerNext
  BY <1>1, <1>2, <1>3, <1>4
  DEF LedgerNext, Withdrawals!Next, Mature, ConfirmLists, ConfirmMarks, ConfirmLost
<1>5. QED
  BY <1>1, <1>4 DEF Next, vars, ledgerVars, Pay, PaidHook, RefundBegins, RefundCommits, RefundFails,
     RefundLine, Cancel

\* Withdrawals of the ledger keep what Payouts promises: a request takes what it
\* asks for out of a balance that covers it, and is paid or put back in full, once.
THEOREM PayoutsImplemented == Spec => ImplementsPayouts
<1>1. Init => Withdrawals!Init
  <2> SUFFICES ASSUME Init PROVE Withdrawals!Init
    OBVIOUS
  <2>1. ledger = <<>> /\ payouts = <<>>
    BY DEF Init, LedgerInit
  <2>2. In(ledger, "available") = {}
    BY <2>1 DEF In
  <2>3. QED
    BY <2>1, <2>2, SumOfNone DEF Withdrawals!Init, Net
<1>2. MoneyInv /\ [Next]_vars => [Withdrawals!Next]_<<Net(ledger), payouts>>
  BY StepImplements
<1>3. QED
  BY <1>1, <1>2, MoneyAlways, PTL DEF Spec, ImplementsPayouts, Withdrawals!Spec

(* The commissions.                                                        *)

CommissionRow ==
    [sale: Sales, amount: Nat, status: CommissionStatus, request: Nat]

CommissionsTyped ==
    /\ commissions \in Seq(CommissionRow)
    /\ withdraws \in Seq([amount: Nat, status: WithdrawStatus])
    /\ overwritten \in Seq(Nat) /\ Len(overwritten) = Len(withdraws)
    /\ \A c \in canceling :
           /\ c.id \in DOMAIN commissions
           /\ c.row \in CommissionRow /\ c.row.request = 0
           /\ c.row.sale = commissions[c.id].sale

\* A row that is bound to a withdrawal is not rejected, nor is the withdrawal.
BoundStand(rows) ==
    \A i \in DOMAIN rows : rows[i].request # 0 =>
        /\ rows[i].request \in DOMAIN withdraws
        /\ withdraws[rows[i].request].status # "rejected"
        /\ rows[i].status \in {"available", "withdrawn"}

CommissionInv == CommissionsTyped /\ BoundStand(commissions) /\ CommissionsBacked /\ CommissionWithinRate

\* The rows of a sale that count towards its commission.
Rated(rows, r) == {i \in DOMAIN rows : rows[i].sale = r /\ rows[i].status # "rejected"}

LEMMA RowsAmounted ==
    ASSUME NEW rows \in Seq(CommissionRow)
    PROVE  /\ Amounted(rows) /\ Len(rows) \in Nat /\ DOMAIN rows = 1 .. Len(rows)
           /\ rows = [i \in DOMAIN rows |-> rows[i]]
           /\ \A i \in DOMAIN rows :
                  /\ rows[i] \in CommissionRow /\ rows[i].amount \in Nat
                  /\ rows[i].sale \in Sales /\ rows[i].status \in CommissionStatus
                  /\ rows[i].request \in Nat
<1>1. Len(rows) \in Nat /\ DOMAIN rows = 1 .. Len(rows) /\ rows = [i \in DOMAIN rows |-> rows[i]]
  OBVIOUS
<1>2. \A i \in DOMAIN rows : rows[i] \in CommissionRow
  OBVIOUS
<1>3. \A e \in CommissionRow : /\ e.amount \in Nat /\ e.sale \in Sales
                               /\ e.status \in CommissionStatus /\ e.request \in Nat
  BY DEF CommissionRow
<1>4. QED
  BY <1>1, <1>2, <1>3 DEF Amounted

\* Rows that are changed in place.
LEMMA RowsChanged ==
    ASSUME NEW rows \in Seq(CommissionRow), NEW more, DOMAIN more = DOMAIN rows,
           more = [i \in DOMAIN rows |-> more[i]], \A i \in DOMAIN rows : more[i] \in CommissionRow
    PROVE  more \in Seq(CommissionRow)
<1>1. Len(rows) \in Nat /\ DOMAIN rows = 1 .. Len(rows)
  OBVIOUS
<1>2. QED
  BY <1>1

\* One row with other fields.
LEMMA WithStatus ==
    ASSUME NEW e \in CommissionRow, NEW x \in CommissionStatus, NEW l, l = [e EXCEPT !.status = x]
    PROVE  /\ l.sale = e.sale /\ l.amount = e.amount /\ l.status = x /\ l.request = e.request
           /\ l \in CommissionRow
BY DEF CommissionRow

LEMMA WithRequest ==
    ASSUME NEW e \in CommissionRow, NEW x \in Nat, NEW l, l = [e EXCEPT !.request = x]
    PROVE  /\ l.sale = e.sale /\ l.amount = e.amount /\ l.status = e.status /\ l.request = x
           /\ l \in CommissionRow
BY DEF CommissionRow

LEMMA WithAmount ==
    ASSUME NEW e \in CommissionRow, NEW x \in Nat, NEW l, l = [e EXCEPT !.amount = x]
    PROVE  /\ l.sale = e.sale /\ l.amount = x /\ l.status = e.status /\ l.request = e.request
           /\ l \in CommissionRow
BY DEF CommissionRow

\* Rows that are rejected stay so, and no row that counts is worth more: the sale
\* is not worth more.
LEMMA RatedLess ==
    ASSUME NEW rows \in Seq(CommissionRow), NEW more \in Seq(CommissionRow), DOMAIN more = DOMAIN rows,
           \A i \in DOMAIN rows : more[i].status # "rejected" =>
               /\ rows[i].status # "rejected" /\ more[i].sale = rows[i].sale
               /\ more[i].amount <= rows[i].amount,
           NEW r
    PROVE  SumOf(more, Rated(more, r)) <= SumOf(rows, Rated(rows, r))
<1>1. Amounted(rows) /\ Amounted(more)
  BY RowsAmounted
<1> DEFINE S == Rated(rows, r)
           T == Rated(more, r)
<1>2. /\ S \in SUBSET DOMAIN rows /\ T \in SUBSET S /\ T \subseteq DOMAIN more
      /\ \A i \in T : more[i].amount <= rows[i].amount
  BY DEF Rated
<1>3. \A i \in S : rows[i].amount \in Nat
  BY <1>2, RowsAmounted
<1> HIDE DEF S, T
<1>4. SumOf(more, T) <= SumOf(rows, S)
  BY <1>1, <1>2, <1>3, SumOfLower
<1>5. QED
  BY <1>4 DEF S, T

\* The order in which commissions are withdrawn.
LEMMA ByIdsIsChain ==
    ASSUME NEW rows \in Seq(CommissionRow)
    PROVE  Chain(rows, Payable(rows), ByIds(rows))
<1> DEFINE D == Payable(rows)
           up == ByIds(rows)
<1>1. /\ D \subseteq DOMAIN rows
      /\ \A i \in D : i \in Nat /\ rows[i].amount \in Nat \ {0}
  BY RowsAmounted DEF Payable
<1>2. up = [i \in D |-> {j \in D : j <= i}]
  BY DEF ByIds
<1> HIDE DEF D, up
<1>3. DOMAIN up = D /\ \A i, j \in D : j \in up[i] <=> j <= i
  BY <1>2
<1>4. \A i \in D : up[i] \subseteq D /\ i \in up[i]
  BY <1>1, <1>2
<1>5. \A i, j \in D : /\ j \in up[i] \/ i \in up[j]
                      /\ j \in up[i] /\ i \in up[j] => i = j
  BY <1>1, <1>3
<1>6. ASSUME NEW i \in D, NEW j \in D, j \in up[i]
      PROVE  up[j] \subseteq up[i]
  <2> SUFFICES ASSUME NEW k \in up[j]
               PROVE  k \in up[i]
    OBVIOUS
  <2>1. k \in D
    BY <1>4
  <2>2. QED
    BY <1>1, <1>3, <1>6, <2>1
<1>7. QED
  BY <1>1, <1>3, <1>4, <1>5, <1>6 DEF Chain, D, up

\* The rows and the sums after commissions were withdrawn for the request q, which
\* is new: rows keep their sale, those that change are bound to q or what is left of
\* one, every sale and every other request is worth what it was, and q what was
\* asked for.
SplitFor(rows, more, q, a) ==
    /\ more \in Seq(CommissionRow) /\ DOMAIN rows \subseteq DOMAIN more
    /\ \A i \in DOMAIN rows : more[i].sale = rows[i].sale
    /\ \A i \in DOMAIN more :
           \/ more[i].request = q /\ more[i].status = "available"
           \/ i \in DOMAIN rows /\ more[i] = rows[i]
           \/ more[i].request = 0 /\ more[i].status = "available"
    /\ \A r : SumOf(more, Rated(more, r)) = SumOf(rows, Rated(rows, r))
    /\ SumOf(more, RowsFor(more, q)) = a
    /\ \A n \in Nat \ {0, q} : SumOf(more, RowsFor(more, n)) = SumOf(rows, RowsFor(rows, n))

LEMMA CommissionSplit ==
    ASSUME NEW rows \in Seq(CommissionRow), NEW q \in Nat \ {0}, NEW a \in Nat, NEW bound,
           \A i \in DOMAIN rows : rows[i].request # q,
           bound = [i \in DOMAIN rows |-> [rows[i] EXCEPT !.request = q]],
           Covered(rows, ByIds(rows), a),
           NEW more, more = Taken(rows, bound, ByIds(rows), a) \o Remainder(rows, ByIds(rows), a)
    PROVE  SplitFor(rows, more, q, a)
<1>1. Amounted(rows) /\ Len(rows) \in Nat /\ DOMAIN rows = 1 .. Len(rows)
  BY RowsAmounted
<1>2. Chain(rows, Payable(rows), ByIds(rows))
  BY ByIdsIsChain
<1>3. Withdraws(rows, bound, Payable(rows), a, more)
  BY <1>1, <1>2, SplitRows
<1>4. PICK W, C, m : /\ Split(rows, bound, W, C, m, more)
                     /\ W \subseteq Payable(rows) /\ C \subseteq Payable(rows)
                     /\ SumOf(rows, W) + m = a
  BY <1>3 DEF Withdraws
<1>5. \A i \in Payable(rows) : /\ i \in DOMAIN rows /\ rows[i].status = "available"
                               /\ rows[i].request = 0
  BY DEF Payable
<1>6. /\ W \in SUBSET DOMAIN rows /\ C \in SUBSET DOMAIN rows /\ W \cap C = {} /\ m \in Nat
      /\ Len(more) \in Nat /\ DOMAIN more = 1 .. Len(more)
  <2>1. /\ W \subseteq DOMAIN rows /\ C \subseteq DOMAIN rows \ W /\ m \in Nat
        /\ Len(more) \in Nat /\ DOMAIN more = 1 .. Len(more)
    BY <1>4 DEF Split
  <2>2. QED
    BY ONLY <2>1
<1>7. \A i \in DOMAIN rows :
          more[i] = IF i \in W THEN bound[i]
                    ELSE IF i \in C THEN [bound[i] EXCEPT !.amount = m]
                    ELSE rows[i]
  BY <1>4 DEF Split
<1>8. \/ C = {} /\ m = 0 /\ Len(more) = Len(rows)
      \/ \E c \in DOMAIN rows :
             /\ C = {c} /\ rows[c].amount > m /\ Len(more) = Len(rows) + 1
             /\ more[Len(rows) + 1] = [rows[c] EXCEPT !.amount = @ - m]
  BY <1>4 DEF Split
<1>9. ASSUME NEW i \in W
      PROVE  /\ more[i] \in CommissionRow /\ more[i].sale = rows[i].sale
             /\ more[i].amount = rows[i].amount
             /\ more[i].status = "available" /\ more[i].request = q
  <2>1. i \in DOMAIN rows /\ rows[i].status = "available"
    BY <1>4, <1>5, <1>6
  <2>2. more[i] = [rows[i] EXCEPT !.request = q] /\ rows[i] \in CommissionRow /\ q \in Nat
    BY <1>7, <2>1, RowsAmounted
  <2>3. /\ more[i] \in CommissionRow /\ more[i].sale = rows[i].sale
        /\ more[i].amount = rows[i].amount
        /\ more[i].status = rows[i].status /\ more[i].request = q
    BY ONLY <2>2, WithRequest
  <2>4. QED
    BY <2>1, <2>3
<1>10. ASSUME NEW i \in C
       PROVE  /\ more[i] \in CommissionRow /\ more[i].sale = rows[i].sale
              /\ more[i].amount = m
              /\ more[i].status = "available" /\ more[i].request = q
  <2>1. i \in DOMAIN rows /\ i \notin W /\ rows[i].status = "available"
    BY <1>4, <1>5, <1>6
  <2> DEFINE l == [rows[i] EXCEPT !.request = q]
  <2>2. more[i] = [l EXCEPT !.amount = m] /\ rows[i] \in CommissionRow
    BY <1>7, <2>1, RowsAmounted
  <2>3. l = [rows[i] EXCEPT !.request = q] /\ q \in Nat /\ m \in Nat
    BY <1>6
  <2> HIDE DEF l
  <2>4. /\ l \in CommissionRow /\ l.sale = rows[i].sale
        /\ l.status = rows[i].status /\ l.request = q
    BY ONLY <2>2, <2>3, WithRequest
  <2>5. /\ more[i] \in CommissionRow /\ more[i].sale = l.sale
        /\ more[i].amount = m /\ more[i].status = l.status /\ more[i].request = l.request
    <3>1. l \in CommissionRow /\ m \in Nat /\ more[i] = [l EXCEPT !.amount = m]
      BY <2>2, <2>3, <2>4
    <3>2. QED
      BY ONLY <3>1, WithAmount
  <2>6. QED
    BY <2>1, <2>4, <2>5
<1>11. \A i \in DOMAIN rows \ (W \cup C) : more[i] = rows[i]
  BY <1>7
<1>12. \/ C = {} /\ m = 0 /\ DOMAIN more = DOMAIN rows
       \/ \E c \in DOMAIN rows : \E n \in DOMAIN more \ DOMAIN rows :
              /\ C = {c} /\ DOMAIN more = DOMAIN rows \cup {n}
              /\ more[n] \in CommissionRow /\ more[n].sale = rows[c].sale
              /\ more[n].amount = rows[c].amount - m
              /\ more[n].status = "available" /\ more[n].request = 0
  <2>1. CASE C = {} /\ m = 0 /\ Len(more) = Len(rows)
    BY <1>1, <1>6, <2>1
  <2>2. ASSUME NEW c \in DOMAIN rows, C = {c}, Len(more) = Len(rows) + 1, rows[c].amount > m,
               more[Len(rows) + 1] = [rows[c] EXCEPT !.amount = @ - m]
        PROVE  \E n \in DOMAIN more \ DOMAIN rows :
                  /\ C = {c} /\ DOMAIN more = DOMAIN rows \cup {n}
                  /\ more[n] \in CommissionRow /\ more[n].sale = rows[c].sale
                  /\ more[n].amount = rows[c].amount - m
                  /\ more[n].status = "available" /\ more[n].request = 0
    <3> DEFINE n == Len(rows) + 1
    <3>1. n \in DOMAIN more \ DOMAIN rows /\ DOMAIN more = DOMAIN rows \cup {n}
      <4>1. Len(rows) \in Nat /\ DOMAIN rows = 1 .. Len(rows) /\ DOMAIN more = 1 .. Len(rows) + 1
        BY <1>1, <1>6, <2>2
      <4>2. QED
        BY ONLY <4>1
    <3>2. rows[c] \in CommissionRow /\ rows[c].amount \in Nat /\ rows[c].amount - m \in Nat
      <4>1. rows[c] \in CommissionRow /\ rows[c].amount \in Nat
        BY RowsAmounted
      <4>2. QED
        BY <1>6, <2>2, <4>1
    <3>3. rows[c].status = "available" /\ rows[c].request = 0
      BY <1>4, <1>5, <2>2
    <3>4. /\ more[n] \in CommissionRow /\ more[n].sale = rows[c].sale
          /\ more[n].amount = rows[c].amount - m
          /\ more[n].status = rows[c].status /\ more[n].request = rows[c].request
      <4>1. more[n] = [rows[c] EXCEPT !.amount = rows[c].amount - m]
        BY <2>2, <3>2 DEF CommissionRow
      <4> HIDE DEF n
      <4>2. QED
        BY ONLY <3>2, <4>1, WithAmount
    <3> HIDE DEF n
    <3>5. QED
      BY <2>2, <3>1, <3>3, <3>4
  <2>3. QED
    BY <1>8, <2>1, <2>2
<1>13. more \in Seq(CommissionRow)
  <2>1. \A i \in DOMAIN more : more[i] \in CommissionRow
    <3> SUFFICES ASSUME NEW i \in DOMAIN more
                 PROVE  more[i] \in CommissionRow
      OBVIOUS
    <3>1. CASE i \in DOMAIN rows \ (W \cup C)
      BY <1>11, <3>1, RowsAmounted
    <3>2. CASE i \notin DOMAIN rows
      BY <1>12, <3>2
    <3>3. QED
      BY <1>9, <1>10, <3>1, <3>2
  <2>2. more = [i \in 1 .. Len(more) |-> more[i]]
    BY <1>4 DEF Split
  <2>3. QED
    BY ONLY <1>6, <2>1, <2>2
<1>14. Amounted(more)
  BY <1>13, RowsAmounted
<1>15. DOMAIN rows \subseteq DOMAIN more /\ SplitAmounts(rows, more, C, m)
  BY <1>9, <1>10, <1>11, <1>12 DEF SplitAmounts
<1>16. /\ Amounted(rows) /\ Amounted(more) /\ m \in Int /\ SplitAmounts(rows, more, C, m)
       /\ W \in SUBSET DOMAIN rows /\ W \cap C = {}
  BY <1>1, <1>6, <1>14, <1>15
<1>17. \A i \in W \cup C : rows[i].status = "available" /\ rows[i].request = 0
  BY <1>4, <1>5
<1>18. \A i \in DOMAIN rows : more[i].sale = rows[i].sale
  BY <1>9, <1>10, <1>11
<1>19. \A i \in DOMAIN more :
           \/ more[i].request = q /\ more[i].status = "available"
           \/ i \in DOMAIN rows /\ more[i] = rows[i]
           \/ more[i].request = 0 /\ more[i].status = "available"
  BY <1>9, <1>10, <1>11, <1>12
<1>20. ASSUME NEW r
       PROVE  SumOf(more, Rated(more, r)) = SumOf(rows, Rated(rows, r))
  <2> DEFINE S == Rated(rows, r)
             T == Rated(more, r)
  <2>1. S \in SUBSET DOMAIN rows /\ T \in SUBSET DOMAIN more
    BY DEF Rated
  <2>2. T \cap DOMAIN rows = S
    <3>1. \A i \in DOMAIN rows : /\ more[i].sale = rows[i].sale
                                 /\ more[i].status = rows[i].status
      BY <1>9, <1>10, <1>11, <1>17
    <3>2. QED
      BY <1>15, <3>1 DEF Rated
  <2>3. ASSUME NEW n \in DOMAIN more \ DOMAIN rows
        PROVE  n \in T <=> C \subseteq S
    <3>1. PICK c \in DOMAIN rows : C = {c} /\ more[n].sale = rows[c].sale /\ more[n].status = "available"
      BY <1>12, <2>3
    <3>2. rows[c].status = "available"
      BY <1>17, <3>1
    <3>3. QED
      BY <2>3, <3>1, <3>2 DEF Rated
  <2> HIDE DEF S, T
  <2>4. SumOf(more, T) = SumOf(rows, S)
    BY ONLY <1>16, <2>1, <2>2, <2>3, SplitKeepsSum
  <2>5. QED
    BY <2>4 DEF S, T
<1>21. SumOf(more, RowsFor(more, q)) = a
  <2>1. SumOf(more, W \cup C) = SumOf(rows, W) + m
    BY ONLY <1>16, SplitTakes
  <2>2. RowsFor(more, q) = W \cup C
    <3>1. W \cup C \subseteq RowsFor(more, q)
      BY <1>6, <1>9, <1>10, <1>15 DEF RowsFor
    <3>2. ASSUME NEW i \in RowsFor(more, q), i \notin W \cup C
          PROVE  FALSE
      <4>1. i \in DOMAIN more /\ more[i].request = q
        BY <3>2 DEF RowsFor
      <4>2. CASE i \in DOMAIN rows
        BY <1>11, <3>2, <4>1, <4>2
      <4>3. CASE i \notin DOMAIN rows
        BY <1>12, <4>1, <4>3
      <4>4. QED
        BY <4>2, <4>3
    <3>3. QED
      BY <3>1, <3>2
  <2>3. QED
    BY <1>4, <2>1, <2>2
<1>22. ASSUME NEW n \in Nat \ {0, q}
       PROVE  SumOf(more, RowsFor(more, n)) = SumOf(rows, RowsFor(rows, n))
  <2>1. \A i \in DOMAIN rows : /\ more[i].request = n <=> rows[i].request = n
                               /\ rows[i].request = n => more[i].amount = rows[i].amount
    BY <1>9, <1>10, <1>11, <1>17
  <2>2. \A i \in DOMAIN more \ DOMAIN rows : more[i].request # n
    BY <1>12
  <2>3. QED
    BY ONLY <1>15, <1>16, <2>1, <2>2, RequestStays
<1>23. QED
  BY <1>13, <1>15, <1>18, <1>19, <1>20, <1>21, <1>22 DEF SplitFor

(* What the steps keep of the commissions.                                 *)

LEMMA CommissionFacts ==
    ASSUME CommissionInv
    PROVE  /\ commissions \in Seq(CommissionRow) /\ Amounted(commissions)
           /\ Len(commissions) \in Nat /\ DOMAIN commissions = 1 .. Len(commissions)
           /\ withdraws \in Seq([amount: Nat, status: WithdrawStatus])
           /\ Len(withdraws) \in Nat /\ DOMAIN withdraws = 1 .. Len(withdraws)
           /\ overwritten \in Seq(Nat) /\ DOMAIN overwritten = DOMAIN withdraws
           /\ \A q \in DOMAIN withdraws : q \in Nat \ {0} /\ overwritten[q] \in Nat
           /\ \A i \in DOMAIN commissions :
                  commissions[i].request = 0 \/ commissions[i].request \in DOMAIN withdraws
<1>1. commissions \in Seq(CommissionRow)
  BY DEF CommissionInv, CommissionsTyped
<1>2. withdraws \in Seq([amount: Nat, status: WithdrawStatus])
  BY DEF CommissionInv, CommissionsTyped
<1>3. Len(withdraws) \in Nat /\ DOMAIN withdraws = 1 .. Len(withdraws)
  BY <1>2
<1>4. overwritten \in Seq(Nat) /\ Len(overwritten) = Len(withdraws)
  BY DEF CommissionInv, CommissionsTyped
<1>5. DOMAIN overwritten = DOMAIN withdraws /\ \A q \in DOMAIN withdraws : overwritten[q] \in Nat
  BY <1>3, <1>4
<1>6. \A q \in DOMAIN withdraws : q \in Nat \ {0}
  BY <1>3
<1>7. \A i \in DOMAIN commissions :
          commissions[i].request = 0 \/ commissions[i].request \in DOMAIN withdraws
  BY DEF CommissionInv, BoundStand
<1>8. QED
  BY <1>1, <1>2, <1>3, <1>4, <1>5, <1>6, <1>7, RowsAmounted

\* Rows that a cancellation has read stay rows of their sale.
LEMMA CancelingStays ==
    ASSUME CommissionsTyped, canceling' \subseteq canceling,
           DOMAIN commissions \subseteq DOMAIN commissions',
           \A i \in DOMAIN commissions : commissions'[i].sale = commissions[i].sale
    PROVE  \A c \in canceling' :
               /\ c.id \in DOMAIN commissions'
               /\ c.row \in CommissionRow /\ c.row.request = 0
               /\ c.row.sale = commissions'[c.id].sale
BY DEF CommissionsTyped

\* No row of a sale is worth more, and none comes back.
LEMMA RateStays ==
    ASSUME IInv, CommissionInv, UNCHANGED terms, NEW more \in Seq(CommissionRow),
           DOMAIN more = DOMAIN commissions,
           \A i \in DOMAIN commissions : more[i].status # "rejected" =>
               /\ commissions[i].status # "rejected" /\ more[i].sale = commissions[i].sale
               /\ more[i].amount <= commissions[i].amount
    PROVE  \A r \in Sales : SumOf(more, Rated(more, r)) <= terms'[r].commission
<1> SUFFICES ASSUME NEW r \in Sales
             PROVE  SumOf(more, Rated(more, r)) <= terms'[r].commission
  OBVIOUS
<1>1. SumOf(more, Rated(more, r)) <= SumOf(commissions, Rated(commissions, r))
  <2>1. commissions \in Seq(CommissionRow)
    BY CommissionFacts
  <2>2. QED
    BY <2>1, RatedLess
<1>2. SumOf(commissions, Rated(commissions, r)) <= terms[r].commission
  BY DEF CommissionInv, CommissionWithinRate, Rated
<1>3. /\ SumOf(more, Rated(more, r)) \in Int /\ SumOf(commissions, Rated(commissions, r)) \in Int
      /\ terms[r].commission \in Int
  <2>1. Rated(more, r) \in SUBSET DOMAIN more /\ Amounted(more)
    BY RowsAmounted DEF Rated
  <2>2. Rated(commissions, r) \in SUBSET DOMAIN commissions /\ Amounted(commissions)
    BY CommissionFacts DEF Rated
  <2>3. SumOf(more, Rated(more, r)) \in Int
    BY <2>1, AmountFacts
  <2>4. SumOf(commissions, Rated(commissions, r)) \in Int
    BY <2>2, AmountFacts
  <2>5. QED
    BY <2>3, <2>4, SaleFacts
<1> HIDE DEF IInv
<1>4. QED
  BY <1>1, <1>2, <1>3

LEMMA RateIs ==
    ASSUME \A r \in Sales : SumOf(commissions', Rated(commissions', r)) <= terms'[r].commission
    PROVE  CommissionWithinRate'
BY DEF CommissionWithinRate, Rated

LEMMA RequestIs ==
    /\ \A q : BoundTo(q) = RowsFor(commissions, q) /\ Withdrawn(q) = SumOf(commissions, RowsFor(commissions, q))
    /\ \A q : BoundTo(q)' = RowsFor(commissions', q) /\ Withdrawn(q)' = SumOf(commissions', RowsFor(commissions', q))
BY DEF BoundTo, Withdrawn, RowsFor

\* A step that changes no row of a request.
LEMMA BackedStays ==
    ASSUME CommissionInv, UNCHANGED <<withdraws, overwritten>>, commissions' \in Seq(CommissionRow),
           DOMAIN commissions \subseteq DOMAIN commissions',
           \A i \in DOMAIN commissions :
               /\ commissions'[i].request = commissions[i].request
               /\ commissions[i].request # 0 => commissions'[i] = commissions[i],
           \A i \in DOMAIN commissions' \ DOMAIN commissions : commissions'[i].request = 0
    PROVE  CommissionsBacked' /\ BoundStand(commissions)'
<1>1. Amounted(commissions) /\ Amounted(commissions') /\ \A q \in DOMAIN withdraws : q # 0
  BY CommissionFacts, RowsAmounted
<1>2. \A q \in DOMAIN withdraws :
          /\ SumOf(commissions', RowsFor(commissions', q)) = SumOf(commissions, RowsFor(commissions, q))
          /\ RowsFor(commissions', q) = RowsFor(commissions, q)
  <2> SUFFICES ASSUME NEW q \in DOMAIN withdraws
               PROVE  /\ SumOf(commissions', RowsFor(commissions', q))
                           = SumOf(commissions, RowsFor(commissions, q))
                      /\ RowsFor(commissions', q) = RowsFor(commissions, q)
    OBVIOUS
  <2>1. \A i \in DOMAIN commissions :
            /\ commissions'[i].request = q <=> commissions[i].request = q
            /\ commissions[i].request = q => commissions'[i].amount = commissions[i].amount
    BY <1>1
  <2>2. \A i \in DOMAIN commissions' \ DOMAIN commissions : commissions'[i].request # q
    BY <1>1
  <2>3. SumOf(commissions', RowsFor(commissions', q)) = SumOf(commissions, RowsFor(commissions, q))
    <3>1. Amounted(commissions) /\ Amounted(commissions') /\ DOMAIN commissions \subseteq DOMAIN commissions'
      BY <1>1
    <3>2. QED
      BY ONLY <2>1, <2>2, <3>1, RequestStays
  <2>4. QED
    BY <2>1, <2>2, <2>3 DEF RowsFor
<1>3. CommissionsBacked'
  BY <1>2, RequestIs DEF CommissionInv, CommissionsBacked
<1>4. BoundStand(commissions)'
  BY DEF CommissionInv, BoundStand
<1>5. QED
  BY <1>3, <1>4

LEMMA CommissionsUntouched ==
    ASSUME CommissionInv, UNCHANGED <<terms, commissions, withdraws, overwritten>>,
           canceling' \subseteq canceling
    PROVE  CommissionInv'
<1>1. CommissionsTyped'
  BY CancelingStays DEF CommissionInv, CommissionsTyped
<1>2. QED
  BY <1>1 DEF CommissionInv, BoundStand, CommissionsBacked, BoundTo, Withdrawn, CommissionWithinRate

\* A step in place.
LEMMA CommissionsInPlace ==
    ASSUME IInv, CommissionInv, UNCHANGED <<terms, withdraws, overwritten, canceling>>,
           commissions' = [i \in DOMAIN commissions |-> commissions'[i]],
           \A i \in DOMAIN commissions :
               /\ commissions'[i] \in CommissionRow
               /\ commissions'[i].sale = commissions[i].sale
               /\ commissions'[i].request = commissions[i].request
               /\ commissions[i].request # 0 => commissions'[i] = commissions[i]
               /\ commissions'[i].status # "rejected" =>
                      /\ commissions[i].status # "rejected"
                      /\ commissions'[i].amount <= commissions[i].amount
    PROVE  CommissionInv'
<1>1. DOMAIN commissions' = DOMAIN commissions /\ commissions \in Seq(CommissionRow)
  BY CommissionFacts
<1>2. commissions' \in Seq(CommissionRow)
  BY <1>1, RowsChanged
<1>3. CommissionsTyped'
  BY <1>1, <1>2, CancelingStays DEF CommissionInv, CommissionsTyped
<1>4. CommissionsBacked' /\ BoundStand(commissions)'
  BY <1>1, <1>2, BackedStays
<1>5. CommissionWithinRate'
  BY <1>1, <1>2, RateStays, RateIs
<1>6. QED
  BY <1>3, <1>4, <1>5 DEF CommissionInv

LEMMA HookKeepsCommissions ==
    ASSUME IInv, CommissionInv, NEW r \in Sales, UNCHANGED terms,
           HandleOrderPaid(r, terms[r].commission)
    PROVE  CommissionInv'
<1> DEFINE x == terms[r].commission
           n == Len(commissions) + 1
<1>1. UNCHANGED <<withdraws, overwritten, canceling>> /\ x \in Nat
  BY SaleFacts DEF HandleOrderPaid
<1>2. CASE commissions' = commissions
  BY <1>1, <1>2, CommissionsUntouched
<1>3. ASSUME NEW s \in {"pending_confirm", "available"}, commissions' = Append(commissions, Commission(r, x, s)),
             x > 0, \A i \in DOMAIN commissions : commissions[i].sale # r
      PROVE  CommissionInv'
  <2> DEFINE row == Commission(r, x, s)
  <2>1. /\ row \in CommissionRow /\ row.sale = r /\ row.amount = x /\ row.status = s /\ row.request = 0
    BY <1>1 DEF Commission, CommissionRow, CommissionStatus
  <2>2. commissions \in Seq(CommissionRow) /\ Len(commissions) \in Nat
        /\ DOMAIN commissions = 1 .. Len(commissions)
    BY CommissionFacts
  <2>3. commissions' = Append(commissions, row)
    BY <1>3
  <2> HIDE DEF row, x
  <2>4. /\ commissions' \in Seq(CommissionRow) /\ n \notin DOMAIN commissions
        /\ DOMAIN commissions' = DOMAIN commissions \cup {n}
        /\ commissions'[n] = row
        /\ \A i \in DOMAIN commissions : commissions'[i] = commissions[i]
    BY <2>1, <2>2, <2>3
  <2> HIDE DEF n
  <2>5. CommissionsTyped'
    <3>1. UNCHANGED <<withdraws, overwritten, canceling>>
      BY <1>1
    <3>2. CommissionsTyped
      BY DEF CommissionInv
    <3>3. \A c \in canceling' :
              /\ c.id \in DOMAIN commissions'
              /\ c.row \in CommissionRow /\ c.row.request = 0
              /\ c.row.sale = commissions'[c.id].sale
      BY <2>4, <3>1, <3>2, CancelingStays
    <3>4. QED
      BY <2>4, <3>1, <3>2, <3>3 DEF CommissionsTyped
  <2>6. CommissionsBacked' /\ BoundStand(commissions)'
    BY <1>1, <2>1, <2>4, BackedStays
  <2>7. \A q \in Sales : SumOf(commissions', Rated(commissions', q)) <= terms'[q].commission
    <3> SUFFICES ASSUME NEW q \in Sales
                 PROVE  SumOf(commissions', Rated(commissions', q)) <= terms[q].commission
      OBVIOUS
    <3>1. Amounted(commissions) /\ Amounted(commissions')
      BY <2>2, <2>4, RowsAmounted
    <3>2. CASE q = r
      <4>1. Rated(commissions', q) = {n}
        BY <1>3, <2>1, <2>4, <3>2 DEF Rated
      <4>2. SumOf(commissions', {n}) = x
        BY <2>1, <2>4, <3>1, SumOfOne
      <4>3. QED
        BY <1>1, <3>2, <4>1, <4>2 DEF x
    <3>3. CASE q # r
      <4> DEFINE S == Rated(commissions, q)
      <4>1. Rated(commissions', q) = S
        BY <2>1, <2>4, <3>3 DEF Rated
      <4>2. S \in SUBSET DOMAIN commissions /\ S \subseteq DOMAIN commissions'
            /\ \A i \in S : commissions'[i].amount = commissions[i].amount
        BY <2>4 DEF Rated
      <4> HIDE DEF S
      <4>3. SumOf(commissions', S) = SumOf(commissions, S)
        BY <3>1, <4>2, SumOfSame
      <4>4. QED
        BY <4>1, <4>3 DEF S, Rated, CommissionInv, CommissionWithinRate
    <3>4. QED
      BY <3>2, <3>3
  <2>8. QED
    BY <2>5, <2>6, <2>7, RateIs DEF CommissionInv
<1>4. x <= 0 \/ x > 0
  BY <1>1
<1>5. QED
  BY <1>2, <1>3, <1>4 DEF HandleOrderPaid

\* What the confirmation makes of the rows.
LEMMA ConfirmedRows ==
    ASSUME CommissionInv, NEW matured, NEW rows, rows = Confirmed(matured)
    PROVE  /\ rows \in Seq(CommissionRow) /\ DOMAIN rows = DOMAIN commissions
           /\ rows = [i \in DOMAIN commissions |-> rows[i]]
           /\ \A i \in DOMAIN commissions :
                  /\ rows[i] \in CommissionRow
                  /\ rows[i].sale = commissions[i].sale /\ rows[i].amount = commissions[i].amount
                  /\ rows[i].request = commissions[i].request
                  /\ commissions[i].request # 0 => rows[i] = commissions[i]
                  /\ rows[i].status # "rejected" => commissions[i].status # "rejected"
<1>1. /\ DOMAIN rows = DOMAIN commissions /\ rows = [i \in DOMAIN commissions |-> rows[i]]
      /\ \A i \in DOMAIN commissions :
             \/ rows[i] = commissions[i]
             \/ /\ rows[i] = [commissions[i] EXCEPT !.status = "available"]
                /\ commissions[i].status = "pending_confirm" /\ commissions[i].request = 0
  BY DEF Confirmed
<1>2. ASSUME NEW i \in DOMAIN commissions
      PROVE  /\ rows[i] \in CommissionRow
             /\ rows[i].sale = commissions[i].sale /\ rows[i].amount = commissions[i].amount
             /\ rows[i].request = commissions[i].request
             /\ commissions[i].request # 0 => rows[i] = commissions[i]
             /\ rows[i].status # "rejected" => commissions[i].status # "rejected"
  <2>1. commissions[i] \in CommissionRow
    BY CommissionFacts, RowsAmounted
  <2>2. CASE rows[i] = commissions[i]
    BY <2>1, <2>2
  <2>3. CASE /\ rows[i] = [commissions[i] EXCEPT !.status = "available"]
             /\ commissions[i].status = "pending_confirm" /\ commissions[i].request = 0
    <3>1. rows[i] = [commissions[i] EXCEPT !.status = "available"] /\ "available" \in CommissionStatus
      BY <2>3 DEF CommissionStatus
    <3>2. /\ rows[i].sale = commissions[i].sale /\ rows[i].amount = commissions[i].amount
          /\ rows[i].request = commissions[i].request /\ rows[i] \in CommissionRow
      BY ONLY <2>1, <3>1, WithStatus
    <3>3. QED
      BY <2>3, <3>2
  <2>4. QED
    BY <1>1, <2>2, <2>3
<1>3. rows \in Seq(CommissionRow)
  <2>1. commissions \in Seq(CommissionRow)
    BY CommissionFacts
  <2>2. QED
    BY <1>1, <1>2, <2>1, RowsChanged
<1>4. QED
  BY <1>1, <1>2, <1>3

LEMMA ConfirmKeepsCommissions ==
    ASSUME IInv, CommissionInv, UNCHANGED terms, ConfirmDueCommissions(due)
    PROVE  CommissionInv'
<1>1. commissions' = Confirmed(due) /\ UNCHANGED <<withdraws, overwritten, canceling>>
  BY DEF ConfirmDueCommissions
<1>2. commissions' = [i \in DOMAIN commissions |-> commissions'[i]]
  BY <1>1, ConfirmedRows
<1>3. ASSUME NEW i \in DOMAIN commissions
      PROVE  /\ commissions'[i] \in CommissionRow
             /\ commissions'[i].sale = commissions[i].sale
             /\ commissions'[i].request = commissions[i].request
             /\ commissions[i].request # 0 => commissions'[i] = commissions[i]
             /\ commissions'[i].status # "rejected" =>
                    /\ commissions[i].status # "rejected"
                    /\ commissions'[i].amount <= commissions[i].amount
  <2>1. commissions[i].amount \in Nat
    BY CommissionFacts, RowsAmounted
  <2>2. QED
    BY <1>1, <2>1, ConfirmedRows
<1>4. QED
  BY <1>1, <1>2, <1>3, CommissionsInPlace

\* What a refund makes of a row it may change.
AfterShare(row, a, t) ==
    LET left == row.amount - Share(row.amount, a, t)
    IN  IF left <= 0
          THEN [row EXCEPT !.amount = 0, !.status = "rejected"]
          ELSE [row EXCEPT !.amount = left]

LEMMA RefundedRow ==
    ASSUME NEW row \in CommissionRow, NEW a \in Nat, NEW t \in Nat \ {0}, NEW l, l = AfterShare(row, a, t)
    PROVE  /\ l \in CommissionRow /\ l.sale = row.sale /\ l.request = row.request
           /\ l.status # "rejected" => l.status = row.status /\ l.amount <= row.amount
<1> DEFINE left == row.amount - Share(row.amount, a, t)
<1>1. row.amount \in Nat
  BY DEF CommissionRow
<1>2. left \in Int /\ left <= row.amount
  <2>1. Share(row.amount, a, t) \in Nat
    BY <1>1, ShareNat
  <2>2. QED
    BY <1>1, <2>1
<1>3. l = IF left <= 0 THEN [row EXCEPT !.amount = 0, !.status = "rejected"]
                       ELSE [row EXCEPT !.amount = left]
  BY DEF AfterShare
<1> HIDE DEF left
<1>4. CASE left <= 0
  <2>1. l = [row EXCEPT !.amount = 0, !.status = "rejected"]
    BY <1>3, <1>4
  <2>2. /\ l.sale = row.sale /\ l.request = row.request
        /\ l.amount = 0 /\ l.status = "rejected" /\ l \in CommissionRow
    BY ONLY row \in CommissionRow, <2>1 DEF CommissionRow, CommissionStatus
  <2>3. QED
    BY <2>2
<1>5. CASE ~(left <= 0)
  <2>1. l = [row EXCEPT !.amount = left]
    BY <1>3, <1>5
  <2>2. left \in Nat
    BY <1>2, <1>5
  <2>3. /\ l.sale = row.sale /\ l.amount = left /\ l.status = row.status /\ l.request = row.request
        /\ l \in CommissionRow
    BY ONLY row \in CommissionRow, <2>1, <2>2, WithAmount
  <2>4. QED
    BY <1>2, <2>3
<1>6. QED
  BY <1>4, <1>5

LEMMA RefundKeepsCommissions ==
    ASSUME MoneyInv, CommissionInv, UNCHANGED terms, NEW r \in Sales, NEW a \in Nat,
           HandleOrderRefunded(r, Total[r], refunded[r], a)
    PROVE  CommissionInv'
<1> DEFINE changed(i) == i \in Open(r) /\ refunded[r] < Total[r]
           new(row) == AfterShare(row, a, Total[r] - refunded[r])
<1>1. commissions' = [i \in DOMAIN commissions |->
                         IF changed(i) THEN new(commissions[i]) ELSE commissions[i]]
  BY DEF HandleOrderRefunded, AfterShare
<1>2. UNCHANGED <<withdraws, overwritten, canceling>>
  BY DEF HandleOrderRefunded
<1>3. Total[r] \in Nat /\ refunded[r] \in Nat
  BY SaleFacts DEF MoneyInv, RefundsFit
<1>4. ASSUME NEW i \in DOMAIN commissions
      PROVE  /\ commissions'[i] \in CommissionRow
             /\ commissions'[i].sale = commissions[i].sale
             /\ commissions'[i].request = commissions[i].request
             /\ commissions[i].request # 0 => commissions'[i] = commissions[i]
             /\ commissions'[i].status # "rejected" =>
                    /\ commissions[i].status # "rejected"
                    /\ commissions'[i].amount <= commissions[i].amount
  <2>1. commissions[i] \in CommissionRow /\ commissions[i].amount \in Nat
    BY CommissionFacts, RowsAmounted
  <2>2. CASE changed(i)
    <3>1. Total[r] - refunded[r] \in Nat \ {0}
      BY <1>3, <2>2
    <3>2. commissions'[i] = new(commissions[i])
      BY <1>1, <2>2
    <3>3. /\ commissions'[i] \in CommissionRow
          /\ commissions'[i].sale = commissions[i].sale
          /\ commissions'[i].request = commissions[i].request
          /\ commissions'[i].status # "rejected" =>
                 /\ commissions'[i].status = commissions[i].status
                 /\ commissions'[i].amount <= commissions[i].amount
      BY <2>1, <3>1, <3>2, RefundedRow
    <3>4. commissions[i].request = 0
      BY <2>2 DEF Open
    <3>5. QED
      BY <3>3, <3>4
  <2>3. CASE ~changed(i)
    <3>1. commissions'[i] = commissions[i]
      BY <1>1, <2>3
    <3>2. QED
      BY <2>1, <3>1
  <2>4. QED
    BY <2>2, <2>3
<1>5. commissions' = [i \in DOMAIN commissions |-> commissions'[i]]
  BY <1>1
<1> HIDE DEF changed, new
<1>6. QED
  BY <1>2, <1>4, <1>5, CommissionsInPlace DEF MoneyInv

LEMMA CancelReadsKeeps ==
    ASSUME CommissionInv, UNCHANGED terms, NEW r, CancelReads(r)
    PROVE  CommissionInv'
<1>1. UNCHANGED <<commissions, withdraws, overwritten>>
      /\ canceling' = canceling \cup {[id |-> i, row |-> commissions[i]] : i \in Open(r)}
  BY DEF CancelReads
<1>2. \A c \in canceling' :
          /\ c.id \in DOMAIN commissions
          /\ c.row \in CommissionRow /\ c.row.request = 0
          /\ c.row.sale = commissions[c.id].sale
  <2> SUFFICES ASSUME NEW c \in canceling'
               PROVE  /\ c.id \in DOMAIN commissions
                      /\ c.row \in CommissionRow /\ c.row.request = 0
                      /\ c.row.sale = commissions[c.id].sale
    OBVIOUS
  <2>1. CASE c \in canceling
    BY <2>1 DEF CommissionInv, CommissionsTyped
  <2>2. CASE c \notin canceling
    <3>1. PICK i \in Open(r) : c = [id |-> i, row |-> commissions[i]]
      BY <1>1, <2>2
    <3>2. i \in DOMAIN commissions /\ commissions[i].request = 0
      BY DEF Open
    <3>3. commissions[i] \in CommissionRow
      BY <3>2, CommissionFacts, RowsAmounted
    <3>4. QED
      BY <3>1, <3>2, <3>3
  <2>3. QED
    BY <2>1, <2>2
<1>3. CommissionsTyped'
  BY <1>1, <1>2 DEF CommissionInv, CommissionsTyped
<1>4. QED
  BY <1>1, <1>3 DEF CommissionInv, BoundStand, CommissionsBacked, BoundTo, Withdrawn, CommissionWithinRate

\* A save leaves one row rejected, and what the row was worth to a request is
\* what the save has taken from it.
LEMMA SaveKeepsCommissions ==
    ASSUME IInv, CommissionInv, UNCHANGED terms, NEW c, CancelSaves(c)
    PROVE  CommissionInv'
<1> DEFINE n == c.id
           row == [c.row EXCEPT !.status = "rejected"]
           q0 == commissions[n].request
<1>1. /\ c \in canceling /\ canceling' = canceling \ {c} /\ UNCHANGED withdraws
      /\ commissions' = [commissions EXCEPT ![n] = row]
      /\ overwritten' = IF q0 \in DOMAIN overwritten
                          THEN [overwritten EXCEPT ![q0] = overwritten[q0] + commissions[n].amount]
                          ELSE overwritten
  BY DEF CancelSaves
<1>2. /\ n \in DOMAIN commissions /\ c.row \in CommissionRow /\ c.row.request = 0
      /\ c.row.sale = commissions[n].sale
  BY <1>1 DEF CommissionInv, CommissionsTyped
<1>3. /\ row \in CommissionRow /\ row.sale = commissions[n].sale /\ row.status = "rejected"
      /\ row.request = 0
  <2>1. "rejected" \in CommissionStatus /\ row = [c.row EXCEPT !.status = "rejected"]
    BY DEF CommissionStatus
  <2> HIDE DEF row
  <2>2. /\ row \in CommissionRow /\ row.sale = c.row.sale /\ row.status = "rejected"
        /\ row.request = c.row.request
    <3> DEFINE e == c.row
    <3>1. e \in CommissionRow /\ row = [e EXCEPT !.status = "rejected"] /\ "rejected" \in CommissionStatus
      BY <1>2, <2>1
    <3> HIDE DEF e
    <3>2. row.sale = e.sale /\ row.status = "rejected" /\ row.request = e.request /\ row \in CommissionRow
      BY ONLY <3>1, WithStatus
    <3>3. QED
      BY <3>2 DEF e
  <2>3. QED
    BY <1>2, <2>2
<1>4. commissions \in Seq(CommissionRow) /\ Amounted(commissions)
      /\ commissions[n].amount \in Nat
  BY <1>2, CommissionFacts, RowsAmounted
<1> HIDE DEF n, row, q0
<1>5. /\ DOMAIN commissions' = DOMAIN commissions
      /\ commissions' = [i \in DOMAIN commissions |-> commissions'[i]]
      /\ commissions'[n] = row
      /\ \A i \in DOMAIN commissions \ {n} : commissions'[i] = commissions[i]
  BY <1>1, <1>2, <1>4
<1>6. \A i \in DOMAIN commissions : commissions'[i] \in CommissionRow
  BY <1>3, <1>4, <1>5, RowsAmounted
<1>7. commissions' \in Seq(CommissionRow)
  BY <1>4, <1>5, <1>6, RowsChanged
<1>8. Amounted(commissions')
  BY <1>7, RowsAmounted
<1>9. overwritten' \in Seq(Nat) /\ Len(overwritten') = Len(overwritten)
      /\ \A q \in DOMAIN withdraws :
             overwritten'[q] = IF q = q0 THEN overwritten[q] + commissions[n].amount ELSE overwritten[q]
  <2>1. overwritten \in Seq(Nat) /\ DOMAIN overwritten = DOMAIN withdraws
        /\ \A q \in DOMAIN withdraws : overwritten[q] \in Nat
    BY CommissionFacts
  <2>2. CASE q0 \in DOMAIN overwritten
    <3>1. overwritten' = [overwritten EXCEPT ![q0] = overwritten[q0] + commissions[n].amount]
      BY <1>1, <2>2
    <3>2. overwritten[q0] + commissions[n].amount \in Nat
      BY <1>4, <2>1, <2>2
    <3>3. overwritten' \in Seq(Nat) /\ Len(overwritten') = Len(overwritten)
      BY <2>1, <2>2, <3>1, <3>2
    <3>4. QED
      BY <2>1, <2>2, <3>1, <3>3
  <2>3. CASE q0 \notin DOMAIN overwritten
    BY <1>1, <2>1, <2>3
  <2>4. QED
    BY <2>2, <2>3
<1>10. CommissionsTyped'
  <2>1. \A i \in DOMAIN commissions : commissions'[i].sale = commissions[i].sale
    BY <1>3, <1>5
  <2>2. \A d \in canceling' :
            /\ d.id \in DOMAIN commissions'
            /\ d.row \in CommissionRow /\ d.row.request = 0
            /\ d.row.sale = commissions'[d.id].sale
    BY <1>1, <1>5, <2>1, CancelingStays DEF CommissionInv
  <2>3. QED
    BY <1>1, <1>7, <1>9, <2>2 DEF CommissionInv, CommissionsTyped
<1>11. BoundStand(commissions)'
  BY <1>1, <1>3, <1>5 DEF CommissionInv, BoundStand
<1>12. CommissionsBacked'
  <2>1. ASSUME NEW q \in DOMAIN withdraws, withdraws[q].status = "rejected"
        PROVE  RowsFor(commissions', q) = {}
    <3>1. RowsFor(commissions, q) = {} /\ q # 0
      BY <2>1, RequestIs, CommissionFacts DEF CommissionInv, CommissionsBacked
    <3>2. QED
      BY <1>3, <1>5, <3>1 DEF RowsFor
  <2>2. ASSUME NEW q \in DOMAIN withdraws, withdraws[q].status # "rejected"
        PROVE  SumOf(commissions', RowsFor(commissions', q)) + overwritten'[q] = withdraws[q].amount
    <3> DEFINE S == RowsFor(commissions, q)
    <3>1. SumOf(commissions, S) + overwritten[q] = withdraws[q].amount
      BY <2>2, RequestIs DEF CommissionInv, CommissionsBacked
    <3>2. q # 0 /\ overwritten[q] \in Nat
      BY CommissionFacts
    <3>3. S \in SUBSET DOMAIN commissions
      BY DEF RowsFor
    <3>4. CASE q # q0
      <4>1. RowsFor(commissions', q) = S /\ n \notin S
        BY <1>2, <1>3, <1>5, <3>2, <3>4 DEF RowsFor, q0
      <4>2. S \subseteq DOMAIN commissions' /\ \A i \in S : commissions'[i].amount = commissions[i].amount
        BY <1>5, <3>3, <4>1
      <4> HIDE DEF S
      <4>3. SumOf(commissions', S) = SumOf(commissions, S)
        BY <1>4, <1>8, <3>3, <4>2, SumOfSame
      <4>4. QED
        BY <1>9, <3>1, <3>4, <4>1, <4>3
    <3>5. CASE q = q0
      <4> DEFINE R == S \ {n}
      <4>1. RowsFor(commissions', q) = R /\ n \in S
        BY <1>2, <1>3, <1>5, <3>2, <3>5 DEF RowsFor, q0
      <4>2. /\ S = R \cup {n} /\ R \in SUBSET DOMAIN commissions /\ n \in DOMAIN commissions \ R
            /\ R \subseteq DOMAIN commissions'
            /\ \A i \in R : commissions'[i].amount = commissions[i].amount
        BY <1>2, <1>5, <3>3, <4>1
      <4> HIDE DEF S, R
      <4>3. SumOf(commissions', R) = SumOf(commissions, R) /\ SumOf(commissions, R) \in Int
        <5>1. SumOf(commissions', R) = SumOf(commissions, R)
          BY <1>4, <1>8, <4>2, SumOfSame
        <5>2. SumOf(commissions, R) \in Int
          BY <1>4, <4>2, AmountFacts
        <5>3. QED
          BY <5>1, <5>2
      <4>4. SumOf(commissions, R \cup {n}) = SumOf(commissions, R) + commissions[n].amount
        BY <1>4, <4>2, SumOfAdd
      <4>5. overwritten'[q] = overwritten[q] + commissions[n].amount
        BY <1>9, <3>5
      <4>6. QED
        BY <1>4, <3>1, <3>2, <4>1, <4>2, <4>3, <4>4, <4>5
    <3>6. QED
      BY <3>4, <3>5
  <2>3. QED
    BY <1>1, <2>1, <2>2, RequestIs DEF CommissionsBacked
<1>13. CommissionWithinRate'
  <2>1. \A i \in DOMAIN commissions : commissions'[i].status # "rejected" =>
            /\ commissions[i].status # "rejected" /\ commissions'[i].sale = commissions[i].sale
            /\ commissions'[i].amount <= commissions[i].amount
    <3> SUFFICES ASSUME NEW i \in DOMAIN commissions, commissions'[i].status # "rejected"
                 PROVE  /\ commissions[i].status # "rejected" /\ commissions'[i].sale = commissions[i].sale
                        /\ commissions'[i].amount <= commissions[i].amount
      OBVIOUS
    <3>1. commissions'[i] = commissions[i]
      BY <1>3, <1>5
    <3>2. commissions[i].amount \in Nat
      BY <1>4, RowsAmounted
    <3>3. QED
      BY <3>1, <3>2
  <2>2. QED
    BY <1>5, <1>7, <2>1, RateStays, RateIs
<1>14. QED
  BY <1>10, <1>11, <1>12, <1>13 DEF CommissionInv

\* A new withdrawal is backed by the rows it takes, and takes none from others.
LEMMA WithdrawKeepsCommissions ==
    ASSUME IInv, CommissionInv, UNCHANGED terms, NEW a \in Nat, ApplyCommissionWithdraw(a, due)
    PROVE  CommissionInv'
<1> DEFINE rows == Confirmed(due)
           q == Len(withdraws) + 1
           bound == [i \in DOMAIN rows |-> [rows[i] EXCEPT !.request = q]]
           asked == [amount |-> a, status |-> "pending_review"]
<1>1. /\ Covered(rows, ByIds(rows), a)
      /\ commissions' = Taken(rows, bound, ByIds(rows), a) \o Remainder(rows, ByIds(rows), a)
      /\ withdraws' = Append(withdraws, asked) /\ overwritten' = Append(overwritten, 0)
      /\ canceling' = canceling
  BY DEF ApplyCommissionWithdraw
<1>2. bound = [i \in DOMAIN rows |-> [rows[i] EXCEPT !.request = q]]
  OBVIOUS
<1> HIDE DEF rows, bound
<1>3. /\ rows \in Seq(CommissionRow) /\ DOMAIN rows = DOMAIN commissions
      /\ \A i \in DOMAIN commissions :
             /\ rows[i].sale = commissions[i].sale /\ rows[i].amount = commissions[i].amount
             /\ rows[i].request = commissions[i].request
             /\ commissions[i].request # 0 => rows[i] = commissions[i]
             /\ rows[i].status # "rejected" => commissions[i].status # "rejected"
  BY ConfirmedRows DEF rows
<1>4. /\ withdraws \in Seq([amount: Nat, status: WithdrawStatus]) /\ Len(withdraws) \in Nat
      /\ DOMAIN withdraws = 1 .. Len(withdraws) /\ overwritten \in Seq(Nat)
      /\ DOMAIN overwritten = DOMAIN withdraws
  BY CommissionFacts
<1>5. asked \in [amount: Nat, status: WithdrawStatus] /\ asked.amount = a
      /\ asked.status = "pending_review"
  BY DEF WithdrawStatus
<1> HIDE DEF asked
<1>6. /\ q \in Nat \ {0} /\ q \notin DOMAIN withdraws /\ DOMAIN withdraws' = DOMAIN withdraws \cup {q}
      /\ withdraws' \in Seq([amount: Nat, status: WithdrawStatus])
      /\ withdraws'[q] = asked /\ \A n \in DOMAIN withdraws : withdraws'[n] = withdraws[n]
      /\ Len(withdraws') = q
  BY <1>1, <1>4, <1>5
<1>7. /\ overwritten' \in Seq(Nat) /\ Len(overwritten') = q /\ overwritten'[q] = 0
      /\ \A n \in DOMAIN withdraws : overwritten'[n] = overwritten[n]
  <2>1. Len(overwritten) = Len(withdraws)
    BY DEF CommissionInv, CommissionsTyped
  <2>2. QED
    BY <1>1, <1>4, <2>1
<1> HIDE DEF q
<1>8. \A i \in DOMAIN rows : rows[i].request # q
  BY <1>3, <1>6, CommissionFacts
<1>9. /\ commissions' \in Seq(CommissionRow) /\ DOMAIN rows \subseteq DOMAIN commissions'
      /\ \A i \in DOMAIN rows : commissions'[i].sale = rows[i].sale
      /\ \A i \in DOMAIN commissions' :
             \/ commissions'[i].request = q /\ commissions'[i].status = "available"
             \/ i \in DOMAIN rows /\ commissions'[i] = rows[i]
             \/ commissions'[i].request = 0 /\ commissions'[i].status = "available"
      /\ \A r : SumOf(commissions', Rated(commissions', r)) = SumOf(rows, Rated(rows, r))
      /\ SumOf(commissions', RowsFor(commissions', q)) = a
      /\ \A n \in Nat \ {0, q} : SumOf(commissions', RowsFor(commissions', n)) = SumOf(rows, RowsFor(rows, n))
  <2>1. rows \in Seq(CommissionRow) /\ q \in Nat \ {0} /\ Covered(rows, ByIds(rows), a)
        /\ commissions' = Taken(rows, bound, ByIds(rows), a) \o Remainder(rows, ByIds(rows), a)
    BY <1>1, <1>3, <1>6
  <2>2. SplitFor(rows, commissions', q, a)
    BY ONLY a \in Nat, <1>2, <1>8, <2>1, CommissionSplit
  <2>3. QED
    BY <2>2 DEF SplitFor
<1>10. CommissionsTyped'
  <2>1. /\ DOMAIN commissions \subseteq DOMAIN commissions'
        /\ \A i \in DOMAIN commissions : commissions'[i].sale = commissions[i].sale
    BY <1>3, <1>9
  <2>2. \A c \in canceling' :
            /\ c.id \in DOMAIN commissions'
            /\ c.row \in CommissionRow /\ c.row.request = 0
            /\ c.row.sale = commissions'[c.id].sale
    BY <1>1, <2>1, CancelingStays DEF CommissionInv
  <2>3. Len(overwritten') = Len(withdraws')
    BY <1>6, <1>7
  <2>4. QED
    BY <1>6, <1>7, <1>9, <2>2, <2>3 DEF CommissionsTyped
<1>11. BoundStand(commissions)'
  <2> SUFFICES ASSUME NEW i \in DOMAIN commissions', commissions'[i].request # 0
               PROVE  /\ commissions'[i].request \in DOMAIN withdraws'
                      /\ withdraws'[commissions'[i].request].status # "rejected"
                      /\ commissions'[i].status \in {"available", "withdrawn"}
    BY DEF BoundStand
  <2>1. CASE commissions'[i].request = q /\ commissions'[i].status = "available"
    BY <1>5, <1>6, <2>1
  <2>2. CASE i \in DOMAIN rows /\ commissions'[i] = rows[i]
    <3>1. i \in DOMAIN commissions /\ commissions[i].request # 0 /\ commissions'[i] = commissions[i]
      BY <1>3, <2>2
    <3>2. /\ commissions[i].request \in DOMAIN withdraws
          /\ withdraws[commissions[i].request].status # "rejected"
          /\ commissions[i].status \in {"available", "withdrawn"}
      BY <3>1 DEF CommissionInv, BoundStand
    <3>3. QED
      BY <1>6, <3>1, <3>2
  <2>3. QED
    BY <1>9, <2>1, <2>2
<1>12. CommissionsBacked'
  <2>1. ASSUME NEW n \in DOMAIN withdraws
        PROVE  SumOf(commissions', RowsFor(commissions', n)) = SumOf(commissions, RowsFor(commissions, n))
    <3>1. n \in Nat \ {0, q} /\ n # 0
      BY <1>6, CommissionFacts
    <3>2. SumOf(commissions', RowsFor(commissions', n)) = SumOf(rows, RowsFor(rows, n))
      BY <1>9, <3>1
    <3>3. \A i \in DOMAIN commissions : /\ rows[i].request = n <=> commissions[i].request = n
                                        /\ commissions[i].request = n => rows[i].amount = commissions[i].amount
      BY <1>3
    <3>4. /\ Amounted(commissions) /\ Amounted(rows) /\ DOMAIN commissions \subseteq DOMAIN rows
      BY <1>3, CommissionFacts, RowsAmounted
    <3>5. \A i \in DOMAIN rows \ DOMAIN commissions : rows[i].request # n
      BY <1>3
    <3>6. SumOf(rows, RowsFor(rows, n)) = SumOf(commissions, RowsFor(commissions, n))
      BY ONLY <3>3, <3>4, <3>5, RequestStays
    <3>7. QED
      BY <3>2, <3>6
  <2>2. ASSUME NEW n \in DOMAIN withdraws, withdraws[n].status = "rejected"
        PROVE  RowsFor(commissions', n) = {}
    <3>1. RowsFor(commissions, n) = {} /\ n # 0 /\ n # q
      BY <1>6, <2>2, RequestIs, CommissionFacts DEF CommissionInv, CommissionsBacked
    <3>2. ASSUME NEW i \in RowsFor(commissions', n)
          PROVE  FALSE
      <4>1. i \in DOMAIN commissions' /\ commissions'[i].request = n
        BY <3>2 DEF RowsFor
      <4>2. i \in DOMAIN rows /\ commissions'[i] = rows[i]
        BY <1>9, <3>1, <4>1
      <4>3. i \in DOMAIN commissions /\ commissions[i].request = n
        BY <1>3, <4>1, <4>2
      <4>4. QED
        BY <3>1, <4>3 DEF RowsFor
    <3>3. QED
      BY <3>2
  <2>3. SUFFICES ASSUME NEW n \in DOMAIN withdraws'
                 PROVE  IF withdraws'[n].status = "rejected"
                          THEN RowsFor(commissions', n) = {}
                          ELSE SumOf(commissions', RowsFor(commissions', n)) + overwritten'[n]
                                 = withdraws'[n].amount
    BY RequestIs DEF CommissionsBacked
  <2>4. CASE n = q
    <3>1. a + 0 = a
      OBVIOUS
    <3>2. QED
      BY <1>5, <1>6, <1>7, <1>9, <2>4, <3>1
  <2>5. CASE n # q
    <3>1. n \in DOMAIN withdraws
      BY <1>6, <2>5
    <3>2. withdraws'[n] = withdraws[n] /\ overwritten'[n] = overwritten[n]
      BY <1>6, <1>7, <3>1
    <3>3. withdraws[n].status # "rejected" =>
              SumOf(commissions, RowsFor(commissions, n)) + overwritten[n] = withdraws[n].amount
      BY <3>1, RequestIs DEF CommissionInv, CommissionsBacked
    <3>4. QED
      BY <2>1, <2>2, <3>1, <3>2, <3>3
  <2>6. QED
    BY <2>4, <2>5
<1>13. CommissionWithinRate'
  <2>1. \A i \in DOMAIN commissions : rows[i].status # "rejected" =>
            /\ commissions[i].status # "rejected" /\ rows[i].sale = commissions[i].sale
            /\ rows[i].amount <= commissions[i].amount
    <3>1. \A i \in DOMAIN commissions : commissions[i].amount \in Nat
      BY CommissionFacts, RowsAmounted
    <3>2. QED
      BY <1>3, <3>1
  <2>2. \A r \in Sales : SumOf(rows, Rated(rows, r)) <= terms'[r].commission
    BY <1>3, <2>1, RateStays
  <2>3. \A r \in Sales : SumOf(commissions', Rated(commissions', r)) <= terms'[r].commission
    BY <1>9, <2>2
  <2>4. QED
    BY <2>3, RateIs
<1>14. QED
  BY <1>10, <1>11, <1>12, <1>13 DEF CommissionInv

\* A review frees the rows of its request or marks them paid.
LEMMA ReviewKeepsCommissions ==
    ASSUME IInv, CommissionInv, UNCHANGED terms, NEW q \in DOMAIN withdraws,
           RejectCommissionWithdraw(q) \/ PayCommissionWithdraw(q)
    PROVE  CommissionInv'
<1> DEFINE paying == PayCommissionWithdraw(q)
           s == IF paying THEN "paid" ELSE "rejected"
<1>1. /\ UNCHANGED <<canceling, overwritten>>
      /\ withdraws[q].status = "pending_review"
      /\ withdraws' = [withdraws EXCEPT ![q].status = s]
  BY DEF RejectCommissionWithdraw, PayCommissionWithdraw
<1>2. commissions' = [i \in DOMAIN commissions |->
          IF commissions[i].request = q
            THEN IF paying THEN [commissions[i] EXCEPT !.status = "withdrawn"]
                           ELSE [commissions[i] EXCEPT !.request = 0]
            ELSE commissions[i]]
  BY DEF RejectCommissionWithdraw, PayCommissionWithdraw, BoundTo
<1> HIDE DEF paying
<1>3. /\ q \in Nat \ {0} /\ withdraws \in Seq([amount: Nat, status: WithdrawStatus])
      /\ commissions \in Seq(CommissionRow)
      /\ \A i \in DOMAIN commissions : commissions[i] \in CommissionRow /\ commissions[i].amount \in Nat
  BY CommissionFacts, RowsAmounted
<1>4. /\ DOMAIN withdraws' = DOMAIN withdraws /\ Len(withdraws') = Len(withdraws)
      /\ withdraws' \in Seq([amount: Nat, status: WithdrawStatus])
      /\ \A n \in DOMAIN withdraws : /\ withdraws'[n].amount = withdraws[n].amount
                                     /\ n # q => withdraws'[n] = withdraws[n]
      /\ withdraws'[q].status = s
  <2>1. s \in WithdrawStatus /\ withdraws[q] \in [amount: Nat, status: WithdrawStatus]
    <3>1. s \in WithdrawStatus
      BY DEF WithdrawStatus
    <3>2. q \in 1 .. Len(withdraws)
      BY CommissionFacts
    <3>3. QED
      BY <1>3, <3>1, <3>2, ElementOfSeq
  <2> HIDE DEF s
  <2> DEFINE w == [withdraws[q] EXCEPT !.status = s]
  <2>2. w \in [amount: Nat, status: WithdrawStatus] /\ w.amount = withdraws[q].amount /\ w.status = s
    BY <2>1
  <2>3. withdraws' = [withdraws EXCEPT ![q] = w]
    BY <1>1
  <2> HIDE DEF w
  <2>4. QED
    BY <1>3, <2>2, <2>3
<1>5. ASSUME NEW i \in DOMAIN commissions
      PROVE  /\ commissions'[i] \in CommissionRow
             /\ commissions'[i].sale = commissions[i].sale
             /\ commissions'[i].amount = commissions[i].amount
             /\ commissions[i].request # q => commissions'[i] = commissions[i]
             /\ commissions[i].request = q /\ paying =>
                    commissions'[i].request = q /\ commissions'[i].status = "withdrawn"
             /\ commissions[i].request = q /\ ~paying =>
                    commissions'[i].request = 0 /\ commissions'[i].status = commissions[i].status
  <2>1. commissions[i] \in CommissionRow
    BY <1>3
  <2>2. CASE commissions[i].request # q
    <3>1. commissions'[i] = commissions[i]
      BY <1>2, <2>2
    <3>2. QED
      BY <2>1, <2>2, <3>1
  <2>3. CASE commissions[i].request = q /\ paying
    <3>1. commissions'[i] = [commissions[i] EXCEPT !.status = "withdrawn"] /\ "withdrawn" \in CommissionStatus
      BY <1>2, <2>3 DEF CommissionStatus
    <3>2. /\ commissions'[i].sale = commissions[i].sale /\ commissions'[i].amount = commissions[i].amount
          /\ commissions'[i].status = "withdrawn" /\ commissions'[i].request = commissions[i].request
          /\ commissions'[i] \in CommissionRow
      BY ONLY <2>1, <3>1, WithStatus
    <3>3. QED
      BY <2>3, <3>2
  <2>4. CASE commissions[i].request = q /\ ~paying
    <3>1. commissions'[i] = [commissions[i] EXCEPT !.request = 0] /\ 0 \in Nat
      BY <1>2, <2>4
    <3>2. /\ commissions'[i].sale = commissions[i].sale /\ commissions'[i].amount = commissions[i].amount
          /\ commissions'[i].status = commissions[i].status /\ commissions'[i].request = 0
          /\ commissions'[i] \in CommissionRow
      BY ONLY <2>1, <3>1, WithRequest
    <3>3. QED
      BY <2>4, <3>2
  <2>5. QED
    BY <2>2, <2>3, <2>4
<1>6. DOMAIN commissions' = DOMAIN commissions /\ commissions' = [i \in DOMAIN commissions |-> commissions'[i]]
  BY <1>2
<1>7. commissions' \in Seq(CommissionRow)
  BY <1>3, <1>5, <1>6, RowsChanged
<1>8. CommissionsTyped'
  <2>1. \A c \in canceling' :
            /\ c.id \in DOMAIN commissions'
            /\ c.row \in CommissionRow /\ c.row.request = 0
            /\ c.row.sale = commissions'[c.id].sale
    BY <1>1, <1>5, <1>6, CancelingStays DEF CommissionInv
  <2>2. QED
    BY <1>1, <1>4, <1>7, <2>1 DEF CommissionInv, CommissionsTyped
<1>9. \A i \in DOMAIN commissions : commissions[i].request # 0 =>
          /\ commissions[i].request \in DOMAIN withdraws
          /\ withdraws[commissions[i].request].status # "rejected"
          /\ commissions[i].status \in {"available", "withdrawn"}
  BY DEF CommissionInv, BoundStand
<1>10. BoundStand(commissions)'
  <2> SUFFICES ASSUME NEW i \in DOMAIN commissions, commissions'[i].request # 0
               PROVE  /\ commissions'[i].request \in DOMAIN withdraws'
                      /\ withdraws'[commissions'[i].request].status # "rejected"
                      /\ commissions'[i].status \in {"available", "withdrawn"}
    BY <1>6 DEF BoundStand
  <2>1. CASE commissions[i].request # q
    BY <1>4, <1>5, <1>9, <2>1
  <2>2. CASE commissions[i].request = q
    BY <1>4, <1>5, <2>2
  <2>3. QED
    BY <2>1, <2>2
<1>11. CommissionsBacked'
  <2>1. Amounted(commissions) /\ Amounted(commissions') /\ DOMAIN commissions \subseteq DOMAIN commissions'
    BY <1>3, <1>6, <1>7, RowsAmounted
  <2>2. ASSUME NEW n \in DOMAIN withdraws, n # q \/ paying
        PROVE  /\ SumOf(commissions', RowsFor(commissions', n)) = SumOf(commissions, RowsFor(commissions, n))
               /\ RowsFor(commissions', n) = RowsFor(commissions, n)
    <3>1. \A i \in DOMAIN commissions : /\ commissions'[i].request = n <=> commissions[i].request = n
                                        /\ commissions[i].request = n => commissions'[i].amount = commissions[i].amount
      <4>1. n # 0
        BY CommissionFacts
      <4>2. QED
        BY <1>5, <2>2, <4>1
    <3>2. \A i \in DOMAIN commissions' \ DOMAIN commissions : commissions'[i].request # n
      BY <1>6
    <3>3. SumOf(commissions', RowsFor(commissions', n)) = SumOf(commissions, RowsFor(commissions, n))
      BY ONLY <2>1, <3>1, <3>2, RequestStays
    <3>4. QED
      BY <1>6, <3>1, <3>3 DEF RowsFor
  <2>3. ~paying => RowsFor(commissions', q) = {}
    BY <1>3, <1>5, <1>6 DEF RowsFor
  <2>4. SUFFICES ASSUME NEW n \in DOMAIN withdraws
                 PROVE  IF withdraws'[n].status = "rejected"
                          THEN RowsFor(commissions', n) = {}
                          ELSE SumOf(commissions', RowsFor(commissions', n)) + overwritten[n]
                                 = withdraws[n].amount
    BY <1>1, <1>4, RequestIs DEF CommissionsBacked
  <2>5. IF withdraws[n].status = "rejected"
          THEN RowsFor(commissions, n) = {}
          ELSE SumOf(commissions, RowsFor(commissions, n)) + overwritten[n] = withdraws[n].amount
    BY RequestIs DEF CommissionInv, CommissionsBacked
  <2>6. QED
    BY <1>1, <1>4, <2>2, <2>3, <2>5
<1>12. CommissionWithinRate'
  <2>1. \A i \in DOMAIN commissions : commissions'[i].status # "rejected" =>
            /\ commissions[i].status # "rejected" /\ commissions'[i].sale = commissions[i].sale
            /\ commissions'[i].amount <= commissions[i].amount
    <3> SUFFICES ASSUME NEW i \in DOMAIN commissions, commissions'[i].status # "rejected"
                 PROVE  /\ commissions[i].status # "rejected" /\ commissions'[i].sale = commissions[i].sale
                        /\ commissions'[i].amount <= commissions[i].amount
      OBVIOUS
    <3>1. commissions[i].amount \in Nat
      BY <1>3
    <3>2. commissions'[i].sale = commissions[i].sale /\ commissions'[i].amount <= commissions[i].amount
      BY <1>5, <3>1
    <3>3. CASE commissions[i].request = q
      BY <1>3, <1>9, <3>2, <3>3
    <3>4. CASE commissions[i].request # q
      BY <1>5, <3>2, <3>4
    <3>5. QED
      BY <3>3, <3>4
  <2>2. QED
    BY <1>6, <1>7, <2>1, RateStays, RateIs
<1>13. QED
  BY <1>8, <1>10, <1>11, <1>12 DEF CommissionInv

LEMMA CommissionInit ==
    ASSUME Init
    PROVE  CommissionInv
<1>1. commissions = <<>> /\ withdraws = <<>> /\ canceling = {} /\ overwritten = <<>>
  BY DEF Init, CommissionsInit
<1>2. CommissionsTyped
  BY <1>1 DEF CommissionsTyped
<1>3. BoundStand(commissions) /\ CommissionsBacked
  BY <1>1 DEF BoundStand, CommissionsBacked
<1>4. CommissionWithinRate
  <2> SUFFICES ASSUME NEW r \in Sales
               PROVE  SumOf(commissions, Rated(commissions, r)) <= terms[r].commission
    BY DEF CommissionWithinRate, Rated
  <2>1. Rated(commissions, r) = {}
    BY <1>1 DEF Rated
  <2>2. terms[r].commission \in Nat
    BY InitInv, SaleFacts
  <2>3. QED
    BY <2>1, <2>2, SumOfNone
<1>5. QED
  BY <1>2, <1>3, <1>4 DEF CommissionInv

LEMMA NextKeepsCommissions ==
    ASSUME MoneyInv, CommissionInv, [Next]_vars
    PROVE  CommissionInv'
<1>1. IInv
  BY DEF MoneyInv
<1>2. CASE UNCHANGED <<terms, commissions, withdraws, canceling, overwritten>>
  BY <1>2, CommissionsUntouched
<1>3. ASSUME NEW r \in Sales, PaidHook(r)
      PROVE  CommissionInv'
  BY <1>1, <1>3, HookKeepsCommissions DEF PaidHook, saleVars
<1>4. ASSUME NEW r \in Sales, RefundCommits(r)
      PROVE  CommissionInv'
  <2>1. terms' = terms /\ refunding[r].amount \in Nat
    BY <1>1, <1>4, SaleFacts DEF RefundCommits
  <2>2. CASE UNCHANGED commissionVars
    BY <1>2, <2>1, <2>2 DEF commissionVars
  <2>3. CASE HandleOrderRefunded(r, Total[r], refunded[r], refunding[r].amount)
    BY <2>1, <2>3, RefundKeepsCommissions
  <2>4. QED
    BY <1>4, <2>2, <2>3 DEF RefundCommits
<1>5. ASSUME NEW r \in Sales, Cancel(r)
      PROVE  CommissionInv'
  BY <1>5, CancelReadsKeeps DEF Cancel
<1>6. CASE CommissionsNext(due) /\ UNCHANGED <<saleVars, ledgerVars>>
  <2>1. terms' = terms
    BY <1>6 DEF saleVars
  <2>2. CASE (\E o \in Referred : PaidHookLost(o)) \/ CancelLost
    BY <1>2, <2>1, <2>2, CommissionsUntouched DEF PaidHookLost, CancelLost
  <2>3. CASE ConfirmDueCommissions(due)
    BY <1>1, <2>1, <2>3, ConfirmKeepsCommissions
  <2>4. ASSUME NEW c \in canceling, CancelSaves(c)
        PROVE  CommissionInv'
    BY <1>1, <2>1, <2>4, SaveKeepsCommissions
  <2>5. ASSUME NEW a \in 1 .. MaxAmount, ApplyCommissionWithdraw(a, due)
        PROVE  CommissionInv'
    <3>1. a \in Nat
      BY CommissionsAssumption
    <3>2. QED
      BY <1>1, <2>1, <2>5, <3>1, WithdrawKeepsCommissions
  <2>6. ASSUME NEW q \in DOMAIN withdraws, RejectCommissionWithdraw(q) \/ PayCommissionWithdraw(q)
        PROVE  CommissionInv'
    BY <1>1, <2>1, <2>6, ReviewKeepsCommissions
  <2>7. QED
    BY <1>6, <2>2, <2>3, <2>4, <2>5, <2>6 DEF CommissionsNext
<1>7. CASE LedgerNext /\ UNCHANGED <<saleVars, commissionVars>>
  BY <1>2, <1>7 DEF saleVars, commissionVars
<1>8. ASSUME NEW r \in Sales, NEW a \in Amounts[r], RefundBegins(r, a)
      PROVE  CommissionInv'
  BY <1>2, <1>8 DEF RefundBegins, commissionVars
<1>9. ASSUME NEW r \in Sales, Pay(r) \/ RefundFails(r)
      PROVE  CommissionInv'
  BY <1>2, <1>9 DEF Pay, RefundFails, commissionVars
<1>10. ASSUME NEW l \in Lines, NEW a \in Amounts[l], RefundLine(l, a)
       PROVE  CommissionInv'
  BY <1>2, <1>10 DEF RefundLine, commissionVars
<1>11. CASE UNCHANGED vars
  BY <1>2, <1>11 DEF vars, saleVars, commissionVars
<1>12. QED
  BY <1>3, <1>4, <1>5, <1>6, <1>7, <1>8, <1>9, <1>10, <1>11 DEF Next

\* Rows bound to a withdrawal are not rejected, nor is it; what a cancellation has
\* read was free, and of a row of the same sale.
THEOREM CommissionsAlways == Spec => []CommissionInv
<1>1. Init => CommissionInv
  BY CommissionInit
<1>2. MoneyInv /\ CommissionInv /\ [Next]_vars => CommissionInv'
  BY NextKeepsCommissions
<1>3. QED
  BY <1>1, <1>2, MoneyAlways, PTL DEF Spec

\* A withdrawal of commissions that waits or is paid is backed, to the cent, by the
\* rows bound to it and what saves of cancellations have taken from it since; one
\* that was rejected holds none.
THEOREM CommissionsAlwaysBacked == Spec => []CommissionsBacked
<1>1. CommissionInv => CommissionsBacked
  BY DEF CommissionInv
<1>2. QED
  BY <1>1, CommissionsAlways, PTL

\* Hooks, splits, refunds, cancellations and withdrawals never make the commissions
\* of a sale worth more than its commission.
THEOREM CommissionsWithinRate == Spec => []CommissionWithinRate
<1>1. CommissionInv => CommissionWithinRate
  BY DEF CommissionInv
<1>2. QED
  BY <1>1, CommissionsAlways, PTL

\* Every variable keeps its type: entries and commissions are bound to requests
\* that exist, and what is saved was read of a row that exists.
THEOREM AfterSaleTyped == Spec => []TypeOK
<1>1. ASSUME MoneyInv, CommissionInv
      PROVE  TypeOK
  <2>1. IInv /\ RefundsFit /\ Counted
    BY <1>1 DEF MoneyInv
  <2>2. terms \in Terms /\ status \in [Orders -> Status] /\ refunded \in [Orders -> Nat]
    BY <2>1 DEF IInv, SaleInv, SalesTyped, RefundsFit
  <2>3. \A r \in Sales :
            refunding[r] \in {NoRefund} \cup [amount: Amounts[r], seen: EntryStatus \cup {"none"}]
    <3> SUFFICES ASSUME NEW r \in Sales, ~Idle(r)
                 PROVE  refunding[r] \in [amount: Amounts[r], seen: EntryStatus \cup {"none"}]
      BY DEF Idle
    <3>1. refunding[r] \in [amount: Nat, seen: EntryStatus \cup {"none"}]
      BY <2>1 DEF IInv, SaleInv, SalesTyped
    <3>2. refunding[r].amount \in Amounts[r]
      BY <2>1 DEF RefundsFit
    <3>3. QED
      BY <3>1, <3>2
  <2>4. \A i \in DOMAIN ledger :
            /\ ledger[i].sale \in Sales /\ ledger[i].type \in EntryType
            /\ ledger[i].amount \in Int /\ ledger[i].status \in EntryStatus
            /\ ledger[i].request \in 0 .. Len(payouts)
    <3> SUFFICES ASSUME NEW i \in DOMAIN ledger
                 PROVE  /\ ledger[i].sale \in Sales /\ ledger[i].type \in EntryType
                        /\ ledger[i].amount \in Int /\ ledger[i].status \in EntryStatus
                        /\ ledger[i].request \in 0 .. Len(payouts)
      OBVIOUS
    <3>1. PICK A : ledger[i] \in EntryOf(A)
      BY <2>1, LedgerFactsNow, LedgerFacts
    <3>2. ledger[i].sale \in Sales /\ ledger[i].type \in EntryType /\ ledger[i].status \in EntryStatus
      BY <3>1 DEF EntryOf
    <3>3. ledger[i].request = 0 \/ ledger[i].request \in DOMAIN payouts
      BY <2>1 DEF IInv, LedgerInv, RowsFollowRequests
    <3>4. Len(payouts) \in Nat /\ DOMAIN payouts = 1 .. Len(payouts)
      BY <2>1, LedgerFactsNow
    <3>5. ledger[i].request \in 0 .. Len(payouts)
      BY <3>3, <3>4
    <3>6. QED
      BY <2>1, <3>2, <3>5 DEF Counted
  <2>5. posted \in [Sales -> 0 .. Len(ledger)]
    <3>1. posted \in [Sales -> Nat] /\ Len(ledger) \in Nat /\ DOMAIN ledger = 1 .. Len(ledger)
      BY <2>1, LedgerFactsNow DEF IInv, LedgerInv, LedgerTyped
    <3>2. \A r \in Sales : posted[r] = 0 \/ posted[r] \in DOMAIN ledger
      BY <2>1 DEF IInv, LedgerInv, PostedIsProfit
    <3>3. \A r \in Sales : posted[r] \in 0 .. Len(ledger)
      BY <3>1, <3>2
    <3>4. QED
      BY <3>1, <3>3
  <2>6. \A q \in DOMAIN payouts : payouts[q].status \in PayoutStatus
    <3>1. payouts \in Seq([amount: Nat, status: PayoutStatus]) /\ DOMAIN payouts = 1 .. Len(payouts)
      BY <2>1, LedgerFactsNow
    <3>2. \A q \in DOMAIN payouts : payouts[q] \in [amount: Nat, status: PayoutStatus]
      BY <3>1, ElementOfSeq
    <3>3. QED
      BY <3>2
  <2>7. \A i \in DOMAIN commissions :
            /\ commissions[i].sale \in Sales /\ commissions[i].amount \in Nat
            /\ commissions[i].status \in CommissionStatus
            /\ commissions[i].request \in 0 .. Len(withdraws)
    <3> SUFFICES ASSUME NEW i \in DOMAIN commissions
                 PROVE  /\ commissions[i].sale \in Sales /\ commissions[i].amount \in Nat
                        /\ commissions[i].status \in CommissionStatus
                        /\ commissions[i].request \in 0 .. Len(withdraws)
      OBVIOUS
    <3>1. commissions[i].request = 0 \/ commissions[i].request \in DOMAIN withdraws
      BY <1>1, CommissionFacts
    <3>2. Len(withdraws) \in Nat /\ DOMAIN withdraws = 1 .. Len(withdraws)
      BY <1>1, CommissionFacts
    <3>3. commissions[i].request \in 0 .. Len(withdraws)
      BY <3>1, <3>2
    <3>4. QED
      BY <1>1, <3>3, CommissionFacts, RowsAmounted
  <2>8. \A q \in DOMAIN withdraws : withdraws[q].status \in WithdrawStatus
    <3>1. withdraws \in Seq([amount: Nat, status: WithdrawStatus]) /\ DOMAIN withdraws = 1 .. Len(withdraws)
      BY <1>1, CommissionFacts
    <3>2. \A q \in DOMAIN withdraws : withdraws[q] \in [amount: Nat, status: WithdrawStatus]
      BY <3>1, ElementOfSeq
    <3>3. QED
      BY <3>2
  <2>9. \A c \in canceling : c.id \in DOMAIN commissions
    BY <1>1 DEF CommissionInv, CommissionsTyped
  <2>10. QED
    BY <2>2, <2>3, <2>4, <2>5, <2>6, <2>7, <2>8, <2>9 DEF TypeOK
<1>2. QED
  BY <1>1, MoneyAlways, CommissionsAlways, PTL
================================================================================
