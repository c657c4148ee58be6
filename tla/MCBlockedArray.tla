--------------------------- MODULE MCBlockedArray ---------------------------
(* A row of two or three blocks, in one and in two dimensions.              *)
EXTENDS BlockedArray

Length2  == [d \in {0} |-> 2]
Row      == [d \in 0 .. 1 |-> IF d = 0 THEN 2 ELSE 1]     \* 2 x 1
Uneven   == [d \in 0 .. 1 |-> d + 2]                      \* 2 x 3

Ternary  == {0, 1, 2}
Erasing  == {3}
Either   == BOOLEAN

RunLength(img) == IF \A c, d \in Cell : img[c] = img[d] THEN 1 ELSE Cardinality(Cell) + 1

(* Inputs over 0 .. n - 1: the zero array, and one that runs through the    *)
(* values in scan order, from 1 on.                                         *)
Patterns(p, q, values) ==
    LET B == Box(Origin, Minus(q, p))
        n == Cardinality(values)
    IN  {[v \in B |-> 0], [v \in B |-> (v[0] + 1) % n]}

Constants(p, q, values) ==
    {[v \in Box(Origin, Minus(q, p)) |-> x] : x \in values}

SwapOrErase == {[size |-> 2, labels |-> [i \in 0 .. 1 |-> 1 - i]],
                [size |-> 1, labels |-> [i \in {0} |-> 0]]}
==============================================================================
