-------------------------- MODULE MCOpArrayCacheCpp --------------------------
(* A row of two blocks of two voxels, the second one cut by the image.     *)
EXTENDS OpArrayCacheCpp

Length2 == [d \in {0} |-> 2]
Length3 == [d \in {0} |-> 3]

RunLength(img) == Cardinality(Cell) + 1

NoPayload(p, q, values) == {}

Part(from, to) == [p |-> [d \in {0} |-> from], q |-> [d \in {0} |-> to]]

(* All of the image; a part of the first block and all the image holds of  *)
(* the second one.                                                         *)
All        == {Part(0, 3)}
Across     == {Part(1, 3)}
Both       == All \cup Across
==============================================================================
