-------------------------- MODULE MCCompressedArray --------------------------
(* Small blocks.  snappy stores a constant image in one element and any     *)
(* other one in as many elements as it has voxels and one more.             *)
EXTENDS CompressedArray

Length2   == [d \in {0} |-> 2]
Square    == [d \in 0 .. 1 |-> 2]
Binary    == {0, 1}

Constant(img) == \A c, d \in Cell : img[c] = img[d]
RunLength(img) == IF Constant(img) THEN 1 ELSE Cardinality(Cell) + 1
==============================================================================
