------------------------ MODULE MCConnectedComponents ------------------------
(* Binary images of 3 x 4 voxels in four blocks, and one-block images.      *)
EXTENDS ConnectedComponents

MCBlockShape == [d \in 0 .. 1 |-> 2]
Vec(a, b)    == [d \in 0 .. 1 |-> IF d = 0 THEN a ELSE b]
MCShapes     == {Vec(3, 4), Vec(2, 1)}
==============================================================================
