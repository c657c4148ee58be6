---------------------------- MODULE MCRwIterator ----------------------------
(* A two-dimensional grid of 2 x 3 blocks, regions up to 3 blocks wide.     *)
EXTENDS RwIterator

MCBlockShape == [d \in 0 .. 1 |-> d + 2]
MCCorners    == {v \in [0 .. 1 -> 0 .. 7] : v[0] <= 5}
==============================================================================
