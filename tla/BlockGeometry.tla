---------------------------- MODULE BlockGeometry ----------------------------
(***************************************************************************)
(* The geometry of a blocked array: voxels, regions of interest [p, q) and *)
(* the regular grid of blocks of shape BlockShape that covers the voxels   *)
(* (include/bw/roi.h, and the private index functions of array.h).         *)
(*                                                                         *)
(* A vector V of the code is a function on Dim, whose dimensions are       *)
(* numbered from 0 as in the code.                                         *)
(***************************************************************************)
EXTENDS Integers

CONSTANTS
    N,              \* template parameter: the number of dimensions
    BlockShape      \* blockShape_

Dim == 0 .. N - 1

(* Every block has at least one voxel: the code divides by blockShape_.    *)
ASSUME GeometryAssumption ==
    /\ N \in Nat \ {0}
    /\ BlockShape \in [Dim -> Nat \ {0}]

Vectors == [Dim -> Nat]
Origin  == [d \in Dim |-> 0]                                  \* V()

InRoi(v, p, q) == \A d \in Dim : p[d] <= v[d] /\ v[d] < q[d]

(* The set of voxels of the region [p, q).  (TLC enumerates a UNION with   *)
(* its repetitions, and the set that maps it without them.)                *)
Coordinates(p, q) == {n : n \in UNION {p[d] .. q[d] - 1 : d \in Dim}}
Box(p, q) == {v \in [Dim -> Coordinates(p, q)] : InRoi(v, p, q)}

(* The coordinates of the voxels of a block, relative to its corner.       *)
Cell == Box(Origin, BlockShape)

Plus(u, v)  == [d \in Dim |-> u[d] + v[d]]
Minus(u, v) == [d \in Dim |-> u[d] - v[d]]

(* The order of vectors: that of the blocks in a map and in a scan.         *)
Before(u, v) == \E d \in Dim : u[d] < v[d] /\ \A e \in 0 .. d - 1 : u[e] = v[e]

(* Division as in C: the quotient is rounded toward zero.                  *)
Quotient(a, b) == IF a >= 0 THEN a \div b ELSE -((-a) \div b)

------------------------------------------------------------------------------
blockGivenCoordinateP(p) == [d \in Dim |-> Quotient(p[d], BlockShape[d])]
blockGivenCoordinateQ(q) == [d \in Dim |-> Quotient(q[d] - 1, BlockShape[d]) + 1]

(* blockBounds(c, p, q), as the record of its two results.                 *)
blockBounds(c) == [p |-> [d \in Dim |-> BlockShape[d] * c[d]],
                   q |-> [d \in Dim |-> BlockShape[d] * (c[d] + 1)]]

(* The position inside its block of voxel p.                               *)
pBlock(p) == [d \in Dim |-> p[d] % BlockShape[d]]

(* The array voxel that a cell of block c stands for.                      *)
Voxel(c, cell) == Plus(blockBounds(c).p, cell)

(* The blocks that an RwIterator on [p, q) visits, as a set; module        *)
(* RwIterator is the loop that enumerates them.                            *)
BlocksInRange(p, q) == Box(blockGivenCoordinateP(p), blockGivenCoordinateQ(q))

(* Mutant of WithinBlock: <= where the code has <.                         *)
WithinBlockAtEdge(c, p, q) ==
    LET b == blockBounds(c)
    IN  [p |-> [k \in Dim |-> IF b.p[k] <= p[k] /\ p[k] < b.q[k]
                              THEN p[k] % BlockShape[k] ELSE 0],
         q |-> [k \in Dim |-> IF q[k] > b.p[k] /\ q[k] <= b.q[k]
                              THEN q[k] % BlockShape[k] ELSE BlockShape[k]]]

(* RwIterator::compute for the block c of an iteration over [p, q): where  *)
(* the region lies within the block, and the part of the input array       *)
(* (whose corner is p) that goes there.                                    *)
WithinBlock(c, p, q) ==
    LET b == blockBounds(c)
    IN  [p |-> [k \in Dim |-> IF b.p[k] <= p[k] /\ p[k] < b.q[k]
                              THEN p[k] % BlockShape[k] ELSE 0],
         q |-> [k \in Dim |-> IF q[k] > b.p[k] /\ q[k] < b.q[k]
                              THEN q[k] % BlockShape[k] ELSE BlockShape[k]]]

(* Mutant of ReadRoi: d blocks are skipped from the third block on.        *)
ReadRoiTooFar(c, p, q) ==
    LET within == WithinBlock(c, p, q)
        blockP == blockGivenCoordinateP(p)
        from   == [k \in Dim |->
                      LET d == c[k] - blockP[k]
                      IN  (IF d >= 1 THEN BlockShape[k] - (p[k] % BlockShape[k]) ELSE 0)
                        + (IF d >= 2 THEN d * BlockShape[k] ELSE 0)]
    IN  [p |-> from, q |-> Plus(from, Minus(within.q, within.p))]

ReadRoi(c, p, q) ==
    LET within == WithinBlock(c, p, q)
        blockP == blockGivenCoordinateP(p)
        from   == [k \in Dim |->
                      LET d == c[k] - blockP[k]
                      IN  (IF d >= 1 THEN BlockShape[k] - (p[k] % BlockShape[k]) ELSE 0)
                        + (IF d >= 2 THEN (d - 1) * BlockShape[k] ELSE 0)]
    IN  [p |-> from, q |-> Plus(from, Minus(within.q, within.p))]
==============================================================================
