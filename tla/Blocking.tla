------------------------------- MODULE Blocking -------------------------------
(***************************************************************************)
(* Blocking<N> cuts a region into a list of blocks, each a pair of its     *)
(* block coordinate (first) and its region of voxels (second).  A block    *)
(* reaches into its successors by the given overlap, and ends with the     *)
(* region.  The constructor is the only operation: the odometer loop of    *)
(* RwIterator once more, with blocks added on the way.                     *)
(***************************************************************************)
EXTENDS BlockGeometry, Roi, Sequences

VARIABLES
    roi_, overlap_, blocks_,       \* the members
    x, dim,                        \* the constructor's locals
    pc                             \* "tile" in the constructor, then "tiled"

blockingVars == <<roi_, overlap_, blocks_, x, dim>>

blockP == blockGivenCoordinateP(roi_.p)
blockQ == blockGivenCoordinateQ(roi_.q)

(* Mutant of BlockRoi: the last block is not cut.                          *)
BlockRoiUncut(c, roi, overlap) ==
    [p |-> blockBounds(c).p, q |-> Plus(blockBounds(c).q, overlap)]

BlockRoi(c, roi, overlap) ==
    LET b == blockBounds(c)
    IN  [p |-> b.p,
         q |-> [d \in Dim |-> Smaller(b.q[d] + overlap[d], roi.q[d])]]

Pair(c, roi, overlap) == [first |-> c, second |-> BlockRoi(c, roi, overlap)]

(* The start of the constructor Blocking(roi, blockShape, overlap).  Every *)
(* caller passes a region at the origin; the first block is that of x,     *)
(* which starts at roi.p itself.                                           *)
Construct(roi, overlap) ==
    /\ roi_ = roi /\ overlap_ = overlap
    /\ x = roi.p /\ dim = N - 1
    /\ blocks_ = <<Pair(roi.p, roi, overlap)>>
    /\ pc = "tile"

(* The same, of a new object that is assigned to this one.                 *)
Reconstruct(roi, overlap) ==
    /\ roi_' = roi /\ overlap_' = overlap
    /\ x' = roi.p /\ dim' = N - 1
    /\ blocks_' = <<Pair(roi.p, roi, overlap)>>
    /\ pc' = "tile"

(* Mutant of Carry: the coordinate is not reset.                           *)
CarryWithoutReset ==
    /\ pc = "tile" /\ dim >= 0
    /\ x[dim] >= blockQ[dim] - 1
    /\ dim' = dim - 1
    /\ UNCHANGED <<x, roi_, overlap_, blocks_, pc>>

Carry ==
    /\ pc = "tile" /\ dim >= 0
    /\ x[dim] >= blockQ[dim] - 1
    /\ x' = [x EXCEPT ![dim] = blockP[dim]]
    /\ dim' = dim - 1
    /\ UNCHANGED <<roi_, overlap_, blocks_, pc>>

Advance ==
    /\ pc = "tile" /\ dim >= 0
    /\ x[dim] < blockQ[dim] - 1
    /\ x' = [x EXCEPT ![dim] = @ + 1]
    /\ blocks_' = Append(blocks_, Pair(x', roi_, overlap_))
    /\ dim' = N - 1
    /\ UNCHANGED <<roi_, overlap_, pc>>

Constructed ==
    /\ pc = "tile" /\ dim < 0
    /\ pc' = "tiled"
    /\ UNCHANGED blockingVars

Tile == Carry \/ Advance \/ Constructed

------------------------------------------------------------------------------
numBlocks == Len(blocks_)
block(i)  == blocks_[i].second

(* Voxels next to each other along one axis.                               *)
Adjacent(u, v) == \E d \in Dim : /\ u[d] - v[d] \in {-1, 1}
                                 /\ \A e \in Dim \ {d} : u[e] = v[e]
==============================================================================
