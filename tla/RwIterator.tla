------------------------------ MODULE RwIterator ------------------------------
(***************************************************************************)
(* Array<N,T>::RwIterator: every operation on a region of interest [p, q)  *)
(* walks over the blocks that the region touches.  The constructor lists   *)
(* them with the odometer loop of enumerateBlocksInRange, one increment or *)
(* carry per step here; then next() visits them in that order and          *)
(* compute() sets withinBlock (the part of the block concerned) and read   *)
(* (the part of the caller's array that goes there).                       *)
(***************************************************************************)
EXTENDS BlockGeometry, Sequences

CONSTANT Corners       \* the corners p and q of the regions iterated over

ASSUME CornersAssumption == Corners \subseteq Vectors

VARIABLES
    p, q,              \* the constructor's arguments, kept as r
    x, dim,            \* the locals of enumerateBlocksInRange
    blockList_,        \* its result: ret
    it_,               \* position of the iterator in blockList_, from 1
    blockCoord, withinBlock, read,      \* the public members, set by compute()
    pc                 \* "enumerate", "iterate", and "done" once ~hasMore()

vars == <<p, q, x, dim, blockList_, it_, blockCoord, withinBlock, read, pc>>

EmptyRoi == [p |-> Origin, q |-> Origin]                      \* Roi()

blockP == blockGivenCoordinateP(p)
blockQ == blockGivenCoordinateQ(q)

(* Only regions with at least one voxel: see the README for empty ones.    *)
Init ==
    /\ p \in Corners /\ q \in Corners
    /\ \A d \in Dim : p[d] < q[d]
    /\ x = blockP /\ dim = N - 1
    /\ blockList_ = <<blockP>>
    /\ it_ = 1
    /\ blockCoord = Origin /\ withinBlock = EmptyRoi /\ read = EmptyRoi
    /\ pc = "enumerate"

------------------------------------------------------------------------------
(* Mutant of Carry: the coordinate is not reset.                           *)
CarryWithoutReset ==
    /\ pc = "enumerate" /\ dim >= 0
    /\ x[dim] >= blockQ[dim] - 1
    /\ dim' = dim - 1
    /\ UNCHANGED <<x, p, q, blockList_, it_, blockCoord, withinBlock, read, pc>>

(* x[dim] is at its last block: reset it and carry to the next dimension.  *)
Carry ==
    /\ pc = "enumerate" /\ dim >= 0
    /\ x[dim] >= blockQ[dim] - 1
    /\ x' = [x EXCEPT ![dim] = blockP[dim]]
    /\ dim' = dim - 1
    /\ UNCHANGED <<p, q, blockList_, it_, blockCoord, withinBlock, read, pc>>

Advance ==
    /\ pc = "enumerate" /\ dim >= 0
    /\ x[dim] < blockQ[dim] - 1
    /\ x' = [x EXCEPT ![dim] = @ + 1]
    /\ blockList_' = Append(blockList_, x')
    /\ dim' = N - 1
    /\ UNCHANGED <<p, q, it_, blockCoord, withinBlock, read, pc>>

compute(c) ==
    /\ blockCoord' = c
    /\ withinBlock' = WithinBlock(c, p, q)
    /\ read' = ReadRoi(c, p, q)

(* The odometer has run out: the constructor points at the first block.    *)
Begin ==
    /\ pc = "enumerate" /\ dim < 0
    /\ it_' = 1
    /\ compute(blockList_[1])
    /\ pc' = "iterate"
    /\ UNCHANGED <<p, q, x, dim, blockList_>>

(* Mutants of NextBlock: hasMore() never fails; ++it_ is forgotten.        *)
NextBlockAlways ==
    /\ pc = "iterate"
    /\ it_' = it_ + 1
    /\ IF it_' <= Len(blockList_)
       THEN compute(blockList_[it_'])
       ELSE UNCHANGED <<blockCoord, withinBlock, read>>
    /\ UNCHANGED <<p, q, x, dim, blockList_, pc>>

NextBlockStays ==
    /\ pc = "iterate"
    /\ compute(blockList_[it_])
    /\ UNCHANGED <<p, q, x, dim, blockList_, it_, pc>>

(* next(), called by the loops while hasMore().                            *)
NextBlock ==
    /\ pc = "iterate"
    /\ it_' = it_ + 1
    /\ IF it_' <= Len(blockList_)
       THEN compute(blockList_[it_']) /\ UNCHANGED pc
       ELSE pc' = "done" /\ UNCHANGED <<blockCoord, withinBlock, read>>
    /\ UNCHANGED <<p, q, x, dim, blockList_>>

Next == Carry \/ Advance \/ Begin \/ NextBlock

Spec == Init /\ [][Next]_vars /\ WF_vars(Next)

------------------------------------------------------------------------------
(* Shape of the state: the lists hold blocks, the members hold regions.    *)
TypeOK ==
    /\ p \in Corners /\ q \in Corners
    /\ x \in Vectors /\ dim \in -1 .. N - 1
    /\ blockList_ \in Seq(Vectors)
    /\ it_ \in 1 .. Len(blockList_) + 1
    /\ blockCoord \in Vectors
    /\ withinBlock \in [p : Vectors, q : Vectors]
    /\ read \in [p : Vectors, q : Vectors]
    /\ pc \in {"enumerate", "iterate", "done"}

Listed == {blockList_[i] : i \in DOMAIN blockList_}

Hull(c) == Box(blockBounds(c).p, blockBounds(c).q)

(* The voxels that one visit of the iterator gives access to.              *)
Accessed(c) ==
    LET w == WithinBlock(c, p, q) IN {Voxel(c, cell) : cell \in Box(w.p, w.q)}

(* enumerateBlocksInRange lists blocks in strictly increasing scan order,  *)
(* none twice, whatever the carries; when the odometer stops, the list     *)
(* holds exactly the blocks that share a voxel with the region, and until  *)
(* then no other block.                                                    *)
EnumerationExact ==
    LET touched == {c \in Box(Origin, q) : Hull(c) \cap Box(p, q) # {}}
    IN  /\ \A i, j \in DOMAIN blockList_ :
              i < j => Before(blockList_[i], blockList_[j])
        /\ Listed \subseteq touched
        /\ pc # "enumerate" => Listed = touched

(* The visits partition the region: two blocks never give access to the    *)
(* same voxel, none reaches out of the region, and no voxel is left out.   *)
VisitsPartition ==
    /\ \A i, j \in DOMAIN blockList_ :
          i # j => Accessed(blockList_[i]) \cap Accessed(blockList_[j]) = {}
    /\ pc # "enumerate" => UNION {Accessed(c) : c \in Listed} = Box(p, q)

(* compute() pairs each voxel of the block with the right entry of the     *)
(* caller's array: both have the same shape, and entry read.p of an array  *)
(* whose corner is p is the voxel at withinBlock.p of the current block.   *)
ReadAligned ==
    pc # "enumerate" =>
        /\ Minus(read.q, read.p) = Minus(withinBlock.q, withinBlock.p)
        /\ Plus(p, read.p) = Voxel(blockCoord, withinBlock.p)
        /\ \A d \in Dim : read.q[d] <= q[d] - p[d]

(* The constructor's two nested loops and the caller's loop end.           *)
Termination == <>(pc = "done")
==============================================================================
