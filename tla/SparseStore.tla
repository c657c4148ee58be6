------------------------------ MODULE SparseStore ------------------------------
(***************************************************************************)
(* What an Array promises about its sparsity (array.h): beside the voxels, *)
(* a user sees which blocks exist.  A write brings the blocks of its       *)
(* region into being, whatever it writes; with deleteEmpty on, an          *)
(* operation leaves no block it has touched that holds zeros only; nothing *)
(* else makes or unmakes a block, and no operation changes a voxel outside *)
(* its region.  The tables, compression and dirtiness do not show.         *)
(***************************************************************************)
EXTENDS VoxelStore

VARIABLES
    stored,            \* the blocks that exist
    deleteEmpty,       \* the option deleteEmptyBlocks_
    defined            \* FALSE once an operation's behaviour was undefined

sparseVars == <<vox, stored, deleteEmpty, defined>>

SparseInit == Init /\ stored = {} /\ deleteEmpty = FALSE /\ defined = TRUE

(* The blocks of a set that hold only zeros in the image img.              *)
AllZero(blocks, img) ==
    {c \in blocks : \A v \in Voxels : blockGivenCoordinateP(v) = c => img[v] = 0}

(* An operation has given the blocks of touched the contents they have.    *)
Occupy(touched) ==
    stored' = (stored \cup touched)
                 \ (IF deleteEmpty THEN AllZero(touched, vox') ELSE {})

Overwrite(p, q) ==
    /\ \A v \in Voxels : ~InRoi(v, p, q) => vox'[v] = vox[v]
    /\ Occupy(BlocksInRange(p, q))
    /\ UNCHANGED <<deleteEmpty, defined>>

Delete(p, q) ==
    /\ Erase(BlocksInRange(p, q))
    /\ stored' = stored \ BlocksInRange(p, q)
    /\ UNCHANGED <<deleteEmpty, defined>>

RelabelStored(relabeling) ==
    /\ vox' = [v \in Voxels |-> IF blockGivenCoordinateP(v) \in stored
                                THEN relabeling[vox[v]] ELSE vox[v]]
    /\ Occupy(stored)
    /\ UNCHANGED <<deleteEmpty, defined>>

Choose(on) == deleteEmpty' = on /\ UNCHANGED <<vox, stored, defined>>

Corners == Box(Origin, [d \in Dim |-> Extent[d] * BlockShape[d] + 1])
Rois    == {r \in [p : Corners, q : Corners] : \A d \in Dim : r.p[d] < r.q[d]}

SparseNext ==
    /\ defined
    /\ \/ \E r \in Rois : Overwrite(r.p, r.q) \/ Delete(r.p, r.q)
       \/ \E relabeling \in [Value -> Value] : RelabelStored(relabeling)
       \/ \E on \in BOOLEAN : Choose(on)
       \/ defined' = FALSE

SparseSpec == SparseInit /\ [][SparseNext]_sparseVars
==============================================================================
