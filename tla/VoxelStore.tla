------------------------------ MODULE VoxelStore ------------------------------
(***************************************************************************)
(* What an Array promises: a bounded box of voxels, all 0 at first, that   *)
(* its operations overwrite, overlay, erase and relabel.  Blocks show only *)
(* in two places, which the interface documents: erasing takes away whole  *)
(* blocks, and a relabeling applies to the blocks that are stored.         *)
(***************************************************************************)
EXTENDS BlockGeometry

CONSTANTS
    Extent,            \* the bound: the number of blocks in each dimension
    Value              \* the values of a voxel

Grid   == Box(Origin, Extent)
Voxels == Box(Origin, [d \in Dim |-> Extent[d] * BlockShape[d]])

VARIABLE vox

Init == vox = [v \in Voxels |-> 0]

(* The value that voxel v takes when the array a is written into [p, q).   *)
Write(p, q, a) ==
    vox' = [v \in Voxels |-> IF InRoi(v, p, q) THEN a[Minus(v, p)] ELSE vox[v]]

(* Entries 0 of a leave the voxel alone, entries z erase it.               *)
Overlaid(old, in, z) == IF in = 0 THEN old ELSE IF in = z THEN 0 ELSE in

WriteNonzero(p, q, a, z) ==
    vox' = [v \in Voxels |-> IF InRoi(v, p, q)
                             THEN Overlaid(vox[v], a[Minus(v, p)], z)
                             ELSE vox[v]]

Erase(blocks) ==
    vox' = [v \in Voxels |->
               IF blockGivenCoordinateP(v) \in blocks THEN 0 ELSE vox[v]]

(* relabeling has entries 0 .. size - 1.                                   *)
Relabeled(relabeling, size, value) == relabeling[value % size]

Relabel(relabeling, size, blocks) ==
    vox' = [v \in Voxels |->
               IF blockGivenCoordinateP(v) \in blocks
               THEN Relabeled(relabeling, size, vox[v]) ELSE vox[v]]
==============================================================================
