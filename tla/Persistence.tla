----------------------------- MODULE Persistence -----------------------------
(***************************************************************************)
(* Arrays in HDF5 files: Array::writeHDF5 and readHDF5, with the functions *)
(* of the same names that CompressedArray has for its blocks.  A file is   *)
(* the record of what one group holds: attributes, the list of block       *)
(* coordinates, and datasets that are numbered by the position of their    *)
(* block in the map's order.                                               *)
(*                                                                         *)
(* An array is written, its object ends, and a new object is read from the *)
(* file; it is then used like any other.  While the file is all there is,  *)
(* the variables of BlockedArray are history: what was written.            *)
(***************************************************************************)
EXTENDS BlockedArray, Functions

VARIABLES
    file,              \* the group that was written, or NoFile
    tmpBlock           \* tmpBlock_: "allocated", "empty", or "missed" by an operation

persistVars == <<vars, file, tmpBlock>>

NoFile == <<>>

(* The members of a set in the order of a map or a scan.                   *)
Sorted(S) == CHOOSE s \in [1 .. Cardinality(S) -> S] :
                 \A i, j \in DOMAIN s : i < j => Before(s[i], s[j])

Position(s, e) == CHOOSE i \in DOMAIN s : s[i] = e

PersistInit == Init /\ file = NoFile /\ tmpBlock = "allocated"

------------------------------------------------------------------------------
(* One block.  Its buffer is written with currentSizeBytes() bytes.  (The  *)
(* attribute that tells an empty buffer apart is of no use: blocks are not *)
(* empty.)                                                                 *)
BlockToFile(b) ==
    [data |-> [b.data_ EXCEPT !.len = currentSize(b)], ds |-> b.dirtyDimensions_,
     cs |-> b.compressedSize_, d |-> b.isDirty_, c |-> b.isCompressed_]

(* Mutant of BlockFromFile: the block is copied, not assigned.             *)
BlockFromFileCopied(f) ==
    CopyConstructed([data_ |-> f.data, compressedSize_ |-> f.cs, isCompressed_ |-> f.c,
                     isDirty_ |-> f.d, dirtyDimensions_ |-> f.ds])

(* The block that is read is assigned to the one in the map.               *)
BlockFromFile(f) ==
    Assigned([data_ |-> f.data, compressedSize_ |-> f.cs, isCompressed_ |-> f.c,
              isDirty_ |-> f.d, dirtyDimensions_ |-> f.ds])

(* The coordinate list of a block is stored as two datasets, coordinates   *)
(* and values, in the same order, and only if it is not empty.             *)
Listed(coords) ==
    {i \in DOMAIN coords : /\ manageCoordinateLists_ /\ blockVoxelValues_ # Empty
                           /\ blockVoxelValues_[coords[i]] # Empty}

ValuesInOrder(values) == LET idx == Sorted(DOMAIN values)
                         IN  [j \in DOMAIN idx |-> values[idx[j]]]

(* The datasets are numbered in the order of the list of coordinates.      *)
BlockData(coords) == [i \in DOMAIN coords |-> BlockToFile(blocks_[coords[i]])]

(* Array::writeHDF5: coords are the keys of blocks_, in order.  There is   *)
(* no attribute minMax when no minima and maxima are kept.                 *)
ArrayToFile(coords) ==
    [blocks |-> coords,
     data   |-> BlockData(coords),
     deb    |-> deleteEmptyBlocks_, ec |-> enableCompression_,
     mmt    |-> minMaxTracking_, mcl |-> manageCoordinateLists_,
     minMax |-> IF blockMinMax_ = Empty THEN <<>>
                ELSE [i \in DOMAIN coords |-> blockMinMax_[coords[i]]],
     idx    |-> [i \in Listed(coords) |-> Sorted(DOMAIN blockVoxelValues_[coords[i]])],
     val    |-> [i \in Listed(coords) |-> ValuesInOrder(blockVoxelValues_[coords[i]])]]

writeHDF5 ==
    /\ file = NoFile /\ status = "ok" /\ tmpBlock # "missed"
    /\ file' = ArrayToFile(Sorted(Stored))
    /\ UNCHANGED <<vars, tmpBlock>>

(* The coordinate list of the block at position i of the file.             *)
ListFromFile(i) ==
    IF i \notin DOMAIN file.idx THEN Empty
    ELSE [cell \in Range(file.idx[i]) |-> file.val[i][Position(file.idx[i], cell)]]

(* Array::readHDF5 starts from Array(), whose tmpBlock_ has no elements,   *)
(* and sets every member but that.                                         *)
readHDF5 ==
    /\ file # NoFile
    /\ LET at(c) == Position(file.blocks, c)
           coords == Range(file.blocks)
       IN  /\ blocks_' = [c \in coords |-> BlockFromFile(file.data[at(c)])]
           /\ blockMinMax_' = IF file.mmt /\ file.minMax # <<>>
                              THEN [c \in coords |-> file.minMax[at(c)]] ELSE Empty
           /\ blockVoxelValues_' = IF file.mcl
                                   THEN [c \in coords |-> ListFromFile(at(c))] ELSE Empty
    /\ deleteEmptyBlocks_' = file.deb /\ enableCompression_' = file.ec
    /\ minMaxTracking_' = file.mmt /\ manageCoordinateLists_' = file.mcl
    /\ tmpBlock' = "empty"
    /\ file' = NoFile
    /\ UNCHANGED <<status, vox>>

------------------------------------------------------------------------------
(* Operations on the object, which exists while there is no file.          *)

(* The operations that touch no element of tmpBlock_: the option setters   *)
(* and applyRelabeling use it for every stored block, writeSubarray to     *)
(* bring the tables up to date.                                            *)
OperateWithoutTmpBlock ==
    \/ \E on \in Switches : setDeleteEmptyBlocks(on) \/ setCompressionEnabled(on)
    \/ \E on \in Switches : /\ on => Stored = {}
                            /\ setManageCoordinateLists(on) \/ setMinMaxTrackingEnabled(on)
    \/ /\ ~Recomputes
       /\ \E r \in Rois : \E a \in Payload(r.p, r.q, Value) : writeSubarray(r.p, r.q, a)
    \/ \E r \in Rois : deleteSubarray(r.p, r.q)
    \/ Stored = {} /\ \E f \in Relabelings : applyRelabeling(f.labels, f.size)
    \/ \E r \in Rois, dirty \in Marks : setDirtySubarray(r.p, r.q, dirty)

(* The others can be called at any time, write for one.  readArray throws  *)
(* because the shapes differ, or, once a block of no elements was added,   *)
(* the element that is written is out of bounds.                           *)
MissTmpBlock ==
    /\ tmpBlock = "empty" /\ status = "ok" /\ file = NoFile
    /\ tmpBlock' = "missed"
    /\ UNCHANGED <<vars, file>>

Operate ==
    /\ file = NoFile
    /\ \/ tmpBlock = "allocated" /\ Next
       \/ tmpBlock = "empty" /\ status = "ok" /\ OperateWithoutTmpBlock
    /\ UNCHANGED <<file, tmpBlock>>

PersistNext == Operate \/ MissTmpBlock \/ writeHDF5 \/ readHDF5

PersistSpec == PersistInit /\ [][PersistNext]_persistVars

------------------------------------------------------------------------------
(* The object that is read equals the one that was written, in all its     *)
(* options, blocks (data, compression and dirtiness) and tables: what rw   *)
(* in test_blockedarray.cpp compares.                                      *)
RoundTrip == [][readHDF5 => UNCHANGED <<blocks_, options, tables>>]_persistVars
==============================================================================
