----------------------------- MODULE BlockedArray -----------------------------
(***************************************************************************)
(* Array<N,T> (include/bw/array.h): a sparse array made of the blocks that *)
(* were written, with optional compression, deletion of empty blocks,      *)
(* min/max tracking and coordinate lists.  The object belongs to one       *)
(* thread, and the iterations of an operation's loop each touch a block of *)
(* their own (module RwIterator), so each operation is one step that maps  *)
(* over the blocks it touches.                                             *)
(*                                                                         *)
(* Where the code uses an iterator that is invalid, the step leaves        *)
(* status at the name of the misuse, and nothing is known from there on.   *)
(***************************************************************************)
EXTENDS CompressedBlock

CONSTANTS
    Extent,             \* the bound: the number of blocks in each dimension
    TypeMin, TypeMax,   \* numeric_limits<T>::min() and max()
    TypeLowest,         \* the lowest value of T
    Payload(_, _, _),   \* the input arrays over given values tried for [p, q)
    WriteAsZero,        \* the values of writeAsZero tried
    Relabelings,        \* the arrays tried in applyRelabeling
    Marks,              \* the values given to setDirty
    Switches            \* the values given to the option setters

VARIABLES
    blocks_,            \* BlocksMap: from block coordinates to blocks
    deleteEmptyBlocks_, enableCompression_, minMaxTracking_, manageCoordinateLists_,
    blockMinMax_, blockVoxelValues_,
    status,             \* "ok", or the undefined behaviour that was met
    vox                 \* history: the contents that VoxelStore promises

options == <<deleteEmptyBlocks_, enableCompression_, minMaxTracking_, manageCoordinateLists_>>
tables  == <<blockMinMax_, blockVoxelValues_>>
vars    == <<blocks_, options, tables, status, vox>>

ASSUME ExtentAssumption == Extent \in [Dim -> Nat \ {0}]

(* T is any arithmetic type; integers stand for its values in their order, *)
(* and 0 for zero.  TypeMin is the lowest value of an integer type, and of *)
(* float the smallest positive one, with zero and the negative ones below. *)
ASSUME TypeAssumption ==
    /\ TypeLowest \in Int /\ TypeMax \in Int /\ TypeMin \in TypeLowest .. TypeMax
    /\ Value \subseteq TypeLowest .. TypeMax

Store == INSTANCE VoxelStore

Grid   == Store!Grid
Voxels == Store!Voxels
Stored == DOMAIN blocks_

(* The regions of the array that have at least one voxel.                  *)
Corners == Box(Origin, [d \in Dim |-> Extent[d] * BlockShape[d] + 1])
Rois    == {r \in [p : Corners, q : Corners] : \A d \in Dim : r.p[d] < r.q[d]}

(* Inputs: arrays of the shape of their region, labels for every entry.    *)
ASSUME InputAssumption ==
    /\ \A r \in Rois, values \in {Value} \cup {Value \cup {z} : z \in WriteAsZero} :
          Payload(r.p, r.q, values) \subseteq [Box(Origin, Minus(r.q, r.p)) -> values]
    /\ \A f \in Relabelings : /\ Value \subseteq Nat /\ f.size \in Nat \ {0}
                             /\ f.labels \in [0 .. f.size - 1 -> Value]
    /\ Marks \subseteq BOOLEAN /\ Switches \subseteq BOOLEAN

Empty     == [c \in {} |-> 0]
ZeroImage == [c \in Cell |-> 0]

Init ==
    /\ blocks_ = Empty
    /\ deleteEmptyBlocks_ = FALSE /\ enableCompression_ = FALSE
    /\ minMaxTracking_ = FALSE /\ manageCoordinateLists_ = FALSE
    /\ blockMinMax_ = Empty /\ blockVoxelValues_ = Empty
    /\ status = "ok"
    /\ Store!Init

------------------------------------------------------------------------------
(* What is kept about a block's data.                                      *)

allzero(img) == img = ZeroImage

SetMin(S) == CHOOSE m \in S : \A n \in S : m <= n
SetMax(S) == CHOOSE m \in S : \A n \in S : n <= m
ValuesOf(img) == {img[c] : c \in Cell}

minMax(img) == <<SetMin(ValuesOf(img)), SetMax(ValuesOf(img))>>

(* Mutant of blockNonzero: lists the zeros as well.                        *)
blockNonzeroAll(img) == [c \in Cell |-> img[c]]

(* Coordinates and values, as a function on the coordinates.               *)
blockNonzero(img) == [c \in {d \in Cell : img[d] # 0} |-> img[c]]

(* The table f with entries new(c) for the blocks of T, without those of   *)
(* deleted.                                                                *)
Updated(f, T, new(_), deleted) ==
    [c \in (DOMAIN f \cup T) \ deleted |-> IF c \in T THEN new(c) ELSE f[c]]

Recomputes == deleteEmptyBlocks_ \/ minMaxTracking_ \/ manageCoordinateLists_

(* Mutant of Emptied: only blocks that were stored before are looked at.   *)
EmptiedOld(new) ==
    {c \in DOMAIN new \cap Stored : deleteEmptyBlocks_ /\ allzero(readArray(new[c]))}

(* The blocks of new that the tail of a write operation deletes again.     *)
Emptied(new) ==
    {c \in DOMAIN new : deleteEmptyBlocks_ /\ allzero(readArray(new[c]))}

(* The end of every write operation: new gives the blocks it has touched.  *)
StoreBlocks(new) ==
    LET gone == Emptied(new)
        kept(option) == IF option THEN DOMAIN new ELSE {}
    IN  /\ blocks_' = Updated(blocks_, DOMAIN new, LAMBDA c : new[c], gone)
        /\ blockMinMax_' = Updated(blockMinMax_, kept(minMaxTracking_),
                                   LAMBDA c : minMax(readArray(new[c])), gone)
        /\ blockVoxelValues_' = Updated(blockVoxelValues_, kept(manageCoordinateLists_),
                                        LAMBDA c : blockNonzero(readArray(new[c])), gone)

(* Mutant of AddedBlock: the new block is never compressed.                *)
AddedBlockRaw(img) == setDirtyAll(NewBlock(img), TRUE)

(* addBlock: a new block is dirty, and compressed if compression is on.    *)
AddedBlock(img) ==
    LET ca == setDirtyAll(NewBlock(img), TRUE)
    IN  IF enableCompression_ THEN compress(ca) ELSE ca

BlockOrNew(c) == IF c \in Stored THEN blocks_[c] ELSE AddedBlock(ZeroImage)

------------------------------------------------------------------------------
(* Option setters.                                                         *)

setDeleteEmptyBlocks(deleteEmpty) ==
    /\ deleteEmptyBlocks_' = deleteEmpty
    /\ UNCHANGED <<blocks_, enableCompression_, minMaxTracking_,
                   manageCoordinateLists_, tables, status, vox>>

setManageCoordinateLists(manage) ==
    /\ manageCoordinateLists_' = manage
    /\ deleteEmptyBlocks_' = manage
    /\ blockVoxelValues_' = [c \in IF manage THEN Stored ELSE {} |->
                                blockNonzero(readArray(blocks_[c]))]
    /\ UNCHANGED <<blocks_, enableCompression_, minMaxTracking_, blockMinMax_,
                   status, vox>>

setCompressionEnabled(enable) ==
    /\ enableCompression_' = enable
    /\ blocks_' = [c \in Stored |-> IF enable THEN compress(blocks_[c])
                                              ELSE uncompress(blocks_[c])]
    /\ UNCHANGED <<deleteEmptyBlocks_, minMaxTracking_, manageCoordinateLists_,
                   tables, status, vox>>

setMinMaxTrackingEnabled(enable) ==
    /\ minMaxTracking_' = enable
    /\ blockMinMax_' = [c \in IF enable THEN Stored ELSE {} |->
                           minMax(readArray(blocks_[c]))]
    /\ UNCHANGED <<blocks_, deleteEmptyBlocks_, enableCompression_,
                   manageCoordinateLists_, blockVoxelValues_, status, vox>>

------------------------------------------------------------------------------
(* Write operations.                                                       *)

(* Mutant of Piece: every block is given the beginning of a.               *)
PieceFromStart(a, c, p, q) ==
    LET read == ReadRoi(c, p, q)
    IN  [v \in Box(Origin, Minus(read.q, read.p)) |-> a[v]]

(* The part of the array a, written into [p, q), that goes to block c.     *)
Piece(a, c, p, q) ==
    LET read == ReadRoi(c, p, q)
    IN  [v \in Box(Origin, Minus(read.q, read.p)) |-> a[Plus(read.p, v)]]

CoversBlock(c, p, q) ==
    LET w == WithinBlock(c, p, q) IN IsWhole(w.p, w.q)

(* Mutant of WrittenBlock: the fast path leaves the new block dirty.       *)
WrittenBlockDirty(c, p, q, a) ==
    LET w == WithinBlock(c, p, q)
    IN  IF c \notin Stored /\ CoversBlock(c, p, q)
        THEN AddedBlock(Piece(a, c, p, q))
        ELSE writeArray(BlockOrNew(c), w.p, w.q, Piece(a, c, p, q))

(* Block c after writeSubarray(p, q, a): an absent block that is covered   *)
(* entirely is built from the data itself (the fast path), any other one   *)
(* is written into, after an empty block was added if it was absent.       *)
WrittenBlock(c, p, q, a) ==
    LET w == WithinBlock(c, p, q)
    IN  IF c \notin Stored /\ CoversBlock(c, p, q)
        THEN setDirtyAll(AddedBlock(Piece(a, c, p, q)), FALSE)
        ELSE writeArray(BlockOrNew(c), w.p, w.q, Piece(a, c, p, q))

(* The fast path leaves it at blocks_.end(), which the recomputation then  *)
(* dereferences: the process dies, or goes on with whatever it read.       *)
FastPathFollowedByRecompute(p, q) ==
    Recomputes /\ \E c \in BlocksInRange(p, q) \ Stored : CoversBlock(c, p, q)

writeSubarray(p, q, a) ==
    /\ ~FastPathFollowedByRecompute(p, q)
    /\ StoreBlocks([c \in BlocksInRange(p, q) |-> WrittenBlock(c, p, q, a)])
    /\ Store!Write(p, q, a)
    /\ UNCHANGED <<options, status>>

writeSubarrayAtEnd(p, q, a) ==
    /\ FastPathFollowedByRecompute(p, q)
    /\ status' = "end iterator dereferenced"
    /\ Store!Write(p, q, a)
    /\ UNCHANGED <<blocks_, options, tables>>

(* The data of block c under the overlay of a: entries 0 of a are skipped. *)
OverlaidBlock(c, p, q, a, writeAsZero) ==
    LET b       == BlockOrNew(c)
        w       == WithinBlock(c, p, q)
        inData  == Piece(a, c, p, q)
        curData == [v \in DOMAIN inData |->
                       Store!Overlaid(readArray(b)[Plus(w.p, v)], inData[v], writeAsZero)]
    IN  writeArray(b, w.p, w.q, curData)

writeSubarrayNonzero(p, q, a, writeAsZero) ==
    /\ StoreBlocks([c \in BlocksInRange(p, q) |-> OverlaidBlock(c, p, q, a, writeAsZero)])
    /\ Store!WriteNonzero(p, q, a, writeAsZero)
    /\ UNCHANGED <<options, status>>

(* write(p, value) rewrites its whole block.  When the block becomes empty *)
(* and is deleted, the last line still writes through its iterator.        *)
WriteVoxel(p, value) ==
    LET c   == blockGivenCoordinateP(p)
        b   == BlockOrNew(c)
        img == [readArray(b) EXCEPT ![pBlock(p)] = value]
    IN  [d \in {c} |-> writeArray(b, Origin, BlockShape, img)]

write(p, value) ==
    LET new == WriteVoxel(p, value)
    IN  /\ StoreBlocks(new)
        /\ Store!Write(p, Plus(p, [d \in Dim |-> 1]), [v \in {Origin} |-> value])
        /\ status' = IF Emptied(new) = {} THEN status ELSE "erased iterator used"
        /\ UNCHANGED options

(* Mutant of deleteSubarray: the min/max entries stay.                     *)
deleteSubarrayKeepsMinMax(p, q) ==
    LET gone == BlocksInRange(p, q)
    IN  /\ blocks_' = [c \in Stored \ gone |-> blocks_[c]]
        /\ blockVoxelValues_' =
              [c \in DOMAIN blockVoxelValues_ \ gone |-> blockVoxelValues_[c]]
        /\ Store!Erase(gone)
        /\ UNCHANGED <<blockMinMax_, options, status>>

deleteSubarray(p, q) ==
    LET gone == BlocksInRange(p, q)
    IN  /\ blocks_' = [c \in Stored \ gone |-> blocks_[c]]
        /\ blockMinMax_' = [c \in DOMAIN blockMinMax_ \ gone |-> blockMinMax_[c]]
        /\ blockVoxelValues_' =
              [c \in DOMAIN blockVoxelValues_ \ gone |-> blockVoxelValues_[c]]
        /\ Store!Erase(gone)
        /\ UNCHANGED <<options, status>>

RelabeledBlock(c, relabeling, size) ==
    LET img == readArray(blocks_[c])
    IN  writeArray(blocks_[c], Origin, BlockShape,
                   [d \in Cell |-> Store!Relabeled(relabeling, size, img[d])])

(* The loop over blocks_ deletes the block it stands on when it becomes    *)
(* empty, then writes through the erased element and steps from it to the  *)
(* next: any of the other blocks may be left out.                          *)
applyRelabeling(relabeling, size) ==
    LET new == [c \in Stored |-> RelabeledBlock(c, relabeling, size)]
    IN  /\ IF Emptied(new) = {}
           THEN StoreBlocks(new) /\ UNCHANGED status
           ELSE /\ \E done \in SUBSET Stored : StoreBlocks([c \in done |-> new[c]])
                /\ status' = "erased iterator used"
        /\ Store!Relabel(relabeling, size, Stored)
        /\ UNCHANGED options

setDirtySubarray(p, q, dirty) ==
    LET set(c) == LET w == WithinBlock(c, p, q)
                  IN  setDirty(blocks_[c], w.p, w.q, dirty)
    IN  /\ blocks_' = [c \in Stored |-> IF c \in BlocksInRange(p, q)
                                        THEN set(c) ELSE blocks_[c]]
        /\ UNCHANGED <<options, tables, status, vox>>

------------------------------------------------------------------------------
SetOption(on) ==
    \/ setDeleteEmptyBlocks(on)
    \/ setManageCoordinateLists(on)
    \/ setCompressionEnabled(on)
    \/ setMinMaxTrackingEnabled(on)

WriteRegion(p, q) ==
    \/ \E a \in Payload(p, q, Value) : writeSubarray(p, q, a) \/ writeSubarrayAtEnd(p, q, a)
    \/ \E z \in WriteAsZero : \E a \in Payload(p, q, Value \cup {z}) :
          writeSubarrayNonzero(p, q, a, z)

Next ==
    /\ status = "ok"
    /\ \/ \E on \in Switches : SetOption(on)
       \/ \E r \in Rois : WriteRegion(r.p, r.q)
       \/ \E v \in Voxels, value \in Value : write(v, value)
       \/ \E r \in Rois : deleteSubarray(r.p, r.q)
       \/ \E f \in Relabelings : applyRelabeling(f.labels, f.size)
       \/ \E r \in Rois, dirty \in Marks : setDirtySubarray(r.p, r.q, dirty)

Spec == Init /\ [][Next]_vars

------------------------------------------------------------------------------
(* Queries.                                                                *)

(* operator[]                                                              *)
At(p) == LET c == blockGivenCoordinateP(p)
         IN  IF c \in Stored THEN readArray(blocks_[c])[pBlock(p)] ELSE 0

(* Entry v of the array that readSubarray(p, q, out) fills: out starts as  *)
(* zeros, and each stored block is copied to its read region.              *)
ReadSubarray(p, q) ==
    [v \in Box(Origin, Minus(q, p)) |->
        LET from == {c \in BlocksInRange(p, q) \cap Stored :
                        LET read == ReadRoi(c, p, q) IN InRoi(v, read.p, read.q)}
        IN  IF from = {} THEN 0
            ELSE LET c == CHOOSE b \in from : TRUE
                     w == WithinBlock(c, p, q)
                 IN  readSubarray(blocks_[c], w.p, w.q)[Minus(v, ReadRoi(c, p, q).p)]]

(* Mutant of IsDirty: every block of the region has to be dirty.           *)
IsDirtyInAll(p, q) ==
    \A c \in BlocksInRange(p, q) :
        c \in Stored => LET w == WithinBlock(c, p, q) IN isDirty(blocks_[c], w.p, w.q)

IsDirty(p, q) ==
    \E c \in BlocksInRange(p, q) :
        c \in Stored => LET w == WithinBlock(c, p, q) IN isDirty(blocks_[c], w.p, w.q)

(* blocks(p, q) lists every stored block, and dirtyBlocks(p, q) those of   *)
(* them that are dirty: neither looks at p and q.                          *)
Blocks(p, q)      == Stored
DirtyBlocks(p, q) == {c \in Blocks(p, q) : blocks_[c].isDirty_}

(* Mutant of MinMax: takes the maximum of the minima.                      *)
MinMaxOfMin ==
    <<SetMin({TypeMax} \cup {blockMinMax_[c][1] : c \in DOMAIN blockMinMax_}),
      SetMax({TypeMin} \cup {blockMinMax_[c][1] : c \in DOMAIN blockMinMax_})>>

MinMax ==
    <<SetMin({TypeMax} \cup {blockMinMax_[c][1] : c \in DOMAIN blockMinMax_}),
      SetMax({TypeMin} \cup {blockMinMax_[c][2] : c \in DOMAIN blockMinMax_})>>

(* Mutant of Nonzero: coordinates relative to the block.                   *)
NonzeroInBlock ==
    UNION {{<<d, blockVoxelValues_[c][d]>> : d \in DOMAIN blockVoxelValues_[c]} :
              c \in DOMAIN blockVoxelValues_}

Nonzero ==
    UNION {{<<Voxel(c, d), blockVoxelValues_[c][d]>> : d \in DOMAIN blockVoxelValues_[c]} :
              c \in DOMAIN blockVoxelValues_}

------------------------------------------------------------------------------
(* Shape of the state.                                                     *)
TypeOK ==
    /\ Stored \subseteq Grid /\ blocks_ \in [Stored -> Block]
    /\ options \in BOOLEAN \X BOOLEAN \X BOOLEAN \X BOOLEAN
    /\ DOMAIN blockMinMax_ \subseteq Grid
    /\ DOMAIN blockVoxelValues_ \subseteq Grid
    /\ \A c \in DOMAIN blockVoxelValues_ :
          blockVoxelValues_[c] \in UNION {[D -> Value \ {0}] : D \in SUBSET Cell}
    /\ status \in {"ok", "end iterator dereferenced", "erased iterator used"}
    /\ vox \in [Voxels -> Value]

Defined == status = "ok"

(* Every region reads back what was written, overlaid, erased or relabeled *)
(* there, whatever options were switched on the way and however the region *)
(* is cut into blocks; single voxels read the same through operator[].     *)
ReadsBack ==
    Defined => /\ \A r \in Rois :
                    ReadSubarray(r.p, r.q) =
                        [v \in Box(Origin, Minus(r.q, r.p)) |-> vox[Plus(r.p, v)]]
               /\ \A v \in Voxels : At(v) = vox[v]

(* The tables describe the stored blocks, all of them and no others, while *)
(* their option is on, and are empty while it is off.  writeHDF5 relies on *)
(* it: it looks every stored block up in them.                             *)
TablesCoherent ==
    Defined =>
        /\ blockMinMax_ = [c \in IF minMaxTracking_ THEN Stored ELSE {} |->
                              minMax(readArray(blocks_[c]))]
        /\ blockVoxelValues_ = [c \in IF manageCoordinateLists_ THEN Stored ELSE {} |->
                                   blockNonzero(readArray(blocks_[c]))]

(* "If compression is enabled, all current blocks are compressed.          *)
(* Furthermore, each newly added block is set to be compressed by default" *)
(* (setCompressionEnabled in array.h), and with it off none is; switching  *)
(* it never meets a block whose cached size is out of date.                *)
CompressionHonoured ==
    Defined => \A c \in Stored :
        /\ blocks_[c].isCompressed_ <=> enableCompression_
        /\ ~CompressThrows(blocks_[c])

(* nonzero() lists exactly the nonzero voxels of the whole array, though   *)
(* it only ever looks at the lists kept for blocks.                        *)
NonzeroExact ==
    Defined /\ manageCoordinateLists_ =>
        Nonzero = {<<v, vox[v]>> : v \in {u \in Voxels : vox[u] # 0}}

(* "computes in O(#blocks) the minimum and maximum value of all currently  *)
(* stored data" (minMax in array.h).  The maximum comes out right only if  *)
(* some value is not below numeric_limits<T>::min(), from which the code   *)
(* starts: always for integer types, but for a float array of zeros and    *)
(* negative values the answer is that smallest positive number instead.    *)
MinMaxExact ==
    LET data == {vox[v] : v \in {u \in Voxels : blockGivenCoordinateP(u) \in Stored}}
    IN  Defined /\ minMaxTracking_ /\ Stored # {} =>
            /\ MinMax[1] = SetMin(data)
            /\ MinMax[2] = IF \E k \in data : k >= TypeMin THEN SetMax(data) ELSE TypeMin

(* A region is dirty iff one of its voxels is, however the region is cut   *)
(* into blocks and the blocks into slices: "should(!blockedArray.isDirty(  *)
(* V(5,50), V(6,75)))" and the like in test_blockedarray.cpp.              *)
DirtyVoxelwise ==
    \A r \in Rois :
        IsDirty(r.p, r.q) <=>
            \E v \in Box(r.p, r.q) : IsDirty(v, Plus(v, [d \in Dim |-> 1]))

(* Whatever was marked and written before, setDirty(p, q, true) makes      *)
(* every voxel of the region that is in a stored block dirty, although     *)
(* slices of dimensions 0 and 1 share their slots and the region is marked *)
(* slice by slice, not voxel by voxel.                                     *)
MarkedIsReported ==
    \A r \in Rois : \A c \in BlocksInRange(r.p, r.q) \cap Stored :
        LET w == WithinBlock(c, r.p, r.q)
            b == setDirty(blocks_[c], w.p, w.q, TRUE)
        IN  \A v \in Box(w.p, w.q) : isDirty(b, v, Plus(v, [d \in Dim |-> 1]))

CoveredBlocks(r) == {c \in BlocksInRange(r.p, r.q) : CoversBlock(c, r.p, r.q)}
BlockDirty(c) ==
    blocks_[c].isDirty_ \/ IsDirty(blockBounds(c).p, blockBounds(c).q)

(* "If a block is _completely_ overwritten, its state is set to NOT DIRTY" *)
(* (writeSubarray in array.h), whether it was stored before or not: a step *)
(* that leaves a block of the region dirty is no write of all of it.       *)
OverwrittenIsClean ==
    [][\A r \in Rois :
          (\E c \in CoveredBlocks(r) \cap Stored' : BlockDirty(c)') =>
              \A a \in Payload(r.p, r.q, Value) : ~writeSubarray(r.p, r.q, a)]_vars

------------------------------------------------------------------------------
(* What a user of the sparse array is promised (module SparseStore), the   *)
(* voxels being what operator[] answers.                                   *)
Contained == [v \in Voxels |-> At(v)]

Sparse == INSTANCE SparseStore
             WITH vox <- Contained, stored <- Stored,
                  deleteEmpty <- deleteEmptyBlocks_, defined <- Defined

(* The array implements the sparse store: while no undefined behaviour is  *)
(* met, each operation changes the voxels of its region only, and makes    *)
(* and unmakes blocks exactly as the setting of deleteEmptyBlocks_ says,   *)
(* whatever else is switched on: with it, every write operation removes    *)
(* the blocks that it empties.                                             *)
ImplementsSparseStore == Sparse!SparseSpec

------------------------------------------------------------------------------
(* What the documentation says and the code does not do.                   *)

(* "whether to check, on every write operation, whether a block has become *)
(* empty ... and to delete such a block" (array.h, setDeleteEmptyBlocks):  *)
(* every write operation can do that, for every region and every set of    *)
(* stored blocks, without using an invalid iterator.                       *)
IteratorsValid == status = "ok"

(* "set all blocks that intersect the ROI [p,q) to be flagged as 'dirty'"  *)
(* (setDirty in array.h): a stored block that the region touches is one of *)
(* the dirty blocks right after it was marked.  A block that the region    *)
(* does not cover gets the marks of its slices only, and dirtyBlocks asks  *)
(* for the mark of the block.                                              *)
MarkedIsListed ==
    [][\A r \in Rois :
          setDirtySubarray(r.p, r.q, TRUE) =>
              (BlocksInRange(r.p, r.q) \cap Stored \subseteq DirtyBlocks(r.p, r.q))']_vars
==============================================================================
