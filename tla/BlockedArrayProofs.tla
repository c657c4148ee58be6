------------------------ MODULE BlockedArrayProofs ------------------------
(***************************************************************************)
(* The array holds what was written, in every region read, whatever its    *)
(* options and however it is cut into blocks; the tables kept about the    *)
(* blocks describe them, and the blocks are compressed as the option says. *)
(* It implements SparseStore, and an array that was read from a file       *)
(* cannot be told from the one that was written.                           *)
(***************************************************************************)
EXTENDS Persistence, CompressedBlockProofs

(* The blocks stand for the contents promised: a stored block voxel by     *)
(* voxel, and no block for zeros.                                          *)
Contents ==
    /\ \A c \in Stored, cell \in Cell : readArray(blocks_[c])[cell] = vox[Voxel(c, cell)]
    /\ \A v \in Voxels : blockGivenCoordinateP(v) \notin Stored => vox[v] = 0

BlocksFit ==
    /\ Stored \subseteq Grid /\ blocks_ \in [Stored -> Block]
    /\ \A c \in Stored : /\ BlockOK(blocks_[c])
                         /\ blocks_[c].isCompressed_ = enableCompression_

TablesFit ==
    /\ blockMinMax_ = [c \in IF minMaxTracking_ THEN Stored ELSE {} |->
                          minMax(readArray(blocks_[c]))]
    /\ blockVoxelValues_ = [c \in IF manageCoordinateLists_ THEN Stored ELSE {} |->
                               blockNonzero(readArray(blocks_[c]))]

OptionsFit == options \in BOOLEAN \X BOOLEAN \X BOOLEAN \X BOOLEAN

IInv ==
    /\ OptionsFit
    /\ BlocksFit
    /\ TablesFit
    /\ status \in {"ok", "end iterator dereferenced", "erased iterator used"}
    /\ vox \in [Voxels -> Value]
    /\ Defined => Contents

(* A step has given the blocks of touched the contents promised: they are  *)
(* stored, without those that an option has deleted for their zeros.       *)
Occupied(touched) ==
    Stored' = (Stored \cup touched)
                 \ {c \in touched : /\ deleteEmptyBlocks_
                                    /\ \A cell \in Cell : vox'[Voxel(c, cell)] = 0}

(* What the operations do to the sparse store.                             *)
Overwrites(r) ==
    /\ \A v \in Voxels : ~InRoi(v, r.p, r.q) => vox'[v] = vox[v]
    /\ Occupied(BlocksInRange(r.p, r.q))
    /\ UNCHANGED deleteEmptyBlocks_

Erases(r) ==
    /\ vox' = [v \in Voxels |-> IF blockGivenCoordinateP(v) \in BlocksInRange(r.p, r.q)
                                THEN 0 ELSE vox[v]]
    /\ Stored' = Stored \ BlocksInRange(r.p, r.q)
    /\ UNCHANGED deleteEmptyBlocks_

Relabels ==
    /\ \E label \in [Value -> Value] :
          vox' = [v \in Voxels |-> IF blockGivenCoordinateP(v) \in Stored
                                   THEN label[vox[v]] ELSE vox[v]]
    /\ Occupied(Stored)
    /\ UNCHANGED deleteEmptyBlocks_

------------------------------------------------------------------------------
(* The geometry of the store is that of the array.                         *)

LEMMA StoreGeometry ==
    /\ Grid = Box(Origin, Extent)
    /\ Voxels = Box(Origin, [d \in Dim |-> Extent[d] * BlockShape[d]])
    /\ \A v : Store!blockGivenCoordinateP(v) = blockGivenCoordinateP(v)
    /\ \A u, v : Store!Minus(u, v) = Minus(u, v)
    /\ \A v, p, q : Store!InRoi(v, p, q) <=> InRoi(v, p, q)
  BY DEF Grid, Voxels, Store!Grid, Store!Voxels, Store!Box, Box, Store!Coordinates,
         Coordinates, Store!InRoi, InRoi, Store!Origin, Origin, Store!Dim, Dim,
         Store!blockGivenCoordinateP, blockGivenCoordinateP, Store!Quotient, Quotient,
         Store!Minus, Minus

LEMMA GridMember ==
    ASSUME NEW c
    PROVE  c \in Grid <=> c \in Vectors /\ \A d \in Dim : c[d] < Extent[d]
  <1>1. Extent \in IntVectors /\ Origin \in IntVectors
    BY ExtentAssumption, ShapeType DEF IntVectors
  <1>2. c \in Grid <=> c \in IntVectors /\ InRoi(c, Origin, Extent)
    BY <1>1, BoxMember, StoreGeometry
  <1>3. ASSUME c \in IntVectors, InRoi(c, Origin, Extent) PROVE c \in Vectors
    BY <1>3, ShapeType DEF IntVectors, Vectors, InRoi
  <1> QED BY <1>2, <1>3, ShapeType DEF InRoi, Vectors, IntVectors

LEMMA ExtentInVoxels ==
    /\ \A d \in Dim : Extent[d] * BlockShape[d] \in Nat
                   /\ Extent[d] * BlockShape[d] = BlockShape[d] * Extent[d]
    /\ [d \in Dim |-> Extent[d] * BlockShape[d]] \in IntVectors
    /\ [d \in Dim |-> Extent[d] * BlockShape[d] + 1] \in IntVectors
  <1>1. ASSUME NEW d \in Dim
        PROVE  /\ Extent[d] * BlockShape[d] \in Nat
               /\ Extent[d] * BlockShape[d] = BlockShape[d] * Extent[d]
    <2> DEFINE x == Extent[d]
               y == BlockShape[d]
    <2>1. x \in Nat /\ y \in Nat
      BY ExtentAssumption, GeometryAssumption
    <2> HIDE DEF x, y
    <2>2. x * y \in Nat /\ x * y = y * x
      BY <2>1, SMT
    <2> QED BY <2>2 DEF x, y
  <1> QED BY <1>1 DEF IntVectors

LEMMA VoxelMember ==
    ASSUME NEW v
    PROVE  v \in Voxels <=>
              v \in Vectors /\ \A d \in Dim : v[d] < Extent[d] * BlockShape[d]
  <1> DEFINE bound == [d \in Dim |-> Extent[d] * BlockShape[d]]
  <1>1. bound \in IntVectors /\ Origin \in IntVectors
    BY ExtentInVoxels, ShapeType
  <1>2. v \in Voxels <=> v \in IntVectors /\ InRoi(v, Origin, bound)
    BY <1>1, BoxMember, StoreGeometry
  <1>3. ASSUME v \in IntVectors, InRoi(v, Origin, bound) PROVE v \in Vectors
    BY <1>3, ShapeType DEF IntVectors, Vectors, InRoi
  <1> QED BY <1>2, <1>3, ShapeType DEF InRoi, Vectors, IntVectors

(* The cells of the blocks of the grid are the voxels.                     *)
LEMMA VoxelsOfGrid ==
    /\ \A v \in Voxels : v \in Vectors /\ blockGivenCoordinateP(v) \in Grid
                         /\ pBlock(v) \in Cell
                         /\ Voxel(blockGivenCoordinateP(v), pBlock(v)) = v
    /\ \A c \in Grid, cell \in Cell :
          /\ Voxel(c, cell) \in Voxels
          /\ blockGivenCoordinateP(Voxel(c, cell)) = c /\ pBlock(Voxel(c, cell)) = cell
  <1>1. ASSUME NEW c \in Vectors, NEW cell \in Cell, NEW v, v = Voxel(c, cell), NEW d \in Dim
        PROVE  v[d] < Extent[d] * BlockShape[d] <=> c[d] < Extent[d]
    <2>1. v[d] = BlockShape[d] * c[d] + cell[d]
      BY <1>1 DEF Voxel, Plus, blockBounds
    <2> DEFINE s == BlockShape[d]
               e == Extent[d]
               k == c[d]
               x == cell[d]
    <2>2. s \in Nat \ {0} /\ e \in Nat /\ k \in Nat /\ x \in Nat /\ x < s
      BY ExtentAssumption, ShapeType, CellMember DEF Vectors
    <2>3. v[d] = s * k + x /\ Extent[d] * BlockShape[d] = s * e
      BY <2>1, ExtentInVoxels
    <2> HIDE DEF s, e, k, x
    <2>4. /\ s * k \in Int /\ s * e \in Int /\ s * (k + 1) = s * k + s
          /\ k + 1 <= e => s * (k + 1) <= s * e
          /\ s * k < s * e => k < e
      BY <2>2, MulMono
    <2>5. s * k + x < s * e <=> k < e
      BY <2>2, <2>4
    <2> QED BY <2>3, <2>5 DEF e, k
  <1>2. ASSUME NEW v \in Voxels
        PROVE  /\ v \in Vectors /\ blockGivenCoordinateP(v) \in Grid
               /\ pBlock(v) \in Cell /\ Voxel(blockGivenCoordinateP(v), pBlock(v)) = v
    <2>1. v \in Vectors /\ \A d \in Dim : v[d] < Extent[d] * BlockShape[d]
      BY VoxelMember
    <2>2. /\ blockGivenCoordinateP(v) \in Vectors /\ pBlock(v) \in Cell
          /\ Voxel(blockGivenCoordinateP(v), pBlock(v)) = v
      BY <2>1, BlockOfVoxel
    <2>3. \A d \in Dim : blockGivenCoordinateP(v)[d] < Extent[d]
      BY <1>1, <2>1, <2>2
    <2> QED BY <2>1, <2>2, <2>3, GridMember
  <1>3. ASSUME NEW c \in Grid, NEW cell \in Cell
        PROVE  /\ Voxel(c, cell) \in Voxels
               /\ blockGivenCoordinateP(Voxel(c, cell)) = c
               /\ pBlock(Voxel(c, cell)) = cell
    <2>1. c \in Vectors /\ \A d \in Dim : c[d] < Extent[d]
      BY GridMember
    <2>2. /\ Voxel(c, cell) \in Vectors
          /\ blockGivenCoordinateP(Voxel(c, cell)) = c
          /\ pBlock(Voxel(c, cell)) = cell
      BY <2>1, VoxelOfCell
    <2>3. \A d \in Dim : Voxel(c, cell)[d] < Extent[d] * BlockShape[d]
      BY <1>1, <2>1
    <2> QED BY <2>2, <2>3, VoxelMember
  <1> QED BY <1>2, <1>3

(* The regions of the array are regions, within it.                        *)
LEMMA RoiInArray ==
    ASSUME NEW r \in Rois
    PROVE  /\ IsRegion(r.p, r.q)
           /\ \A v \in Vectors : InRoi(v, r.p, r.q) => v \in Voxels
           /\ BlocksInRange(r.p, r.q) \subseteq Grid
  <1> DEFINE bound == [d \in Dim |-> Extent[d] * BlockShape[d] + 1]
  <1>1. ASSUME NEW v \in Corners
        PROVE  /\ v \in Vectors
               /\ \A d \in Dim : v[d] <= Extent[d] * BlockShape[d]
    <2>1. bound \in IntVectors /\ Origin \in IntVectors
      BY ExtentInVoxels, ShapeType
    <2>2. v \in IntVectors /\ InRoi(v, Origin, bound)
      BY <2>1, BoxMember DEF Corners
    <2>3. ASSUME NEW d \in Dim
          PROVE  v[d] \in Nat /\ v[d] <= Extent[d] * BlockShape[d]
      BY <2>2, ShapeType, ExtentInVoxels DEF InRoi, IntVectors
    <2> QED BY <2>2, <2>3 DEF Vectors, IntVectors
  <1>2. IsRegion(r.p, r.q) /\ \A d \in Dim : r.q[d] <= Extent[d] * BlockShape[d]
    BY <1>1 DEF Rois, IsRegion
  <1>3. ASSUME NEW v \in Vectors, InRoi(v, r.p, r.q) PROVE v \in Voxels
    <2>1. ASSUME NEW d \in Dim PROVE v[d] < Extent[d] * BlockShape[d]
      <3>1. v[d] \in Nat /\ r.q[d] \in Nat /\ v[d] < r.q[d]
        BY <1>2, <1>3 DEF IsRegion, InRoi, Vectors
      <3> QED BY <1>2, <3>1, ExtentInVoxels
    <2> QED BY <2>1, VoxelMember
  <1>4. ASSUME NEW c \in BlocksInRange(r.p, r.q) PROVE c \in Grid
    <2>1. PICK cell \in Cell : InRoi(Voxel(c, cell), r.p, r.q)
      BY <1>2, VisitComplete
    <2>2. c \in Vectors
      BY <1>2, VisitedBlocks
    <2>3. Voxel(c, cell) \in Vectors /\ blockGivenCoordinateP(Voxel(c, cell)) = c
      BY <2>2, VoxelOfCell
    <2>4. Voxel(c, cell) \in Voxels
      BY <1>3, <2>1, <2>3
    <2> QED BY <2>3, <2>4, VoxelsOfGrid
  <1> QED BY <1>2, <1>3, <1>4

------------------------------------------------------------------------------
(* Blocks and pieces of the input.                                         *)

LEMMA AddedBlockOK ==
    ASSUME OptionsFit, NEW img \in Image
    PROVE  /\ BlockOK(AddedBlock(img)) /\ readArray(AddedBlock(img)) = img
           /\ AddedBlock(img).isCompressed_ = enableCompression_
  <1> DEFINE ca == setDirtyAll(NewBlock(img), TRUE)
  <1>1. BlockOK(ca) /\ readArray(ca) = img /\ ca.isCompressed_ = FALSE
    <2>1. /\ BlockOK(NewBlock(img)) /\ readArray(NewBlock(img)) = img
          /\ NewBlock(img).isCompressed_ = FALSE
      BY NewBlockOK DEF NewBlock
    <2> QED BY <2>1, SetDirtyAllOK
  <1>2. AddedBlock(img) = IF enableCompression_ THEN compress(ca) ELSE ca
    BY DEF AddedBlock
  <1> HIDE DEF ca
  <1>3. /\ BlockOK(compress(ca)) /\ readArray(compress(ca)) = img
        /\ compress(ca).isCompressed_ = TRUE
    <2>1. BlockOK(compress(ca)) /\ readArray(compress(ca)) = img /\ compress(ca).isCompressed_
      BY <1>1, CompressOK
    <2>2. compress(ca).isCompressed_ \in BOOLEAN
      BY <2>1 DEF BlockOK, Block
    <2> QED BY <2>1, <2>2
  <1>4. enableCompression_ \in BOOLEAN
    BY DEF OptionsFit, options
  <1> QED BY <1>1, <1>2, <1>3, <1>4

LEMMA ZeroIsImage == ZeroImage \in Image /\ Cell # {}
  <1>1. Origin \in Cell
    BY CellMember, ShapeType
  <1> QED BY <1>1, ValueAssumption DEF ZeroImage, Image

LEMMA BlockOrNewOK ==
    ASSUME OptionsFit, BlocksFit, NEW c \in Grid
    PROVE  /\ BlockOK(BlockOrNew(c))
           /\ BlockOrNew(c).isCompressed_ = enableCompression_
           /\ readArray(BlockOrNew(c)) \in Image
           /\ vox \in [Voxels -> Value] /\ Contents =>
                 \A cell \in Cell : readArray(BlockOrNew(c))[cell] = vox[Voxel(c, cell)]
  <1>1. CASE c \in Stored
    BY <1>1 DEF BlockOrNew, BlocksFit, Contents, BlockOK, Block, readArray
  <1>2. CASE c \notin Stored
    <2>1. /\ BlockOK(BlockOrNew(c)) /\ readArray(BlockOrNew(c)) = ZeroImage
          /\ BlockOrNew(c).isCompressed_ = enableCompression_
      BY <1>2, ZeroIsImage, AddedBlockOK DEF BlockOrNew
    <2>2. ASSUME NEW cell \in Cell, Contents PROVE vox[Voxel(c, cell)] = 0
      BY <1>2, <2>2, VoxelsOfGrid DEF Contents
    <2> QED BY <2>1, <2>2, ZeroIsImage DEF ZeroImage
  <1> QED BY <1>1, <1>2

(* The piece of the input that compute() hands to a block has, for a cell, *)
(* the input's entry for the cell's voxel.                                 *)
LEMMA PieceOK ==
    ASSUME NEW r \in Rois, NEW values, NEW a \in [Box(Origin, Minus(r.q, r.p)) -> values],
           NEW c \in BlocksInRange(r.p, r.q), NEW cell \in Cell
    PROVE  LET w     == WithinBlock(c, r.p, r.q)
               voxel == Voxel(c, cell)
               piece == Piece(a, c, r.p, r.q)
           IN  /\ InRoi(cell, w.p, w.q) <=> InRoi(voxel, r.p, r.q)
               /\ InRoi(cell, w.p, w.q) =>
                     /\ Minus(cell, w.p) \in DOMAIN piece
                     /\ piece[Minus(cell, w.p)] = a[Minus(voxel, r.p)]
                     /\ a[Minus(voxel, r.p)] \in values
                     /\ Plus(w.p, Minus(cell, w.p)) = cell
  <1> DEFINE w     == WithinBlock(c, r.p, r.q)
             read  == ReadRoi(c, r.p, r.q)
             voxel == Voxel(c, cell)
  <1>1. IsRegion(r.p, r.q)
    BY RoiInArray
  <1>2. /\ InRoi(cell, w.p, w.q) <=> InRoi(voxel, r.p, r.q)
        /\ InRoi(cell, w.p, w.q) =>
              /\ Minus(cell, w.p) \in Box(Origin, Minus(read.q, read.p))
              /\ Plus(read.p, Minus(cell, w.p)) = Minus(voxel, r.p)
    BY <1>1, VisitExact
  <1>3. Piece(a, c, r.p, r.q) =
           [v \in Box(Origin, Minus(read.q, read.p)) |-> a[Plus(read.p, v)]]
    BY DEF Piece
  <1>4. c \in Vectors /\ w.p \in Vectors
    BY <1>1, ComputedRois
  <1>5. voxel \in Vectors /\ cell \in Vectors
    BY <1>4, VoxelOfCell, CellMember
  <1> HIDE DEF w, read, voxel
  <1>6. Plus(w.p, Minus(cell, w.p)) = cell
    <2>1. \A d \in Dim : w.p[d] + (cell[d] - w.p[d]) = cell[d]
      BY <1>4, <1>5 DEF Vectors
    <2> QED BY <1>5, <2>1 DEF Plus, Minus, Vectors
  <1>7. ASSUME InRoi(voxel, r.p, r.q)
        PROVE  Minus(voxel, r.p) \in Box(Origin, Minus(r.q, r.p))
    <2>1. \A d \in Dim : voxel[d] \in Nat /\ r.p[d] \in Nat /\ r.q[d] \in Nat
      BY <1>1, <1>5 DEF IsRegion, Vectors
    <2>2. /\ Minus(voxel, r.p) \in IntVectors /\ Minus(r.q, r.p) \in IntVectors
          /\ Origin \in IntVectors
      BY <2>1, ShapeType DEF Minus, IntVectors, Vectors
    <2>3. InRoi(Minus(voxel, r.p), Origin, Minus(r.q, r.p))
      BY <1>7, <2>1, ShapeType DEF InRoi, Minus
    <2> QED BY <2>2, <2>3, BoxMember
  <1> QED BY <1>2, <1>3, <1>6, <1>7 DEF w, voxel

------------------------------------------------------------------------------
(* The common end of the write operations.                                 *)

LEMMA StoreBlocksOK ==
    ASSUME OptionsFit, BlocksFit, TablesFit,
           NEW new, DOMAIN new \subseteq Grid,
           \A c \in DOMAIN new : /\ BlockOK(new[c])
                                 /\ new[c].isCompressed_ = enableCompression_,
           StoreBlocks(new), UNCHANGED options
    PROVE  /\ OptionsFit' /\ BlocksFit' /\ TablesFit'
           /\ Stored' = (Stored \cup DOMAIN new) \ Emptied(new)
           /\ \A c \in Stored' :
                 blocks_'[c] = IF c \in DOMAIN new THEN new[c] ELSE blocks_[c]
  <1> DEFINE gone  == Emptied(new)
             after == (Stored \cup DOMAIN new) \ gone
             kept(option) == IF option THEN DOMAIN new ELSE {}
  <1>1. blocks_' = [c \in after |-> IF c \in DOMAIN new THEN new[c] ELSE blocks_[c]]
    BY DEF StoreBlocks, Updated, Stored
  <1>2. /\ blockMinMax_' = [c \in (DOMAIN blockMinMax_ \cup kept(minMaxTracking_)) \ gone |->
                              IF c \in kept(minMaxTracking_) THEN minMax(readArray(new[c]))
                              ELSE blockMinMax_[c]]
        /\ blockVoxelValues_' =
              [c \in (DOMAIN blockVoxelValues_ \cup kept(manageCoordinateLists_)) \ gone |->
                  IF c \in kept(manageCoordinateLists_) THEN blockNonzero(readArray(new[c]))
                  ELSE blockVoxelValues_[c]]
    BY DEF StoreBlocks, Updated
  <1>3. /\ minMaxTracking_' = minMaxTracking_ /\ enableCompression_' = enableCompression_
        /\ manageCoordinateLists_' = manageCoordinateLists_ /\ OptionsFit'
        /\ minMaxTracking_ \in BOOLEAN /\ manageCoordinateLists_ \in BOOLEAN
    BY DEF OptionsFit, options
  <1> HIDE DEF gone
  <1>4. /\ Stored' = after
        /\ \A c \in Stored' :
              blocks_'[c] = IF c \in DOMAIN new THEN new[c] ELSE blocks_[c]
    BY <1>1 DEF Stored
  <1>5. BlocksFit'
    <2>1. ASSUME NEW c \in Stored'
          PROVE  BlockOK(blocks_'[c]) /\ blocks_'[c].isCompressed_ = enableCompression_
      BY <1>4 DEF BlocksFit
    <2>2. Stored' \subseteq Grid
      BY <1>4 DEF BlocksFit
    <2>3. blocks_' \in [Stored' -> Block]
      <3>1. \A c \in after : (IF c \in DOMAIN new THEN new[c] ELSE blocks_[c]) \in Block
        BY <1>4, <2>1 DEF BlockOK
      <3> QED BY <1>1, <1>4, <3>1
    <2> QED BY <1>3, <2>1, <2>2, <2>3 DEF BlocksFit
  <1>6. blockMinMax_' = [c \in IF minMaxTracking_ THEN Stored' ELSE {} |->
                            minMax(readArray(blocks_'[c]))]
    <2>1. CASE minMaxTracking_
      <3>1. DOMAIN blockMinMax_ = Stored
            /\ \A c \in Stored : blockMinMax_[c] = minMax(readArray(blocks_[c]))
        BY <2>1 DEF TablesFit
      <3> QED BY <1>2, <1>4, <2>1, <3>1
    <2>2. CASE ~minMaxTracking_
      <3>1. DOMAIN blockMinMax_ = {}
        BY <2>2 DEF TablesFit
      <3> QED BY <1>2, <2>2, <3>1
    <2> QED BY <2>1, <2>2
  <1>7. blockVoxelValues_' = [c \in IF manageCoordinateLists_ THEN Stored' ELSE {} |->
                                 blockNonzero(readArray(blocks_'[c]))]
    <2>1. CASE manageCoordinateLists_
      <3>1. DOMAIN blockVoxelValues_ = Stored
            /\ \A c \in Stored : blockVoxelValues_[c] = blockNonzero(readArray(blocks_[c]))
        BY <2>1 DEF TablesFit
      <3> QED BY <1>2, <1>4, <2>1, <3>1
    <2>2. CASE ~manageCoordinateLists_
      <3>1. DOMAIN blockVoxelValues_ = {}
        BY <2>2 DEF TablesFit
      <3> QED BY <1>2, <2>2, <3>1
    <2> QED BY <2>1, <2>2
  <1>8. TablesFit'
    BY <1>3, <1>6, <1>7 DEF TablesFit
  <1> QED BY <1>3, <1>4, <1>5, <1>8 DEF gone

(* When the new blocks hold the new contents, so does the array.  A block  *)
(* is only left out when it holds zeros.                                   *)
LEMMA StoreContentsOK ==
    ASSUME BlocksFit, Contents, NEW new, DOMAIN new \subseteq Grid,
           \A c \in DOMAIN new, cell \in Cell :
              readArray(new[c])[cell] = vox'[Voxel(c, cell)],
           \A v \in Voxels : blockGivenCoordinateP(v) \notin DOMAIN new => vox'[v] = vox[v],
           Stored' = (Stored \cup DOMAIN new) \ Emptied(new),
           \A c \in Stored' :
              blocks_'[c] = IF c \in DOMAIN new THEN new[c] ELSE blocks_[c]
    PROVE  Contents'
  <1>1. ASSUME NEW c \in Stored', NEW cell \in Cell
        PROVE  readArray(blocks_'[c])[cell] = vox'[Voxel(c, cell)]
    <2>1. CASE c \in DOMAIN new
      BY <2>1
    <2>2. CASE c \notin DOMAIN new
      <3>1. c \in Stored /\ blocks_'[c] = blocks_[c] /\ c \in Grid
        BY <2>2 DEF BlocksFit
      <3>2. vox'[Voxel(c, cell)] = vox[Voxel(c, cell)]
        BY <2>2, <3>1, VoxelsOfGrid
      <3> QED BY <3>1, <3>2 DEF Contents
    <2> QED BY <2>1, <2>2
  <1>2. ASSUME NEW v \in Voxels, blockGivenCoordinateP(v) \notin Stored'
        PROVE  vox'[v] = 0
    <2> DEFINE c == blockGivenCoordinateP(v)
    <2>1. c \in Grid /\ pBlock(v) \in Cell /\ Voxel(c, pBlock(v)) = v
      BY VoxelsOfGrid
    <2>2. CASE c \in DOMAIN new
      <3>1. readArray(new[c]) = ZeroImage
        BY <1>2, <2>2 DEF Emptied, allzero
      <3> QED BY <2>1, <2>2, <3>1 DEF ZeroImage
    <2>3. CASE c \notin DOMAIN new
      <3>1. c \notin Stored
        BY <1>2, <2>3 DEF Emptied
      <3> QED BY <2>3, <3>1 DEF Contents
    <2> QED BY <2>2, <2>3
  <1> QED BY <1>1, <1>2 DEF Contents

LEMMA WriteOK ==
    ASSUME IInv, Defined, NEW new, DOMAIN new \subseteq Grid,
           \A c \in DOMAIN new : /\ BlockOK(new[c])
                                 /\ new[c].isCompressed_ = enableCompression_,
           \A c \in DOMAIN new, cell \in Cell :
              readArray(new[c])[cell] = vox'[Voxel(c, cell)],
           \A v \in Voxels : blockGivenCoordinateP(v) \notin DOMAIN new => vox'[v] = vox[v],
           vox' \in [Voxels -> Value],
           StoreBlocks(new), UNCHANGED options,
           status' \in {"ok", "end iterator dereferenced", "erased iterator used"}
    PROVE  IInv' /\ Occupied(DOMAIN new)
  <1>1. OptionsFit /\ BlocksFit /\ TablesFit /\ Contents
    BY DEF IInv
  <1>2. /\ OptionsFit' /\ BlocksFit' /\ TablesFit'
        /\ Stored' = (Stored \cup DOMAIN new) \ Emptied(new)
        /\ \A c \in Stored' :
              blocks_'[c] = IF c \in DOMAIN new THEN new[c] ELSE blocks_[c]
    BY <1>1, StoreBlocksOK
  <1>3. Contents'
    BY <1>1, <1>2, StoreContentsOK
  <1>4. ASSUME NEW c \in DOMAIN new
        PROVE  allzero(readArray(new[c])) <=>
                  \A cell \in Cell : vox'[Voxel(c, cell)] = 0
    <2>1. readArray(new[c]) \in Image
      BY DEF BlockOK, Block, readArray
    <2>2. readArray(new[c]) = ZeroImage <=> \A cell \in Cell : readArray(new[c])[cell] = 0
      BY <2>1 DEF Image, ZeroImage
    <2> QED BY <2>2 DEF allzero
  <1>5. Emptied(new) = {c \in DOMAIN new : /\ deleteEmptyBlocks_
                                          /\ \A cell \in Cell : vox'[Voxel(c, cell)] = 0}
    BY <1>4 DEF Emptied
  <1> QED BY <1>2, <1>3, <1>5 DEF IInv, Occupied

(* The entry of an input for a voxel of its region.                        *)
LEMMA EntryOK ==
    ASSUME NEW r \in Rois, NEW values, NEW a \in [Box(Origin, Minus(r.q, r.p)) -> values],
           NEW v \in Voxels, InRoi(v, r.p, r.q)
    PROVE  /\ blockGivenCoordinateP(v) \in BlocksInRange(r.p, r.q)
           /\ a[Minus(v, r.p)] \in values
  <1> DEFINE c    == blockGivenCoordinateP(v)
             cell == pBlock(v)
  <1>1. c \in BlocksInRange(r.p, r.q) /\ cell \in Cell /\ Voxel(c, cell) = v
    BY RoiInArray, VisitComplete, VoxelsOfGrid
  <1> HIDE DEF c, cell
  <1>2. a[Minus(Voxel(c, cell), r.p)] \in values
    BY <1>1, PieceOK
  <1> QED BY <1>1, <1>2 DEF c

(* Writing a piece into a visited block: what each cell holds afterwards.  *)
LEMMA WrittenPieceOK ==
    ASSUME NEW r \in Rois, NEW c \in BlocksInRange(r.p, r.q), NEW b, BlockOK(b),
           NEW piece,
           LET w == WithinBlock(c, r.p, r.q)
           IN  \A cell \in Cell :
                  InRoi(cell, w.p, w.q) => piece[Minus(cell, w.p)] \in Value
    PROVE  LET w == WithinBlock(c, r.p, r.q)
               x == writeArray(b, w.p, w.q, piece)
           IN  /\ BlockOK(x) /\ x.isCompressed_ = b.isCompressed_
               /\ \A cell \in Cell :
                     readArray(x)[cell] = IF InRoi(cell, w.p, w.q)
                                          THEN piece[Minus(cell, w.p)]
                                          ELSE readArray(b)[cell]
  <1> DEFINE w == WithinBlock(c, r.p, r.q)
             x == writeArray(b, w.p, w.q, piece)
  <1>1. IsInput(piece, w.p, w.q)
    BY DEF IsInput
  <1>2. /\ BlockOK(x) /\ x.isCompressed_ = b.isCompressed_
        /\ readArray(x) = Overwritten(readArray(b), w.p, w.q, piece)
    BY <1>1, WriteArrayOK
  <1> QED BY <1>2 DEF Overwritten

(* The piece for a block that the region covers is an image of the block.  *)
LEMMA CoveringPieceOK ==
    ASSUME NEW r \in Rois, NEW a \in [Box(Origin, Minus(r.q, r.p)) -> Value],
           NEW c \in BlocksInRange(r.p, r.q), CoversBlock(c, r.p, r.q)
    PROVE  Piece(a, c, r.p, r.q) \in Image
  <1> DEFINE w     == WithinBlock(c, r.p, r.q)
             read  == ReadRoi(c, r.p, r.q)
             piece == Piece(a, c, r.p, r.q)
  <1>1. w.p = Origin /\ w.q = BlockShape
    BY DEF CoversBlock, IsWhole
  <1>2. Minus(read.q, read.p) = Minus(w.q, w.p)
    <2>1. IsRegion(r.p, r.q)
      BY RoiInArray
    <2> QED BY <2>1, SameShape
  <1>3. Minus(read.q, read.p) = BlockShape
    <2>1. Minus(BlockShape, Origin) = BlockShape
      BY ShapeType DEF Minus, Vectors
    <2> HIDE DEF w, read
    <2> QED BY <1>1, <1>2, <2>1
  <1>4. piece = [v \in Cell |-> a[Plus(read.p, v)]]
    BY <1>3 DEF Piece, Cell
  <1>5. ASSUME NEW cell \in Cell PROVE piece[cell] \in Value
    <2>1. Minus(cell, Origin) = cell /\ InRoi(cell, Origin, BlockShape)
      BY CellMember, ShapeType DEF Minus, InRoi, Vectors
    <2>2. InRoi(cell, w.p, w.q) =>
             /\ piece[Minus(cell, w.p)] = a[Minus(Voxel(c, cell), r.p)]
             /\ a[Minus(Voxel(c, cell), r.p)] \in Value
      BY PieceOK
    <2> QED BY <1>1, <2>1, <2>2
  <1> HIDE DEF piece
  <1> QED BY <1>4, <1>5 DEF Image, piece

LEMMA WrittenBlockOK ==
    ASSUME IInv, Defined, NEW r \in Rois, NEW a \in [Box(Origin, Minus(r.q, r.p)) -> Value],
           NEW c \in BlocksInRange(r.p, r.q)
    PROVE  LET x == WrittenBlock(c, r.p, r.q, a)
           IN  /\ BlockOK(x) /\ x.isCompressed_ = enableCompression_
               /\ \A cell \in Cell :
                     LET v == Voxel(c, cell)
                     IN  readArray(x)[cell] = IF InRoi(v, r.p, r.q)
                                              THEN a[Minus(v, r.p)] ELSE vox[v]
  <1> DEFINE w     == WithinBlock(c, r.p, r.q)
             read  == ReadRoi(c, r.p, r.q)
             piece == Piece(a, c, r.p, r.q)
             b     == BlockOrNew(c)
             x     == WrittenBlock(c, r.p, r.q, a)
  <1>1. ASSUME NEW cell \in Cell
        PROVE  /\ InRoi(cell, w.p, w.q) <=> InRoi(Voxel(c, cell), r.p, r.q)
               /\ InRoi(cell, w.p, w.q) =>
                     /\ Minus(cell, w.p) \in DOMAIN piece
                     /\ piece[Minus(cell, w.p)] = a[Minus(Voxel(c, cell), r.p)]
                     /\ piece[Minus(cell, w.p)] \in Value
    BY PieceOK
  <1>2. OptionsFit /\ BlocksFit /\ c \in Grid /\ Contents /\ vox \in [Voxels -> Value]
    BY RoiInArray DEF IInv
  <1>3. CASE c \notin Stored /\ CoversBlock(c, r.p, r.q)
    <2>1. w.p = Origin /\ w.q = BlockShape
      BY <1>3 DEF CoversBlock, IsWhole
    <2>2. piece \in Image
      BY <1>3, CoveringPieceOK
    <2>3. /\ BlockOK(AddedBlock(piece)) /\ readArray(AddedBlock(piece)) = piece
          /\ AddedBlock(piece).isCompressed_ = enableCompression_
      BY <1>2, <2>2, AddedBlockOK
    <2>4. x = setDirtyAll(AddedBlock(piece), FALSE)
      BY <1>3 DEF WrittenBlock
    <2>5. BlockOK(x) /\ readArray(x) = piece /\ x.isCompressed_ = enableCompression_
      BY <2>3, <2>4, SetDirtyAllOK
    <2>6. ASSUME NEW cell \in Cell
          PROVE  /\ InRoi(Voxel(c, cell), r.p, r.q)
                 /\ piece[cell] = a[Minus(Voxel(c, cell), r.p)]
      <3>1. Minus(cell, Origin) = cell /\ InRoi(cell, Origin, BlockShape)
        BY CellMember, ShapeType DEF Minus, InRoi, Vectors
      <3> QED BY <1>1, <2>1, <3>1
    <2> QED BY <2>5, <2>6
  <1>4. CASE ~(c \notin Stored /\ CoversBlock(c, r.p, r.q))
    <2>1. /\ BlockOK(b) /\ b.isCompressed_ = enableCompression_
          /\ \A cell \in Cell : readArray(b)[cell] = vox[Voxel(c, cell)]
      BY <1>2, BlockOrNewOK
    <2>2. x = writeArray(b, w.p, w.q, piece)
      BY <1>4 DEF WrittenBlock
    <2> HIDE DEF b, piece, x
    <2>3. /\ BlockOK(x) /\ x.isCompressed_ = b.isCompressed_
          /\ \A cell \in Cell :
                readArray(x)[cell] = IF InRoi(cell, w.p, w.q)
                                     THEN piece[Minus(cell, w.p)]
                                     ELSE readArray(b)[cell]
      BY <1>1, <2>1, <2>2, WrittenPieceOK
    <2> QED BY <1>1, <2>1, <2>3 DEF x
  <1> QED BY <1>3, <1>4

LEMMA OverlaidBlockOK ==
    ASSUME IInv, Defined, NEW r \in Rois, NEW z,
           NEW a \in [Box(Origin, Minus(r.q, r.p)) -> Value \cup {z}],
           NEW c \in BlocksInRange(r.p, r.q)
    PROVE  LET x == OverlaidBlock(c, r.p, r.q, a, z)
           IN  /\ BlockOK(x) /\ x.isCompressed_ = enableCompression_
               /\ \A cell \in Cell :
                     LET v == Voxel(c, cell)
                     IN  readArray(x)[cell] = IF InRoi(v, r.p, r.q)
                                              THEN Store!Overlaid(vox[v], a[Minus(v, r.p)], z)
                                              ELSE vox[v]
  <1> DEFINE w     == WithinBlock(c, r.p, r.q)
             piece == Piece(a, c, r.p, r.q)
             b     == BlockOrNew(c)
             cur   == [v \in DOMAIN piece |->
                          Store!Overlaid(readArray(b)[Plus(w.p, v)], piece[v], z)]
             x     == OverlaidBlock(c, r.p, r.q, a, z)
  <1>1. ASSUME NEW cell \in Cell
        PROVE  /\ InRoi(cell, w.p, w.q) <=> InRoi(Voxel(c, cell), r.p, r.q)
               /\ InRoi(cell, w.p, w.q) =>
                     /\ Minus(cell, w.p) \in DOMAIN piece
                     /\ piece[Minus(cell, w.p)] = a[Minus(Voxel(c, cell), r.p)]
                     /\ piece[Minus(cell, w.p)] \in Value \cup {z}
                     /\ Plus(w.p, Minus(cell, w.p)) = cell
    <2> DEFINE values == Value \cup {z}
    <2>1. a \in [Box(Origin, Minus(r.q, r.p)) -> values]
      OBVIOUS
    <2> HIDE DEF values
    <2>2. /\ InRoi(cell, w.p, w.q) <=> InRoi(Voxel(c, cell), r.p, r.q)
          /\ InRoi(cell, w.p, w.q) =>
                /\ Minus(cell, w.p) \in DOMAIN piece
                /\ piece[Minus(cell, w.p)] = a[Minus(Voxel(c, cell), r.p)]
                /\ a[Minus(Voxel(c, cell), r.p)] \in values
                /\ Plus(w.p, Minus(cell, w.p)) = cell
      BY <2>1, PieceOK
    <2> QED BY <2>2 DEF values
  <1>2. OptionsFit /\ BlocksFit /\ c \in Grid /\ Contents /\ vox \in [Voxels -> Value]
    BY RoiInArray DEF IInv
  <1>3. /\ BlockOK(b) /\ b.isCompressed_ = enableCompression_ /\ readArray(b) \in Image
        /\ \A cell \in Cell : readArray(b)[cell] = vox[Voxel(c, cell)]
    BY <1>2, BlockOrNewOK
  <1>4. x = writeArray(b, w.p, w.q, cur)
    BY DEF OverlaidBlock
  <1> HIDE DEF b, piece, x
  <1>5. ASSUME NEW cell \in Cell, InRoi(cell, w.p, w.q)
        PROVE  /\ cur[Minus(cell, w.p)] =
                     Store!Overlaid(vox[Voxel(c, cell)], a[Minus(Voxel(c, cell), r.p)], z)
               /\ cur[Minus(cell, w.p)] \in Value
    <2>1. cur[Minus(cell, w.p)] =
             Store!Overlaid(readArray(b)[cell], piece[Minus(cell, w.p)], z)
      BY <1>1, <1>5
    <2>2. readArray(b)[cell] \in Value
      BY <1>3 DEF Image
    <2>3. cur[Minus(cell, w.p)] \in Value
      BY <1>1, <1>5, <2>1, <2>2, ValueAssumption DEF Store!Overlaid
    <2> QED BY <1>1, <1>3, <1>5, <2>1, <2>3
  <1> HIDE DEF cur
  <1>6. /\ BlockOK(x) /\ x.isCompressed_ = b.isCompressed_
        /\ \A cell \in Cell :
              readArray(x)[cell] = IF InRoi(cell, w.p, w.q)
                                   THEN cur[Minus(cell, w.p)]
                                   ELSE readArray(b)[cell]
    BY <1>3, <1>4, <1>5, WrittenPieceOK
  <1> QED BY <1>1, <1>3, <1>5, <1>6 DEF x

(* Blocks rewritten as a whole, by write() and applyRelabeling().          *)
LEMMA RewrittenOK ==
    ASSUME NEW b, BlockOK(b), NEW img \in Image
    PROVE  LET x == writeArray(b, Origin, BlockShape, img)
           IN  BlockOK(x) /\ x.isCompressed_ = b.isCompressed_ /\ readArray(x) = img
  <1>1. ASSUME NEW cell \in Cell
        PROVE  Minus(cell, Origin) = cell /\ InRoi(cell, Origin, BlockShape)
    BY CellMember, ShapeType DEF Minus, InRoi, Vectors
  <1>2. IsInput(img, Origin, BlockShape)
    BY <1>1 DEF IsInput, Image
  <1>3. Overwritten(readArray(b), Origin, BlockShape, img) = img
    BY <1>1 DEF Overwritten, Image
  <1> QED BY <1>2, <1>3, WriteArrayOK

------------------------------------------------------------------------------
(* One lemma for each operation.                                           *)

LEMMA InitIInv == Init => IInv
  <1> SUFFICES ASSUME Init PROVE IInv
    OBVIOUS
  <1>1. Stored = {} /\ OptionsFit /\ status = "ok"
    BY DEF Init, Empty, Stored, OptionsFit, options
  <1>2. vox = [v \in Voxels |-> 0]
    BY DEF Init, Voxels, Store!Init
  <1>3. BlocksFit
    BY <1>1 DEF Init, Empty, BlocksFit, Stored
  <1>4. TablesFit
    BY <1>1 DEF Init, Empty, TablesFit
  <1>5. Contents
    BY <1>1, <1>2 DEF Contents
  <1> QED BY <1>1, <1>2, <1>3, <1>4, <1>5, ValueAssumption DEF IInv

LEMMA setDeleteEmptyBlocksOK ==
    ASSUME IInv, NEW on \in BOOLEAN, setDeleteEmptyBlocks(on)
    PROVE  IInv'
  <1>1. /\ UNCHANGED <<blocks_, blockMinMax_, blockVoxelValues_, status, vox>>
        /\ UNCHANGED <<enableCompression_, minMaxTracking_, manageCoordinateLists_>>
        /\ deleteEmptyBlocks_' \in BOOLEAN
    BY DEF setDeleteEmptyBlocks, tables
  <1>2. OptionsFit'
    BY <1>1 DEF IInv, OptionsFit, options
  <1> QED BY <1>1, <1>2
          DEF IInv, BlocksFit, TablesFit, Contents, Stored, Defined

LEMMA setManageCoordinateListsOK ==
    ASSUME IInv, NEW on \in BOOLEAN, setManageCoordinateLists(on)
    PROVE  IInv'
  <1>1. /\ UNCHANGED <<blocks_, blockMinMax_, status, vox>>
        /\ UNCHANGED <<enableCompression_, minMaxTracking_>>
        /\ deleteEmptyBlocks_' \in BOOLEAN /\ manageCoordinateLists_' = on
        /\ blockVoxelValues_' = [c \in IF on THEN Stored ELSE {} |->
                                    blockNonzero(readArray(blocks_[c]))]
    BY DEF setManageCoordinateLists
  <1>2. OptionsFit'
    BY <1>1 DEF IInv, OptionsFit, options
  <1>3. TablesFit'
    BY <1>1 DEF IInv, TablesFit, Stored
  <1> QED BY <1>1, <1>2, <1>3 DEF IInv, BlocksFit, Contents, Stored, Defined

LEMMA setMinMaxTrackingEnabledOK ==
    ASSUME IInv, NEW on \in BOOLEAN, setMinMaxTrackingEnabled(on)
    PROVE  IInv'
  <1>1. /\ UNCHANGED <<blocks_, blockVoxelValues_, status, vox>>
        /\ UNCHANGED <<deleteEmptyBlocks_, enableCompression_, manageCoordinateLists_>>
        /\ minMaxTracking_' = on
        /\ blockMinMax_' = [c \in IF on THEN Stored ELSE {} |->
                               minMax(readArray(blocks_[c]))]
    BY DEF setMinMaxTrackingEnabled
  <1>2. OptionsFit'
    BY <1>1 DEF IInv, OptionsFit, options
  <1>3. TablesFit'
    BY <1>1 DEF IInv, TablesFit, Stored
  <1> QED BY <1>1, <1>2, <1>3 DEF IInv, BlocksFit, Contents, Stored, Defined

(* A step that replaces stored blocks by blocks with the same data.        *)
LEMMA SameDataOK ==
    ASSUME IInv, Stored' = Stored, blocks_' \in [Stored -> Block],
           \A c \in Stored : /\ BlockOK(blocks_'[c])
                             /\ blocks_'[c].isCompressed_ = enableCompression_'
                             /\ readArray(blocks_'[c]) = readArray(blocks_[c]),
           OptionsFit', UNCHANGED <<minMaxTracking_, manageCoordinateLists_>>,
           UNCHANGED <<blockMinMax_, blockVoxelValues_, status, vox>>
    PROVE  IInv'
  <1>1. BlocksFit' /\ TablesFit'
    BY DEF IInv, BlocksFit, TablesFit
  <1>2. Defined' => Contents'
    BY DEF IInv, Contents, Defined
  <1> QED BY <1>1, <1>2 DEF IInv

LEMMA setCompressionEnabledOK ==
    ASSUME IInv, NEW on \in BOOLEAN, setCompressionEnabled(on)
    PROVE  IInv'
  <1>1. /\ UNCHANGED <<blockMinMax_, blockVoxelValues_, status, vox>>
        /\ UNCHANGED <<deleteEmptyBlocks_, minMaxTracking_, manageCoordinateLists_>>
        /\ enableCompression_' = on
        /\ blocks_' = [c \in Stored |-> IF on THEN compress(blocks_[c])
                                               ELSE uncompress(blocks_[c])]
    BY DEF setCompressionEnabled, tables
  <1>2. OptionsFit' /\ Stored' = Stored
    BY <1>1 DEF IInv, OptionsFit, options, Stored
  <1>3. ASSUME NEW c \in Stored
        PROVE  /\ BlockOK(blocks_'[c]) /\ blocks_'[c] \in Block
               /\ blocks_'[c].isCompressed_ = on
               /\ readArray(blocks_'[c]) = readArray(blocks_[c])
    <2>1. BlockOK(blocks_[c])
      BY DEF IInv, BlocksFit
    <2>2. /\ BlockOK(blocks_'[c]) /\ readArray(blocks_'[c]) = readArray(blocks_[c])
          /\ blocks_'[c].isCompressed_ <=> on
      BY <1>1, <2>1, CompressOK, UncompressOK
    <2>3. blocks_'[c] \in Block /\ blocks_'[c].isCompressed_ \in BOOLEAN
      BY <2>2 DEF BlockOK, Block
    <2> QED BY <2>2, <2>3
  <1>4. blocks_' \in [Stored -> Block]
    BY <1>1, <1>3
  <1> QED BY <1>1, <1>2, <1>3, <1>4, SameDataOK

LEMMA writeSubarrayOK ==
    ASSUME IInv, Defined, NEW r \in Rois,
           NEW a \in [Box(Origin, Minus(r.q, r.p)) -> Value],
           writeSubarray(r.p, r.q, a)
    PROVE  IInv' /\ Overwrites(r)
  <1> DEFINE new == [c \in BlocksInRange(r.p, r.q) |-> WrittenBlock(c, r.p, r.q, a)]
  <1>1. /\ StoreBlocks(new) /\ UNCHANGED options /\ UNCHANGED status
        /\ vox' = [v \in Voxels |-> IF InRoi(v, r.p, r.q) THEN a[Minus(v, r.p)] ELSE vox[v]]
    BY StoreGeometry DEF writeSubarray, Store!Write, Voxels
  <1>2. vox' \in [Voxels -> Value]
    BY <1>1, EntryOK DEF IInv
  <1>3. \A v \in Voxels : blockGivenCoordinateP(v) \notin DOMAIN new => vox'[v] = vox[v]
    BY <1>1, EntryOK
  <1>4. DOMAIN new \subseteq Grid
    BY RoiInArray
  <1>5. ASSUME NEW c \in DOMAIN new
        PROVE  /\ BlockOK(new[c]) /\ new[c].isCompressed_ = enableCompression_
               /\ \A cell \in Cell : readArray(new[c])[cell] = vox'[Voxel(c, cell)]
    <2>1. c \in BlocksInRange(r.p, r.q) /\ c \in Grid
      BY <1>4
    <2> DEFINE x == WrittenBlock(c, r.p, r.q, a)
    <2>2. /\ BlockOK(x) /\ x.isCompressed_ = enableCompression_
          /\ \A cell \in Cell :
                LET v == Voxel(c, cell)
                IN  readArray(x)[cell] = IF InRoi(v, r.p, r.q)
                                         THEN a[Minus(v, r.p)] ELSE vox[v]
      BY <2>1, WrittenBlockOK
    <2>3. new[c] = x
      BY <2>1
    <2> HIDE DEF x, new
    <2> QED BY <1>1, <2>1, <2>2, <2>3, VoxelsOfGrid
  <1> DEFINE touched == BlocksInRange(r.p, r.q)
  <1>7. DOMAIN new = touched
    OBVIOUS
  <1> HIDE DEF new, touched
  <1>6. status' = "ok"
    BY <1>1 DEF Defined
  <1>8. IInv' /\ Occupied(touched)
    BY <1>1, <1>2, <1>3, <1>4, <1>5, <1>6, <1>7, WriteOK
  <1> QED BY <1>1, <1>8 DEF touched, Overwrites, options

LEMMA writeSubarrayAtEndOK ==
    ASSUME IInv, Defined, NEW r \in Rois,
           NEW a \in [Box(Origin, Minus(r.q, r.p)) -> Value],
           writeSubarrayAtEnd(r.p, r.q, a)
    PROVE  IInv'
  <1>1. status' = "end iterator dereferenced" /\ Store!Write(r.p, r.q, a)
    BY DEF writeSubarrayAtEnd
  <1>2. vox' = [v \in Voxels |-> IF InRoi(v, r.p, r.q) THEN a[Minus(v, r.p)] ELSE vox[v]]
    BY <1>1, StoreGeometry DEF Store!Write, Voxels
  <1>3. vox' \in [Voxels -> Value]
    BY <1>2, EntryOK DEF IInv
  <1>4. OptionsFit' /\ BlocksFit' /\ TablesFit'
    BY DEF writeSubarrayAtEnd, IInv, OptionsFit, BlocksFit, TablesFit, Stored, options,
           tables
  <1> QED BY <1>1, <1>3, <1>4 DEF IInv, Defined

LEMMA writeSubarrayNonzeroOK ==
    ASSUME IInv, Defined, NEW r \in Rois, NEW z,
           NEW a \in [Box(Origin, Minus(r.q, r.p)) -> Value \cup {z}],
           writeSubarrayNonzero(r.p, r.q, a, z)
    PROVE  IInv' /\ Overwrites(r)
  <1> DEFINE new == [c \in BlocksInRange(r.p, r.q) |-> OverlaidBlock(c, r.p, r.q, a, z)]
  <1>1. /\ StoreBlocks(new) /\ UNCHANGED options /\ UNCHANGED status
        /\ vox' = [v \in Voxels |-> IF InRoi(v, r.p, r.q)
                                    THEN Store!Overlaid(vox[v], a[Minus(v, r.p)], z)
                                    ELSE vox[v]]
    BY StoreGeometry DEF writeSubarrayNonzero, Store!WriteNonzero, Voxels
  <1>2. ASSUME NEW v \in Voxels, InRoi(v, r.p, r.q)
        PROVE  /\ blockGivenCoordinateP(v) \in BlocksInRange(r.p, r.q)
               /\ Store!Overlaid(vox[v], a[Minus(v, r.p)], z) \in Value
    <2> DEFINE values == Value \cup {z}
    <2>1. a \in [Box(Origin, Minus(r.q, r.p)) -> values]
      OBVIOUS
    <2> HIDE DEF values
    <2>2. /\ blockGivenCoordinateP(v) \in BlocksInRange(r.p, r.q)
          /\ a[Minus(v, r.p)] \in values
      BY <1>2, <2>1, EntryOK
    <2>3. vox[v] \in Value
      BY DEF IInv
    <2> QED BY <2>2, <2>3, ValueAssumption DEF values, Store!Overlaid
  <1>3. vox' \in [Voxels -> Value]
    BY <1>1, <1>2 DEF IInv
  <1>4. \A v \in Voxels : blockGivenCoordinateP(v) \notin DOMAIN new => vox'[v] = vox[v]
    BY <1>1, <1>2
  <1>5. DOMAIN new \subseteq Grid
    BY RoiInArray
  <1>6. ASSUME NEW c \in DOMAIN new
        PROVE  /\ BlockOK(new[c]) /\ new[c].isCompressed_ = enableCompression_
               /\ \A cell \in Cell : readArray(new[c])[cell] = vox'[Voxel(c, cell)]
    <2>1. c \in BlocksInRange(r.p, r.q) /\ c \in Grid
      BY <1>5
    <2> DEFINE x == OverlaidBlock(c, r.p, r.q, a, z)
    <2>2. /\ BlockOK(x) /\ x.isCompressed_ = enableCompression_
          /\ \A cell \in Cell :
                LET v == Voxel(c, cell)
                IN  readArray(x)[cell] = IF InRoi(v, r.p, r.q)
                                         THEN Store!Overlaid(vox[v], a[Minus(v, r.p)], z)
                                         ELSE vox[v]
      BY <2>1, OverlaidBlockOK
    <2>3. new[c] = x
      BY <2>1
    <2> HIDE DEF x, new
    <2> QED BY <1>1, <2>1, <2>2, <2>3, VoxelsOfGrid
  <1> DEFINE touched == BlocksInRange(r.p, r.q)
  <1>8. DOMAIN new = touched
    OBVIOUS
  <1> HIDE DEF new, touched
  <1>7. status' = "ok"
    BY <1>1 DEF Defined
  <1>9. IInv' /\ Occupied(touched)
    BY <1>1, <1>3, <1>4, <1>5, <1>6, <1>7, <1>8, WriteOK
  <1> QED BY <1>1, <1>9 DEF touched, Overwrites, options

LEMMA writeOK ==
    ASSUME IInv, Defined, NEW p \in Voxels, NEW value \in Value, write(p, value)
    PROVE  /\ IInv' /\ Occupied({blockGivenCoordinateP(p)})
           /\ \A v \in Voxels : v # p => vox'[v] = vox[v]
           /\ UNCHANGED deleteEmptyBlocks_
  <1> DEFINE c   == blockGivenCoordinateP(p)
             b   == BlockOrNew(c)
             img == [readArray(b) EXCEPT ![pBlock(p)] = value]
             new == WriteVoxel(p, value)
             q   == Plus(p, [d \in Dim |-> 1])
             a   == [v \in {Origin} |-> value]
  <1>1. /\ StoreBlocks(new) /\ UNCHANGED options /\ Store!Write(p, q, a)
        /\ status' = IF Emptied(new) = {} THEN status ELSE "erased iterator used"
    BY DEF write
  <1>2. p \in Vectors /\ c \in Grid /\ pBlock(p) \in Cell /\ Voxel(c, pBlock(p)) = p
    BY VoxelsOfGrid
  <1>0. vox' = [v \in Voxels |-> IF InRoi(v, p, q) THEN a[Minus(v, p)] ELSE vox[v]]
    <2> HIDE DEF q, a
    <2> QED BY <1>1, StoreGeometry DEF Store!Write, Voxels
  <1>3. ASSUME NEW v \in Voxels
        PROVE  vox'[v] = IF v = p THEN value ELSE vox[v]
    <2>1. v \in Vectors
      BY VoxelsOfGrid
    <2>2. InRoi(v, p, q) <=> v = p
      <3>1. ASSUME NEW d \in Dim
            PROVE  p[d] <= v[d] /\ v[d] < q[d] <=> v[d] = p[d]
        BY <1>2, <2>1 DEF Plus, Vectors
      <3>2. v = p <=> \A d \in Dim : v[d] = p[d]
        BY <1>2, <2>1 DEF Vectors
      <3> QED BY <3>1, <3>2 DEF InRoi
    <2>3. vox'[v] = IF InRoi(v, p, q) THEN a[Minus(v, p)] ELSE vox[v]
      BY <1>0
    <2>4. Minus(p, p) = Origin
      BY <1>2 DEF Minus, Origin, Vectors
    <2> QED BY <2>2, <2>3, <2>4
  <1>4. vox' \in [Voxels -> Value]
    <2>1. vox' = [v \in Voxels |-> vox'[v]]
      BY <1>0
    <2>2. \A v \in Voxels : vox'[v] \in Value
      BY <1>3 DEF IInv
    <2> QED BY <2>1, <2>2
  <1>5. /\ BlockOK(b) /\ b.isCompressed_ = enableCompression_ /\ readArray(b) \in Image
        /\ \A cell \in Cell : readArray(b)[cell] = vox[Voxel(c, cell)]
    BY <1>2, BlockOrNewOK DEF IInv
  <1> HIDE DEF b
  <1>6. img \in Image
    BY <1>2, <1>5 DEF Image
  <1> DEFINE x == writeArray(b, Origin, BlockShape, img)
  <1>7. new = [e \in {c} |-> x]
    BY DEF WriteVoxel, b
  <1>8. BlockOK(x) /\ x.isCompressed_ = enableCompression_ /\ readArray(x) = img
    BY <1>5, <1>6, RewrittenOK
  <1>9. ASSUME NEW cell \in Cell PROVE readArray(x)[cell] = vox'[Voxel(c, cell)]
    <2>1. /\ Voxel(c, cell) \in Voxels /\ pBlock(Voxel(c, cell)) = cell
      BY <1>2, VoxelsOfGrid
    <2>2. Voxel(c, cell) = p <=> cell = pBlock(p)
      BY <1>2, <2>1
    <2>3. img[cell] = IF cell = pBlock(p) THEN value ELSE readArray(b)[cell]
      BY <1>5 DEF Image
    <2> HIDE DEF img, x, c
    <2> QED BY <1>3, <1>5, <1>8, <2>1, <2>2, <2>3
  <1> HIDE DEF x, new
  <1>10. /\ DOMAIN new = {c} /\ DOMAIN new \subseteq Grid
         /\ \A e \in DOMAIN new : /\ BlockOK(new[e])
                                  /\ new[e].isCompressed_ = enableCompression_
         /\ \A e \in DOMAIN new, cell \in Cell :
               readArray(new[e])[cell] = vox'[Voxel(e, cell)]
    BY <1>2, <1>7, <1>8, <1>9
  <1>11. \A v \in Voxels : blockGivenCoordinateP(v) \notin DOMAIN new => vox'[v] = vox[v]
    BY <1>3, <1>10
  <1>12. status' \in {"ok", "end iterator dereferenced", "erased iterator used"}
    BY <1>1 DEF Defined
  <1>13. IInv' /\ Occupied({c})
    BY <1>1, <1>4, <1>10, <1>11, <1>12, WriteOK
  <1> QED BY <1>1, <1>3, <1>13 DEF options

LEMMA deleteSubarrayOK ==
    ASSUME IInv, Defined, NEW r \in Rois, deleteSubarray(r.p, r.q)
    PROVE  IInv' /\ Erases(r)
  <1> DEFINE gone == BlocksInRange(r.p, r.q)
  <1>1. /\ blocks_' = [c \in Stored \ gone |-> blocks_[c]]
        /\ blockMinMax_' = [c \in DOMAIN blockMinMax_ \ gone |-> blockMinMax_[c]]
        /\ blockVoxelValues_' =
              [c \in DOMAIN blockVoxelValues_ \ gone |-> blockVoxelValues_[c]]
        /\ UNCHANGED options /\ UNCHANGED status
        /\ vox' = [v \in Voxels |-> IF blockGivenCoordinateP(v) \in gone
                                    THEN 0 ELSE vox[v]]
    BY StoreGeometry DEF deleteSubarray, Store!Erase, Voxels
  <1> HIDE DEF gone
  <1>2. Stored' = Stored \ gone
    BY <1>1 DEF Stored
  <1>3. /\ OptionsFit' /\ enableCompression_' = enableCompression_
        /\ minMaxTracking_' = minMaxTracking_
        /\ manageCoordinateLists_' = manageCoordinateLists_
    BY <1>1 DEF IInv, OptionsFit, options
  <1>4. BlocksFit'
    BY <1>1, <1>2, <1>3 DEF IInv, BlocksFit
  <1>5. TablesFit'
    <2>1. blockMinMax_' = [c \in IF minMaxTracking_ THEN Stored' ELSE {} |->
                              minMax(readArray(blocks_'[c]))]
      BY <1>1, <1>2 DEF IInv, TablesFit
    <2>2. blockVoxelValues_' = [c \in IF manageCoordinateLists_ THEN Stored' ELSE {} |->
                                   blockNonzero(readArray(blocks_'[c]))]
      BY <1>1, <1>2 DEF IInv, TablesFit
    <2> QED BY <1>3, <2>1, <2>2 DEF TablesFit
  <1>6. vox' \in [Voxels -> Value]
    BY <1>1, ValueAssumption DEF IInv
  <1>7. Contents'
    <2>1. ASSUME NEW c \in Stored', NEW cell \in Cell
          PROVE  readArray(blocks_'[c])[cell] = vox'[Voxel(c, cell)]
      <3>1. c \in Grid /\ c \in Stored /\ c \notin gone
        BY <1>2 DEF IInv, BlocksFit
      <3>2. vox'[Voxel(c, cell)] = vox[Voxel(c, cell)]
        BY <1>1, <3>1, VoxelsOfGrid
      <3> QED BY <1>1, <3>1, <3>2 DEF IInv, Contents
    <2>2. ASSUME NEW v \in Voxels, blockGivenCoordinateP(v) \notin Stored'
          PROVE  vox'[v] = 0
      BY <1>1, <1>2, <2>2 DEF IInv, Contents
    <2> QED BY <2>1, <2>2 DEF Contents
  <1>8. IInv'
    BY <1>1, <1>3, <1>4, <1>5, <1>6, <1>7 DEF IInv
  <1> QED BY <1>1, <1>2, <1>8 DEF Erases, gone, options

LEMMA applyRelabelingOK ==
    ASSUME IInv, Defined, NEW f \in Relabelings, applyRelabeling(f.labels, f.size)
    PROVE  IInv' /\ (Defined' => Relabels)
  <1> DEFINE new       == [c \in Stored |-> RelabeledBlock(c, f.labels, f.size)]
             label(k)  == Store!Relabeled(f.labels, f.size, k)
             some(D)   == [c \in D |-> new[c]]
  <1>1. /\ UNCHANGED options
        /\ vox' = [v \in Voxels |-> IF blockGivenCoordinateP(v) \in Stored
                                    THEN label(vox[v]) ELSE vox[v]]
    <2>1. UNCHANGED options /\ Store!Relabel(f.labels, f.size, Stored)
      BY DEF applyRelabeling
    <2> QED BY <2>1, StoreGeometry DEF Store!Relabel, Voxels, label
  <1>2. \/ StoreBlocks(new) /\ UNCHANGED status
        \/ /\ \E done \in SUBSET Stored : StoreBlocks(some(done))
           /\ status' = "erased iterator used"
    BY DEF applyRelabeling
  <1>3. ASSUME NEW k \in Value PROVE label(k) \in Value
    <2>1. k \in Nat /\ f.size \in Nat \ {0} /\ f.labels \in [0 .. f.size - 1 -> Value]
      BY InputAssumption
    <2> DEFINE size == f.size
    <2>2. size \in Nat \ {0}
      BY <2>1
    <2> HIDE DEF size
    <2>3. k % size \in 0 .. size - 1
      BY <2>1, <2>2, DivMod
    <2> QED BY <2>1, <2>3 DEF Store!Relabeled, label, size
  <1> HIDE DEF label
  <1>4. vox' \in [Voxels -> Value]
    BY <1>1, <1>3 DEF IInv
  <1>5. ASSUME NEW c \in Stored
        PROVE  /\ c \in Grid /\ BlockOK(new[c]) /\ new[c].isCompressed_ = enableCompression_
               /\ \A cell \in Cell : readArray(new[c])[cell] = vox'[Voxel(c, cell)]
    <2> DEFINE img == [d \in Cell |-> label(readArray(blocks_[c])[d])]
               x   == writeArray(blocks_[c], Origin, BlockShape, img)
    <2>1. /\ c \in Grid /\ BlockOK(blocks_[c])
          /\ blocks_[c].isCompressed_ = enableCompression_
          /\ \A cell \in Cell : readArray(blocks_[c])[cell] = vox[Voxel(c, cell)]
      BY DEF IInv, BlocksFit, Contents
    <2>2. readArray(blocks_[c]) \in Image
      BY <2>1 DEF BlockOK, Block, readArray
    <2>3. img \in Image
      BY <1>3, <2>2 DEF Image
    <2>4. new[c] = x
      BY DEF RelabeledBlock, label
    <2>5. BlockOK(x) /\ x.isCompressed_ = enableCompression_ /\ readArray(x) = img
      BY <2>1, <2>3, RewrittenOK
    <2>6. ASSUME NEW cell \in Cell PROVE img[cell] = vox'[Voxel(c, cell)]
      BY <1>1, <2>1, VoxelsOfGrid
    <2> HIDE DEF img, x, new
    <2> QED BY <2>1, <2>4, <2>5, <2>6
  <1>6. DOMAIN new = Stored /\ \A D : DOMAIN some(D) = D /\ \A c \in D : some(D)[c] = new[c]
    OBVIOUS
  <1> HIDE DEF new, some
  <1>7. CASE StoreBlocks(new) /\ UNCHANGED status
    <2>1. \A v \in Voxels : blockGivenCoordinateP(v) \notin DOMAIN new => vox'[v] = vox[v]
      BY <1>1, <1>6
    <2>2. DOMAIN new \subseteq Grid
      BY <1>5, <1>6
    <2>3. status' \in {"ok", "end iterator dereferenced", "erased iterator used"}
      BY <1>7 DEF IInv
    <2>4. IInv' /\ Occupied(Stored)
      BY <1>1, <1>4, <1>5, <1>6, <1>7, <2>1, <2>2, <2>3, WriteOK
    <2>5. \E f1 \in [Value -> Value] :
             vox' = [v \in Voxels |-> IF blockGivenCoordinateP(v) \in Stored
                                      THEN f1[vox[v]] ELSE vox[v]]
      <3> DEFINE f1 == [k \in Value |-> label(k)]
      <3>1. f1 \in [Value -> Value] /\ \A k \in Value : f1[k] = label(k)
        BY <1>3
      <3> HIDE DEF f1
      <3>2. \A v \in Voxels : vox[v] \in Value
        BY DEF IInv
      <3> QED BY <1>1, <3>1, <3>2
    <2> QED BY <1>1, <2>4, <2>5 DEF Relabels, options
  <1>8. ASSUME NEW done \in SUBSET Stored, StoreBlocks(some(done)),
               status' = "erased iterator used"
        PROVE  IInv' /\ ~Defined'
    <2>1. /\ DOMAIN some(done) \subseteq Grid
          /\ \A c \in DOMAIN some(done) :
                /\ BlockOK(some(done)[c])
                /\ some(done)[c].isCompressed_ = enableCompression_
      BY <1>5, <1>6
    <2>2. OptionsFit' /\ BlocksFit' /\ TablesFit'
      BY <1>1, <1>8, <2>1, StoreBlocksOK DEF IInv
    <2> QED BY <1>4, <1>8, <2>2 DEF IInv, Defined
  <1> QED BY <1>2, <1>7, <1>8

LEMMA setDirtySubarrayOK ==
    ASSUME IInv, NEW r \in Rois, NEW dirty \in BOOLEAN, setDirtySubarray(r.p, r.q, dirty)
    PROVE  IInv'
  <1> DEFINE set(c) == LET w == WithinBlock(c, r.p, r.q)
                       IN  setDirty(blocks_[c], w.p, w.q, dirty)
  <1>1. /\ blocks_' = [c \in Stored |-> IF c \in BlocksInRange(r.p, r.q)
                                        THEN set(c) ELSE blocks_[c]]
        /\ UNCHANGED <<blockMinMax_, blockVoxelValues_, status, vox>>
        /\ UNCHANGED <<deleteEmptyBlocks_, enableCompression_, minMaxTracking_,
                       manageCoordinateLists_>>
    BY DEF setDirtySubarray, options, tables
  <1>2. OptionsFit' /\ Stored' = Stored
    BY <1>1 DEF IInv, OptionsFit, options, Stored
  <1>3. ASSUME NEW c \in Stored
        PROVE  /\ BlockOK(blocks_'[c]) /\ blocks_'[c] \in Block
               /\ blocks_'[c].isCompressed_ = enableCompression_
               /\ readArray(blocks_'[c]) = readArray(blocks_[c])
    <2>1. BlockOK(blocks_[c]) /\ blocks_[c].isCompressed_ = enableCompression_
      BY DEF IInv, BlocksFit
    <2>2. /\ BlockOK(set(c)) /\ readArray(set(c)) = readArray(blocks_[c])
          /\ set(c).isCompressed_ = blocks_[c].isCompressed_
      BY <2>1, SetDirtyOK
    <2>3. blocks_'[c] = IF c \in BlocksInRange(r.p, r.q) THEN set(c) ELSE blocks_[c]
      BY <1>1
    <2> HIDE DEF set
    <2>4. /\ BlockOK(blocks_'[c]) /\ blocks_'[c].isCompressed_ = enableCompression_
          /\ readArray(blocks_'[c]) = readArray(blocks_[c])
      BY <2>1, <2>2, <2>3
    <2> QED BY <2>4 DEF BlockOK
  <1> HIDE DEF set
  <1>4. blocks_' \in [Stored -> Block]
    BY <1>1, <1>3
  <1> QED BY <1>1, <1>2, <1>3, <1>4, SameDataOK

------------------------------------------------------------------------------
LEMMA InputsOK ==
    ASSUME NEW r \in Rois
    PROVE  /\ \A a \in Payload(r.p, r.q, Value) :
                 a \in [Box(Origin, Minus(r.q, r.p)) -> Value]
           /\ \A z \in WriteAsZero : \A a \in Payload(r.p, r.q, Value \cup {z}) :
                 a \in [Box(Origin, Minus(r.q, r.p)) -> Value \cup {z}]
  BY InputAssumption

LEMMA NextIInv == IInv /\ [Next]_vars => IInv'
  <1> SUFFICES ASSUME IInv, [Next]_vars PROVE IInv'
    OBVIOUS
  <1>1. CASE UNCHANGED vars
    BY <1>1 DEF vars, options, tables, IInv, OptionsFit, BlocksFit, TablesFit, Contents,
                Stored, Defined
  <1>2. CASE Next
    <2>0. Defined
      BY <1>2 DEF Next, Defined
    <2>1. ASSUME NEW on \in Switches, SetOption(on) PROVE IInv'
      BY <2>1, InputAssumption, setDeleteEmptyBlocksOK, setManageCoordinateListsOK,
         setCompressionEnabledOK, setMinMaxTrackingEnabledOK DEF SetOption
    <2>2. ASSUME NEW r \in Rois, WriteRegion(r.p, r.q) PROVE IInv'
      <3>1. ASSUME NEW a \in Payload(r.p, r.q, Value), writeSubarray(r.p, r.q, a)
            PROVE  IInv'
        BY <2>0, <3>1, InputsOK, writeSubarrayOK
      <3>2. ASSUME NEW a \in Payload(r.p, r.q, Value), writeSubarrayAtEnd(r.p, r.q, a)
            PROVE  IInv'
        BY <2>0, <3>2, InputsOK, writeSubarrayAtEndOK
      <3>3. ASSUME NEW z \in WriteAsZero, NEW a \in Payload(r.p, r.q, Value \cup {z}),
                   writeSubarrayNonzero(r.p, r.q, a, z)
            PROVE  IInv'
        BY <2>0, <3>3, InputsOK, writeSubarrayNonzeroOK
      <3> QED BY <2>2, <3>1, <3>2, <3>3 DEF WriteRegion
    <2>3. ASSUME NEW v \in Voxels, NEW value \in Value, write(v, value) PROVE IInv'
      BY <2>0, <2>3, writeOK
    <2>4. ASSUME NEW r \in Rois, deleteSubarray(r.p, r.q) PROVE IInv'
      BY <2>0, <2>4, deleteSubarrayOK
    <2>5. ASSUME NEW f \in Relabelings, applyRelabeling(f.labels, f.size) PROVE IInv'
      BY <2>0, <2>5, applyRelabelingOK
    <2>6. ASSUME NEW r \in Rois, NEW dirty \in Marks, setDirtySubarray(r.p, r.q, dirty)
          PROVE  IInv'
      BY <2>6, InputAssumption, setDirtySubarrayOK
    <2> QED BY <1>2, <2>1, <2>2, <2>3, <2>4, <2>5, <2>6 DEF Next
  <1> QED BY <1>1, <1>2

THEOREM Invariance == Spec => []IInv
  <1> QED BY InitIInv, NextIInv, PTL DEF Spec

------------------------------------------------------------------------------
(* The members of an Array keep their types, and its blocks and tables     *)
(* stay within the grid, through every sequence of operations.             *)
THEOREM TypeCorrect == Spec => []TypeOK
  <1>1. ASSUME NEW img \in Image
        PROVE  blockNonzero(img) \in UNION {[D -> Value \ {0}] : D \in SUBSET Cell}
    <2> DEFINE D == {d \in Cell : img[d] # 0}
    <2>1. blockNonzero(img) \in [D -> Value \ {0}] /\ D \in SUBSET Cell
      BY DEF blockNonzero, Image
    <2> QED BY <2>1
  <1>2. ASSUME IInv PROVE TypeOK
    <2>1. /\ Stored \subseteq Grid /\ blocks_ \in [Stored -> Block]
          /\ \A c \in Stored : readArray(blocks_[c]) \in Image
      BY <1>2 DEF IInv, BlocksFit, BlockOK, Block, readArray
    <2>2. DOMAIN blockMinMax_ \subseteq Grid
      BY <1>2, <2>1 DEF IInv, TablesFit
    <2>3. /\ DOMAIN blockVoxelValues_ \subseteq Stored
          /\ \A c \in DOMAIN blockVoxelValues_ :
                blockVoxelValues_[c] = blockNonzero(readArray(blocks_[c]))
      BY <1>2 DEF IInv, TablesFit
    <2>4. /\ DOMAIN blockVoxelValues_ \subseteq Grid
          /\ \A c \in DOMAIN blockVoxelValues_ :
                blockVoxelValues_[c] \in UNION {[D -> Value \ {0}] : D \in SUBSET Cell}
      BY <1>1, <2>1, <2>3
    <2> QED BY <1>2, <2>1, <2>2, <2>4 DEF IInv, OptionsFit, TypeOK
  <1> QED BY <1>2, Invariance, PTL

(* The tables kept about the blocks describe exactly the stored blocks.    *)
THEOREM TablesStayCoherent == Spec => []TablesCoherent
  <1>1. IInv => TablesCoherent
    BY DEF IInv, TablesFit, TablesCoherent
  <1> QED BY <1>1, Invariance, PTL

(* The stored blocks are compressed iff the option is on, and compressing  *)
(* one never fails.                                                        *)
THEOREM CompressionIsHonoured == Spec => []CompressionHonoured
  <1>1. IInv => CompressionHonoured
    BY BlockOKNeverThrows DEF IInv, BlocksFit, OptionsFit, options, CompressionHonoured
  <1> QED BY <1>1, Invariance, PTL

(* The operator[] of a voxel.                                              *)
LEMMA EntryOfVoxel ==
    ASSUME IInv, Defined, NEW v \in Voxels
    PROVE  At(v) = vox[v]
  <1> DEFINE c    == blockGivenCoordinateP(v)
             cell == pBlock(v)
  <1>1. cell \in Cell /\ Voxel(c, cell) = v
    BY VoxelsOfGrid
  <1>2. At(v) = IF c \in Stored THEN readArray(blocks_[c])[cell] ELSE 0
    BY DEF At
  <1> HIDE DEF cell
  <1>3. c \in Stored => readArray(blocks_[c])[cell] = vox[v]
    BY <1>1 DEF IInv, Contents
  <1>4. c \notin Stored => vox[v] = 0
    BY DEF IInv, Contents
  <1> QED BY <1>2, <1>3, <1>4

(* nonzero() lists the nonzero voxels of the whole array, and no other.    *)
THEOREM NonzeroIsExact == Spec => []NonzeroExact
  <1>1. ASSUME IInv, Defined, manageCoordinateLists_, NEW e
        PROVE  e \in Nonzero <=> \E v \in Voxels : vox[v] # 0 /\ e = <<v, vox[v]>>
    <2> DEFINE data(c) == readArray(blocks_[c])
    <2>1. DOMAIN blockVoxelValues_ = Stored
      BY <1>1 DEF IInv, TablesFit
    <2>2. ASSUME NEW c \in Stored
          PROVE  /\ DOMAIN blockVoxelValues_[c] = {d \in Cell : data(c)[d] # 0}
                 /\ \A d \in DOMAIN blockVoxelValues_[c] :
                       blockVoxelValues_[c][d] = data(c)[d]
      BY <1>1 DEF IInv, TablesFit, blockNonzero
    <2>3. \A c \in Stored, d \in Cell : data(c)[d] = vox[Voxel(c, d)] /\ c \in Grid
      BY <1>1 DEF IInv, BlocksFit, Contents
    <2> HIDE DEF data
    <2>4. e \in Nonzero <=>
             \E c \in Stored : \E d \in DOMAIN blockVoxelValues_[c] :
                e = <<Voxel(c, d), blockVoxelValues_[c][d]>>
      BY <2>1 DEF Nonzero
    <2>5. ASSUME NEW c \in Stored, NEW d \in DOMAIN blockVoxelValues_[c],
                 e = <<Voxel(c, d), blockVoxelValues_[c][d]>>
          PROVE  \E v \in Voxels : vox[v] # 0 /\ e = <<v, vox[v]>>
      <3>1. d \in Cell /\ c \in Grid /\ vox[Voxel(c, d)] # 0
            /\ blockVoxelValues_[c][d] = vox[Voxel(c, d)]
        BY <2>2, <2>3
      <3>2. Voxel(c, d) \in Voxels
        BY <3>1, VoxelsOfGrid
      <3> QED BY <2>5, <3>1, <3>2
    <2>6. ASSUME NEW v \in Voxels, vox[v] # 0, e = <<v, vox[v]>>
          PROVE  \E c \in Stored : \E d \in DOMAIN blockVoxelValues_[c] :
                    e = <<Voxel(c, d), blockVoxelValues_[c][d]>>
      <3> DEFINE c == blockGivenCoordinateP(v)
                 d == pBlock(v)
      <3>1. c \in Stored /\ d \in Cell /\ Voxel(c, d) = v
        BY <1>1, <2>6, VoxelsOfGrid DEF IInv, Contents
      <3>2. d \in DOMAIN blockVoxelValues_[c] /\ blockVoxelValues_[c][d] = vox[v]
        BY <2>2, <2>3, <2>6, <3>1
      <3> HIDE DEF c, d
      <3> QED BY <2>6, <3>1, <3>2
    <2> QED BY <2>4, <2>5, <2>6
  <1>2. IInv => NonzeroExact
    <2> SUFFICES ASSUME IInv, Defined, manageCoordinateLists_
                 PROVE  Nonzero = {<<v, vox[v]>> : v \in {u \in Voxels : vox[u] # 0}}
      BY DEF NonzeroExact
    <2> QED BY <1>1
  <1> QED BY <1>2, Invariance, PTL

(* Minima and maxima of sets of values exist, and are unique.              *)
LEMMA Extremes ==
    ASSUME NEW S, S \subseteq TypeLowest .. TypeMax, S # {}
    PROVE  /\ SetMin(S) \in S /\ \A k \in S : SetMin(S) <= k
           /\ SetMax(S) \in S /\ \A k \in S : k <= SetMax(S)
           /\ \A m \in S : (\A k \in S : m <= k) => m = SetMin(S)
           /\ \A m \in S : (\A k \in S : k <= m) => m = SetMax(S)
  <1>1. TypeLowest \in Int /\ TypeMax \in Int /\ S \subseteq Int
    BY TypeAssumption
  <1>2. SetMin(S) \in S /\ \A k \in S : SetMin(S) <= k
    BY <1>1, LeastMember DEF SetMin
  <1>3. SetMax(S) \in S /\ \A k \in S : k <= SetMax(S)
    BY <1>1, GreatestMember DEF SetMax
  <1>4. ASSUME NEW m \in S, \A k \in S : m <= k PROVE m = SetMin(S)
    <2>1. m <= SetMin(S) /\ SetMin(S) <= m /\ m \in Int /\ SetMin(S) \in Int
      BY <1>1, <1>2, <1>4
    <2> QED BY <2>1
  <1>5. ASSUME NEW m \in S, \A k \in S : k <= m PROVE m = SetMax(S)
    <2>1. m <= SetMax(S) /\ SetMax(S) <= m /\ m \in Int /\ SetMax(S) \in Int
      BY <1>1, <1>3, <1>5
    <2> QED BY <2>1
  <1> QED BY <1>2, <1>3, <1>4, <1>5

(* The least of the minima of parts, the limit of T from which the code    *)
(* starts among them; and the same for maxima, where that limit counts as  *)
(* soon as everything is below it.                                         *)
LEMMA ExtremesOfParts ==
    ASSUME NEW S, S \subseteq TypeLowest .. TypeMax, S # {},
           NEW lows, lows \subseteq S, \A k \in S : \E l \in lows : l <= k,
           NEW highs, highs \subseteq S, \A k \in S : \E h \in highs : k <= h
    PROVE  /\ SetMin({TypeMax} \cup lows) = SetMin(S)
           /\ SetMax({TypeMin} \cup highs) =
                 IF \E k \in S : k >= TypeMin THEN SetMax(S) ELSE TypeMin
  <1>1. /\ TypeLowest \in Int /\ TypeMax \in Int /\ S \subseteq Int
        /\ TypeMin \in TypeLowest .. TypeMax /\ TypeLowest <= TypeMax
    BY TypeAssumption
  <1>2. SetMin({TypeMax} \cup lows) = SetMin(S)
    <2> DEFINE T   == {TypeMax} \cup lows
               low == SetMin(T)
    <2>1. T \subseteq TypeLowest .. TypeMax /\ T # {}
      BY <1>1
    <2>2. low \in T /\ \A k \in T : low <= k
      <3> HIDE DEF T
      <3> QED BY <2>1, Extremes
    <2> HIDE DEF low
    <2>3. low \in Int /\ \A l \in lows : low <= l
      BY <1>1, <2>2
    <2>4. \A k \in S : low <= k
      BY <1>1, <2>3
    <2>5. low \in S
      <3>1. low = TypeMax \/ low \in S
        BY <2>2
      <3>2. \A k \in S : k <= TypeMax
        BY <1>1
      <3>3. low = TypeMax => \A k \in S : k = low
        BY <1>1, <2>4, <3>2
      <3> QED BY <3>1, <3>3
    <2>6. low = SetMin(S)
      BY <2>4, <2>5, Extremes
    <2> QED BY <2>6 DEF low
  <1>3. SetMax({TypeMin} \cup highs) =
           IF \E k \in S : k >= TypeMin THEN SetMax(S) ELSE TypeMin
    <2> DEFINE T    == {TypeMin} \cup highs
               high == SetMax(T)
    <2>1. T \subseteq TypeLowest .. TypeMax /\ T # {}
      BY <1>1
    <2>2. high \in T /\ \A k \in T : k <= high
      <3> HIDE DEF T
      <3> QED BY <2>1, Extremes
    <2> HIDE DEF high
    <2>3. high \in Int /\ TypeMin <= high /\ \A h \in highs : h <= high
      <3>1. T \subseteq Int
        BY <1>1
      <3>2. TypeMin \in T /\ \A h \in highs : h \in T
        OBVIOUS
      <3> HIDE DEF T
      <3> QED BY <2>2, <3>1, <3>2
    <2>4. \A k \in S : k <= high
      BY <1>1, <2>3
    <2>5. CASE \E k \in S : k >= TypeMin
      <3>1. PICK m \in S : m >= TypeMin
        BY <2>5
      <3>2. high = TypeMin => high = m
        BY <1>1, <2>3, <2>4, <3>1
      <3>3. high = TypeMin \/ high \in S
        BY <2>2
      <3>4. high \in S
        BY <3>1, <3>2, <3>3
      <3>5. high = SetMax(S)
        BY <2>4, <3>4, Extremes
      <3> QED BY <2>5, <3>5 DEF high
    <2>6. CASE ~ \E k \in S : k >= TypeMin
      <3>1. high \notin S
        BY <1>1, <2>3, <2>6
      <3>2. high = TypeMin
        BY <2>2, <3>1
      <3> QED BY <2>6, <3>2 DEF high
    <2> QED BY <2>5, <2>6
  <1> QED BY <1>2, <1>3

(* minMax() folds what is kept for each block into the bounds of all data  *)
(* that is stored, the maximum only if some value is not below the number  *)
(* it starts from.                                                         *)
THEOREM MinMaxIsExact == Spec => []MinMaxExact
  <1>1. ASSUME IInv, Defined, minMaxTracking_, Stored # {}
        PROVE  LET data == {vox[v] : v \in {u \in Voxels : blockGivenCoordinateP(u) \in Stored}}
               IN  /\ MinMax[1] = SetMin(data)
                   /\ MinMax[2] = IF \E k \in data : k >= TypeMin THEN SetMax(data)
                                                                ELSE TypeMin
    <2> DEFINE data    == {vox[v] : v \in {u \in Voxels : blockGivenCoordinateP(u) \in Stored}}
               part(c) == ValuesOf(readArray(blocks_[c]))
               lows    == {blockMinMax_[c][1] : c \in DOMAIN blockMinMax_}
               highs   == {blockMinMax_[c][2] : c \in DOMAIN blockMinMax_}
    <2>1. /\ DOMAIN blockMinMax_ = Stored
          /\ \A c \in Stored : /\ blockMinMax_[c][1] = SetMin(part(c))
                               /\ blockMinMax_[c][2] = SetMax(part(c))
      BY <1>1 DEF IInv, TablesFit, minMax
    <2>2. \A c \in Stored : /\ c \in Grid
                           /\ \A d \in Cell : readArray(blocks_[c])[d] = vox[Voxel(c, d)]
      BY <1>1 DEF IInv, BlocksFit, Contents
    <2>3. ASSUME NEW c \in Stored, NEW k
          PROVE  k \in part(c) <=>
                    \E v \in Voxels : blockGivenCoordinateP(v) = c /\ k = vox[v]
      <3>1. k \in part(c) <=> \E d \in Cell : k = vox[Voxel(c, d)]
        BY <2>2 DEF ValuesOf
      <3>2. \A d \in Cell : /\ Voxel(c, d) \in Voxels
                           /\ blockGivenCoordinateP(Voxel(c, d)) = c
        BY <2>2, VoxelsOfGrid
      <3>3. \A v \in Voxels : blockGivenCoordinateP(v) = c =>
                                  pBlock(v) \in Cell /\ Voxel(c, pBlock(v)) = v
        BY VoxelsOfGrid
      <3> QED BY <3>1, <3>2, <3>3
    <2>4. data \subseteq TypeLowest .. TypeMax
      <3>1. vox \in [Voxels -> Value]
        BY <1>1 DEF IInv
      <3> QED BY <3>1, TypeAssumption
    <2>5. ASSUME NEW c \in Stored PROVE part(c) # {} /\ part(c) \subseteq data
      <3>1. Origin \in Cell
        BY CellMember, ShapeType
      <3>2. vox[Voxel(c, Origin)] \in part(c)
        BY <2>2, <3>1 DEF ValuesOf
      <3> HIDE DEF part
      <3> QED BY <2>3, <3>2
    <2> HIDE DEF part
    <2>6. ASSUME NEW c \in Stored
          PROVE  /\ blockMinMax_[c][1] \in part(c) /\ blockMinMax_[c][2] \in part(c)
                 /\ \A k \in part(c) : blockMinMax_[c][1] <= k /\ k <= blockMinMax_[c][2]
      <3>1. part(c) # {} /\ part(c) \subseteq TypeLowest .. TypeMax
        <4> HIDE DEF data
        <4> QED BY <2>4, <2>5
      <3> QED BY <2>1, <3>1, Extremes
    <2>7. lows \subseteq data /\ highs \subseteq data /\ data # {}
      <3> HIDE DEF data
      <3> QED BY <1>1, <2>1, <2>5, <2>6
    <2>8. ASSUME NEW k \in data
          PROVE  (\E l \in lows : l <= k) /\ (\E h \in highs : k <= h)
      <3>1. PICK v \in Voxels : blockGivenCoordinateP(v) \in Stored /\ k = vox[v]
        OBVIOUS
      <3> DEFINE c == blockGivenCoordinateP(v)
      <3> HIDE DEF data
      <3>2. c \in Stored /\ k \in part(c)
        BY <2>3, <3>1
      <3> HIDE DEF c
      <3> QED BY <2>1, <2>6, <3>2
    <2> HIDE DEF data, lows, highs
    <2>9. /\ SetMin({TypeMax} \cup lows) = SetMin(data)
          /\ SetMax({TypeMin} \cup highs) =
                IF \E k \in data : k >= TypeMin THEN SetMax(data) ELSE TypeMin
      BY <2>4, <2>7, <2>8, ExtremesOfParts
    <2> QED BY <2>9 DEF MinMax, data, lows, highs
  <1>2. IInv => MinMaxExact
    BY <1>1 DEF MinMaxExact
  <1> QED BY <1>2, Invariance, PTL

(* What readSubarray gives for an entry of a region, and for the region.   *)
LEMMA EntryOfRegion ==
    ASSUME IInv, Defined, NEW r \in Rois, NEW v \in Box(Origin, Minus(r.q, r.p))
    PROVE  ReadSubarray(r.p, r.q)[v] = vox[Plus(r.p, v)]
  <1> DEFINE u    == Plus(r.p, v)
             b    == blockGivenCoordinateP(u)
             from == {c \in BlocksInRange(r.p, r.q) \cap Stored :
                         LET read == ReadRoi(c, r.p, r.q) IN InRoi(v, read.p, read.q)}
             entry(c) == readSubarray(blocks_[c], WithinBlock(c, r.p, r.q).p,
                                      WithinBlock(c, r.p, r.q).q)
                            [Minus(v, ReadRoi(c, r.p, r.q).p)]
  <1>1. IsRegion(r.p, r.q)
    BY RoiInArray
  <1>2. ASSUME NEW c \in BlocksInRange(r.p, r.q)
        PROVE  LET w    == WithinBlock(c, r.p, r.q)
                   read == ReadRoi(c, r.p, r.q)
                   cell == Plus(w.p, Minus(v, read.p))
               IN  /\ Plus(r.p, v) \in Vectors /\ InRoi(Plus(r.p, v), r.p, r.q)
                   /\ InRoi(v, read.p, read.q) <=> b = c
                   /\ InRoi(v, read.p, read.q) =>
                         /\ Minus(v, read.p) \in Box(Origin, Minus(w.q, w.p))
                         /\ cell \in Cell /\ cell = pBlock(u)
    BY <1>1, ReadExact
  <1>3. \E c : c \in BlocksInRange(r.p, r.q)
    <2>1. r.p \in Vectors /\ InRoi(r.p, r.p, r.q)
      BY <1>1 DEF IsRegion, InRoi, Vectors
    <2>2. blockGivenCoordinateP(r.p) \in BlocksInRange(r.p, r.q)
      BY <1>1, <2>1, VisitComplete
    <2> QED BY <2>2
  <1>4. u \in Voxels /\ b \in BlocksInRange(r.p, r.q)
    <2>1. u \in Vectors /\ InRoi(u, r.p, r.q)
      BY <1>2, <1>3
    <2> QED BY <1>1, <2>1, RoiInArray, VisitComplete
  <1>5. from = IF b \in Stored THEN {b} ELSE {}
    BY <1>2, <1>4
  <1>6. b \in Stored => entry(b) = vox[u]
    <2> DEFINE w    == WithinBlock(b, r.p, r.q)
               read == ReadRoi(b, r.p, r.q)
    <2>1. /\ Minus(v, read.p) \in Box(Origin, Minus(w.q, w.p))
          /\ Plus(w.p, Minus(v, read.p)) = pBlock(u)
      BY <1>2, <1>4
    <2>2. entry(b) = readArray(blocks_[b])[Plus(w.p, Minus(v, read.p))]
      <3> HIDE DEF w, read
      <3> QED BY <2>1 DEF readSubarray, w, read
    <2>3. pBlock(u) \in Cell /\ Voxel(b, pBlock(u)) = u
      BY <1>4, VoxelsOfGrid
    <2>4. b \in Stored => readArray(blocks_[b])[pBlock(u)] = vox[u]
      BY <2>3 DEF IInv, Contents
    <2> QED BY <2>1, <2>2, <2>4
  <1>7. ReadSubarray(r.p, r.q)[v] =
           IF from = {} THEN 0 ELSE entry(CHOOSE c \in from : TRUE)
    BY DEF ReadSubarray
  <1>8. b \notin Stored => vox[u] = 0
    BY <1>4 DEF IInv, Contents
  <1> HIDE DEF entry, from, b
  <1>9. CASE b \in Stored
    <2>1. (CHOOSE c \in from : TRUE) = b /\ from # {}
      BY <1>5, <1>9
    <2> QED BY <1>6, <1>7, <1>9, <2>1
  <1>10. CASE b \notin Stored
    BY <1>5, <1>7, <1>8, <1>10
  <1> QED BY <1>9, <1>10

LEMMA RegionOK ==
    ASSUME IInv, Defined, NEW r \in Rois
    PROVE  ReadSubarray(r.p, r.q) =
              [v \in Box(Origin, Minus(r.q, r.p)) |-> vox[Plus(r.p, v)]]
  <1>1. ReadSubarray(r.p, r.q) =
           [v \in Box(Origin, Minus(r.q, r.p)) |-> ReadSubarray(r.p, r.q)[v]]
    BY DEF ReadSubarray
  <1> QED BY EntryOfRegion, <1>1

(* Whatever was written, overlaid, erased or relabeled before, each region *)
(* reads back what is expected there, and so does each voxel.              *)
THEOREM RegionsReadBack == Spec => []ReadsBack
  <1>1. IInv => ReadsBack
    BY EntryOfVoxel, RegionOK DEF ReadsBack
  <1> QED BY <1>1, Invariance, PTL

------------------------------------------------------------------------------
(* Dirtiness: a region is cut into the blocks' withinBlock regions, and    *)
(* each of them into slices.                                               *)

Unit == [d \in Dim |-> 1]

LEMMA WithinBlockFits ==
    ASSUME NEW p, NEW q, IsRegion(p, q), NEW c \in BlocksInRange(p, q), NEW d \in Dim
    PROVE  LET w == WithinBlock(c, p, q)
           IN  /\ w.p[d] \in Nat /\ w.q[d] \in Nat
               /\ w.p[d] < w.q[d] /\ w.q[d] <= BlockShape[d]
  <1> DEFINE w == WithinBlock(c, p, q)
             b == blockBounds(c)
  <1>1. /\ w.p \in Vectors /\ w.q \in Vectors /\ b.p \in Vectors
        /\ b.q = Plus(b.p, BlockShape)
        /\ w.p = [e \in Dim |-> IF b.p[e] <= p[e] THEN p[e] - b.p[e] ELSE 0]
        /\ w.q = [e \in Dim |-> IF q[e] < b.q[e] THEN q[e] - b.p[e] ELSE BlockShape[e]]
    BY ComputedRois
  <1>2. b.p[d] < q[d] /\ p[d] < BlockShape[d] * (c[d] + 1) /\ c[d] \in Nat
    BY VisitedBlocks DEF blockBounds, Vectors
  <1>3. BlockShape[d] * (c[d] + 1) = b.q[d]
    BY DEF blockBounds
  <1> HIDE DEF w, b
  <1>4. /\ b.p[d] \in Nat /\ p[d] \in Nat /\ q[d] \in Nat /\ BlockShape[d] \in Nat \ {0}
        /\ w.p[d] \in Nat /\ w.q[d] \in Nat /\ p[d] < q[d]
    BY <1>1, ShapeType DEF Vectors, IsRegion
  <1>5. /\ b.q[d] = b.p[d] + BlockShape[d]
        /\ w.p[d] = IF b.p[d] <= p[d] THEN p[d] - b.p[d] ELSE 0
        /\ w.q[d] = IF q[d] < b.q[d] THEN q[d] - b.p[d] ELSE BlockShape[d]
    BY <1>1 DEF Plus
  <1>6. p[d] < b.q[d]
    BY <1>2, <1>3
  <1>7. w.p[d] < w.q[d] /\ w.q[d] <= BlockShape[d]
    BY <1>2, <1>4, <1>5, <1>6
  <1> QED BY <1>4, <1>7 DEF w

(* The region of one voxel is a region of one cell in the voxel's block.   *)
LEMMA RegionOfVoxel ==
    ASSUME NEW c \in Vectors, NEW cell \in Cell
    PROVE  LET v == Voxel(c, cell)
           IN  /\ BlocksInRange(v, Plus(v, Unit)) = {c}
               /\ WithinBlock(c, v, Plus(v, Unit)).p = cell
               /\ WithinBlock(c, v, Plus(v, Unit)).q = Plus(cell, Unit)
  <1> DEFINE v == Voxel(c, cell)
             q == Plus(v, Unit)
             w == WithinBlock(c, v, q)
             b == blockBounds(c)
  <1>1. /\ v \in Vectors /\ blockGivenCoordinateP(v) = c /\ pBlock(v) = cell
        /\ cell \in Vectors
    BY VoxelOfCell, CellMember
  <1>2. \A d \in Dim : v[d] \in Nat /\ q[d] = v[d] + 1 /\ v[d] = b.p[d] + cell[d]
    BY <1>1 DEF Voxel, Plus, Unit, Vectors
  <1>3. IsRegion(v, q)
    <2>1. q \in Vectors
      BY <1>1, <1>2 DEF Plus, Unit, Vectors
    <2> HIDE DEF v, q
    <2> QED BY <1>1, <1>2, <2>1 DEF IsRegion
  <1>4. c \in BlocksInRange(v, q)
    <2>1. InRoi(v, v, q)
      BY <1>2 DEF InRoi
    <2> HIDE DEF v, q
    <2> QED BY <1>1, <1>3, <2>1, VisitComplete
  <1>5. ASSUME NEW e \in BlocksInRange(v, q) PROVE e = c
    <2>1. PICK other \in Cell : InRoi(Voxel(e, other), v, q)
      BY <1>3, <1>5, VisitComplete
    <2>2. e \in Vectors
      BY <1>3, <1>5, VisitedBlocks
    <2> DEFINE u == Voxel(e, other)
    <2>3. u \in Vectors /\ blockGivenCoordinateP(u) = e
      BY <2>2, VoxelOfCell
    <2>4. InRoi(u, v, q)
      BY <2>1
    <2> HIDE DEF u, v, q
    <2>5. ASSUME NEW d \in Dim PROVE u[d] = v[d]
      <3>1. u[d] \in Nat /\ v[d] \in Nat /\ q[d] = v[d] + 1 /\ v[d] <= u[d] /\ u[d] < q[d]
        BY <1>2, <2>3, <2>4 DEF InRoi, Vectors
      <3> QED BY <3>1
    <2>6. u = v
      BY <1>1, <2>3, <2>5 DEF Vectors
    <2> QED BY <1>1, <2>3, <2>6
  <1>6. /\ w.p \in Vectors /\ w.q \in Vectors /\ b.p \in Vectors
        /\ b.q = Plus(b.p, BlockShape)
        /\ w.p = [e \in Dim |-> IF b.p[e] <= v[e] THEN v[e] - b.p[e] ELSE 0]
        /\ w.q = [e \in Dim |-> IF q[e] < b.q[e] THEN q[e] - b.p[e] ELSE BlockShape[e]]
    <2> HIDE DEF v, q
    <2> QED BY <1>3, <1>4, ComputedRois
  <1> HIDE DEF v, q, w, b
  <1>7. ASSUME NEW d \in Dim PROVE w.p[d] = cell[d] /\ w.q[d] = cell[d] + 1
    <2>1. /\ b.p[d] \in Nat /\ cell[d] \in Nat /\ cell[d] < BlockShape[d]
          /\ BlockShape[d] \in Nat /\ v[d] = b.p[d] + cell[d] /\ q[d] = v[d] + 1
          /\ b.q[d] = b.p[d] + BlockShape[d]
      BY <1>1, <1>2, <1>6, CellMember, ShapeType DEF Vectors, Plus
    <2>2. /\ w.p[d] = IF b.p[d] <= v[d] THEN v[d] - b.p[d] ELSE 0
          /\ w.q[d] = IF q[d] < b.q[d] THEN q[d] - b.p[d] ELSE BlockShape[d]
      BY <1>6
    <2> QED BY <2>1, <2>2
  <1>8. w.p = cell
    BY <1>1, <1>6, <1>7 DEF Vectors
  <1>9. w.q = Plus(cell, Unit)
    <2>1. Plus(cell, Unit) = [d \in Dim |-> cell[d] + 1]
      BY DEF Plus, Unit
    <2> QED BY <1>6, <1>7, <2>1 DEF Vectors
  <1> QED BY <1>4, <1>5, <1>8, <1>9 DEF v, q, w

LEMMA DirtyCell ==
    ASSUME NEW b, NEW cell \in Cell
    PROVE  isDirty(b, cell, Plus(cell, Unit)) <=> \A d \in Dim : isDirtySlice(b, d, cell[d])
  <1>1. ASSUME NEW d \in Dim
        PROVE  \A i : i \in cell[d] .. Plus(cell, Unit)[d] - 1 <=> i = cell[d]
    <2>1. cell[d] \in Nat /\ Plus(cell, Unit)[d] = cell[d] + 1
      BY CellMember DEF Plus, Unit, Vectors
    <2> QED BY <2>1
  <1> QED BY <1>1 DEF isDirty

(* One region: its dirty slices meet in a dirty voxel.                     *)
LEMMA DirtyRegion ==
    ASSUME NEW r \in Rois
    PROVE  IsDirty(r.p, r.q) <=>
              \E v \in Box(r.p, r.q) : IsDirty(v, Plus(v, Unit))
  <1> DEFINE w(c) == WithinBlock(c, r.p, r.q)
             VoxelDirty(c, cell) ==
                c \in Stored => \A d \in Dim : isDirtySlice(blocks_[c], d, cell[d])
  <1>1. IsRegion(r.p, r.q) /\ r.p \in IntVectors /\ r.q \in IntVectors
    BY RoiInArray, ShapeType DEF IsRegion
  <1>2. ASSUME NEW c \in Vectors, NEW cell \in Cell
        PROVE  IsDirty(Voxel(c, cell), Plus(Voxel(c, cell), Unit)) <=> VoxelDirty(c, cell)
    BY RegionOfVoxel, DirtyCell DEF IsDirty
  <1>3. ASSUME NEW c \in BlocksInRange(r.p, r.q), NEW cell \in Cell
        PROVE  /\ c \in Vectors
               /\ Voxel(c, cell) \in Box(r.p, r.q) <=> InRoi(cell, w(c).p, w(c).q)
    <2>1. c \in Vectors
      BY <1>1, VisitedBlocks
    <2>2. Voxel(c, cell) \in IntVectors
      BY <2>1, VoxelOfCell, ShapeType
    <2>3. InRoi(cell, w(c).p, w(c).q) <=> InRoi(Voxel(c, cell), r.p, r.q)
      BY <1>1, VisitExact
    <2> QED BY <1>1, <2>1, <2>2, <2>3, BoxMember
  <1> HIDE DEF VoxelDirty
  <1>4. ASSUME IsDirty(r.p, r.q)
        PROVE  \E v \in Box(r.p, r.q) : IsDirty(v, Plus(v, Unit))
    <2>1. PICK c \in BlocksInRange(r.p, r.q) :
             c \in Stored => isDirty(blocks_[c], w(c).p, w(c).q)
      BY <1>4 DEF IsDirty
    <2> DEFINE Chosen(d) == IF c \in Stored
                            THEN CHOOSE i \in w(c).p[d] .. w(c).q[d] - 1 :
                                    isDirtySlice(blocks_[c], d, i)
                            ELSE w(c).p[d]
               cell == [d \in Dim |-> Chosen(d)]
    <2>2. ASSUME NEW d \in Dim
          PROVE  /\ cell[d] \in Nat /\ w(c).p[d] <= cell[d] /\ cell[d] < w(c).q[d]
                 /\ cell[d] < BlockShape[d]
                 /\ c \in Stored => isDirtySlice(blocks_[c], d, cell[d])
      <3>1. /\ w(c).p[d] \in Nat /\ w(c).q[d] \in Nat /\ w(c).p[d] < w(c).q[d]
            /\ w(c).q[d] <= BlockShape[d] /\ BlockShape[d] \in Nat
        BY <1>1, WithinBlockFits, ShapeType
      <3>2. c \in Stored => \E i \in w(c).p[d] .. w(c).q[d] - 1 :
                               isDirtySlice(blocks_[c], d, i)
        BY <2>1 DEF isDirty
      <3>3. /\ Chosen(d) \in w(c).p[d] .. w(c).q[d] - 1
            /\ c \in Stored => isDirtySlice(blocks_[c], d, Chosen(d))
        <4> HIDE DEF w
        <4> QED BY <3>1, <3>2
      <3>4. cell[d] = Chosen(d)
        OBVIOUS
      <3> HIDE DEF Chosen, cell, w
      <3> QED BY <3>1, <3>3, <3>4
    <2>3. cell \in Cell /\ InRoi(cell, w(c).p, w(c).q)
      <3>1. cell \in Vectors
        BY <2>2 DEF Vectors
      <3> HIDE DEF cell
      <3> QED BY <2>2, <3>1, CellMember DEF InRoi
    <2> HIDE DEF cell, w
    <2>4. VoxelDirty(c, cell)
      BY <2>2 DEF VoxelDirty
    <2>5. Voxel(c, cell) \in Box(r.p, r.q) /\ c \in Vectors
      BY <1>3, <2>3
    <2> QED BY <1>2, <2>3, <2>4, <2>5
  <1>5. ASSUME NEW v \in Box(r.p, r.q), IsDirty(v, Plus(v, Unit))
        PROVE  IsDirty(r.p, r.q)
    <2> DEFINE c    == blockGivenCoordinateP(v)
               cell == pBlock(v)
    <2>1. v \in Vectors /\ InRoi(v, r.p, r.q)
      <3>1. v \in IntVectors /\ InRoi(v, r.p, r.q)
        BY <1>1, BoxMember
      <3>2. \A d \in Dim : v[d] \in Nat
        BY <1>1, <3>1 DEF InRoi, IsRegion, Vectors, IntVectors
      <3> QED BY <3>1, <3>2 DEF Vectors, IntVectors
    <2>2. c \in Vectors /\ cell \in Cell /\ Voxel(c, cell) = v
      BY <2>1, BlockOfVoxel
    <2>3. c \in BlocksInRange(r.p, r.q)
      BY <1>1, <2>1, VisitComplete
    <2> HIDE DEF c, cell
    <2>4. VoxelDirty(c, cell) /\ InRoi(cell, w(c).p, w(c).q)
      BY <1>2, <1>3, <1>5, <2>2, <2>3
    <2>5. ASSUME c \in Stored, NEW d \in Dim
          PROVE  \E i \in w(c).p[d] .. w(c).q[d] - 1 : isDirtySlice(blocks_[c], d, i)
      <3>1. isDirtySlice(blocks_[c], d, cell[d])
        BY <2>4, <2>5 DEF VoxelDirty
      <3>2. cell[d] \in w(c).p[d] .. w(c).q[d] - 1
        <4>1. w(c).p[d] \in Nat /\ w(c).q[d] \in Nat
          BY <1>1, <2>3, WithinBlockFits
        <4>2. cell[d] \in Nat /\ w(c).p[d] <= cell[d] /\ cell[d] < w(c).q[d]
          BY <2>2, <2>4, CellMember DEF InRoi, Vectors
        <4> HIDE DEF w
        <4> QED BY <4>1, <4>2
      <3> QED BY <3>1, <3>2
    <2>6. c \in Stored => isDirty(blocks_[c], w(c).p, w(c).q)
      BY <2>5 DEF isDirty
    <2> QED BY <2>3, <2>6 DEF IsDirty
  <1> QED BY <1>4, <1>5

(* However a region is cut into blocks and slices, it is dirty iff one of  *)
(* its voxels is: isDirty(p, q) answers voxel by voxel.                    *)
THEOREM DirtinessIsVoxelwise == Spec => []DirtyVoxelwise
  <1>1. DirtyVoxelwise
    BY DirtyRegion DEF DirtyVoxelwise, Unit
  <1> QED BY <1>1, PTL

(* Right after setDirty(p, q, true) every voxel of the region in a stored  *)
(* block is reported dirty, in every state and for any number of           *)
(* dimensions, shared slots or not.                                        *)
THEOREM MarkedIsReportedAtOnce == Spec => []MarkedIsReported
  <1>1. IInv => MarkedIsReported
    <2> SUFFICES ASSUME IInv, NEW r \in Rois, NEW c \in BlocksInRange(r.p, r.q) \cap Stored,
                        NEW v \in Box(WithinBlock(c, r.p, r.q).p, WithinBlock(c, r.p, r.q).q)
                 PROVE  isDirty(setDirty(blocks_[c], WithinBlock(c, r.p, r.q).p,
                                         WithinBlock(c, r.p, r.q).q, TRUE), v, Plus(v, Unit))
      BY DEF MarkedIsReported, Unit
    <2> DEFINE p == WithinBlock(c, r.p, r.q).p
               q == WithinBlock(c, r.p, r.q).q
               b == setDirty(blocks_[c], p, q, TRUE)
    <2>1. \A d \in Dim : /\ p[d] \in Nat /\ q[d] \in Nat
                         /\ p[d] < q[d] /\ q[d] <= BlockShape[d]
      BY RoiInArray, WithinBlockFits
    <2>2. p \in Vectors /\ q \in Vectors
      BY RoiInArray, ComputedRois
    <2>3. v \in Cell /\ InRoi(v, p, q)
      <3>1. v \in IntVectors /\ InRoi(v, p, q)
        <4> HIDE DEF p, q
        <4>1. p \in IntVectors /\ q \in IntVectors
          BY <2>2, ShapeType
        <4>2. v \in Box(p, q)
          BY DEF p, q
        <4> QED BY <4>1, <4>2, BoxMember
      <3> HIDE DEF p, q
      <3>2. \A d \in Dim : v[d] \in Nat /\ v[d] < BlockShape[d]
        BY <2>1, <3>1, ShapeType DEF InRoi, IntVectors
      <3>3. v \in Vectors
        BY <3>1, <3>2 DEF Vectors, IntVectors
      <3> QED BY <3>1, <3>2, <3>3, CellMember
    <2> HIDE DEF p, q
    <2>4. ASSUME NEW d \in Dim PROVE isDirtySlice(b, d, v[d])
      <3> DEFINE s     == Slot(d, v[d])
                 slots == UNION {SlotsOf(e, p, q) :
                                    e \in {f \in Dim : TRUE \/ FullExtent(f, p, q)}}
      <3>1. v[d] \in Nat /\ v[d] < BlockShape[d] /\ p[d] <= v[d] /\ v[d] < q[d]
        BY <2>3, CellMember DEF InRoi, Vectors
      <3>2. s \in Slots
        BY <3>1, SlotExists
      <3>3. s \in slots
        <4>1. v[d] \in p[d] .. q[d] - 1
          BY <2>1, <3>1
        <4>2. s \in SlotsOf(d, p, q)
          BY <4>1 DEF SlotsOf
        <4> QED BY <4>2
      <3>4. b = IF IsWhole(p, q) THEN setDirtyAll(blocks_[c], TRUE)
                ELSE SetSlots(blocks_[c], slots, TRUE)
        BY DEF setDirty
      <3>5. /\ setDirtyAll(blocks_[c], TRUE).dirtyDimensions_[s]
            /\ SetSlots(blocks_[c], slots, TRUE).dirtyDimensions_[s]
        <4>1. blocks_[c] \in Block
          BY DEF IInv, BlocksFit
        <4> HIDE DEF s, slots
        <4> QED BY <3>2, <3>3, <4>1 DEF setDirtyAll, SetSlots, Block
      <3> HIDE DEF s, slots, b
      <3>6. b.dirtyDimensions_[s]
        BY <3>4, <3>5
      <3> QED BY <3>6 DEF isDirtySlice, s
    <2> HIDE DEF b
    <2>5. isDirty(b, v, Plus(v, Unit))
      BY <2>3, <2>4, DirtyCell
    <2> QED BY <2>5 DEF b, p, q
  <1> QED BY <1>1, Invariance, PTL

(* writeSubarray leaves the blocks that its region covers without a dirty  *)
(* slot, whether it wrote into them or built them from the data.           *)
LEMMA CoveredIsClean ==
    ASSUME IInv, Defined, NEW r \in Rois, NEW a \in [Box(Origin, Minus(r.q, r.p)) -> Value],
           writeSubarray(r.p, r.q, a),
           NEW c \in CoveredBlocks(r), c \in Stored'
    PROVE  \E b \in Block : blocks_'[c] = setDirtyAll(b, FALSE)
  <1> DEFINE new   == [e \in BlocksInRange(r.p, r.q) |-> WrittenBlock(e, r.p, r.q, a)]
             w     == WithinBlock(c, r.p, r.q)
             piece == Piece(a, c, r.p, r.q)
  <1>1. c \in BlocksInRange(r.p, r.q) /\ IsWhole(w.p, w.q)
    BY DEF CoveredBlocks, CoversBlock
  <1>2. StoreBlocks(new) /\ UNCHANGED options
    BY DEF writeSubarray
  <1>3. ASSUME NEW e \in BlocksInRange(r.p, r.q)
        PROVE  BlockOK(new[e]) /\ new[e].isCompressed_ = enableCompression_
    BY WrittenBlockOK
  <1>4. DOMAIN new \subseteq Grid /\ DOMAIN new = BlocksInRange(r.p, r.q)
    BY RoiInArray
  <1>5. blocks_'[c] = WrittenBlock(c, r.p, r.q, a)
    <2>1. new[c] = WrittenBlock(c, r.p, r.q, a)
      BY <1>1
    <2> HIDE DEF new
    <2>2. blocks_'[c] = new[c]
      BY <1>1, <1>2, <1>3, <1>4, StoreBlocksOK DEF IInv
    <2> QED BY <2>1, <2>2
  <1>6. CASE c \notin Stored
    <2>1. piece \in Image
      BY <1>1, CoveringPieceOK DEF CoveredBlocks
    <2>2. BlockOK(AddedBlock(piece))
      BY <2>1, AddedBlockOK DEF IInv
    <2>3. blocks_'[c] = setDirtyAll(AddedBlock(piece), FALSE)
      BY <1>1, <1>5, <1>6 DEF WrittenBlock, CoversBlock
    <2> QED BY <2>2, <2>3 DEF BlockOK
  <1>7. CASE c \in Stored
    <2> DEFINE b == WriteData(blocks_[c], w.p, w.q, piece)
    <2>1. IsInput(piece, w.p, w.q)
      <3>1. ASSUME NEW cell \in Cell
            PROVE  InRoi(cell, w.p, w.q) =>
                      /\ piece[Minus(cell, w.p)] = a[Minus(Voxel(c, cell), r.p)]
                      /\ a[Minus(Voxel(c, cell), r.p)] \in Value
        BY <1>1, PieceOK
      <3> HIDE DEF w, piece
      <3> QED BY <3>1 DEF IsInput
    <2>2. BlockOK(blocks_[c])
      BY <1>7 DEF IInv, BlocksFit
    <2>3. BlockOK(b)
      <3> HIDE DEF w, piece
      <3> QED BY <2>1, <2>2, WriteDataOK
    <2>4. blocks_'[c] = CleanWritten(b, w.p, w.q)
      BY <1>5, <1>7 DEF WrittenBlock, BlockOrNew, writeArray
    <2> HIDE DEF b, w
    <2>5. CleanWritten(b, w.p, w.q) = setDirtyAll(b, FALSE)
      BY <1>1 DEF CleanWritten
    <2> QED BY <2>3, <2>4, <2>5 DEF BlockOK
  <1> QED BY <1>6, <1>7

(* The blocks of the region that a block occupies are that block.          *)
LEMMA RegionOfBlock ==
    ASSUME NEW c \in Vectors
    PROVE  LET b == blockBounds(c)
           IN  /\ BlocksInRange(b.p, b.q) = {c}
               /\ WithinBlock(c, b.p, b.q).p = Origin
               /\ WithinBlock(c, b.p, b.q).q = BlockShape
  <1> DEFINE b == blockBounds(c)
             w == WithinBlock(c, b.p, b.q)
  <1>1. ASSUME NEW d \in Dim
        PROVE  /\ b.p[d] \in Nat /\ b.q[d] = b.p[d] + BlockShape[d] /\ BlockShape[d] \in Nat \ {0}
               /\ c[d] \in Nat /\ b.p[d] = BlockShape[d] * c[d]
               /\ b.q[d] = BlockShape[d] * (c[d] + 1)
    <2>1. c[d] \in Nat /\ BlockShape[d] \in Nat \ {0}
      BY ShapeType DEF Vectors
    <2>2. \A m \in Nat, n \in Nat : m * n \in Nat /\ m * (n + 1) = m * n + m
      OBVIOUS
    <2>3. b.p[d] = BlockShape[d] * c[d] /\ b.q[d] = BlockShape[d] * (c[d] + 1)
      BY DEF blockBounds
    <2> HIDE DEF b
    <2> QED BY <2>1, <2>2, <2>3
  <1>2. b.p = [d \in Dim |-> b.p[d]] /\ b.q = [d \in Dim |-> b.q[d]]
    BY DEF blockBounds
  <1> HIDE DEF b
  <1>3. IsRegion(b.p, b.q)
    BY <1>1, <1>2 DEF IsRegion, Vectors
  <1>4. ASSUME NEW e
        PROVE  e \in BlocksInRange(b.p, b.q) <=> e = c
    <2>1. e \in BlocksInRange(b.p, b.q) <=>
             /\ e \in Vectors
             /\ \A d \in Dim : /\ BlockShape[d] * e[d] < BlockShape[d] * (c[d] + 1)
                               /\ BlockShape[d] * c[d] < BlockShape[d] * (e[d] + 1)
      BY <1>1, <1>3, VisitedBlocks
    <2>2. ASSUME e \in Vectors, NEW d \in Dim
          PROVE  /\ BlockShape[d] * e[d] < BlockShape[d] * (c[d] + 1)
                 /\ BlockShape[d] * c[d] < BlockShape[d] * (e[d] + 1)
                 <=> e[d] = c[d]
      <3>1. e[d] \in Nat /\ c[d] \in Nat /\ BlockShape[d] \in Nat \ {0}
        BY <1>1, <2>2 DEF Vectors
      <3>2. \A m \in Nat \ {0}, i \in Nat, k \in Nat : m * i < m * (k + 1) <=> i <= k
        <4> SUFFICES ASSUME NEW m \in Nat \ {0}, NEW i \in Nat, NEW k \in Nat
                     PROVE  m * i < m * (k + 1) <=> i <= k
          OBVIOUS
        <4>1. i <= k => m * i <= m * k
          BY MulMono
        <4>2. k + 1 <= i => m * (k + 1) <= m * i
          BY MulMono
        <4>3. m * (k + 1) = m * k + m /\ m * i \in Nat /\ m * k \in Nat
          OBVIOUS
        <4> QED BY <4>1, <4>2, <4>3
      <3>3. /\ BlockShape[d] * e[d] < BlockShape[d] * (c[d] + 1) <=> e[d] <= c[d]
            /\ BlockShape[d] * c[d] < BlockShape[d] * (e[d] + 1) <=> c[d] <= e[d]
        BY <3>1, <3>2
      <3> QED BY <3>1, <3>3
    <2>3. ASSUME e \in Vectors, \A d \in Dim : e[d] = c[d] PROVE e = c
      BY <2>3 DEF Vectors
    <2> QED BY <2>1, <2>2, <2>3
  <1>5. /\ w.p = [d \in Dim |-> IF b.p[d] <= b.p[d] THEN b.p[d] - b.p[d] ELSE 0]
        /\ w.q = [d \in Dim |-> IF b.q[d] < b.q[d] THEN b.q[d] - b.p[d] ELSE BlockShape[d]]
    <2>1. c \in BlocksInRange(b.p, b.q)
      BY <1>4
    <2> QED BY <1>3, <2>1, ComputedRois DEF b
  <1>6. w.p = Origin
    BY <1>1, <1>5 DEF Origin
  <1>7. w.q = BlockShape
    <2>1. w.q = [d \in Dim |-> BlockShape[d]]
      BY <1>1, <1>5
    <2> QED BY <2>1, ShapeType DEF Vectors
  <1> QED BY <1>4, <1>6, <1>7 DEF b

(* writeSubarray leaves no block dirty that its region covers, in no way   *)
(* dirtiness can be asked for, whatever was marked before.                 *)
THEOREM CoveredBlocksGetClean == Spec => OverwrittenIsClean
  <1> DEFINE Clean ==
                \A r \in Rois :
                   (\E c \in CoveredBlocks(r) \cap Stored' : BlockDirty(c)') =>
                      \A a \in Payload(r.p, r.q, Value) : ~writeSubarray(r.p, r.q, a)
  <1>1. ASSUME IInv, Next PROVE Clean
    <2> SUFFICES ASSUME NEW r \in Rois, NEW c \in CoveredBlocks(r) \cap Stored',
                        NEW a \in Payload(r.p, r.q, Value), writeSubarray(r.p, r.q, a)
                 PROVE  ~BlockDirty(c)'
      OBVIOUS
    <2>1. Defined /\ a \in [Box(Origin, Minus(r.q, r.p)) -> Value]
      BY <1>1, InputsOK DEF Next, Defined
    <2>2. PICK b \in Block : blocks_'[c] = setDirtyAll(b, FALSE)
      BY <1>1, <2>1, CoveredIsClean
    <2>3. c \in Vectors
      BY RoiInArray, VisitedBlocks DEF CoveredBlocks
    <2>4. 0 \in Dim
      BY GeometryAssumption DEF Dim
    <2>5. ~blocks_'[c].isDirty_
      BY <2>2 DEF setDirtyAll, Block
    <2>6. ~isDirty(blocks_'[c], Origin, BlockShape)
      <3>1. ASSUME NEW i \in Origin[0] .. BlockShape[0] - 1
            PROVE  ~isDirtySlice(blocks_'[c], 0, i)
        <4>1. Origin[0] = 0 /\ BlockShape[0] \in Nat
          BY <2>4, ShapeType
        <4>2. i \in Nat /\ i < BlockShape[0]
          BY <4>1
        <4>3. Slot(0, i) \in Slots
          BY <2>4, <4>2, SlotExists
        <4> QED BY <2>2, <4>3 DEF isDirtySlice, setDirtyAll, Block
      <3> QED BY <2>4, <3>1 DEF isDirty
    <2>7. ~IsDirty(blockBounds(c).p, blockBounds(c).q)'
      BY <2>3, <2>6, RegionOfBlock DEF IsDirty
    <2> QED BY <2>5, <2>7 DEF BlockDirty
  <1>2. IInv /\ [Next]_vars => [Clean]_vars
    BY <1>1
  <1>3. OverwrittenIsClean <=> [][Clean]_vars
    BY DEF OverwrittenIsClean
  <1> HIDE DEF Clean
  <1> QED BY <1>2, <1>3, Invariance, PTL DEF Spec

------------------------------------------------------------------------------
(* Array implements SparseStore: the voxels that operator[] answers, the   *)
(* set of its blocks and the option deleteEmptyBlocks_ behave as promised. *)

(* The geometry of the sparse store is that of the array.                  *)
LEMMA SparseGeometry ==
    /\ Sparse!Voxels = Voxels
    /\ Sparse!Rois = Rois
    /\ \A p, q : Sparse!BlocksInRange(p, q) = BlocksInRange(p, q)
    /\ \A v : Sparse!blockGivenCoordinateP(v) = blockGivenCoordinateP(v)
    /\ \A v, p, q : Sparse!InRoi(v, p, q) <=> InRoi(v, p, q)
  BY StoreGeometry
     DEF Sparse!Voxels, Sparse!Rois, Rois, Sparse!Corners, Corners, Sparse!Box, Box,
         Sparse!Coordinates, Coordinates, Sparse!InRoi, InRoi, Sparse!Origin, Origin,
         Sparse!Dim, Dim, Sparse!BlocksInRange, BlocksInRange,
         Sparse!blockGivenCoordinateP, blockGivenCoordinateP,
         Sparse!blockGivenCoordinateQ, blockGivenCoordinateQ, Sparse!Quotient, Quotient

(* While no behaviour was undefined, the voxels are the contents promised. *)
VoxelsAgree == Defined => Contained = vox

LEMMA IInvAgrees == IInv => VoxelsAgree
  BY EntryOfVoxel DEF VoxelsAgree, Contained, IInv

(* A block is without a nonzero voxel iff it is without a nonzero cell.    *)
LEMMA ZerosOfBlock ==
    ASSUME NEW c \in Grid, NEW img
    PROVE  (\A v \in Voxels : blockGivenCoordinateP(v) = c => img[v] = 0)
              <=> \A cell \in Cell : img[Voxel(c, cell)] = 0
  BY VoxelsOfGrid

LEMMA OccupyOK ==
    ASSUME NEW touched, touched \subseteq Grid, Occupied(touched),
           deleteEmptyBlocks_ \in BOOLEAN, Contained' = vox'
    PROVE  Sparse!Occupy(touched)
  <1>1. Sparse!AllZero(touched, Contained') =
           {c \in touched : \A cell \in Cell : vox'[Voxel(c, cell)] = 0}
    <2>1. \A c \in touched : (\A v \in Voxels : blockGivenCoordinateP(v) = c => vox'[v] = 0)
                                <=> \A cell \in Cell : vox'[Voxel(c, cell)] = 0
      BY ZerosOfBlock
    <2> QED BY <2>1, SparseGeometry DEF Sparse!AllZero
  <1> QED BY <1>1 DEF Occupied, Sparse!Occupy

------------------------------------------------------------------------------
(* One lemma for each kind of step; Kept and KeptNext say that the step    *)
(* starts and ends without undefined behaviour.                            *)
Kept == IInv /\ Defined /\ Contained = vox
KeptNext == Defined' /\ Contained' = vox'

LEMMA OverwriteOK ==
    ASSUME Kept, KeptNext, NEW r \in Rois, Overwrites(r)
    PROVE  Sparse!Overwrite(r.p, r.q)
  <1>1. Sparse!Occupy(BlocksInRange(r.p, r.q))
    BY OccupyOK, RoiInArray DEF Overwrites, Kept, KeptNext, IInv, OptionsFit, options
  <1> QED BY <1>1, SparseGeometry DEF Sparse!Overwrite, Overwrites, Kept, KeptNext

LEMMA DeleteOK ==
    ASSUME Kept, KeptNext, NEW r \in Rois, Erases(r)
    PROVE  Sparse!Delete(r.p, r.q)
  BY SparseGeometry DEF Sparse!Delete, Sparse!Erase, Erases, Kept, KeptNext

LEMMA RelabelOK ==
    ASSUME Kept, KeptNext, Relabels
    PROVE  \E label \in [Value -> Value] : Sparse!RelabelStored(label)
  <1>1. Sparse!Occupy(Stored)
    BY OccupyOK DEF Relabels, Kept, KeptNext, IInv, OptionsFit, options, BlocksFit
  <1> QED BY <1>1, SparseGeometry DEF Sparse!RelabelStored, Relabels, Kept, KeptNext

(* The region of one voxel, and the block of that voxel.                   *)
LEMMA VoxelIsRegion ==
    ASSUME NEW p \in Voxels, NEW q, q = Plus(p, [d \in Dim |-> 1])
    PROVE  /\ [p |-> p, q |-> q] \in Rois
           /\ \A v \in Voxels : InRoi(v, p, q) <=> v = p
           /\ BlocksInRange(p, q) = {blockGivenCoordinateP(p)}
  <1> DEFINE bound == [d \in Dim |-> Extent[d] * BlockShape[d] + 1]
             c     == blockGivenCoordinateP(p)
  <1>1. /\ p \in Vectors /\ q \in Vectors
        /\ \A d \in Dim : q[d] = p[d] + 1 /\ p[d] < Extent[d] * BlockShape[d]
    BY VoxelMember DEF Plus, Vectors
  <1>2. bound \in IntVectors /\ Origin \in IntVectors /\ \A d \in Dim : Origin[d] = 0
    BY ExtentInVoxels, ShapeType
  <1>3. p \in Corners /\ q \in Corners
    <2>1. p \in IntVectors /\ q \in IntVectors
      BY <1>1 DEF Vectors, IntVectors
    <2>2. InRoi(p, Origin, bound) /\ InRoi(q, Origin, bound)
      BY <1>1, <1>2, ExtentInVoxels DEF InRoi, Vectors
    <2> QED BY <1>2, <2>1, <2>2, BoxMember DEF Corners
  <1>4. \A d \in Dim : p[d] < q[d]
    BY <1>1 DEF Vectors
  <1>5. ASSUME NEW v \in Voxels PROVE InRoi(v, p, q) <=> v = p
    <2>1. v \in Vectors
      BY VoxelMember
    <2>2. \A d \in Dim : p[d] <= v[d] /\ v[d] < q[d] <=> v[d] = p[d]
      BY <1>1, <2>1 DEF Vectors
    <2>3. v = p <=> \A d \in Dim : v[d] = p[d]
      BY <1>1, <2>1 DEF Vectors
    <2> QED BY <2>2, <2>3 DEF InRoi
  <1>6. BlocksInRange(p, q) = {c}
    <2> DEFINE cq == blockGivenCoordinateQ(q)
    <2>1. c \in Vectors
      BY <1>1, BlockOfVoxel
    <2>2. cq = [d \in Dim |-> c[d] + 1]
      <3>1. \A d \in Dim : q[d] - 1 = p[d]
        BY <1>1 DEF Vectors
      <3> QED BY <3>1 DEF blockGivenCoordinateQ, blockGivenCoordinateP
    <2> HIDE DEF c, cq
    <2>3. c \in IntVectors /\ cq \in IntVectors
      BY <2>1, <2>2 DEF Vectors, IntVectors
    <2>4. ASSUME NEW b PROVE b \in Box(c, cq) <=> b = c
      <3>1. b \in Box(c, cq) <=> b \in IntVectors /\ InRoi(b, c, cq)
        BY <2>3, BoxMember
      <3>2. ASSUME b \in IntVectors, InRoi(b, c, cq) PROVE b = c
        <4>1. ASSUME NEW d \in Dim PROVE b[d] = c[d]
          <5>1. c[d] <= b[d] /\ b[d] < cq[d] /\ cq[d] = c[d] + 1
            BY <2>2, <3>2 DEF InRoi
          <5>2. b[d] \in Int /\ c[d] \in Int
            BY <2>3, <3>2 DEF IntVectors
          <5> QED BY <5>1, <5>2
        <4> QED BY <2>3, <3>2, <4>1 DEF IntVectors
      <3>3. InRoi(c, c, cq)
        BY <2>2, <2>3 DEF InRoi, IntVectors
      <3> QED BY <2>3, <3>1, <3>2, <3>3
    <2> QED BY <2>4 DEF BlocksInRange, c, cq
  <1> QED BY <1>3, <1>4, <1>5, <1>6 DEF Rois

LEMMA WriteVoxelOK ==
    ASSUME Kept, KeptNext, NEW p \in Voxels,
           Occupied({blockGivenCoordinateP(p)}),
           \A v \in Voxels : v # p => vox'[v] = vox[v], UNCHANGED deleteEmptyBlocks_
    PROVE  \E r \in Rois : Sparse!Overwrite(r.p, r.q)
  <1> DEFINE r == [p |-> p, q |-> Plus(p, [d \in Dim |-> 1])]
  <1>1. /\ r \in Rois /\ \A v \in Voxels : InRoi(v, r.p, r.q) <=> v = p
        /\ BlocksInRange(r.p, r.q) = {blockGivenCoordinateP(p)}
    BY VoxelIsRegion
  <1> HIDE DEF r
  <1>2. Overwrites(r)
    BY <1>1 DEF Overwrites
  <1> QED BY <1>1, <1>2, OverwriteOK

(* The other operations leave the sparse store as it is, or set its        *)
(* option: the blocks that are compressed, uncompressed or marked hold     *)
(* what they held.                                                         *)
LEMMA OptionOK ==
    ASSUME Kept, KeptNext, NEW on \in BOOLEAN, SetOption(on)
    PROVE  \E o \in BOOLEAN : Sparse!Choose(o)
  <1>1. UNCHANGED vox /\ Stored' = Stored /\ Contained' = Contained
    BY DEF Kept, KeptNext, SetOption, setDeleteEmptyBlocks, setManageCoordinateLists,
           setCompressionEnabled, setMinMaxTrackingEnabled, Stored
  <1>2. deleteEmptyBlocks_' \in BOOLEAN
    BY DEF Kept, IInv, OptionsFit, options, SetOption, setDeleteEmptyBlocks,
           setManageCoordinateLists, setCompressionEnabled, setMinMaxTrackingEnabled
  <1> QED BY <1>1, <1>2 DEF Sparse!Choose, Kept, KeptNext

LEMMA MarkingOK ==
    ASSUME Kept, KeptNext, NEW r \in Rois, NEW dirty \in BOOLEAN,
           setDirtySubarray(r.p, r.q, dirty)
    PROVE  UNCHANGED Sparse!sparseVars
  <1>1. UNCHANGED vox /\ Stored' = Stored /\ UNCHANGED deleteEmptyBlocks_
    BY DEF setDirtySubarray, Stored, options
  <1> QED BY <1>1 DEF Sparse!sparseVars, Kept, KeptNext

------------------------------------------------------------------------------
LEMMA SparseStarts == Init => Sparse!SparseInit
  <1> SUFFICES ASSUME Init PROVE Sparse!SparseInit
    OBVIOUS
  <1>1. Stored = {} /\ Defined /\ deleteEmptyBlocks_ = FALSE
    BY DEF Init, Empty, Stored, Defined
  <1>2. Contained = [v \in Voxels |-> 0]
    BY <1>1 DEF Contained, At
  <1> QED BY <1>1, <1>2, SparseGeometry DEF Sparse!SparseInit, Sparse!Init

LEMMA SparseSteps ==
    IInv /\ VoxelsAgree /\ VoxelsAgree' /\ [Next]_vars
        => [Sparse!SparseNext]_(Sparse!sparseVars)
  <1> SUFFICES ASSUME IInv, VoxelsAgree, VoxelsAgree', [Next]_vars
               PROVE  [Sparse!SparseNext]_(Sparse!sparseVars)
    OBVIOUS
  <1>1. CASE UNCHANGED vars
    <2>1. UNCHANGED <<blocks_, deleteEmptyBlocks_, status>>
      BY <1>1 DEF vars, options
    <2>2. Contained' = Contained /\ Stored' = Stored /\ Defined' = Defined
      BY <2>1 DEF Contained, At, Stored, Defined
    <2> QED BY <2>1, <2>2 DEF Sparse!sparseVars
  <1>2. CASE Next /\ ~Defined'
    <2>1. Defined
      BY <1>2 DEF Next, Defined
    <2> QED BY <1>2, <2>1 DEF Sparse!SparseNext
  <1>3. CASE Next /\ Defined'
    <2>1. Kept /\ KeptNext /\ Defined
      BY <1>3 DEF Next, Defined, Kept, KeptNext, VoxelsAgree
    <2>2. ASSUME NEW on \in Switches, SetOption(on) PROVE Sparse!SparseNext
      BY <2>1, <2>2, InputAssumption, OptionOK DEF Sparse!SparseNext
    <2>3. ASSUME NEW r \in Rois, WriteRegion(r.p, r.q) PROVE Sparse!SparseNext
      <3>1. ASSUME NEW a \in Payload(r.p, r.q, Value), writeSubarray(r.p, r.q, a)
            PROVE  Overwrites(r)
        BY <2>1, <3>1, InputsOK, writeSubarrayOK
      <3>2. ASSUME NEW a \in Payload(r.p, r.q, Value), writeSubarrayAtEnd(r.p, r.q, a)
            PROVE  FALSE
        BY <2>1, <3>2 DEF writeSubarrayAtEnd, KeptNext, Defined
      <3>3. ASSUME NEW z \in WriteAsZero, NEW a \in Payload(r.p, r.q, Value \cup {z}),
                   writeSubarrayNonzero(r.p, r.q, a, z)
            PROVE  Overwrites(r)
        BY <2>1, <3>3, InputsOK, writeSubarrayNonzeroOK
      <3>4. Overwrites(r)
        BY <2>3, <3>1, <3>2, <3>3 DEF WriteRegion
      <3> QED BY <2>1, <3>4, OverwriteOK, SparseGeometry DEF Sparse!SparseNext
    <2>4. ASSUME NEW v \in Voxels, NEW value \in Value, write(v, value)
          PROVE  Sparse!SparseNext
      <3>1. /\ Occupied({blockGivenCoordinateP(v)}) /\ UNCHANGED deleteEmptyBlocks_
            /\ \A u \in Voxels : u # v => vox'[u] = vox[u]
        BY <2>1, <2>4, writeOK
      <3> QED BY <2>1, <3>1, WriteVoxelOK, SparseGeometry DEF Sparse!SparseNext
    <2>5. ASSUME NEW r \in Rois, deleteSubarray(r.p, r.q) PROVE Sparse!SparseNext
      <3>1. Erases(r)
        BY <2>1, <2>5, deleteSubarrayOK
      <3> QED BY <2>1, <3>1, DeleteOK, SparseGeometry DEF Sparse!SparseNext
    <2>6. ASSUME NEW f \in Relabelings, applyRelabeling(f.labels, f.size)
          PROVE  Sparse!SparseNext
      <3>1. Relabels
        BY <2>1, <2>6, applyRelabelingOK DEF KeptNext
      <3> QED BY <2>1, <3>1, RelabelOK DEF Sparse!SparseNext
    <2>7. ASSUME NEW r \in Rois, NEW dirty \in Marks, setDirtySubarray(r.p, r.q, dirty)
          PROVE  UNCHANGED Sparse!sparseVars
      BY <2>1, <2>7, InputAssumption, MarkingOK
    <2> QED BY <1>3, <2>2, <2>3, <2>4, <2>5, <2>6, <2>7 DEF Next
  <1> QED BY <1>1, <1>2, <1>3

(* Array implements the sparse store: contents and blocks behave as the    *)
(* interface documents, in all its operations, until one of them meets an  *)
(* invalid iterator.                                                       *)
THEOREM SparseStoreImplemented == Spec => ImplementsSparseStore
  <1>1. IInv => VoxelsAgree
    BY IInvAgrees
  <1> QED BY <1>1, Invariance, SparseStarts, SparseSteps, PTL
          DEF Spec, ImplementsSparseStore, Sparse!SparseSpec

------------------------------------------------------------------------------
(* Arrays in files.  Everything that is kept per block is found again by   *)
(* its position in the list of blocks.                                     *)

(* The list is complete, and each member has its position.                 *)
LEMMA SortedIs ==
    ASSUME NEW S, IsFiniteSet(S), S \subseteq Vectors
    PROVE  /\ Range(Sorted(S)) = S
           /\ \A e \in S : /\ Position(Sorted(S), e) \in DOMAIN Sorted(S)
                           /\ Sorted(S)[Position(Sorted(S), e)] = e
           /\ DOMAIN Sorted(S) = 1 .. Cardinality(S)
  <1> DEFINE n == Cardinality(S)
             s == Sorted(S)
  <1>1. s \in [1 .. n -> S] /\ Ascending(s)
    <2>1. \E t \in [1 .. n -> S] : \A i, j \in DOMAIN t : i < j => Before(t[i], t[j])
      BY CanBeListed DEF Ascending
    <2> QED BY <2>1 DEF Sorted, Ascending
  <1>2. n \in Nat
    BY FS_CardinalityType
  <1> HIDE DEF s
  <1>3. s \in Injection(1 .. n, S)
    <2>1. ASSUME NEW i \in 1 .. n, NEW j \in 1 .. n, i < j PROVE s[i] # s[j]
      BY <1>1, <2>1, BeforeOrders DEF Ascending
    <2> QED BY <1>1, <2>1 DEF Injection, IsInjective
  <1>4. Cardinality(1 .. n) = n
    BY <1>2, FS_Interval
  <1>5. s \in Surjection(1 .. n, S)
    <2> HIDE DEF n
    <2>1. Cardinality(1 .. n) = Cardinality(S)
      BY <1>4 DEF n
    <2> QED BY <1>3, <2>1, FS_Injection
  <1>6. \A e \in S : \E i \in DOMAIN s : s[i] = e
    BY <1>1, <1>5 DEF Surjection
  <1>7. Range(s) = S
    BY <1>1, <1>6 DEF Range
  <1>8. \A e \in S : Position(s, e) \in DOMAIN s /\ s[Position(s, e)] = e
    BY <1>6 DEF Position
  <1> QED BY <1>1, <1>7, <1>8 DEF s

------------------------------------------------------------------------------
(* Blocks and coordinate lists come back from the file as they were.       *)

LEMMA BlockRestored ==
    ASSUME NEW b, BlockOK(b)
    PROVE  BlockFromFile(BlockToFile(b)) = b
  <1>1. b \in Block /\ b.data_.len = currentSize(b)
    BY DEF BlockOK, BufferFits
  <1>2. [b.data_ EXCEPT !.len = currentSize(b)] = b.data_
    BY <1>1 DEF Block
  <1> DEFINE r == [data_ |-> b.data_, compressedSize_ |-> b.compressedSize_,
                   isCompressed_ |-> b.isCompressed_, isDirty_ |-> b.isDirty_,
                   dirtyDimensions_ |-> b.dirtyDimensions_]
  <1>3. r = b
    BY <1>1 DEF Block
  <1>4. BlockFromFile(BlockToFile(b)) = Assigned(r)
    BY <1>2 DEF BlockFromFile, BlockToFile
  <1>5. Assigned(b) = b
    BY <1>1, <1>2 DEF Assigned, Block
  <1> QED BY <1>3, <1>4, <1>5

LEMMA FiniteCells == \A D \in SUBSET Cell : IsFiniteSet(D) /\ D \subseteq Vectors
  <1>1. IsFiniteSet(Cell)
    BY FiniteBox, ShapeType DEF Cell
  <1>2. Cell \subseteq Vectors
    BY CellMember
  <1> QED BY <1>1, <1>2, FS_Subset

(* The two datasets of a coordinate list, put together again.              *)
LEMMA ListRestored ==
    ASSUME NEW list, DOMAIN list \subseteq Cell, list = [c \in DOMAIN list |-> list[c]],
           NEW idx, idx = Sorted(DOMAIN list)
    PROVE  [c \in Range(idx) |-> ValuesInOrder(list)[Position(idx, c)]] = list
  <1>1. IsFiniteSet(DOMAIN list) /\ DOMAIN list \subseteq Vectors
    BY FiniteCells
  <1>2. /\ Range(idx) = DOMAIN list
        /\ \A c \in DOMAIN list : /\ Position(idx, c) \in DOMAIN idx
                                  /\ idx[Position(idx, c)] = c
    BY <1>1, SortedIs
  <1>3. \A c \in DOMAIN list : ValuesInOrder(list)[Position(idx, c)] = list[c]
    BY <1>2 DEF ValuesInOrder
  <1> QED BY <1>2, <1>3

------------------------------------------------------------------------------
(* While there is a file, it is that of the array that was written.        *)
FileFits == file # NoFile => file = ArrayToFile(Sorted(Stored))

LEMMA FiniteStored == IInv => IsFiniteSet(Stored) /\ Stored \subseteq Vectors
  <1> SUFFICES ASSUME IInv PROVE IsFiniteSet(Stored) /\ Stored \subseteq Vectors
    OBVIOUS
  <1>1. Stored \subseteq Grid
    BY DEF IInv, BlocksFit
  <1>2. IsFiniteSet(Grid)
    BY FiniteBox, StoreGeometry, ShapeType, ExtentAssumption DEF IntVectors
  <1> QED BY <1>1, <1>2, GridMember, FS_Subset

(* A coordinate list that is empty is not stored, and read as empty.       *)
LEMMA ListOfBlockRestored ==
    ASSUME IInv, manageCoordinateLists_, NEW s, s = Sorted(Stored), NEW c \in Stored,
           file = ArrayToFile(s)
    PROVE  ListFromFile(Position(s, c)) = blockVoxelValues_[c]
  <1> DEFINE i    == Position(s, c)
             list == blockVoxelValues_[c]
  <1>1. i \in DOMAIN s /\ s[i] = c
    BY FiniteStored, SortedIs
  <1>2. /\ DOMAIN blockVoxelValues_ = Stored
        /\ list = blockNonzero(readArray(blocks_[c]))
    BY DEF IInv, TablesFit
  <1>3. DOMAIN list \subseteq Cell /\ list = [d \in DOMAIN list |-> list[d]]
    BY <1>2 DEF blockNonzero
  <1>4. blockVoxelValues_ # Empty
    BY <1>2 DEF Empty
  <1>5. i \in DOMAIN file.idx <=> list # Empty
    BY <1>1, <1>4 DEF ArrayToFile, Listed
  <1>6. CASE list = Empty
    BY <1>5, <1>6 DEF ListFromFile
  <1>7. CASE list # Empty
    <2>1. file.idx[i] = Sorted(DOMAIN list) /\ file.val[i] = ValuesInOrder(list)
      BY <1>1, <1>5, <1>7 DEF ArrayToFile
    <2>2. ListFromFile(i) = [d \in Range(file.idx[i]) |->
                                file.val[i][Position(file.idx[i], d)]]
      BY <1>5, <1>7 DEF ListFromFile
    <2> HIDE DEF i, list
    <2> QED BY <1>3, <2>1, <2>2, ListRestored DEF i, list
  <1> QED BY <1>6, <1>7

LEMMA ReadRestores ==
    ASSUME IInv, FileFits, readHDF5
    PROVE  UNCHANGED vars
  <1> DEFINE s == Sorted(Stored)
  <1>1. /\ Range(s) = Stored
        /\ \A c \in Stored : Position(s, c) \in DOMAIN s /\ s[Position(s, c)] = c
    BY FiniteStored, SortedIs
  <1>2. file = ArrayToFile(s)
    BY DEF FileFits, readHDF5
  <1> HIDE DEF s
  <1>3. /\ file.blocks = s /\ file.data = BlockData(s)
        /\ file.deb = deleteEmptyBlocks_ /\ file.ec = enableCompression_
        /\ file.mmt = minMaxTracking_ /\ file.mcl = manageCoordinateLists_
        /\ file.minMax = IF blockMinMax_ = Empty THEN <<>>
                         ELSE [i \in DOMAIN s |-> blockMinMax_[s[i]]]
    BY <1>2 DEF ArrayToFile
  <1>4. blocks_' = blocks_
    <2>1. \A c \in Stored : file.data[Position(s, c)] = BlockToFile(blocks_[c])
      BY <1>1, <1>3 DEF BlockData
    <2>2. \A c \in Stored : BlockFromFile(file.data[Position(s, c)]) = blocks_[c]
      BY <2>1, BlockRestored DEF IInv, BlocksFit
    <2>3. blocks_' = [c \in Stored |-> BlockFromFile(file.data[Position(s, c)])]
      BY <1>1, <1>3 DEF readHDF5
    <2>4. blocks_ = [c \in Stored |-> blocks_[c]]
      BY DEF IInv, BlocksFit
    <2> QED BY <2>2, <2>3, <2>4
  <1>5. blockMinMax_' = blockMinMax_
    <2>1. blockMinMax_' = IF minMaxTracking_ /\ file.minMax # <<>>
                          THEN [c \in Stored |-> file.minMax[Position(s, c)]] ELSE Empty
      BY <1>1, <1>3 DEF readHDF5
    <2>2. CASE blockMinMax_ = Empty
      BY <1>3, <2>1, <2>2
    <2>3. CASE blockMinMax_ # Empty
      <3>1. /\ minMaxTracking_ /\ Stored # {}
            /\ blockMinMax_ = [c \in Stored |-> minMax(readArray(blocks_[c]))]
        BY <2>3 DEF IInv, TablesFit, Empty
      <3>2. DOMAIN file.minMax # {}
        BY <1>1, <1>3, <2>3, <3>1
      <3>3. file.minMax # <<>>
        BY <3>2
      <3>4. \A c \in Stored : file.minMax[Position(s, c)] = blockMinMax_[c]
        BY <1>1, <1>3, <2>3
      <3> QED BY <2>1, <3>1, <3>3, <3>4
    <2> QED BY <2>2, <2>3
  <1>6. blockVoxelValues_' = blockVoxelValues_
    <2>1. blockVoxelValues_' = IF manageCoordinateLists_
                               THEN [c \in Stored |-> ListFromFile(Position(s, c))] ELSE Empty
      BY <1>1, <1>3 DEF readHDF5
    <2>2. CASE manageCoordinateLists_
      <3>1. \A c \in Stored : ListFromFile(Position(s, c)) = blockVoxelValues_[c]
        BY <1>2, <2>2, ListOfBlockRestored DEF s
      <3>2. blockVoxelValues_ = [c \in Stored |-> blockVoxelValues_[c]]
        BY <2>2 DEF IInv, TablesFit
      <3> QED BY <2>1, <2>2, <3>1, <3>2
    <2>3. CASE ~manageCoordinateLists_
      BY <2>1, <2>3 DEF IInv, TablesFit, Empty
    <2> QED BY <2>2, <2>3
  <1> QED BY <1>3, <1>4, <1>5, <1>6 DEF readHDF5, vars, options, tables

LEMMA SameFile ==
    ASSUME UNCHANGED vars
    PROVE  UNCHANGED ArrayToFile(Sorted(Stored))
  <1> DEFINE D  == DOMAIN blocks_
             D1 == DOMAIN blocks_'
             L(coords, mcl, lists) ==
                {i \in DOMAIN coords : mcl /\ lists # Empty /\ lists[coords[i]] # Empty}
             F(coords, bl, deb, ec, mmt, mcl, mm, lists) ==
                [blocks |-> coords, data |-> [i \in DOMAIN coords |-> BlockToFile(bl[coords[i]])],
                 deb |-> deb, ec |-> ec, mmt |-> mmt, mcl |-> mcl,
                 minMax |-> IF mm = Empty THEN <<>> ELSE [i \in DOMAIN coords |-> mm[coords[i]]],
                 idx |-> [i \in L(coords, mcl, lists) |-> Sorted(DOMAIN lists[coords[i]])],
                 val |-> [i \in L(coords, mcl, lists) |-> ValuesInOrder(lists[coords[i]])]]
  <1>1. ArrayToFile(Sorted(Stored)) =
           F(Sorted(D), blocks_, deleteEmptyBlocks_, enableCompression_, minMaxTracking_,
             manageCoordinateLists_, blockMinMax_, blockVoxelValues_)
    BY Zenon DEF ArrayToFile, BlockData, Listed, Stored
  <1>2. ArrayToFile(Sorted(Stored))' =
           F(Sorted(D1), blocks_', deleteEmptyBlocks_', enableCompression_', minMaxTracking_',
             manageCoordinateLists_', blockMinMax_', blockVoxelValues_')
    BY Zenon DEF ArrayToFile, BlockData, Listed, Stored
  <1>3. /\ blocks_' = blocks_ /\ deleteEmptyBlocks_' = deleteEmptyBlocks_
        /\ enableCompression_' = enableCompression_ /\ minMaxTracking_' = minMaxTracking_
        /\ manageCoordinateLists_' = manageCoordinateLists_
        /\ blockMinMax_' = blockMinMax_ /\ blockVoxelValues_' = blockVoxelValues_
    BY DEF vars, options, tables
  <1> HIDE DEF F
  <1> QED BY <1>1, <1>2, <1>3

LEMMA PersistStep ==
    ASSUME IInv, FileFits, [PersistNext]_persistVars
    PROVE  [Next]_vars /\ FileFits'
  <1>1. CASE UNCHANGED persistVars
    <2>1. UNCHANGED vars /\ file' = file
      BY <1>1 DEF persistVars
    <2> QED BY <2>1, SameFile DEF FileFits
  <1>2. CASE Operate
    <2>1. file' = NoFile
      BY <1>2 DEF Operate
    <2>2. CASE Next
      BY <2>1, <2>2 DEF FileFits
    <2>3. CASE status = "ok" /\ OperateWithoutTmpBlock
      <3>1. Next
        BY <2>3 DEF OperateWithoutTmpBlock, Next, SetOption, WriteRegion
      <3> QED BY <2>1, <3>1 DEF FileFits
    <2> QED BY <1>2, <2>2, <2>3 DEF Operate
  <1>3. CASE MissTmpBlock
    BY <1>3 DEF MissTmpBlock, FileFits
  <1>4. CASE writeHDF5
    <2>1. UNCHANGED vars /\ file' = ArrayToFile(Sorted(Stored))
      BY <1>4 DEF writeHDF5
    <2>2. ArrayToFile(Sorted(Stored))' = ArrayToFile(Sorted(Stored))
      BY <2>1, SameFile
    <2> QED BY <2>1, <2>2 DEF FileFits
  <1>5. CASE readHDF5
    BY <1>5, ReadRestores DEF readHDF5, FileFits
  <1> QED BY <1>1, <1>2, <1>3, <1>4, <1>5 DEF PersistNext

LEMMA PersistInvariance == PersistSpec => [](IInv /\ FileFits)
  <1>1. PersistInit => IInv /\ FileFits
    BY InitIInv DEF PersistInit, FileFits
  <1>2. IInv /\ FileFits /\ [PersistNext]_persistVars => (IInv /\ FileFits)'
    BY PersistStep, NextIInv
  <1> QED BY <1>1, <1>2, PTL DEF PersistSpec

(* Reading the file of an array gives the array back: its options, every   *)
(* block with its data, compression and dirtiness, and both tables         *)
(* (writeHDF5 and readHDF5 of Array and CompressedArray).                  *)
THEOREM FilesRoundTrip == PersistSpec => RoundTrip
  <1> DEFINE Restores == readHDF5 => UNCHANGED <<blocks_, options, tables>>
  <1>1. IInv /\ FileFits => Restores
    BY ReadRestores DEF vars
  <1>2. RoundTrip <=> [][Restores]_persistVars
    BY DEF RoundTrip
  <1> HIDE DEF Restores
  <1> QED BY <1>1, <1>2, PersistInvariance, PTL

(* An array that is written and read any number of times between its       *)
(* operations behaves like one that has never left memory, so that         *)
(* whatever is proved of the latter holds of it, too.                      *)
THEOREM FilesDoNotShow == PersistSpec => Spec
  <1>1. PersistInit => Init
    BY DEF PersistInit
  <1>2. IInv /\ FileFits /\ [PersistNext]_persistVars => [Next]_vars
    BY PersistStep
  <1> QED BY <1>1, <1>2, PersistInvariance, PTL DEF PersistSpec, Spec

(* What is proved above of arrays built in memory, for those read from a   *)
(* file, too, and whatever was done with them since.                       *)
THEOREM ArraysFromFiles ==
    PersistSpec => /\ [](TypeOK /\ ReadsBack /\ TablesCoherent /\ CompressionHonoured)
                   /\ [](NonzeroExact /\ MinMaxExact /\ MarkedIsReported)
                   /\ OverwrittenIsClean /\ ImplementsSparseStore
  <1> QED BY FilesDoNotShow, TypeCorrect, RegionsReadBack, TablesStayCoherent,
             CompressionIsHonoured, NonzeroIsExact, MinMaxIsExact,
             MarkedIsReportedAtOnce, CoveredBlocksGetClean, SparseStoreImplemented, PTL
==============================================================================
