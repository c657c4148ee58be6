------------------------ MODULE OpArrayCacheCppProofs ------------------------
(***************************************************************************)
(* OpArrayCacheCpp for any number of threads, any array and any sequence   *)
(* of changes, settings and failures: requests exclude each other, types   *)
(* are right, no change is lost and no answer is older than what downstream*)
(* had been told, but for the voxels whose mark Array does not report.     *)
(***************************************************************************)
EXTENDS OpArrayCacheCpp, BlockedArrayProofs

(* Where a request is, together with who holds the lock.                   *)
LockInv ==
    /\ pc \in [Threads -> {"idle", "acquire", "fill", "raised", "done"}]
    /\ LockHeld

LEMMA LockStarts == CacheInit => LockInv
  BY CacheAssumption DEF CacheInit, LockInv, LockHeld

(* A step that changes neither is harmless.                                *)
LEMMA LockUntouched == LockInv /\ UNCHANGED <<pc, _lock>> => LockInv'
  BY DEF LockInv, LockHeld

(* The steps of one thread.                                                *)
LEMMA LockSteps ==
    ASSUME LockInv, NEW t \in Threads,
           \/ Request(t) \/ AnswerFails(t)
           \/ \E r \in Wanted : execute(t, r)
    PROVE  LockInv'
  <1>1. ASSUME NEW r \in Wanted, execute(t, r) PROVE LockInv'
    BY <1>1 DEF execute, LockInv, LockHeld
  <1>2. ASSUME Acquire(t) PROVE LockInv'
    BY <1>2, CacheAssumption DEF Acquire, LockInv, LockHeld
  <1>3. ASSUME NEW c \in Grid, Answer(t, c) PROVE LockInv'
    BY <1>3, LockUntouched DEF Answer
  <1>4. CASE AnswerFails(t)
    BY <1>4 DEF AnswerFails, LockInv, LockHeld
  <1>5. CASE WriteBack(t)
    BY <1>5, LockUntouched DEF WriteBack
  <1>6. CASE Return(t)
    BY <1>6, CacheAssumption DEF Return, LockInv, LockHeld
  <1> QED BY <1>1, <1>2, <1>3, <1>4, <1>5, <1>6 DEF Request

(* A setupOutputs keeps the lock or gives it back; no request is inside.   *)
LEMMA LockAfterSetup ==
    ASSUME LockInv, NEW outcome \in SetupOutcomes, setupOutputs(outcome)
    PROVE  LockInv' /\ _lock' \in {Free, Setup}
  <1>1. _lock = Free /\ _lock' \in {Free, Setup} /\ UNCHANGED pc
    BY DEF setupOutputs, threads
  <1> QED BY <1>1, CacheAssumption DEF LockInv, LockHeld

LEMMA LockPreserved == LockInv /\ [CacheNext]_cacheVars => LockInv'
  <1> SUFFICES ASSUME LockInv, [CacheNext]_cacheVars PROVE LockInv'
    OBVIOUS
  <1>1. ASSUME NEW outcome \in SetupOutcomes, setupOutputs(outcome) PROVE LockInv'
    BY <1>1, LockAfterSetup
  <1>2. ASSUME NEW fix \in BOOLEAN, setFixAtCurrent(fix) PROVE LockInv'
    BY <1>2, LockUntouched DEF setFixAtCurrent, threads
  <1>3. ASSUME NEW r \in Given, setInSlot(r) PROVE LockInv'
    BY <1>3, LockUntouched DEF setInSlot, threads
  <1>4. ASSUME NEW r \in Changes, ChangeInput(r) PROVE LockInv'
    BY <1>4, LockUntouched DEF ChangeInput, threads
  <1>5. ASSUME NEW n \in DOMAIN notices, Notify(n) PROVE LockInv'
    BY <1>5, LockUntouched DEF Notify, Mark, Tell, threads
  <1>6. ASSUME NEW t \in Threads,
               Request(t) \/ AnswerFails(t) \/ \E r \in Wanted : execute(t, r)
        PROVE  LockInv'
    BY <1>6, LockSteps
  <1>7. CASE UNCHANGED cacheVars
    BY <1>7, LockUntouched DEF cacheVars, threads
  <1> QED BY <1>1, <1>2, <1>3, <1>4, <1>5, <1>6, <1>7 DEF CacheNext

(* However requests, notifications, failures and new arrays interleave, at *)
(* most one request is between _lock.acquire() and _lock.release(), it is  *)
(* the holder of the lock, and so is one that the Input has failed.        *)
THEOREM RequestsExclude == CacheSpec => []LockHeld
  <1>1. LockInv => LockHeld
    BY DEF LockInv
  <1> QED BY <1>1, LockStarts, LockPreserved, PTL DEF CacheSpec

------------------------------------------------------------------------------
(* Regions within the image, and the blocks that they touch.               *)

LEMMA ShapeIs ==
    ASSUME NEW d \in Dim
    PROVE  /\ Shape[d] \in Nat \ {0} /\ Extent[d] * BlockShape[d] \in Nat
           /\ Shape[d] <= Extent[d] * BlockShape[d]
  <1>1. Extent[d] * BlockShape[d] \in Nat
    BY ExtentInVoxels
  <1>2. Shape[d] \in 1 .. Extent[d] * BlockShape[d]
    BY CacheAssumption
  <1> QED BY <1>1, <1>2

LEMMA ImageMember ==
    ASSUME NEW v
    PROVE  v \in InputVoxels <=> v \in Voxels /\ \A d \in Dim : v[d] < Shape[d]
  <1> DEFINE bound == [d \in Dim |-> Shape[d]]
  <1>1. Box(Origin, Shape) = Box(Origin, bound)
    BY DEF Box, Coordinates, InRoi
  <1>2. bound \in IntVectors /\ Origin \in IntVectors
    BY ShapeIs, ShapeType DEF IntVectors
  <1>3. v \in InputVoxels <=> v \in IntVectors /\ InRoi(v, Origin, bound)
    <2> HIDE DEF bound
    <2> QED BY <1>1, <1>2, BoxMember DEF InputVoxels
  <1>4. InRoi(v, Origin, bound) <=> \A d \in Dim : 0 <= v[d] /\ v[d] < Shape[d]
    BY DEF InRoi, Origin
  <1>5. v \in Voxels => v \in Vectors
    BY VoxelMember
  <1>6. ASSUME v \in Vectors, \A d \in Dim : v[d] < Shape[d] PROVE v \in Voxels
    <2>1. ASSUME NEW d \in Dim PROVE v[d] < Extent[d] * BlockShape[d]
      <3>1. v[d] \in Nat /\ v[d] < Shape[d]
        BY <1>6 DEF Vectors
      <3> QED BY <3>1, ShapeIs
    <2> QED BY <1>6, <2>1, VoxelMember
  <1>7. v \in Vectors <=> v \in IntVectors /\ \A d \in Dim : 0 <= v[d]
    BY DEF Vectors, IntVectors
  <1> QED BY <1>3, <1>4, <1>5, <1>6, <1>7

LEMMA BlockEdges ==
    ASSUME NEW c \in Vectors, NEW d \in Dim
    PROVE  LET bounds == blockBounds(c)
           IN  /\ bounds.p[d] \in Nat /\ bounds.q[d] \in Nat
               /\ bounds.p[d] = BlockShape[d] * c[d] /\ bounds.q[d] = BlockShape[d] * (c[d] + 1)
               /\ bounds.q[d] = bounds.p[d] + BlockShape[d] /\ BlockShape[d] \in Nat \ {0}
  <1>1. c[d] \in Nat /\ BlockShape[d] \in Nat \ {0}
    BY ShapeType DEF Vectors
  <1>2. \A m \in Nat, n \in Nat : m * n \in Nat /\ m * (n + 1) = m * n + m
    OBVIOUS
  <1> QED BY <1>1, <1>2 DEF blockBounds

(* The voxels of a block are those within its bounds.                      *)
LEMMA BlockHolds ==
    ASSUME NEW c \in Vectors, NEW v \in Vectors
    PROVE  InRoi(v, blockBounds(c).p, blockBounds(c).q) <=> blockGivenCoordinateP(v) = c
  <1> DEFINE p == blockBounds(c).p
             q == blockBounds(c).q
  <1>1. IsRegion(p, q) /\ BlocksInRange(p, q) = {c}
    <2>1. p \in Vectors /\ q \in Vectors /\ \A d \in Dim : p[d] < q[d]
      <3>1. p = [d \in Dim |-> p[d]] /\ q = [d \in Dim |-> q[d]]
        BY DEF blockBounds
      <3>2. \A d \in Dim : p[d] \in Nat /\ q[d] \in Nat /\ p[d] < q[d]
        BY BlockEdges
      <3> HIDE DEF p, q
      <3> QED BY <3>1, <3>2 DEF Vectors
    <2> QED BY <2>1, RegionOfBlock DEF IsRegion
  <1>2. InRoi(v, p, q) => blockGivenCoordinateP(v) = c
    <2> HIDE DEF p, q
    <2> QED BY <1>1, VisitComplete
  <1>3. ASSUME blockGivenCoordinateP(v) = c PROVE InRoi(v, p, q)
    <2>1. pBlock(v) \in Cell /\ Voxel(c, pBlock(v)) = v
      BY <1>3, BlockOfVoxel
    <2> DEFINE cell == pBlock(v)
    <2> HIDE DEF cell
    <2>2. ASSUME NEW d \in Dim PROVE p[d] <= v[d] /\ v[d] < q[d]
      <3>1. v[d] = p[d] + cell[d] /\ cell[d] \in Nat /\ cell[d] < BlockShape[d]
        BY <2>1, CellMember DEF Voxel, Plus, Vectors, cell
      <3>2. p[d] \in Nat /\ q[d] = p[d] + BlockShape[d] /\ BlockShape[d] \in Nat
        BY BlockEdges
      <3> HIDE DEF p, q
      <3> QED BY <3>1, <3>2
    <2> QED BY <2>2 DEF InRoi
  <1> QED BY <1>2, <1>3

(* A region within the image: its voxels, and its blocks.                  *)
LEMMA RegionInImage ==
    ASSUME NEW r \in Rois, \A d \in Dim : r.q[d] <= Shape[d]
    PROVE  /\ IsRegion(r.p, r.q) /\ BlocksInRange(r.p, r.q) \subseteq Grid
           /\ Whole(r) \subseteq InputVoxels
           /\ \A v \in Voxels : v \in Whole(r) <=> InRoi(v, r.p, r.q)
           /\ \A v \in Whole(r) :
                 /\ blockGivenCoordinateP(v) \in BlocksInRange(r.p, r.q)
                 /\ Minus(v, r.p) \in Box(Origin, Minus(r.q, r.p))
                 /\ Plus(r.p, Minus(v, r.p)) = v
  <1>1. IsRegion(r.p, r.q) /\ BlocksInRange(r.p, r.q) \subseteq Grid
    BY RoiInArray
  <1>2. /\ r.p \in IntVectors /\ r.q \in IntVectors /\ Origin \in IntVectors
        /\ Voxels \subseteq IntVectors
    BY <1>1, ShapeType, VoxelMember DEF IsRegion
  <1>3. \A v : v \in Whole(r) <=> v \in IntVectors /\ InRoi(v, r.p, r.q)
    BY <1>2, BoxMember DEF Whole
  <1>4. \A d \in Dim : r.p[d] \in Nat /\ r.q[d] \in Nat /\ Shape[d] \in Nat
    BY <1>1, ShapeIs DEF IsRegion, Vectors
  <1>5. ASSUME NEW v \in Whole(r)
        PROVE  /\ v \in InputVoxels
               /\ blockGivenCoordinateP(v) \in BlocksInRange(r.p, r.q)
               /\ Minus(v, r.p) \in Box(Origin, Minus(r.q, r.p))
               /\ Plus(r.p, Minus(v, r.p)) = v
    <2>1. v \in IntVectors /\ InRoi(v, r.p, r.q)
      BY <1>3
    <2>2. \A d \in Dim : v[d] \in Int /\ r.p[d] <= v[d] /\ v[d] < r.q[d]
      BY <2>1 DEF IntVectors, InRoi
    <2>3. v \in Vectors /\ v \in Voxels
      <3>1. v \in Vectors
        BY <1>4, <2>1, <2>2 DEF IntVectors, Vectors
      <3> QED BY <2>1, <3>1, RoiInArray
    <2>4. v \in InputVoxels
      <3>1. \A d \in Dim : v[d] < Shape[d]
        BY <1>4, <2>2
      <3> QED BY <2>3, <3>1, ImageMember
    <2>5. blockGivenCoordinateP(v) \in BlocksInRange(r.p, r.q)
      BY <1>1, <2>1, <2>3, VisitComplete
    <2>6. Minus(v, r.p) \in Box(Origin, Minus(r.q, r.p))
      <3>1. Minus(v, r.p) \in IntVectors /\ Minus(r.q, r.p) \in IntVectors
        BY <1>4, <2>2 DEF Minus, IntVectors
      <3>2. InRoi(Minus(v, r.p), Origin, Minus(r.q, r.p))
        BY <1>4, <2>2, ShapeType DEF InRoi, Minus
      <3> QED BY <1>2, <3>1, <3>2, BoxMember
    <2>7. Plus(r.p, Minus(v, r.p)) = v
      <3>1. \A d \in Dim : r.p[d] + (v[d] - r.p[d]) = v[d]
        BY <1>4, <2>2
      <3> QED BY <2>1, <3>1 DEF Plus, Minus, IntVectors
    <2> QED BY <2>4, <2>5, <2>6, <2>7
  <1> QED BY <1>1, <1>2, <1>3, <1>5

(* Each of its blocks holds a voxel of the image, and where it reaches     *)
(* beyond the image, the region stops before the block does.               *)
LEMMA BlockInImage ==
    ASSUME NEW p, NEW q, IsRegion(p, q), \A d \in Dim : q[d] <= Shape[d],
           NEW c \in BlocksInRange(p, q), NEW d \in Dim
    PROVE  LET w == WithinBlock(c, p, q)
           IN  /\ blockBounds(c).p[d] < Shape[d]
               /\ w.p[d] \in Nat /\ w.q[d] \in Nat /\ w.q[d] <= BlockShape[d]
               /\ Shape[d] < blockBounds(c).q[d] => w.q[d] < BlockShape[d]
  <1> DEFINE w == WithinBlock(c, p, q)
             bounds == blockBounds(c)
  <1>1. /\ c \in Vectors
        /\ w.p \in Vectors /\ w.q \in Vectors /\ bounds.p \in Vectors
        /\ bounds.q = Plus(bounds.p, BlockShape)
        /\ w.p = [e \in Dim |-> IF bounds.p[e] <= p[e] THEN p[e] - bounds.p[e] ELSE 0]
        /\ w.q = [e \in Dim |-> IF q[e] < bounds.q[e] THEN q[e] - bounds.p[e] ELSE BlockShape[e]]
    BY ComputedRois
  <1>2. bounds.p[d] < q[d]
    <2>1. BlockShape[d] * c[d] < q[d]
      BY VisitedBlocks
    <2> QED BY <1>1, <2>1, BlockEdges
  <1>3. w.p[d] \in Nat /\ w.q[d] \in Nat /\ w.q[d] <= BlockShape[d]
    BY WithinBlockFits
  <1>4. bounds.p[d] \in Nat /\ bounds.q[d] = bounds.p[d] + BlockShape[d] /\ BlockShape[d] \in Nat
    BY <1>1, BlockEdges
  <1>5. q[d] \in Nat /\ q[d] <= Shape[d] /\ Shape[d] \in Nat
    BY ShapeIs DEF IsRegion, Vectors
  <1> HIDE DEF w, bounds
  <1>6. w.q[d] = IF q[d] < bounds.q[d] THEN q[d] - bounds.p[d] ELSE BlockShape[d]
    BY <1>1
  <1>7. /\ bounds.p[d] < Shape[d]
        /\ Shape[d] < bounds.q[d] => w.q[d] < BlockShape[d]
    BY <1>2, <1>4, <1>5, <1>6
  <1> QED BY <1>3, <1>7 DEF w, bounds

(* A voxel of such a block lies in the region if its cell lies in the part *)
(* of the block that is written, as it does if the region covers the block.*)
LEMMA CoveredVoxels ==
    ASSUME NEW r \in Rois, \A d \in Dim : r.q[d] <= Shape[d], NEW v \in Voxels,
           NEW c, c = blockGivenCoordinateP(v), c \in BlocksInRange(r.p, r.q)
    PROVE  /\ InRoi(pBlock(v), WithinBlock(c, r.p, r.q).p, WithinBlock(c, r.p, r.q).q)
                 <=> v \in Whole(r)
           /\ CoversBlock(c, r.p, r.q) => v \in Whole(r)
  <1> DEFINE cell == pBlock(v)
             w    == WithinBlock(c, r.p, r.q)
  <1>1. v \in Vectors /\ cell \in Cell /\ Voxel(c, cell) = v
    BY VoxelsOfGrid
  <1>2. v \in Whole(r) <=> InRoi(v, r.p, r.q)
    BY RegionInImage
  <1>3. InRoi(cell, w.p, w.q) <=> InRoi(Voxel(c, cell), r.p, r.q)
    BY <1>1, RegionInImage, VisitExact
  <1>4. CoversBlock(c, r.p, r.q) => InRoi(cell, w.p, w.q)
    <2>1. InRoi(cell, Origin, BlockShape)
      BY <1>1, CellMember, ShapeType DEF InRoi, Vectors
    <2> QED BY <2>1 DEF CoversBlock, IsWhole
  <1> HIDE DEF cell, w
  <1> QED BY <1>1, <1>2, <1>3, <1>4 DEF cell, w

(* The image ends within block c.                                          *)
Cut(c) == \E d \in Dim : Shape[d] < blockBounds(c).q[d]

(* The region that a request asks for to fill block c: what is in the      *)
(* image of the block.                                                     *)
LEMMA FetchedRegion ==
    ASSUME NEW c \in Grid, \A d \in Dim : blockBounds(c).p[d] < Shape[d]
    PROVE  LET f == Fetched(c)
           IN  /\ f \in Rois /\ \A d \in Dim : f.q[d] <= Shape[d]
               /\ BlocksInRange(f.p, f.q) = {c}
               /\ CoversBlock(c, f.p, f.q) \/ Cut(c)
               /\ \A v \in Voxels : v \in Whole(f) <=>
                                       v \in InputVoxels /\ blockGivenCoordinateP(v) = c
  <1> DEFINE f      == Fetched(c)
             bounds == blockBounds(c)
             limit  == [d \in Dim |-> Extent[d] * BlockShape[d] + 1]
  <1>1. c \in Vectors
    BY GridMember
  <1>2. ASSUME NEW d \in Dim
        PROVE  /\ bounds.p[d] \in Nat /\ bounds.q[d] \in Nat /\ Shape[d] \in Nat
               /\ f.p[d] = bounds.p[d] /\ f.q[d] \in Nat
               /\ f.q[d] = IF bounds.q[d] < Shape[d] THEN bounds.q[d] ELSE Shape[d]
               /\ f.p[d] < f.q[d] /\ f.q[d] <= Shape[d] /\ f.q[d] <= bounds.q[d]
               /\ f.q[d] <= Extent[d] * BlockShape[d] /\ Extent[d] * BlockShape[d] \in Nat
    <2>1. /\ bounds.p[d] \in Nat /\ bounds.q[d] = bounds.p[d] + BlockShape[d]
          /\ BlockShape[d] \in Nat \ {0} /\ bounds.p[d] < Shape[d]
      BY <1>1, BlockEdges
    <2>2. Shape[d] \in Nat /\ Shape[d] <= Extent[d] * BlockShape[d]
          /\ Extent[d] * BlockShape[d] \in Nat
      BY ShapeIs
    <2>3. /\ f.p[d] = bounds.p[d]
          /\ f.q[d] = IF bounds.q[d] < Shape[d] THEN bounds.q[d] ELSE Shape[d]
      BY DEF Fetched
    <2> HIDE DEF f, bounds
    <2> QED BY <2>1, <2>2, <2>3
  <1>3. f = [p |-> f.p, q |-> f.q] /\ f.p = [d \in Dim |-> f.p[d]] /\ f.q = [d \in Dim |-> f.q[d]]
    BY DEF Fetched, blockBounds
  <1>4. f \in Rois
    <2> HIDE DEF f
    <2>1. limit \in IntVectors /\ Origin \in IntVectors
      BY ExtentInVoxels, ShapeType
    <2>2. f.p \in IntVectors /\ f.q \in IntVectors
      BY <1>2, <1>3 DEF IntVectors
    <2>3. InRoi(f.p, Origin, limit) /\ InRoi(f.q, Origin, limit)
      BY <1>2, ShapeType DEF InRoi
    <2>4. f.p \in Corners /\ f.q \in Corners
      BY <2>1, <2>2, <2>3, BoxMember DEF Corners
    <2> QED BY <1>2, <1>3, <2>4 DEF Rois
  <1>5. IsRegion(f.p, f.q) /\ \A d \in Dim : f.q[d] <= Shape[d]
    BY <1>2, <1>4, RoiInArray
  <1>6. BlocksInRange(f.p, f.q) = {c}
    <2>1. BlocksInRange(bounds.p, bounds.q) = {c} /\ IsRegion(bounds.p, bounds.q)
      <3>1. bounds.p = [d \in Dim |-> bounds.p[d]] /\ bounds.q = [d \in Dim |-> bounds.q[d]]
        BY DEF blockBounds
      <3>2. \A d \in Dim : bounds.p[d] \in Nat /\ bounds.q[d] \in Nat /\ bounds.p[d] < bounds.q[d]
        BY <1>1, BlockEdges
      <3>3. BlocksInRange(bounds.p, bounds.q) = {c}
        BY <1>1, RegionOfBlock
      <3> HIDE DEF bounds
      <3> QED BY <3>1, <3>2, <3>3 DEF IsRegion, Vectors
    <2> HIDE DEF f
    <2>2. c \in BlocksInRange(f.p, f.q)
      <3>1. ASSUME NEW d \in Dim
            PROVE  BlockShape[d] * c[d] < f.q[d] /\ f.p[d] < BlockShape[d] * (c[d] + 1)
        <4>1. /\ bounds.p[d] = BlockShape[d] * c[d] /\ bounds.q[d] = BlockShape[d] * (c[d] + 1)
              /\ bounds.p[d] < bounds.q[d]
          BY <1>1, BlockEdges
        <4> HIDE DEF bounds
        <4> QED BY <1>2, <4>1
      <3> QED BY <1>1, <1>5, <3>1, VisitedBlocks
    <2>3. ASSUME NEW e \in BlocksInRange(f.p, f.q) PROVE e \in BlocksInRange(bounds.p, bounds.q)
      <3>1. /\ e \in Vectors
            /\ \A d \in Dim : /\ BlockShape[d] * e[d] < f.q[d]
                              /\ f.p[d] < BlockShape[d] * (e[d] + 1)
        BY <1>5, VisitedBlocks
      <3> HIDE DEF bounds
      <3>2. ASSUME NEW d \in Dim
            PROVE  /\ BlockShape[d] * e[d] < bounds.q[d]
                   /\ bounds.p[d] < BlockShape[d] * (e[d] + 1)
        <4>1. BlockShape[d] * e[d] \in Nat
          <5>1. BlockShape[d] \in Nat /\ e[d] \in Nat
            BY <3>1, ShapeType DEF Vectors
          <5>2. \A m \in Nat, n \in Nat : m * n \in Nat
            OBVIOUS
          <5> QED BY <5>1, <5>2
        <4> QED BY <1>2, <3>1, <4>1
      <3> QED BY <2>1, <3>1, <3>2, VisitedBlocks
    <2> QED BY <2>1, <2>2, <2>3
  <1>7. CoversBlock(c, f.p, f.q) \/ Cut(c)
    <2> SUFFICES ASSUME ~Cut(c) PROVE CoversBlock(c, f.p, f.q)
      OBVIOUS
    <2>1. f = bounds
      <3>1. \A d \in Dim : f.q[d] = bounds.q[d]
        BY <1>2 DEF Cut
      <3>2. bounds = [p |-> bounds.p, q |-> bounds.q] /\ bounds.q = [d \in Dim |-> bounds.q[d]]
        BY DEF blockBounds
      <3>3. f.p = bounds.p
        BY DEF Fetched
      <3> HIDE DEF f, bounds
      <3> QED BY <1>3, <3>1, <3>2, <3>3
    <2> QED BY <1>1, <2>1, RegionOfBlock DEF CoversBlock, IsWhole
  <1>8. ASSUME NEW v \in Voxels
        PROVE  v \in Whole(f) <=> v \in InputVoxels /\ blockGivenCoordinateP(v) = c
    <2>1. v \in Vectors
      BY VoxelMember
    <2>2. v \in Whole(f) <=> InRoi(v, f.p, f.q)
      BY <1>4, <1>5, RegionInImage
    <2>3. blockGivenCoordinateP(v) = c <=> InRoi(v, bounds.p, bounds.q)
      BY <1>1, <2>1, BlockHolds
    <2>4. v \in InputVoxels <=> \A d \in Dim : v[d] < Shape[d]
      BY ImageMember
    <2> HIDE DEF f, bounds
    <2>5. ASSUME NEW d \in Dim
          PROVE  f.p[d] <= v[d] /\ v[d] < f.q[d] <=>
                    v[d] < Shape[d] /\ bounds.p[d] <= v[d] /\ v[d] < bounds.q[d]
      <3>1. v[d] \in Nat
        BY <2>1 DEF Vectors
      <3> QED BY <1>2, <3>1
    <2> QED BY <2>2, <2>3, <2>4, <2>5 DEF InRoi
  <1> QED BY <1>4, <1>5, <1>6, <1>7, <1>8

(* An entry of the data for a region is for a voxel of the region.         *)
LEMMA EntryInImage ==
    ASSUME NEW r \in Rois, \A d \in Dim : r.q[d] <= Shape[d],
           NEW e \in Box(Origin, Minus(r.q, r.p))
    PROVE  Plus(r.p, e) \in InputVoxels
  <1> DEFINE v == Plus(r.p, e)
  <1>1. r.p \in Vectors /\ r.q \in Vectors
    BY RoiInArray DEF IsRegion
  <1>2. e \in IntVectors /\ InRoi(e, Origin, Minus(r.q, r.p))
    <2>1. Minus(r.q, r.p) \in IntVectors /\ Origin \in IntVectors
      BY <1>1, ShapeType DEF Minus, Vectors, IntVectors
    <2> QED BY <2>1, BoxMember
  <1>3. ASSUME NEW d \in Dim
        PROVE  v[d] \in Int /\ r.p[d] <= v[d] /\ v[d] < r.q[d]
    <2>1. e[d] \in Int /\ 0 <= e[d] /\ e[d] < r.q[d] - r.p[d] /\ r.p[d] \in Nat /\ r.q[d] \in Nat
      BY <1>1, <1>2 DEF InRoi, Origin, Minus, IntVectors, Vectors
    <2>2. v[d] = r.p[d] + e[d]
      BY DEF Plus
    <2> HIDE DEF v
    <2> QED BY <2>1, <2>2
  <1>4. v \in IntVectors /\ InRoi(v, r.p, r.q)
    <2>1. v = [d \in Dim |-> v[d]]
      BY DEF Plus
    <2> HIDE DEF v
    <2> QED BY <1>3, <2>1 DEF InRoi, IntVectors
  <1>5. v \in Whole(r)
    <2>1. r.p \in IntVectors /\ r.q \in IntVectors
      BY <1>1 DEF Vectors, IntVectors
    <2> HIDE DEF v
    <2> QED BY <1>4, <2>1, BoxMember DEF Whole
  <1> QED BY <1>5, RegionInImage
------------------------------------------------------------------------------
(* Dirtiness of a block.                                                   *)

LEMMA SlotsDiffer ==
    ASSUME NEW d \in Dim, NEW i \in Nat, NEW j \in Nat, Slot(d, i) = Slot(d, j)
    PROVE  i = j
  <1> DEFINE e == IF d > 0 THEN d - 1 ELSE 0
  <1>1. N \in Nat \ {0} /\ d \in 0 .. N - 1 /\ e \in 0 .. N
    BY GeometryAssumption DEF Dim
  <1>2. ShapeSum[e] \in Nat
    BY <1>1, ShapeSumIs
  <1> DEFINE sum == ShapeSum[e]
  <1>3. sum + i = sum + j
    BY DEF Slot
  <1> HIDE DEF sum
  <1> QED BY <1>2, <1>3 DEF sum

(* Writing data marks nothing, nor does it clean what it does not reach:   *)
(* a slice outside of the region, of the only dimension whose slices the   *)
(* region can cover, keeps the whole block dirty.                          *)
LEMMA SliceStaysDirty ==
    ASSUME NEW x \in Block, NEW p, NEW q, ~IsWhole(p, q),
           NEW d \in Dim, p[d] \in Nat, q[d] \in Nat,
           \A e \in Dim : FullExtent(e, p, q) => e = d,
           NEW i \in Nat, i < BlockShape[d], ~(p[d] <= i /\ i < q[d]),
           x.isDirty_, isDirtySlice(x, d, i)
    PROVE  /\ CleanWritten(x, p, q).isDirty_
           /\ isDirtySlice(CleanWritten(x, p, q), d, i)
  <1>1. ASSUME NEW k \in Dim PROVE Slot(d, i) \notin CleanedUpTo(k, p, q)
    <2>1. 0 .. k \subseteq Dim
      BY GeometryAssumption DEF Dim
    <2>2. Slot(d, i) \notin SlotsOf(d, p, q)
      <3>1. ASSUME NEW j \in p[d] .. q[d] - 1 PROVE Slot(d, j) # Slot(d, i)
        <4>1. j \in Nat /\ j # i
          BY <3>1
        <4> QED BY <4>1, SlotsDiffer
      <3> QED BY <3>1 DEF SlotsOf
    <2> QED BY <2>1, <2>2 DEF CleanedUpTo
  <1>2. ASSUME NEW e \in Dim PROVE ~AllClean(x, e, p, q)
    <2>1. CASE e = d
      <3>1. i \in 0 .. BlockShape[d] - 1
        BY ShapeType
      <3> QED BY <1>1, <2>1, <3>1 DEF AllClean
    <2>2. CASE e # d
      BY <2>2 DEF AllClean
    <2> QED BY <2>1, <2>2
  <1>3. N - 1 \in Dim /\ Slot(d, i) \in Slots
    BY GeometryAssumption, SlotExists DEF Dim
  <1> DEFINE slots == CleanedUpTo(N - 1, p, q)
  <1>4. CleanWritten(x, p, q) = SetSlots(x, slots, FALSE)
    BY <1>2 DEF CleanWritten
  <1>5. Slot(d, i) \notin slots
    BY <1>1, <1>3
  <1> HIDE DEF slots
  <1> QED BY <1>3, <1>4, <1>5 DEF SetSlots, isDirtySlice, Block

LEMMA CleaningOnlyCleans ==
    ASSUME NEW x \in Block, NEW p, NEW q
    PROVE  CleanWritten(x, p, q).isDirty_ => x.isDirty_
  BY DEF CleanWritten, SetSlots, setDirtyAll, Block

(* Marking cleans nothing, marks all of a block that it covers, and leaves *)
(* any other as clean as it was.                                           *)
LEMMA MarkingOnlyMarks ==
    ASSUME NEW x \in Block, NEW p, NEW q
    PROVE  LET y == setDirty(x, p, q, TRUE)
           IN  /\ x.isDirty_ => y.isDirty_
               /\ \A i \in Slots : x.dirtyDimensions_[i] => y.dirtyDimensions_[i]
               /\ IsWhole(p, q) => y.isDirty_ /\ \A i \in Slots : y.dirtyDimensions_[i]
               /\ ~IsWhole(p, q) /\ y.isDirty_ => x.isDirty_
  <1>1. CASE IsWhole(p, q)
    BY <1>1 DEF setDirty, setDirtyAll, Block
  <1>2. CASE ~IsWhole(p, q)
    <2>1. PICK slots : setDirty(x, p, q, TRUE) = SetSlots(x, slots, TRUE)
      BY <1>2 DEF setDirty
    <2>2. /\ SetSlots(x, slots, TRUE).isDirty_ = x.isDirty_
          /\ \A i \in Slots : x.dirtyDimensions_[i]
                               => SetSlots(x, slots, TRUE).dirtyDimensions_[i]
      BY DEF SetSlots, Block
    <2> QED BY <1>2, <2>1, <2>2
  <1> QED BY <1>1, <1>2

(* Neither data nor their compression have to do with dirtiness.           *)
SameDirt(x, y) == x.isDirty_ = y.isDirty_ /\ x.dirtyDimensions_ = y.dirtyDimensions_

LEMMA DataAreNotDirt ==
    ASSUME NEW x \in Block
    PROVE  /\ SameDirt(compress(x), x)
           /\ \A p, q, a : SameDirt(WriteData(x, p, q, a), x)
  <1>1. ASSUME NEW y, y \in Block PROVE SameDirt(compress(y), y)
    BY <1>1 DEF SameDirt, compress, Block
  <1>2. ASSUME NEW p, NEW q, NEW a PROVE SameDirt(WriteData(x, p, q, a), x)
    BY DEF SameDirt, WriteData, compress, uncompress, Block
  <1> QED BY <1>1, <1>2

------------------------------------------------------------------------------
(* The operations of b, with all options off.                              *)

(* A block that reaches beyond the image has a slice there that nothing    *)
(* cleans.                                                                 *)
LastDirty(x, d) == x.isDirty_ /\ isDirtySlice(x, d, BlockShape[d] - 1)

BlocksInImage ==
    \A c \in Stored, d \in Dim :
        /\ blockBounds(c).p[d] < Shape[d]
        /\ Shape[d] < blockBounds(c).q[d] => LastDirty(blocks_[c], d)

ArrayFits == IInv /\ Defined /\ ~Recomputes /\ BlocksInImage

LEMMA NewIsDirty ==
    ASSUME ArrayFits, NEW c \in Grid
    PROVE  /\ BlockOrNew(c) \in Block
           /\ c \notin Stored => /\ BlockOrNew(c).isDirty_
                                 /\ \A i \in Slots : BlockOrNew(c).dirtyDimensions_[i]
  <1>1. BlockOrNew(c) \in Block
    BY BlockOrNewOK DEF ArrayFits, IInv, BlockOK
  <1>2. ASSUME c \notin Stored
        PROVE  SameDirt(BlockOrNew(c), setDirtyAll(NewBlock(ZeroImage), TRUE))
    <2> DEFINE x == setDirtyAll(NewBlock(ZeroImage), TRUE)
    <2>1. x \in Block
      BY ZeroIsImage, NewBlockOK, SetDirtyAllOK DEF BlockOK
    <2>2. BlockOrNew(c) = IF enableCompression_ THEN compress(x) ELSE x
      BY <1>2 DEF BlockOrNew, AddedBlock
    <2> HIDE DEF x
    <2>3. SameDirt(x, x) /\ SameDirt(compress(x), x)
      BY <2>1, DataAreNotDirt DEF SameDirt
    <2> QED BY <2>2, <2>3 DEF x
  <1>3. LET x == setDirtyAll(NewBlock(ZeroImage), TRUE)
        IN  x.isDirty_ /\ \A i \in Slots : x.dirtyDimensions_[i]
    BY DEF setDirtyAll, NewBlock
  <1> QED BY <1>1, <1>2, <1>3 DEF SameDirt

(* A written block is clean if the region covers it; otherwise the written *)
(* slices are cleaned.                                                     *)
LEMMA WrittenDirt ==
    ASSUME ArrayFits, NEW r \in Rois, NEW a \in [Box(Origin, Minus(r.q, r.p)) -> Value],
           NEW c \in BlocksInRange(r.p, r.q)
    PROVE  LET w == WithinBlock(c, r.p, r.q)
               x == WrittenBlock(c, r.p, r.q, a)
           IN  /\ x \in Block
               /\ CoversBlock(c, r.p, r.q) => x.isDirty_ = FALSE
               /\ ~CoversBlock(c, r.p, r.q) =>
                     \E y \in Block : SameDirt(y, BlockOrNew(c)) /\ x = CleanWritten(y, w.p, w.q)
  <1> DEFINE w     == WithinBlock(c, r.p, r.q)
             piece == Piece(a, c, r.p, r.q)
             x     == WrittenBlock(c, r.p, r.q, a)
             y     == WriteData(BlockOrNew(c), w.p, w.q, piece)
  <1>1. x \in Block
    BY WrittenBlockOK DEF ArrayFits, BlockOK
  <1>2. c \in Grid
    BY RoiInArray
  <1>3. ASSUME CoversBlock(c, r.p, r.q) PROVE x.isDirty_ = FALSE
    <2>1. IsWhole(w.p, w.q)
      BY <1>3 DEF CoversBlock
    <2>2. \E z : x = setDirtyAll(z, FALSE)
      BY <2>1 DEF WrittenBlock, writeArray, CleanWritten
    <2>3. PICK z : x = setDirtyAll(z, FALSE)
      BY <2>2
    <2>4. DOMAIN x = {"data_", "compressedSize_", "isCompressed_", "isDirty_", "dirtyDimensions_"}
      BY <1>1 DEF Block
    <2> HIDE DEF x
    <2>5. DOMAIN z = DOMAIN x
      BY <2>3 DEF setDirtyAll
    <2> QED BY <2>3, <2>4, <2>5 DEF setDirtyAll
  <1>4. ASSUME ~CoversBlock(c, r.p, r.q)
        PROVE  y \in Block /\ SameDirt(y, BlockOrNew(c)) /\ x = CleanWritten(y, w.p, w.q)
    <2>1. x = CleanWritten(y, w.p, w.q)
      BY <1>4 DEF WrittenBlock, writeArray
    <2>2. BlockOK(BlockOrNew(c))
      BY <1>2, BlockOrNewOK DEF ArrayFits, IInv
    <2>3. IsInput(piece, w.p, w.q)
      <3>1. ASSUME NEW cell \in Cell
            PROVE  InRoi(cell, w.p, w.q) =>
                      /\ piece[Minus(cell, w.p)] = a[Minus(Voxel(c, cell), r.p)]
                      /\ a[Minus(Voxel(c, cell), r.p)] \in Value
        BY PieceOK
      <3> HIDE DEF w, piece
      <3> QED BY <3>1 DEF IsInput
    <2> HIDE DEF w, piece
    <2>4. y \in Block
      BY <2>2, <2>3, WriteDataOK DEF BlockOK
    <2>5. SameDirt(y, BlockOrNew(c))
      BY <2>2, DataAreNotDirt DEF BlockOK
    <2> QED BY <2>1, <2>4, <2>5
  <1> HIDE DEF x, y, w
  <1>5. ~CoversBlock(c, r.p, r.q) =>
           \E z \in Block : SameDirt(z, BlockOrNew(c)) /\ x = CleanWritten(z, w.p, w.q)
    BY <1>4
  <1> QED BY <1>1, <1>3, <1>5 DEF x, w

LEMMA RegionWrite ==
    ASSUME ArrayFits, NEW r \in Rois, \A d \in Dim : r.q[d] <= Shape[d],
           NEW a \in [Box(Origin, Minus(r.q, r.p)) -> Value], writeSubarray(r.p, r.q, a)
    PROVE  /\ ArrayFits'
           /\ Stored' = Stored \cup BlocksInRange(r.p, r.q)
           /\ \A c \in BlocksInRange(r.p, r.q) : blocks_'[c] = WrittenBlock(c, r.p, r.q, a)
           /\ \A c \in Stored \ BlocksInRange(r.p, r.q) : blocks_'[c] = blocks_[c]
           /\ vox' = [v \in Voxels |-> IF InRoi(v, r.p, r.q) THEN a[Minus(v, r.p)] ELSE vox[v]]
  <1> DEFINE touched == BlocksInRange(r.p, r.q)
             new     == [c \in touched |-> WrittenBlock(c, r.p, r.q, a)]
  <1>1. /\ StoreBlocks(new) /\ UNCHANGED options /\ UNCHANGED status
        /\ vox' = [v \in Voxels |-> IF InRoi(v, r.p, r.q) THEN a[Minus(v, r.p)] ELSE vox[v]]
    BY StoreGeometry DEF writeSubarray, Store!Write, Voxels
  <1>2. IInv' /\ touched \subseteq Grid /\ IsRegion(r.p, r.q)
    BY writeSubarrayOK, RoiInArray DEF ArrayFits
  <1>3. Emptied(new) = {}
    BY DEF ArrayFits, Recomputes, Emptied
  <1>4. DOMAIN new = touched /\ \A c \in touched : new[c] = WrittenBlock(c, r.p, r.q, a)
    OBVIOUS
  <1> HIDE DEF new, touched
  <1>5. blocks_' = [c \in (Stored \cup touched) \ {} |->
                       IF c \in touched THEN new[c] ELSE blocks_[c]]
    BY <1>1, <1>3, <1>4 DEF StoreBlocks, Updated, Stored
  <1>6. Stored' = Stored \cup touched
    BY <1>5 DEF Stored
  <1>7. /\ \A c \in touched : blocks_'[c] = WrittenBlock(c, r.p, r.q, a)
        /\ \A c \in Stored \ touched : blocks_'[c] = blocks_[c]
    BY <1>4, <1>5
  <1>8. ASSUME NEW c \in touched, NEW d \in Dim
        PROVE  /\ blockBounds(c).p[d] < Shape[d]
               /\ Shape[d] < blockBounds(c).q[d] => LastDirty(WrittenBlock(c, r.p, r.q, a), d)
    <2> DEFINE w == WithinBlock(c, r.p, r.q)
               p == w.p
               q == w.q
               x == WrittenBlock(c, r.p, r.q, a)
               i == BlockShape[d] - 1
    <2>1. /\ blockBounds(c).p[d] < Shape[d] /\ p[d] \in Nat /\ q[d] \in Nat
          /\ Shape[d] < blockBounds(c).q[d] => q[d] < BlockShape[d]
      BY <1>2, BlockInImage DEF touched
    <2>2. SUFFICES ASSUME Shape[d] < blockBounds(c).q[d] PROVE LastDirty(x, d)
      BY <2>1
    <2>3. q[d] < BlockShape[d] /\ i \in Nat /\ i < BlockShape[d] /\ ~(i < q[d])
      BY <2>1, <2>2, ShapeType
    <2>4. ~IsWhole(p, q) /\ \A e \in Dim : FullExtent(e, p, q) => e = d
      <3> HIDE DEF p, q
      <3> QED BY <2>3, ShapeType DEF IsWhole, FullExtent
    <2>5. PICK y \in Block : SameDirt(y, BlockOrNew(c)) /\ x = CleanWritten(y, p, q)
      BY <2>4, WrittenDirt DEF touched, CoversBlock
    <2>6. y.isDirty_ /\ isDirtySlice(y, d, i)
      <3>1. CASE c \in Stored
        BY <2>2, <2>5, <3>1
           DEF ArrayFits, BlocksInImage, LastDirty, BlockOrNew, SameDirt, isDirtySlice
      <3>2. CASE c \notin Stored
        BY <1>2, <2>3, <2>5, <3>2, NewIsDirty, SlotExists DEF SameDirt, isDirtySlice
      <3> QED BY <3>1, <3>2
    <2> HIDE DEF p, q, x, i
    <2>7. x.isDirty_ /\ isDirtySlice(x, d, i)
      BY <2>1, <2>3, <2>4, <2>5, <2>6, SliceStaysDirty
    <2> QED BY <2>7 DEF LastDirty, i
  <1>9. BlocksInImage'
    <2>1. ASSUME NEW c \in Stored', NEW d \in Dim
          PROVE  /\ blockBounds(c).p[d] < Shape[d]
                 /\ Shape[d] < blockBounds(c).q[d] => LastDirty(blocks_'[c], d)
      <3>1. CASE c \in touched
        BY <1>7, <1>8, <3>1
      <3>2. CASE c \notin touched
        <4>1. c \in Stored /\ blocks_'[c] = blocks_[c]
          BY <1>6, <1>7, <3>2
        <4> QED BY <4>1 DEF ArrayFits, BlocksInImage
      <3> QED BY <3>1, <3>2
    <2> QED BY <2>1 DEF BlocksInImage
  <1>10. ArrayFits'
    BY <1>1, <1>2, <1>9 DEF ArrayFits, Defined, Recomputes, options
  <1> QED BY <1>1, <1>6, <1>7, <1>10 DEF touched

(* Marking marks all of the blocks that it covers, and slices of others.   *)
LEMMA RegionMark ==
    ASSUME ArrayFits, NEW r \in Rois, setDirtySubarray(r.p, r.q, TRUE)
    PROVE  /\ ArrayFits' /\ Stored' = Stored /\ vox' = vox
           /\ \A c \in Stored \cap BlocksInRange(r.p, r.q) :
                 /\ blocks_[c].isDirty_ => blocks_'[c].isDirty_
                 /\ \A i \in Slots : blocks_[c].dirtyDimensions_[i]
                                      => blocks_'[c].dirtyDimensions_[i]
                 /\ CoversBlock(c, r.p, r.q) =>
                       blocks_'[c].isDirty_ /\ \A i \in Slots : blocks_'[c].dirtyDimensions_[i]
                 /\ ~CoversBlock(c, r.p, r.q) /\ blocks_'[c].isDirty_ => blocks_[c].isDirty_
           /\ \A c \in Stored \ BlocksInRange(r.p, r.q) : blocks_'[c] = blocks_[c]
  <1> DEFINE w(c)   == WithinBlock(c, r.p, r.q)
             set(c) == setDirty(blocks_[c], w(c).p, w(c).q, TRUE)
  <1>1. /\ blocks_' = [c \in Stored |-> IF c \in BlocksInRange(r.p, r.q)
                                        THEN set(c) ELSE blocks_[c]]
        /\ UNCHANGED options /\ UNCHANGED status /\ UNCHANGED vox
    BY DEF setDirtySubarray
  <1>2. IInv'
    BY setDirtySubarrayOK DEF ArrayFits
  <1>3. ASSUME NEW c \in Stored
        PROVE  /\ blocks_[c].isDirty_ => set(c).isDirty_
               /\ \A i \in Slots : blocks_[c].dirtyDimensions_[i] => set(c).dirtyDimensions_[i]
               /\ CoversBlock(c, r.p, r.q) =>
                     set(c).isDirty_ /\ \A i \in Slots : set(c).dirtyDimensions_[i]
               /\ ~CoversBlock(c, r.p, r.q) /\ set(c).isDirty_ => blocks_[c].isDirty_
    <2>1. blocks_[c] \in Block
      BY DEF ArrayFits, IInv, BlocksFit, BlockOK
    <2> QED BY <2>1, MarkingOnlyMarks DEF CoversBlock
  <1>4. Stored' = Stored
    BY <1>1 DEF Stored
  <1> HIDE DEF set
  <1>5. ASSUME NEW c \in Stored
        PROVE  blocks_'[c] = IF c \in BlocksInRange(r.p, r.q) THEN set(c) ELSE blocks_[c]
    BY <1>1
  <1>6. BlocksInImage'
    <2>1. ASSUME NEW c \in Stored, NEW d \in Dim, LastDirty(blocks_[c], d)
          PROVE  LastDirty(blocks_'[c], d)
      <3>1. Slot(d, BlockShape[d] - 1) \in Slots
        <4>1. BlockShape[d] - 1 \in Nat /\ BlockShape[d] - 1 < BlockShape[d]
          BY ShapeType
        <4> QED BY <4>1, SlotExists
      <3> QED BY <1>3, <1>5, <2>1, <3>1 DEF LastDirty, isDirtySlice
    <2> QED BY <1>4, <2>1 DEF ArrayFits, BlocksInImage
  <1>7. ArrayFits'
    BY <1>1, <1>2, <1>6 DEF ArrayFits, Defined, Recomputes, options
  <1> QED BY <1>1, <1>3, <1>4, <1>5, <1>7

------------------------------------------------------------------------------
(* How old data are.                                                       *)

Notice == [at : {"mark", "tell", "told", "kept"}, roi : Changes]

(* value is data for voxel v from after every change that has been marked, *)
(* and current unless a change is still to be marked.                      *)
Fresh(value, v, current, calls) ==
    /\ value \in Nat \ {0}
    /\ \A n \in DOMAIN calls : calls[n].at # "mark" /\ v \in Whole(calls[n].roi) => n < value
    /\ \/ value = current
       \/ \E n \in DOMAIN calls : calls[n].at = "mark" /\ v \in Whole(calls[n].roi)

(* k is no change at all, or a change of v that has been marked.           *)
Announced(k, v, calls) ==
    \/ k = 0
    \/ k \in DOMAIN calls /\ calls[k].at # "mark" /\ v \in Whole(calls[k].roi)

(* No data that fresh are older than a change that was announced.          *)
LEMMA FreshIsNewer ==
    ASSUME NEW value, NEW v, NEW current, NEW calls, NEW k,
           Fresh(value, v, current, calls), Announced(k, v, calls)
    PROVE  value > k
  <1>1. CASE k = 0
    BY <1>1 DEF Fresh
  <1>2. CASE k # 0
    BY <1>2 DEF Fresh, Announced
  <1> QED BY <1>1, <1>2

(* A change of the Input, in region r.                                     *)
WithChange(calls, r) == Append(calls, [at |-> "mark", roi |-> r])

LEMMA CallsGrow ==
    ASSUME NEW calls \in Seq(Notice), NEW r \in Changes, NEW next,
           next = WithChange(calls, r)
    PROVE  /\ next \in Seq(Notice) /\ Len(next) = Len(calls) + 1
           /\ DOMAIN calls = 1 .. Len(calls) /\ DOMAIN next = 1 .. Len(calls) + 1
           /\ \A n \in DOMAIN calls : next[n] = calls[n]
           /\ next[Len(calls) + 1] = [at |-> "mark", roi |-> r]
           /\ Len(calls) \in Nat
  <1>1. [at |-> "mark", roi |-> r] \in Notice
    BY DEF Notice
  <1> QED BY <1>1 DEF WithChange

LEMMA FreshAfterChange ==
    ASSUME NEW calls \in Seq(Notice), NEW r \in Changes, NEW next,
           next = WithChange(calls, r), NEW v,
           NEW before, NEW after, after = before \/ v \in Whole(r)
    PROVE  /\ \A k : Announced(k, v, calls) => Announced(k, v, next)
           /\ \A value : Fresh(value, v, before, calls) => Fresh(value, v, after, next)
  <1>1. /\ DOMAIN calls = 1 .. Len(calls) /\ DOMAIN next = 1 .. Len(calls) + 1
        /\ \A n \in DOMAIN calls : next[n] = calls[n]
        /\ next[Len(calls) + 1].at = "mark" /\ next[Len(calls) + 1].roi = r
        /\ Len(calls) \in Nat
    BY CallsGrow DEF WithChange
  <1>2. DOMAIN calls \subseteq DOMAIN next /\ Len(calls) + 1 \in DOMAIN next
    BY <1>1
  <1>3. ASSUME NEW k, Announced(k, v, calls) PROVE Announced(k, v, next)
    BY <1>1, <1>2, <1>3 DEF Announced
  <1>4. ASSUME NEW value, Fresh(value, v, before, calls)
        PROVE  Fresh(value, v, after, next)
    <2>1. ASSUME NEW n \in DOMAIN next, next[n].at # "mark", v \in Whole(next[n].roi)
          PROVE  n < value
      BY <1>1, <1>4, <2>1 DEF Fresh
    <2>2. \/ value = after
          \/ \E n \in DOMAIN next : next[n].at = "mark" /\ v \in Whole(next[n].roi)
      BY <1>1, <1>2, <1>4 DEF Fresh
    <2> QED BY <1>4, <2>1, <2>2 DEF Fresh
  <1> QED BY <1>3, <1>4

(* A call of propagateDirty makes its next step.                           *)
Stepped(calls, n, s) == [calls EXCEPT ![n].at = s]

LEMMA CallsStep ==
    ASSUME NEW calls \in Seq(Notice), NEW n \in DOMAIN calls,
           NEW s \in {"tell", "told", "kept"}
    PROVE  LET next == Stepped(calls, n, s)
           IN  /\ DOMAIN next = DOMAIN calls /\ next[n].at = s
               /\ \A m \in DOMAIN calls : next[m].roi = calls[m].roi
               /\ \A m \in DOMAIN calls : m # n => next[m] = calls[m]
  <1>1. \A m \in DOMAIN calls : calls[m] \in Notice
    OBVIOUS
  <1> QED BY <1>1 DEF Stepped, Notice

LEMMA StepsAreCalls ==
    ASSUME NEW calls \in Seq(Notice), NEW n \in DOMAIN calls,
           NEW s \in {"tell", "told", "kept"}
    PROVE  Stepped(calls, n, s) \in Seq(Notice) /\ Len(Stepped(calls, n, s)) = Len(calls)
  <1> DEFINE next == Stepped(calls, n, s)
  <1>1. DOMAIN calls = 1 .. Len(calls) /\ Len(calls) \in Nat
    OBVIOUS
  <1>2. ASSUME NEW m \in DOMAIN calls PROVE next[m] \in Notice
    <2>1. calls[m] \in Notice
      OBVIOUS
    <2> QED BY <2>1 DEF Notice, Stepped
  <1>3. next = [m \in DOMAIN calls |-> next[m]]
    BY DEF Stepped
  <1> HIDE DEF next
  <1>4. next \in [1 .. Len(calls) -> Notice]
    BY <1>1, <1>2, <1>3
  <1>5. next \in Seq(Notice) /\ Len(next) = Len(calls)
    BY <1>1, <1>4
  <1> QED BY <1>5 DEF next

(* Marking can only make more changes announced, and leaves fresh what it  *)
(* does not mark; telling leaves everything as it is.                      *)
LEMMA FreshAfterStep ==
    ASSUME NEW calls \in Seq(Notice), NEW n \in DOMAIN calls,
           NEW s \in {"tell", "told", "kept"}, NEW v
    PROVE  LET next == Stepped(calls, n, s)
           IN  /\ \A k : Announced(k, v, calls) => Announced(k, v, next)
               /\ \A value, current :
                     Fresh(value, v, current, calls)
                     /\ (calls[n].at # "mark" \/ v \notin Whole(calls[n].roi)) =>
                        Fresh(value, v, current, next)
  <1> DEFINE next == Stepped(calls, n, s)
  <1>1. /\ DOMAIN next = DOMAIN calls /\ next[n].at = s
        /\ \A m \in DOMAIN calls : next[m].roi = calls[m].roi
        /\ \A m \in DOMAIN calls : m # n => next[m] = calls[m]
    BY CallsStep
  <1> HIDE DEF next
  <1>2. (\A k : Announced(k, v, calls) => Announced(k, v, next))
    BY <1>1 DEF Announced
  <1>3. \A value, current :
           Fresh(value, v, current, calls)
           /\ (calls[n].at # "mark" \/ v \notin Whole(calls[n].roi)) =>
              Fresh(value, v, current, next)
    BY <1>1 DEF Fresh
  <1> QED BY <1>2, <1>3 DEF next

------------------------------------------------------------------------------
(* The inductive invariant.                                                *)

(* Every change that is known leaves the Input newer than itself.          *)
InputFits ==
    /\ Input \in [InputVoxels -> 1 .. MaxValue]
    /\ notices \in Seq(Notice) /\ Len(notices) <= MaxChanges
    /\ \A v \in InputVoxels, n \in DOMAIN notices : v \in Whole(notices[n].roi) => n < Input[v]

(* Clean blocks are fresh, except for what setInSlot wrote and for marks   *)
(* that got lost.                                                          *)
CleanIsFresh ==
    \A v \in InputVoxels \ (given \cup missed) :
        LET c == blockGivenCoordinateP(v)
        IN  c \in Stored /\ ~blocks_[c].isDirty_ => Fresh(vox[v], v, Input[v], notices)

(* In one dimension, a gift that covers part of a block cleans the slots   *)
(* of what it writes and no others, so that gifts alone clean a block only *)
(* once all of it is given.                                                *)
OnlyGivenIsCleaned ==
    N = 1 => \A v \in InputVoxels \ given :
        LET c == blockGivenCoordinateP(v)
        IN  c \in Stored /\ ~Cut(c) /\ blocks_[c].isDirty_
               => isDirtySlice(blocks_[c], 0, pBlock(v)[0])

(* The answer for block c is no older than any mark.                       *)
FreshAnswer(c, data) ==
    \A v \in InputVoxels : blockGivenCoordinateP(v) = c =>
        Fresh(data[Minus(v, Fetched(c).p)], v, Input[v], notices)

(* A request has blocks to fill, and answers for some, which are fresh.    *)
AnswersFit(t) ==
    /\ reqs[t] \subseteq Stored /\ DOMAIN got[t] \subseteq Grid
    /\ pc[t] \notin {"fill", "raised"} => reqs[t] = {} /\ got[t] = Empty
    /\ \A c \in DOMAIN got[t] :
          got[t][c] \in [Box(Origin, Minus(Fetched(c).q, Fetched(c).p)) -> Value]
    /\ pc[t] = "fill" => \A c \in DOMAIN got[t] : FreshAnswer(c, got[t][c])

(* What downstream knew when it made the request.                          *)
KnownFits(t) ==
    /\ DOMAIN known[t] \subseteq InputVoxels
    /\ \A v \in DOMAIN known[t] : known[t][v] \in 0 .. MaxChanges
    /\ pc[t] \in {"acquire", "fill"} =>
          roi[t] \in Wanted /\ \A v \in InputVoxels : Announced(known[t][v], v, notices)

(* What a request does not have to fill is no older than that.             *)
FilledIsFresh(t) ==
    pc[t] = "fill" /\ fetches[t] =>
        \A v \in InputVoxels \ (given \cup missed) :
            blockGivenCoordinateP(v) \in Stored \ reqs[t] => vox[v] > known[t][v]

ServedIsFresh(t) ==
    pc[t] = "done" /\ fetches[t] =>
        \A v \in DOMAIN known[t] : result[t][Minus(v, roi[t].p)] > known[t][v]

RequestFits(t) == AnswersFit(t) /\ KnownFits(t) /\ FilledIsFresh(t) /\ ServedIsFresh(t)

PerThread(f) == f = [t \in Threads |-> f[t]]

StateFits ==
    /\ _lock \in Threads \cup {Free, Setup} /\ _fixed \in BOOLEAN
    /\ given \subseteq InputVoxels /\ missed \subseteq InputVoxels
    /\ PerThread(roi) /\ PerThread(reqs) /\ PerThread(got)
    /\ PerThread(result) /\ PerThread(fetches) /\ PerThread(known)

CacheInv ==
    /\ LockInv /\ StateFits
    /\ ArrayFits
    /\ InputFits
    /\ CleanIsFresh
    /\ OnlyGivenIsCleaned
    /\ \A t \in Threads : RequestFits(t)

------------------------------------------------------------------------------
(* Requests that a step does not move.                                     *)

Unmoved(t) ==
    /\ pc'[t] = pc[t] /\ roi'[t] = roi[t] /\ reqs'[t] = reqs[t] /\ got'[t] = got[t]
    /\ result'[t] = result[t] /\ fetches'[t] = fetches[t] /\ known'[t] = known[t]

(* Nothing that was announced is taken back; data stay fresh.              *)
StillAnnounced ==
    \A v \in InputVoxels : \A k : Announced(k, v, notices) => Announced(k, v, notices')

StillFresh ==
    \A v \in InputVoxels : \A value :
        Fresh(value, v, Input[v], notices) => Fresh(value, v, Input'[v], notices')

(* A request outside of the lock does not depend on b.                     *)
LEMMA OutsideLock ==
    ASSUME NEW t \in Threads, RequestFits(t), Unmoved(t), pc[t] \notin {"fill", "raised"},
           StillAnnounced
    PROVE  RequestFits(t)'
  <1>1. AnswersFit(t)'
    <2>1. reqs'[t] = {} /\ got'[t] = Empty /\ pc'[t] \notin {"fill", "raised"}
      BY DEF RequestFits, AnswersFit, Unmoved
    <2> QED BY <2>1 DEF AnswersFit, Empty
  <1>2. KnownFits(t)'
    BY DEF RequestFits, KnownFits, Unmoved, StillAnnounced
  <1>3. FilledIsFresh(t)'
    BY DEF FilledIsFresh, Unmoved
  <1>4. ServedIsFresh(t)'
    BY DEF RequestFits, ServedIsFresh, Unmoved
  <1> QED BY <1>1, <1>2, <1>3, <1>4 DEF RequestFits

(* Neither does one inside, as long as b stays as it is.                   *)
LEMMA SameArray ==
    ASSUME NEW t \in Threads, RequestFits(t), Unmoved(t), UNCHANGED <<blocks_, vox, history>>,
           StillAnnounced, StillFresh
    PROVE  RequestFits(t)'
  <1>1. Stored' = Stored
    BY DEF Stored
  <1>2. AnswersFit(t)'
    <2>1. \A c, data : FreshAnswer(c, data) => FreshAnswer(c, data)'
      BY DEF FreshAnswer, StillFresh
    <2> QED BY <1>1, <2>1 DEF RequestFits, AnswersFit, Unmoved
  <1>3. KnownFits(t)'
    BY DEF RequestFits, KnownFits, Unmoved, StillAnnounced
  <1>4. FilledIsFresh(t)'
    BY <1>1 DEF RequestFits, FilledIsFresh, Unmoved, history
  <1>5. ServedIsFresh(t)'
    BY DEF RequestFits, ServedIsFresh, Unmoved
  <1> QED BY <1>2, <1>3, <1>4, <1>5 DEF RequestFits

LEMMA SameClean ==
    ASSUME CleanIsFresh, UNCHANGED <<blocks_, vox, history>>, StillFresh
    PROVE  CleanIsFresh'
  BY DEF CleanIsFresh, StillFresh, Stored, history

LEMMA SameCleaned ==
    ASSUME OnlyGivenIsCleaned, UNCHANGED <<blocks_, history>>
    PROVE  OnlyGivenIsCleaned'
  BY DEF OnlyGivenIsCleaned, Stored, history

LEMMA SameArrayFits ==
    ASSUME ArrayFits, UNCHANGED b
    PROVE  ArrayFits'
  <1>1. IInv'
    BY NextIInv DEF ArrayFits, b, vars
  <1>2. UNCHANGED <<blocks_, options, status>>
    BY DEF b
  <1> QED BY <1>1, <1>2
          DEF ArrayFits, Defined, Recomputes, options, BlocksInImage, LastDirty, Stored

(* Who holds the lock: while it is free, no request is inside.             *)
LEMMA Inside ==
    ASSUME LockInv, NEW t \in Threads
    PROVE  /\ _lock = Free => pc[t] \notin {"fill", "raised"}
           /\ \A u \in Threads : u # t /\ pc[u] = "fill" => pc[t] \notin {"fill", "raised"}
  BY CacheAssumption DEF LockInv, LockHeld

LEMMA NothingNew == UNCHANGED <<Input, notices>> => StillAnnounced /\ StillFresh
  BY DEF StillAnnounced, StillFresh

LEMMA AllUnmoved == UNCHANGED threads => \A t \in Threads : Unmoved(t)
  BY DEF threads, Unmoved

------------------------------------------------------------------------------
(* The steps of the Input and of the slots.                                *)

LEMMA WithinShape ==
    ASSUME NEW r \in Wanted \cup Changes \cup Given
    PROVE  r \in Rois /\ \A d \in Dim : r.q[d] <= Shape[d]
  BY CacheAssumption

LEMMA SameStateFits ==
    ASSUME StateFits, UNCHANGED threads, UNCHANGED <<_lock, _fixed, history>>
    PROVE  StateFits'
  BY DEF StateFits, PerThread, threads, history

(* With everything else as it is, new states of the calls and of the Input *)
(* keep what they leave fresh.                                             *)
LEMMA QuietStep ==
    ASSUME CacheInv, UNCHANGED <<b, threads, history, _lock>>, _fixed' \in BOOLEAN,
           InputFits', StillAnnounced, StillFresh
    PROVE  CacheInv'
  <1>1. LockInv'
    BY LockUntouched DEF CacheInv, threads
  <1>2. ArrayFits'
    BY SameArrayFits DEF CacheInv
  <1>3. StateFits'
    BY DEF CacheInv, StateFits, PerThread, threads, history
  <1>4. CleanIsFresh' /\ OnlyGivenIsCleaned'
    BY SameClean, SameCleaned DEF CacheInv, b
  <1>5. \A t \in Threads : RequestFits(t)'
    BY SameArray, AllUnmoved DEF CacheInv, b
  <1> QED BY <1>1, <1>2, <1>3, <1>4, <1>5 DEF CacheInv

LEMMA ChangeInputOK ==
    ASSUME CacheInv, NEW r \in Changes, ChangeInput(r)
    PROVE  CacheInv'
  <1>1. /\ Input' = [v \in InputVoxels |-> IF v \in Whole(r) THEN Len(notices) + 2 ELSE Input[v]]
        /\ notices' = WithChange(notices, r)
        /\ Len(notices) < MaxChanges
        /\ UNCHANGED <<b, threads, history, _lock>> /\ UNCHANGED _fixed
    BY DEF ChangeInput, WithChange
  <1>2. InputFits
    BY DEF CacheInv
  <1>3. /\ notices' \in Seq(Notice) /\ Len(notices') = Len(notices) + 1
        /\ DOMAIN notices = 1 .. Len(notices) /\ DOMAIN notices' = 1 .. Len(notices) + 1
        /\ \A n \in DOMAIN notices : notices'[n] = notices[n]
        /\ notices'[Len(notices) + 1].roi = r
        /\ Len(notices) \in Nat
    BY <1>1, <1>2, CallsGrow DEF InputFits, WithChange
  <1>4. InputFits'
    <2>1. Len(notices') <= MaxChanges /\ MaxChanges \in Nat
      BY <1>1, <1>3, CacheAssumption
    <2>2. Input' \in [InputVoxels -> 1 .. MaxValue]
      BY <1>1, <1>2, <1>3, <2>1 DEF InputFits, MaxValue
    <2>3. ASSUME NEW v \in InputVoxels, NEW n \in DOMAIN notices', v \in Whole(notices'[n].roi)
          PROVE  n < Input'[v]
      <3>1. CASE v \in Whole(r)
        BY <1>1, <1>3, <3>1
      <3>2. CASE v \notin Whole(r)
        <4>1. n \in DOMAIN notices /\ notices'[n] = notices[n]
          BY <1>3, <2>3, <3>2
        <4> QED BY <1>1, <1>2, <2>3, <3>2, <4>1 DEF InputFits
      <3> QED BY <3>1, <3>2
    <2> QED BY <1>3, <2>1, <2>2, <2>3 DEF InputFits
  <1>5. notices \in Seq(Notice)
    BY <1>2 DEF InputFits
  <1>6. notices' = WithChange(notices, r)
    BY <1>1
  <1>7. ASSUME NEW v \in InputVoxels
        PROVE  /\ \A k : Announced(k, v, notices) => Announced(k, v, notices')
               /\ \A value : Fresh(value, v, Input[v], notices)
                                => Fresh(value, v, Input'[v], notices')
    <2>1. Input'[v] = Input[v] \/ v \in Whole(r)
      BY <1>1
    <2> QED BY <1>5, <1>6, <2>1, FreshAfterChange
  <1>8. _fixed' \in BOOLEAN
    BY <1>1 DEF CacheInv, StateFits
  <1>9. StillAnnounced
    BY <1>7 DEF StillAnnounced
  <1>10. StillFresh
    BY <1>7 DEF StillFresh
  <1> QED BY <1>1, <1>4, <1>8, <1>9, <1>10, QuietStep

(* A call's step leaves the regions of the calls and the Input alone.      *)
LEMMA InputAfterStep ==
    ASSUME InputFits, NEW n \in DOMAIN notices, NEW s \in {"tell", "told", "kept"},
           notices' = Stepped(notices, n, s), UNCHANGED Input
    PROVE  /\ InputFits' /\ StillAnnounced
           /\ notices[n] \in Notice
           /\ \A v \in InputVoxels : \A value :
                 Fresh(value, v, Input[v], notices)
                 /\ (notices[n].at # "mark" \/ v \notin Whole(notices[n].roi)) =>
                    Fresh(value, v, Input'[v], notices')
  <1>1. DOMAIN notices' = DOMAIN notices
        /\ \A m \in DOMAIN notices : notices'[m].roi = notices[m].roi
    BY CallsStep DEF InputFits
  <1>2. InputFits'
    <2>1. notices' \in Seq(Notice) /\ Len(notices') = Len(notices)
      BY StepsAreCalls DEF InputFits
    <2> QED BY <1>1, <2>1 DEF InputFits
  <1>3. notices[n] \in Notice
    BY DEF InputFits
  <1>4. ASSUME NEW v \in InputVoxels
        PROVE  /\ \A k : Announced(k, v, notices) => Announced(k, v, notices')
               /\ \A value, current :
                     Fresh(value, v, current, notices)
                     /\ (notices[n].at # "mark" \/ v \notin Whole(notices[n].roi)) =>
                        Fresh(value, v, current, notices')
    BY FreshAfterStep DEF InputFits
  <1> QED BY <1>2, <1>3, <1>4 DEF StillAnnounced

LEMMA TellOK ==
    ASSUME CacheInv, NEW n \in DOMAIN notices, Tell(n)
    PROVE  CacheInv'
  <1>1. PICK s \in {"told", "kept"} : notices' = Stepped(notices, n, s)
    BY DEF Tell, Stepped
  <1>2. /\ notices[n].at = "tell" /\ UNCHANGED <<b, threads, history, _lock>>
        /\ UNCHANGED _fixed /\ UNCHANGED Input
    BY DEF Tell
  <1>3. InputFits' /\ StillAnnounced /\ StillFresh
    BY <1>1, <1>2, InputAfterStep DEF CacheInv, StillFresh
  <1> QED BY <1>2, <1>3, QuietStep DEF CacheInv, StateFits

(* The slot of the slice that voxel v lies in.                             *)
LEMMA SlotOfVoxel ==
    ASSUME N = 1, NEW v \in InputVoxels
    PROVE  /\ pBlock(v)[0] \in Nat /\ pBlock(v)[0] < BlockShape[0]
           /\ Slot(0, pBlock(v)[0]) \in Slots
  <1>1. 0 \in Dim /\ pBlock(v) \in Cell
    BY ImageMember, VoxelsOfGrid DEF Dim
  <1>2. pBlock(v)[0] \in Nat /\ pBlock(v)[0] < BlockShape[0]
    BY <1>1, CellMember DEF Vectors
  <1> QED BY <1>1, <1>2, SlotExists

(* What is marked is no longer clean, and nobody is inside the lock.       *)
LEMMA MarkOK ==
    ASSUME CacheInv, NEW n \in DOMAIN notices, Mark(n)
    PROVE  CacheInv'
  <1> DEFINE r == notices[n].roi
  <1>1. /\ _lock = Free /\ setDirtySubarray(r.p, r.q, TRUE)
        /\ notices' = Stepped(notices, n, "tell") /\ missed' = missed \cup Overlooked(r)
        /\ UNCHANGED threads /\ UNCHANGED <<_lock, _fixed, given>> /\ UNCHANGED Input
    BY DEF Mark, Stepped
  <1>2. /\ InputFits' /\ StillAnnounced /\ notices[n] \in Notice
        /\ \A v \in InputVoxels : \A value :
              Fresh(value, v, Input[v], notices) /\ v \notin Whole(r)
                 => Fresh(value, v, Input'[v], notices')
    BY <1>1, InputAfterStep DEF CacheInv
  <1>3. /\ r \in Rois /\ Whole(r) \subseteq InputVoxels
        /\ \A v \in Whole(r) : blockGivenCoordinateP(v) \in BlocksInRange(r.p, r.q)
    <2>1. r \in Changes /\ r \in Rois /\ \A d \in Dim : r.q[d] <= Shape[d]
      BY <1>2, WithinShape DEF Notice
    <2> HIDE DEF r
    <2> QED BY <2>1, RegionInImage
  <1> HIDE DEF r
  <1> DEFINE touched == BlocksInRange(r.p, r.q)
             covered(c) == CoversBlock(c, r.p, r.q)
  <1>4. /\ ArrayFits' /\ Stored' = Stored /\ vox' = vox
        /\ \A c \in Stored \cap touched :
              /\ blocks_[c].isDirty_ => blocks_'[c].isDirty_
              /\ \A i \in Slots : blocks_[c].dirtyDimensions_[i] => blocks_'[c].dirtyDimensions_[i]
              /\ covered(c) => blocks_'[c].isDirty_ /\ \A i \in Slots : blocks_'[c].dirtyDimensions_[i]
              /\ ~covered(c) /\ blocks_'[c].isDirty_ => blocks_[c].isDirty_
        /\ \A c \in Stored \ touched : blocks_'[c] = blocks_[c]
    BY <1>1, <1>3, RegionMark DEF CacheInv
  (* What is changed in a clean block of which a part is marked is missed.  *)
  <1>5. ASSUME NEW v \in Whole(r), NEW c \in Stored, c = blockGivenCoordinateP(v),
               ~covered(c), ~blocks_[c].isDirty_
        PROVE  v \in missed'
    BY <1>1, <1>3, <1>5 DEF Overlooked, Partly
  <1> HIDE DEF touched, covered
  <1>6. CleanIsFresh'
    <2>1. ASSUME NEW v \in InputVoxels \ (given \cup missed'), NEW c, c = blockGivenCoordinateP(v),
                 c \in Stored, ~blocks_'[c].isDirty_
          PROVE  Fresh(vox[v], v, Input'[v], notices')
      <3>1. ~blocks_[c].isDirty_ /\ (c \in touched => ~covered(c))
        BY <1>4, <2>1
      <3>2. Fresh(vox[v], v, Input[v], notices)
        BY <1>1, <2>1, <3>1 DEF CacheInv, CleanIsFresh
      <3>3. v \notin Whole(r)
        BY <1>3, <1>5, <2>1, <3>1 DEF touched
      <3> QED BY <1>2, <2>1, <3>2, <3>3
    <2> QED BY <1>1, <1>4, <2>1 DEF CleanIsFresh
  <1>7. OnlyGivenIsCleaned'
    <2>1. ASSUME N = 1, NEW v \in InputVoxels \ given, NEW c, c = blockGivenCoordinateP(v),
                 c \in Stored, ~Cut(c), blocks_'[c].isDirty_
          PROVE  isDirtySlice(blocks_'[c], 0, pBlock(v)[0])
      <3>1. CASE c \in touched /\ covered(c)
        BY <1>4, <2>1, <3>1, SlotOfVoxel DEF isDirtySlice
      <3>2. CASE c \in touched /\ ~covered(c)
        <4>1. isDirtySlice(blocks_[c], 0, pBlock(v)[0])
          BY <1>4, <2>1, <3>2 DEF CacheInv, OnlyGivenIsCleaned
        <4> QED BY <1>4, <2>1, <3>2, <4>1, SlotOfVoxel DEF isDirtySlice
      <3>3. CASE c \notin touched
        BY <1>4, <2>1, <3>3 DEF CacheInv, OnlyGivenIsCleaned
      <3> QED BY <3>1, <3>2, <3>3
    <2> QED BY <1>1, <1>4, <2>1 DEF OnlyGivenIsCleaned
  <1>8. \A t \in Threads : RequestFits(t)'
    BY <1>1, <1>2, AllUnmoved, Inside, OutsideLock DEF CacheInv
  <1>9. LockInv'
    BY <1>1, LockUntouched DEF CacheInv, threads
  <1>10. StateFits'
    <2>1. missed' \subseteq InputVoxels
      BY <1>1, <1>3 DEF CacheInv, StateFits, Overlooked
    <2> QED BY <1>1, <2>1 DEF CacheInv, StateFits, PerThread, threads
  <1> QED BY <1>2, <1>4, <1>6, <1>7, <1>8, <1>9, <1>10 DEF CacheInv

(* A gift that covers part of a block leaves the block dirty, unless it was*)
(* clean, or the gift completes what the others have written.              *)
LEMMA PartialGift ==
    ASSUME ArrayFits, OnlyGivenIsCleaned, N = 1,
           NEW r \in Rois, \A d \in Dim : r.q[d] <= Shape[d],
           NEW a \in [Box(Origin, Minus(r.q, r.p)) -> Value],
           NEW v \in InputVoxels \ given, v \notin Whole(r),
           NEW c, c = blockGivenCoordinateP(v), c \in BlocksInRange(r.p, r.q), ~Cut(c),
           c \in Stored => blocks_[c].isDirty_
    PROVE  LET x == WrittenBlock(c, r.p, r.q, a)
           IN  x.isDirty_ /\ isDirtySlice(x, 0, pBlock(v)[0])
  <1> DEFINE w == WithinBlock(c, r.p, r.q)
             p == w.p
             q == w.q
             x == WrittenBlock(c, r.p, r.q, a)
             i == pBlock(v)[0]
  <1>1. v \in Voxels /\ c \in Grid /\ Dim = {0}
    BY ImageMember, RegionInImage DEF Dim
  <1>2. i \in Nat /\ i < BlockShape[0] /\ Slot(0, i) \in Slots
    BY <1>1, SlotOfVoxel
  <1>3. ~CoversBlock(c, r.p, r.q) /\ ~InRoi(pBlock(v), p, q)
    BY <1>1, CoveredVoxels
  <1>4. ~(p[0] <= i /\ i < q[0])
    <2> HIDE DEF p, q
    <2> QED BY <1>1, <1>3 DEF InRoi
  <1>5. p[0] \in Nat /\ q[0] \in Nat
    BY <1>1, RegionInImage, BlockInImage
  <1>6. PICK y \in Block : SameDirt(y, BlockOrNew(c)) /\ x = CleanWritten(y, p, q)
    BY <1>3, WrittenDirt
  <1>7. y.isDirty_ /\ isDirtySlice(y, 0, i)
    <2>1. CASE c \in Stored
      BY <1>6, <2>1 DEF OnlyGivenIsCleaned, BlockOrNew, SameDirt, isDirtySlice
    <2>2. CASE c \notin Stored
      BY <1>1, <1>2, <1>6, <2>2, NewIsDirty DEF SameDirt, isDirtySlice
    <2> QED BY <2>1, <2>2
  <1>8. ~IsWhole(p, q) /\ 0 \in Dim /\ \A e \in Dim : FullExtent(e, p, q) => e = 0
    BY <1>1, <1>3 DEF CoversBlock
  <1> HIDE DEF p, q, x, i
  <1>9. x.isDirty_ /\ isDirtySlice(x, 0, i)
    BY <1>2, <1>4, <1>5, <1>6, <1>7, <1>8, SliceStaysDirty
  <1> QED BY <1>9 DEF x, i

(* Data from setInSlot need not be fresh: their voxels are given.          *)
LEMMA setInSlotOK ==
    ASSUME CacheInv, NEW r \in Given, setInSlot(r)
    PROVE  CacheInv'
  <1> DEFINE zeros   == [v \in Box(Origin, Minus(r.q, r.p)) |-> 0]
             touched == BlocksInRange(r.p, r.q)
  <1>1. /\ _lock = Free /\ writeSubarray(r.p, r.q, zeros)
        /\ given' = given \cup Whole(r) /\ missed' = missed \cup Shadowed(r)
        /\ UNCHANGED threads /\ UNCHANGED <<_lock, _fixed, notices>> /\ UNCHANGED Input
    BY DEF setInSlot
  <1>2. r \in Rois /\ \A d \in Dim : r.q[d] <= Shape[d]
    BY WithinShape
  <1>3. zeros \in [Box(Origin, Minus(r.q, r.p)) -> Value]
    BY ValueAssumption
  <1> HIDE DEF zeros
  <1>4. /\ ArrayFits' /\ Stored' = Stored \cup touched
        /\ \A c \in touched : blocks_'[c] = WrittenBlock(c, r.p, r.q, zeros)
        /\ \A c \in Stored \ touched : blocks_'[c] = blocks_[c]
        /\ vox' = [v \in Voxels |-> IF InRoi(v, r.p, r.q) THEN zeros[Minus(v, r.p)] ELSE vox[v]]
    BY <1>1, <1>2, <1>3, RegionWrite DEF CacheInv
  <1>5. \A v \in InputVoxels \ given' : /\ v \in Voxels /\ v \notin given /\ v \notin Whole(r)
                                        /\ vox'[v] = vox[v]
    <2>1. \A v \in Voxels : v \in Whole(r) <=> InRoi(v, r.p, r.q)
      BY <1>2, RegionInImage
    <2> QED BY <1>1, <1>4, <2>1, ImageMember
  (* A touched block is written in part.                                  *)
  <1>6. ASSUME NEW v \in InputVoxels \ given', NEW c, c = blockGivenCoordinateP(v), c \in touched
        PROVE  /\ ~CoversBlock(c, r.p, r.q)
               /\ N = 1 \/ v \in missed'
               /\ N = 1 /\ ~Cut(c) =>
                     \/ c \in Stored /\ ~blocks_[c].isDirty_ /\ ~blocks_'[c].isDirty_
                     \/ blocks_'[c].isDirty_ /\ isDirtySlice(blocks_'[c], 0, pBlock(v)[0])
    <2>1. v \in Voxels /\ v \notin given /\ v \notin Whole(r)
      BY <1>5, <1>6
    <2>2. ~CoversBlock(c, r.p, r.q)
      BY <1>2, <1>6, <2>1, CoveredVoxels DEF touched
    <2>3. N = 1 \/ v \in missed'
      BY <1>1, <1>6, <2>1, <2>2 DEF Shadowed, Partly, touched
    <2>4. CASE c \in Stored /\ ~blocks_[c].isDirty_
      <3>1. PICK y \in Block : /\ SameDirt(y, BlockOrNew(c))
                               /\ blocks_'[c] = CleanWritten(y, WithinBlock(c, r.p, r.q).p,
                                                             WithinBlock(c, r.p, r.q).q)
        BY <1>2, <1>3, <1>4, <1>6, <2>2, WrittenDirt DEF CacheInv, touched
      <3>2. ~y.isDirty_
        BY <2>4, <3>1 DEF SameDirt, BlockOrNew
      <3> QED BY <2>2, <2>3, <2>4, <3>1, <3>2, CleaningOnlyCleans
    <2>5. CASE ~(c \in Stored /\ ~blocks_[c].isDirty_) /\ N = 1 /\ ~Cut(c)
      <3>1. blocks_'[c].isDirty_ /\ isDirtySlice(blocks_'[c], 0, pBlock(v)[0])
        BY <1>2, <1>3, <1>4, <1>6, <2>1, <2>5, PartialGift DEF CacheInv, touched
      <3> QED BY <2>2, <2>3, <3>1
    <2> QED BY <2>2, <2>3, <2>4, <2>5
  <1>7. ASSUME NEW c \in Stored', Cut(c) PROVE blocks_'[c].isDirty_
    BY <1>4, <1>7 DEF ArrayFits, BlocksInImage, LastDirty, Cut
  <1> HIDE DEF touched
  <1>8. CleanIsFresh'
    <2>1. ASSUME NEW v \in InputVoxels \ (given' \cup missed'),
                 NEW c, c = blockGivenCoordinateP(v),
                 c \in Stored', ~blocks_'[c].isDirty_
          PROVE  Fresh(vox'[v], v, Input[v], notices)
      <3>1. c \in Stored /\ ~blocks_[c].isDirty_
        <4>1. CASE c \in touched
          BY <1>6, <1>7, <2>1, <4>1
        <4>2. CASE c \notin touched
          BY <1>4, <2>1, <4>2
        <4> QED BY <4>1, <4>2
      <3>2. v \notin missed
        BY <1>1, <2>1
      <3> QED BY <1>5, <2>1, <3>1, <3>2 DEF CacheInv, CleanIsFresh
    <2> QED BY <1>1, <2>1 DEF CleanIsFresh
  <1>9. OnlyGivenIsCleaned'
    <2>1. ASSUME N = 1, NEW v \in InputVoxels \ given',
                 NEW c, c = blockGivenCoordinateP(v),
                 c \in Stored', ~Cut(c), blocks_'[c].isDirty_
          PROVE  isDirtySlice(blocks_'[c], 0, pBlock(v)[0])
      <3>1. CASE c \in touched
        BY <1>6, <2>1, <3>1
      <3>2. CASE c \notin touched
        BY <1>4, <1>5, <2>1, <3>2 DEF CacheInv, OnlyGivenIsCleaned
      <3> QED BY <3>1, <3>2
    <2> QED BY <2>1 DEF OnlyGivenIsCleaned
  <1>10. \A t \in Threads : RequestFits(t)'
    BY <1>1, AllUnmoved, NothingNew, Inside, OutsideLock DEF CacheInv
  <1>11. LockInv' /\ InputFits'
    BY <1>1, LockUntouched DEF CacheInv, threads, InputFits
  <1>12. StateFits'
    <2>1. given' \subseteq InputVoxels /\ missed' \subseteq InputVoxels
      BY <1>1, <1>2, RegionInImage DEF CacheInv, StateFits, Shadowed
    <2> QED BY <1>1, <2>1 DEF CacheInv, StateFits, PerThread, threads
  <1> QED BY <1>4, <1>8, <1>9, <1>10, <1>11, <1>12 DEF CacheInv

(* A new array has no blocks, so that nothing is clean.                    *)
LEMMA setupOutputsOK ==
    ASSUME CacheInv, NEW outcome \in SetupOutcomes, setupOutputs(outcome)
    PROVE  CacheInv'
  <1>1. /\ _lock = Free /\ UNCHANGED threads /\ UNCHANGED <<_fixed, notices>>
        /\ UNCHANGED Input /\ LockInv' /\ _lock' \in {Free, Setup}
    BY LockAfterSetup DEF CacheInv, setupOutputs
  <1>2. CASE outcome = "unsupported"
    <2>1. UNCHANGED <<b, history>>
      BY <1>2 DEF setupOutputs, b
    <2>3. ArrayFits' /\ InputFits'
      BY <1>1, <2>1, SameArrayFits DEF CacheInv, InputFits
    <2>4. StateFits'
      BY <1>1, <2>1 DEF CacheInv, StateFits, PerThread, threads, history
    <2>5. CleanIsFresh' /\ OnlyGivenIsCleaned'
      BY <1>1, <2>1, NothingNew, SameClean, SameCleaned DEF CacheInv, b
    <2>6. \A t \in Threads : RequestFits(t)'
      BY <1>1, AllUnmoved, NothingNew, Inside, OutsideLock DEF CacheInv
    <2> QED BY <1>1, <2>3, <2>4, <2>5, <2>6 DEF CacheInv
  <1>3. CASE outcome # "unsupported"
    <2>1. /\ blocks_' = Empty /\ vox' = [v \in Voxels |-> 0] /\ given' = {} /\ missed' = {}
          /\ UNCHANGED options /\ UNCHANGED tables /\ UNCHANGED status
      BY <1>3 DEF setupOutputs
    <2>2. Stored' = {}
      BY <2>1 DEF Stored, Empty
    <2>3. IInv'
      <3>1. OptionsFit' /\ BlocksFit'
        BY <2>1, <2>2 DEF CacheInv, ArrayFits, IInv, OptionsFit, BlocksFit, Empty
      <3>2. TablesFit'
        <4>1. minMaxTracking_ = FALSE /\ manageCoordinateLists_ = FALSE
          BY DEF CacheInv, ArrayFits, IInv, OptionsFit, options, Recomputes
        <4>2. /\ UNCHANGED <<minMaxTracking_, manageCoordinateLists_>>
              /\ UNCHANGED <<blockMinMax_, blockVoxelValues_>>
          BY <2>1 DEF options, tables
        <4> QED BY <4>1, <4>2 DEF CacheInv, ArrayFits, IInv, TablesFit
      <3>3. vox' \in [Voxels -> Value] /\ Contents'
        BY <2>1, <2>2, ValueAssumption DEF Contents
      <3>4. status' = "ok"
        BY <2>1 DEF CacheInv, ArrayFits, Defined
      <3> QED BY <3>1, <3>2, <3>3, <3>4 DEF IInv
    <2>4. ArrayFits'
      BY <2>1, <2>2, <2>3 DEF CacheInv, ArrayFits, Defined, Recomputes, options, BlocksInImage
    <2>5. InputFits'
      BY <1>1 DEF CacheInv, InputFits
    <2>6. StateFits'
      BY <1>1, <2>1 DEF CacheInv, StateFits, PerThread, threads
    <2>7. CleanIsFresh' /\ OnlyGivenIsCleaned'
      BY <2>2 DEF CleanIsFresh, OnlyGivenIsCleaned
    <2>8. \A t \in Threads : RequestFits(t)'
      BY <1>1, AllUnmoved, NothingNew, Inside, OutsideLock DEF CacheInv
    <2> QED BY <1>1, <2>4, <2>5, <2>6, <2>7, <2>8 DEF CacheInv
  <1> QED BY <1>2, <1>3

LEMMA setFixAtCurrentOK ==
    ASSUME CacheInv, NEW fix \in BOOLEAN, setFixAtCurrent(fix)
    PROVE  CacheInv'
  <1>1. /\ UNCHANGED <<b, threads, history, _lock>> /\ UNCHANGED <<Input, notices>>
        /\ _fixed' \in BOOLEAN
    BY DEF setFixAtCurrent
  <1>2. InputFits'
    BY <1>1 DEF CacheInv, InputFits
  <1> QED BY <1>1, <1>2, NothingNew, QuietStep

------------------------------------------------------------------------------
(* The steps of a request.                                                 *)

MovesOnly(t) == \A u \in Threads \ {t} : Unmoved(u)

(* A step of t that leaves the array and the Input alone.                  *)
LEMMA RequestStep ==
    ASSUME CacheInv, NEW t \in Threads, MovesOnly(t), RequestFits(t)',
           LockInv', StateFits', UNCHANGED <<b, Input, notices, history>>
    PROVE  CacheInv'
  <1>1. StillAnnounced /\ StillFresh
    BY NothingNew
  <1>2. ArrayFits' /\ InputFits'
    BY SameArrayFits DEF CacheInv, InputFits
  <1>3. CleanIsFresh' /\ OnlyGivenIsCleaned'
    BY <1>1, SameClean, SameCleaned DEF CacheInv, b
  <1>4. \A u \in Threads \ {t} : RequestFits(u)'
    BY <1>1, SameArray DEF CacheInv, MovesOnly, b
  <1> QED BY <1>2, <1>3, <1>4 DEF CacheInv

(* What downstream has been told of is announced.                          *)
LEMMA ToldIsAnnounced ==
    ASSUME InputFits
    PROVE  /\ DOMAIN Told = InputVoxels
           /\ \A v \in InputVoxels :
                 Announced(Told[v], v, notices) /\ Told[v] \in 0 .. MaxChanges
  <1>1. ASSUME NEW v \in InputVoxels
        PROVE  Announced(Told[v], v, notices) /\ Told[v] \in 0 .. MaxChanges
    <2> DEFINE told == {n \in DOMAIN notices : /\ notices[n].at = "told"
                                               /\ v \in Whole(notices[n].roi)}
               S    == {0} \cup told
    <2>1. DOMAIN notices = 1 .. Len(notices) /\ Len(notices) \in Nat /\ MaxChanges \in Nat
          /\ Len(notices) <= MaxChanges
      BY CacheAssumption DEF InputFits
    <2>2. S \subseteq 0 .. MaxChanges /\ S # {} /\ 0 \in Int /\ MaxChanges \in Int
      BY <2>1
    <2>3. Told[v] = SetMax(S)
      BY DEF Told
    <2> HIDE DEF S
    <2>4. \E m \in S : \A k \in S : k <= m
      BY <2>2, GreatestMember
    <2>5. SetMax(S) \in S
      BY <2>4 DEF SetMax
    <2>6. \A k \in S : Announced(k, v, notices)
      BY DEF S, Announced
    <2> QED BY <2>2, <2>3, <2>5, <2>6
  <1>2. DOMAIN Told = InputVoxels
    BY DEF Told
  <1> QED BY <1>1, <1>2

LEMMA executeOK ==
    ASSUME CacheInv, NEW t \in Threads, NEW r \in Wanted, execute(t, r)
    PROVE  CacheInv'
  <1>1. /\ pc[t] = "idle" /\ pc' = [pc EXCEPT ![t] = "acquire"]
        /\ roi' = [roi EXCEPT ![t] = r] /\ known' = [known EXCEPT ![t] = Told]
        /\ UNCHANGED <<b, Input, notices, history>> /\ UNCHANGED <<_lock, _fixed>>
        /\ UNCHANGED <<reqs, got, result, fetches>>
    BY DEF execute
  <1>2. LockInv'
    BY LockSteps DEF CacheInv
  <1>3. /\ StateFits' /\ MovesOnly(t)
        /\ pc'[t] = "acquire" /\ roi'[t] = r /\ known'[t] = Told
    BY <1>1 DEF CacheInv, LockInv, StateFits, PerThread, MovesOnly, Unmoved, history
  <1>4. AnswersFit(t) /\ InputFits
    BY DEF CacheInv, RequestFits
  <1>5. AnswersFit(t)'
    <2>1. reqs[t] = {} /\ got[t] = Empty
      BY <1>1, <1>4 DEF AnswersFit
    <2> QED BY <1>1, <1>3, <2>1 DEF AnswersFit, Empty
  <1>6. KnownFits(t)'
    <2>1. DOMAIN Told = InputVoxels
      BY <1>4, ToldIsAnnounced
    <2> HIDE DEF Told
    <2> QED BY <1>1, <1>3, <1>4, <2>1, ToldIsAnnounced DEF KnownFits
  <1>7. FilledIsFresh(t)' /\ ServedIsFresh(t)'
    BY <1>3 DEF FilledIsFresh, ServedIsFresh
  <1> QED BY <1>1, <1>2, <1>3, <1>5, <1>6, <1>7, RequestStep DEF RequestFits

(* The blocks that are not listed as dirty are fresh, hence newer than what*)
(* downstream knew.                                                        *)
LEMMA AcquireOK ==
    ASSUME CacheInv, NEW t \in Threads, Acquire(t)
    PROVE  CacheInv'
  <1> DEFINE listed == IF _fixed THEN {} ELSE DirtyBlocks(roi[t].p, roi[t].q)
  <1>1. /\ pc[t] = "acquire" /\ pc' = [pc EXCEPT ![t] = "fill"]
        /\ reqs' = [reqs EXCEPT ![t] = listed]
        /\ fetches' = [fetches EXCEPT ![t] = ~_fixed]
        /\ UNCHANGED <<b, Input, notices, history>> /\ UNCHANGED _fixed
        /\ UNCHANGED <<roi, got, result, known>>
        /\ _lock' = t
    BY DEF Acquire
  <1>2. LockInv'
    BY LockSteps DEF CacheInv, Request
  <1>3. /\ StateFits' /\ MovesOnly(t)
        /\ pc'[t] = "fill" /\ reqs'[t] = listed /\ fetches'[t] = ~_fixed
    BY <1>1 DEF CacheInv, LockInv, StateFits, PerThread, MovesOnly, Unmoved, history
  <1>4. AnswersFit(t) /\ KnownFits(t)
    BY DEF CacheInv, RequestFits
  <1>5. UNCHANGED blocks_ /\ UNCHANGED vox /\ Stored' = Stored
    BY <1>1 DEF b, Stored
  <1>6. listed \subseteq Stored
    BY DEF DirtyBlocks, Blocks
  <1>7. AnswersFit(t)'
    <2>1. got[t] = Empty
      BY <1>1, <1>4 DEF AnswersFit
    <2> HIDE DEF listed
    <2> QED BY <1>1, <1>3, <1>5, <1>6, <2>1 DEF AnswersFit, Empty
  <1>8. KnownFits(t)'
    BY <1>1, <1>4 DEF KnownFits
  <1>9. FilledIsFresh(t)'
    <2>1. ASSUME ~_fixed, NEW v \in InputVoxels \ (given \cup missed),
                 blockGivenCoordinateP(v) \in Stored \ listed
          PROVE  vox[v] > known[t][v]
      <3>1. ~blocks_[blockGivenCoordinateP(v)].isDirty_
        BY <2>1 DEF DirtyBlocks, Blocks
      <3>2. Fresh(vox[v], v, Input[v], notices)
        BY <2>1, <3>1 DEF CacheInv, CleanIsFresh
      <3>3. Announced(known[t][v], v, notices)
        BY <1>1, <1>4 DEF KnownFits
      <3> QED BY <3>2, <3>3, FreshIsNewer
    <2> HIDE DEF listed
    <2> QED BY <1>1, <1>3, <1>5, <2>1 DEF FilledIsFresh, history
  <1>10. ServedIsFresh(t)'
    BY <1>3 DEF ServedIsFresh
  <1> QED BY <1>1, <1>2, <1>3, <1>7, <1>8, <1>9, <1>10, RequestStep DEF RequestFits

LEMMA AnswerOK ==
    ASSUME CacheInv, NEW t \in Threads, NEW c \in Grid, Answer(t, c)
    PROVE  CacheInv'
  <1> DEFINE f    == Fetched(c)
             data == [v \in Box(Origin, Minus(f.q, f.p)) |-> Input[Plus(f.p, v)]]
             answers == [e \in DOMAIN got[t] \cup {c} |-> IF e = c THEN data ELSE got[t][e]]
  <1>1. /\ pc[t] = "fill" /\ c \in reqs[t] /\ got' = [got EXCEPT ![t] = answers]
        /\ UNCHANGED <<b, Input, notices, history>> /\ UNCHANGED <<_lock, _fixed>>
        /\ UNCHANGED <<pc, roi, reqs, result, fetches, known>>
    BY DEF Answer
  <1>2. LockInv'
    BY LockSteps DEF CacheInv, Request
  <1>3. StateFits' /\ MovesOnly(t) /\ got'[t] = answers
    <2> HIDE DEF answers
    <2> QED BY <1>1 DEF CacheInv, LockInv, StateFits, PerThread, MovesOnly, Unmoved, history
  <1>4. AnswersFit(t) /\ KnownFits(t) /\ FilledIsFresh(t) /\ ServedIsFresh(t) /\ InputFits
    BY DEF CacheInv, RequestFits
  <1>5. UNCHANGED blocks_ /\ UNCHANGED vox /\ Stored' = Stored
    BY <1>1 DEF b, Stored
  <1>6. /\ f \in Rois /\ \A d \in Dim : f.q[d] <= Shape[d]
        /\ \A v \in Voxels : v \in Whole(f) <=>
                                v \in InputVoxels /\ blockGivenCoordinateP(v) = c
    <2>1. c \in Stored
      BY <1>1, <1>4 DEF AnswersFit
    <2> QED BY <2>1, FetchedRegion DEF CacheInv, ArrayFits, BlocksInImage
  <1> HIDE DEF f
  <1>7. data \in [Box(Origin, Minus(f.q, f.p)) -> Value]
    <2>1. ASSUME NEW e \in Box(Origin, Minus(f.q, f.p)) PROVE Input[Plus(f.p, e)] \in Value
      <3>1. Plus(f.p, e) \in InputVoxels
        BY <1>6, EntryInImage
      <3>2. Input[Plus(f.p, e)] \in 1 .. MaxChanges + 1
        BY <1>4, <3>1 DEF InputFits, MaxValue
      <3> QED BY <3>2, CacheAssumption
    <2> QED BY <2>1
  <1>8. FreshAnswer(c, data)
    <2>1. ASSUME NEW v \in InputVoxels, blockGivenCoordinateP(v) = c
          PROVE  Fresh(data[Minus(v, f.p)], v, Input[v], notices)
      <3>1. v \in Whole(f)
        BY <1>6, <2>1, ImageMember
      <3>2. data[Minus(v, f.p)] = Input[v]
        BY <1>6, <3>1, RegionInImage
      <3> HIDE DEF data
      <3>3. /\ Input[v] \in Nat \ {0}
            /\ \A n \in DOMAIN notices : v \in Whole(notices[n].roi) => n < Input[v]
        BY <1>4, CacheAssumption DEF InputFits, MaxValue
      <3> QED BY <3>2, <3>3 DEF Fresh
    <2> HIDE DEF data
    <2> QED BY <2>1 DEF FreshAnswer, f
  <1> HIDE DEF data
  <1>9. /\ DOMAIN answers = DOMAIN got[t] \cup {c} /\ answers[c] = data
        /\ \A e \in DOMAIN got[t] : e # c => answers[e] = got[t][e]
    OBVIOUS
  <1> HIDE DEF answers
  <1>10. ASSUME NEW e \in DOMAIN answers
         PROVE  /\ answers[e] \in [Box(Origin, Minus(Fetched(e).q, Fetched(e).p)) -> Value]
                /\ e \in Grid /\ FreshAnswer(e, answers[e])
    <2>1. CASE e = c
      BY <1>7, <1>8, <1>9, <2>1 DEF f
    <2>2. CASE e # c
      BY <1>1, <1>4, <1>9, <2>2 DEF AnswersFit
    <2> QED BY <2>1, <2>2
  <1>11. AnswersFit(t)'
    <2>1. \A e, x : FreshAnswer(e, x) => FreshAnswer(e, x)'
      BY <1>1 DEF FreshAnswer
    <2> QED BY <1>1, <1>3, <1>4, <1>5, <1>10, <2>1 DEF AnswersFit
  <1>12. KnownFits(t)' /\ ServedIsFresh(t)'
    BY <1>1, <1>4 DEF KnownFits, ServedIsFresh
  <1>13. FilledIsFresh(t)'
    BY <1>1, <1>4, <1>5 DEF FilledIsFresh, history
  <1> QED BY <1>1, <1>2, <1>3, <1>11, <1>12, <1>13, RequestStep DEF RequestFits

LEMMA AnswerFailsOK ==
    ASSUME CacheInv, NEW t \in Threads, AnswerFails(t)
    PROVE  CacheInv'
  <1>1. /\ pc[t] = "fill" /\ pc' = [pc EXCEPT ![t] = "raised"]
        /\ UNCHANGED <<b, Input, notices, history>> /\ UNCHANGED <<_lock, _fixed>>
        /\ UNCHANGED <<roi, reqs, got, result, fetches, known>>
    BY DEF AnswerFails
  <1>2. LockInv'
    BY LockSteps DEF CacheInv
  <1>3. StateFits' /\ MovesOnly(t) /\ pc'[t] = "raised"
    BY <1>1 DEF CacheInv, LockInv, StateFits, PerThread, MovesOnly, Unmoved, history
  <1>4. UNCHANGED blocks_ /\ Stored' = Stored
    BY <1>1 DEF b, Stored
  <1>5. RequestFits(t)'
    BY <1>1, <1>3, <1>4
       DEF CacheInv, RequestFits, AnswersFit, KnownFits, FilledIsFresh, ServedIsFresh
  <1> QED BY <1>1, <1>2, <1>3, <1>5, RequestStep

(* The block written back holds the answer, which is fresh.                *)
LEMMA WriteBackOK ==
    ASSUME CacheInv, NEW t \in Threads, WriteBack(t)
    PROVE  CacheInv'
  <1> DEFINE first == CHOOSE e \in reqs[t] : \A f \in reqs[t] \ {e} : Before(e, f)
             r     == Fetched(first)
  <1>1. /\ pc[t] = "fill" /\ reqs[t] # {} /\ reqs[t] \subseteq DOMAIN got[t]
        /\ writeSubarray(r.p, r.q, got[t][first])
        /\ reqs' = [reqs EXCEPT ![t] = @ \ {first}]
        /\ given' = given \ Whole(r) /\ missed' = missed \ Whole(r)
        /\ UNCHANGED <<Input, notices>> /\ UNCHANGED <<_lock, _fixed>>
        /\ UNCHANGED <<pc, roi, got, result, fetches, known>>
    BY DEF WriteBack
  <1>2. AnswersFit(t) /\ KnownFits(t) /\ FilledIsFresh(t) /\ InputFits /\ BlocksFit
    BY DEF CacheInv, RequestFits, ArrayFits, IInv
  <1>3. first \in reqs[t]
    <2>1. reqs[t] \subseteq Vectors
      BY <1>2, GridMember DEF AnswersFit, BlocksFit
    <2>2. \E e \in reqs[t] : \A f \in reqs[t] \ {e} : Before(e, f)
      BY <1>1, <2>1, FirstInOrder
    <2> QED BY <2>2
  <1> HIDE DEF first
  <1> DEFINE data == got[t][first]
  <1>4. /\ first \in Grid /\ first \in Stored
        /\ data \in [Box(Origin, Minus(r.q, r.p)) -> Value] /\ FreshAnswer(first, data)
    BY <1>1, <1>2, <1>3 DEF AnswersFit
  <1>5. /\ r \in Rois /\ \A d \in Dim : r.q[d] <= Shape[d]
        /\ BlocksInRange(r.p, r.q) = {first}
        /\ CoversBlock(first, r.p, r.q) \/ Cut(first)
        /\ \A v \in Voxels : v \in Whole(r) <=>
                                v \in InputVoxels /\ blockGivenCoordinateP(v) = first
    BY <1>4, FetchedRegion DEF CacheInv, ArrayFits, BlocksInImage
  <1> HIDE DEF data
  <1>6. /\ ArrayFits' /\ Stored' = Stored
        /\ blocks_'[first] = WrittenBlock(first, r.p, r.q, data)
        /\ \A c \in Stored \ {first} : blocks_'[c] = blocks_[c]
        /\ vox' = [v \in Voxels |-> IF InRoi(v, r.p, r.q) THEN data[Minus(v, r.p)] ELSE vox[v]]
    <2> HIDE DEF r
    <2>1. writeSubarray(r.p, r.q, data)
      BY <1>1 DEF data
    <2>2. /\ ArrayFits' /\ Stored' = Stored \cup BlocksInRange(r.p, r.q)
          /\ \A c \in BlocksInRange(r.p, r.q) : blocks_'[c] = WrittenBlock(c, r.p, r.q, data)
          /\ \A c \in Stored \ BlocksInRange(r.p, r.q) : blocks_'[c] = blocks_[c]
          /\ vox' = [v \in Voxels |-> IF InRoi(v, r.p, r.q) THEN data[Minus(v, r.p)] ELSE vox[v]]
      BY <1>4, <1>5, <2>1, RegionWrite DEF CacheInv
    <2>3. Stored \cup {first} = Stored
      BY <1>4
    <2> QED BY <1>5, <2>2, <2>3
  <1>7. ASSUME NEW v \in InputVoxels
        PROVE  /\ v \in Whole(r) <=> blockGivenCoordinateP(v) = first
               /\ blockGivenCoordinateP(v) = first => Fresh(vox'[v], v, Input[v], notices)
               /\ blockGivenCoordinateP(v) # first => vox'[v] = vox[v]
    <2>1. v \in Voxels
      BY ImageMember
    <2>2. /\ v \in Whole(r) <=> blockGivenCoordinateP(v) = first
          /\ v \in Whole(r) <=> InRoi(v, r.p, r.q)
      BY <1>5, <2>1, RegionInImage
    <2>3. ASSUME blockGivenCoordinateP(v) = first
          PROVE  Fresh(vox'[v], v, Input[v], notices)
      <3>1. Fresh(data[Minus(v, r.p)], v, Input[v], notices)
        BY <1>4, <2>3 DEF FreshAnswer
      <3>2. vox'[v] = data[Minus(v, r.p)]
        BY <1>6, <2>1, <2>2, <2>3
      <3> QED BY <3>1, <3>2
    <2> QED BY <1>6, <2>1, <2>2, <2>3
  <1>8. Cut(first) \/ ~blocks_'[first].isDirty_
    <2> HIDE DEF r
    <2> QED BY <1>4, <1>5, <1>6, WrittenDirt DEF CacheInv
  <1> HIDE DEF r
  <1>9. CleanIsFresh'
    <2>1. ASSUME NEW v \in InputVoxels \ (given' \cup missed'),
                 NEW c, c = blockGivenCoordinateP(v),
                 c \in Stored', ~blocks_'[c].isDirty_
          PROVE  Fresh(vox'[v], v, Input[v], notices)
      <3>1. CASE c = first
        BY <1>7, <2>1, <3>1
      <3>2. CASE c # first
        <4>1. /\ v \notin given \cup missed /\ vox'[v] = vox[v]
              /\ blocks_'[c] = blocks_[c] /\ c \in Stored
          BY <1>1, <1>6, <1>7, <2>1, <3>2
        <4> QED BY <2>1, <4>1 DEF CacheInv, CleanIsFresh
      <3> QED BY <3>1, <3>2
    <2> QED BY <1>1, <2>1 DEF CleanIsFresh
  <1>10. OnlyGivenIsCleaned'
    <2>1. ASSUME N = 1, NEW v \in InputVoxels \ given',
                 NEW c, c = blockGivenCoordinateP(v),
                 c \in Stored', ~Cut(c), blocks_'[c].isDirty_
          PROVE  isDirtySlice(blocks_'[c], 0, pBlock(v)[0])
      <3>1. c # first
        BY <1>8, <2>1
      <3>2. v \notin given /\ blocks_'[c] = blocks_[c] /\ c \in Stored
        BY <1>1, <1>6, <1>7, <2>1, <3>1
      <3> QED BY <2>1, <3>2 DEF CacheInv, OnlyGivenIsCleaned
    <2> QED BY <2>1 DEF OnlyGivenIsCleaned
  <1>11. LockInv'
    BY LockSteps DEF CacheInv, Request
  <1>12. StateFits' /\ MovesOnly(t) /\ reqs'[t] = reqs[t] \ {first}
    BY <1>1 DEF CacheInv, LockInv, StateFits, PerThread, MovesOnly, Unmoved, history
  <1>13. ASSUME NEW u \in Threads \ {t} PROVE RequestFits(u)'
    BY <1>1, <1>12, NothingNew, Inside, OutsideLock DEF CacheInv, MovesOnly
  <1>14. AnswersFit(t)'
    <2>1. \A c, x : FreshAnswer(c, x) => FreshAnswer(c, x)'
      BY <1>1 DEF FreshAnswer
    <2> QED BY <1>1, <1>2, <1>6, <1>12, <2>1 DEF AnswersFit
  <1>15. KnownFits(t)'
    BY <1>1, <1>2 DEF KnownFits
  <1>16. FilledIsFresh(t)'
    <2>1. ASSUME fetches[t], NEW v \in InputVoxels \ (given' \cup missed'),
                 blockGivenCoordinateP(v) \in Stored \ (reqs[t] \ {first})
          PROVE  vox'[v] > known[t][v]
      <3>1. CASE blockGivenCoordinateP(v) = first
        <4>1. Fresh(vox'[v], v, Input[v], notices) /\ Announced(known[t][v], v, notices)
          BY <1>1, <1>2, <1>7, <3>1 DEF KnownFits
        <4> QED BY <4>1, FreshIsNewer
      <3>2. CASE blockGivenCoordinateP(v) # first
        <4>1. v \notin given \cup missed /\ vox'[v] = vox[v]
          BY <1>1, <1>7, <3>2
        <4> QED BY <1>1, <1>2, <2>1, <3>2, <4>1 DEF FilledIsFresh
      <3> QED BY <3>1, <3>2
    <2> QED BY <1>1, <1>6, <1>12, <2>1 DEF FilledIsFresh
  <1>17. ServedIsFresh(t)'
    BY <1>1 DEF ServedIsFresh
  <1>18. RequestFits(t)' /\ InputFits'
    BY <1>1, <1>2, <1>14, <1>15, <1>16, <1>17 DEF RequestFits, InputFits
  <1> QED BY <1>6, <1>9, <1>10, <1>11, <1>12, <1>13, <1>18 DEF CacheInv

(* An entry of what a request for r returns.                               *)
LEMMA ServedEntry ==
    ASSUME ArrayFits, NEW r \in Rois, \A d \in Dim : r.q[d] <= Shape[d], NEW v \in Whole(r)
    PROVE  v \in InputVoxels /\ ReadSubarray(r.p, r.q)[Minus(v, r.p)] = vox[v]
  <1>1. /\ v \in InputVoxels /\ Minus(v, r.p) \in Box(Origin, Minus(r.q, r.p))
        /\ Plus(r.p, Minus(v, r.p)) = v
    BY RegionInImage
  <1>2. ReadSubarray(r.p, r.q)[Minus(v, r.p)] = vox[Plus(r.p, Minus(v, r.p))]
    BY <1>1, EntryOfRegion DEF ArrayFits
  <1> QED BY <1>1, <1>2

(* Nothing is left to fill, so that all of the answer is fresh.            *)
LEMMA ReturnOK ==
    ASSUME CacheInv, NEW t \in Threads, Return(t)
    PROVE  CacheInv'
  <1> DEFINE r    == roi[t]
             data == ReadSubarray(r.p, r.q)
             told == [v \in Cached(r) |-> known[t][v]]
  <1>1. /\ pc[t] = "fill" /\ reqs[t] = {}
        /\ result' = [result EXCEPT ![t] = data]
        /\ known' = [known EXCEPT ![t] = told]
        /\ pc' = [pc EXCEPT ![t] = "done"] /\ got' = [got EXCEPT ![t] = Empty]
        /\ UNCHANGED <<b, Input, notices, history>> /\ UNCHANGED _fixed
        /\ UNCHANGED <<roi, reqs, fetches>> /\ _lock' = Free
    BY DEF Return
  <1>2. LockInv'
    BY LockSteps DEF CacheInv, Request
  <1>3. /\ StateFits' /\ MovesOnly(t) /\ pc'[t] = "done" /\ got'[t] = Empty
        /\ result'[t] = data /\ known'[t] = told
    <2> HIDE DEF data, told
    <2> QED BY <1>1 DEF CacheInv, LockInv, StateFits, PerThread, MovesOnly, Unmoved, history
  <1>4. KnownFits(t) /\ FilledIsFresh(t) /\ ArrayFits /\ InputFits
    BY DEF CacheInv, RequestFits
  <1>5. r \in Rois /\ \A d \in Dim : r.q[d] <= Shape[d]
    BY <1>1, <1>4, WithinShape DEF KnownFits
  <1> HIDE DEF r
  <1>6. ASSUME NEW v \in Cached(r)
        PROVE  /\ v \in InputVoxels /\ data[Minus(v, r.p)] = vox[v]
               /\ known[t][v] \in 0 .. MaxChanges
               /\ fetches[t] => vox[v] > known[t][v]
    <2>1. v \in Whole(r) \ (given \cup missed) /\ blockGivenCoordinateP(v) \in Stored
      BY DEF Cached
    <2>2. v \in InputVoxels /\ data[Minus(v, r.p)] = vox[v]
      BY <1>4, <1>5, <2>1, ServedEntry
    <2>3. known[t][v] \in 0 .. MaxChanges
      <3>1. Announced(known[t][v], v, notices)
        BY <1>1, <1>4, <2>2 DEF KnownFits
      <3>2. DOMAIN notices = 1 .. Len(notices) /\ Len(notices) \in Nat /\ MaxChanges \in Nat
            /\ Len(notices) <= MaxChanges
        BY <1>4, CacheAssumption DEF InputFits
      <3> QED BY <3>1, <3>2 DEF Announced
    <2>4. fetches[t] => vox[v] > known[t][v]
      BY <1>1, <1>4, <2>1, <2>2 DEF FilledIsFresh
    <2> QED BY <2>2, <2>3, <2>4
  <1>7. DOMAIN told = Cached(r) /\ \A v \in Cached(r) : told[v] = known[t][v]
    OBVIOUS
  <1> HIDE DEF told, data
  <1>8. AnswersFit(t)'
    BY <1>1, <1>3 DEF AnswersFit, Empty
  <1>9. KnownFits(t)'
    BY <1>3, <1>6, <1>7 DEF KnownFits
  <1>10. FilledIsFresh(t)'
    BY <1>3 DEF FilledIsFresh
  <1>11. ServedIsFresh(t)'
    BY <1>1, <1>3, <1>6, <1>7 DEF ServedIsFresh, r
  <1> QED BY <1>1, <1>2, <1>3, <1>8, <1>9, <1>10, <1>11, RequestStep DEF RequestFits

------------------------------------------------------------------------------
LEMMA CacheInitInv == CacheInit => CacheInv
  <1> SUFFICES ASSUME CacheInit PROVE CacheInv
    OBVIOUS
  <1>1. Stored = {}
    BY DEF CacheInit, Init, Stored, Empty
  <1>2. LockInv
    BY LockStarts
  <1>3. StateFits
    BY DEF CacheInit, StateFits, PerThread
  <1>4. ArrayFits
    BY <1>1, InitIInv DEF CacheInit, ArrayFits, Init, Defined, Recomputes, BlocksInImage
  <1>5. InputFits
    BY CacheAssumption DEF CacheInit, InputFits, MaxValue
  <1>6. CleanIsFresh /\ OnlyGivenIsCleaned
    BY <1>1 DEF CleanIsFresh, OnlyGivenIsCleaned
  <1>7. \A t \in Threads : RequestFits(t)
    BY DEF CacheInit, Empty, RequestFits, AnswersFit, KnownFits, FilledIsFresh, ServedIsFresh
  <1> QED BY <1>2, <1>3, <1>4, <1>5, <1>6, <1>7 DEF CacheInv

LEMMA CacheNextInv == CacheInv /\ [CacheNext]_cacheVars => CacheInv'
  <1> SUFFICES ASSUME CacheInv, [CacheNext]_cacheVars PROVE CacheInv'
    OBVIOUS
  <1>1. ASSUME NEW outcome \in SetupOutcomes, setupOutputs(outcome) PROVE CacheInv'
    BY <1>1, setupOutputsOK
  <1>2. ASSUME NEW fix \in BOOLEAN, setFixAtCurrent(fix) PROVE CacheInv'
    BY <1>2, setFixAtCurrentOK
  <1>3. ASSUME NEW r \in Given, setInSlot(r) PROVE CacheInv'
    BY <1>3, setInSlotOK
  <1>4. ASSUME NEW r \in Changes, ChangeInput(r) PROVE CacheInv'
    BY <1>4, ChangeInputOK
  <1>5. ASSUME NEW n \in DOMAIN notices, Notify(n) PROVE CacheInv'
    BY <1>5, MarkOK, TellOK DEF Notify
  <1>6. ASSUME NEW t \in Threads, Request(t) PROVE CacheInv'
    BY <1>6, AcquireOK, AnswerOK, WriteBackOK, ReturnOK DEF Request
  <1>7. ASSUME NEW t \in Threads, AnswerFails(t) PROVE CacheInv'
    BY <1>7, AnswerFailsOK
  <1>8. ASSUME NEW t \in Threads, NEW r \in Wanted, execute(t, r) PROVE CacheInv'
    BY <1>8, executeOK
  <1>9. CASE UNCHANGED cacheVars
    <2>1. /\ UNCHANGED <<b, threads, history, _lock>> /\ UNCHANGED <<Input, notices>>
          /\ UNCHANGED _fixed
      BY <1>9 DEF cacheVars
    <2> QED BY <2>1, NothingNew, QuietStep DEF CacheInv, InputFits, StateFits
  <1> QED BY <1>1, <1>2, <1>3, <1>4, <1>5, <1>6, <1>7, <1>8, <1>9 DEF CacheNext

(* The array, the answers that requests hold and the history fit together  *)
(* in every state, for any number of threads, changes and gifts.           *)
THEOREM CacheInvariance == CacheSpec => []CacheInv
  <1>1. CacheInit => CacheInv
    BY CacheInitInv
  <1>2. CacheInv /\ [CacheNext]_cacheVars => CacheInv'
    BY CacheNextInv
  <1> QED BY <1>1, <1>2, PTL DEF CacheSpec

(* The types of the operator's members.                                    *)
THEOREM CacheTypesCorrect == CacheSpec => []CacheTypeOK
  <1>1. ASSUME CacheInv PROVE CacheTypeOK
    <2>1. /\ Stored \subseteq Grid /\ blocks_ \in [Stored -> Block] /\ status = "ok"
      BY <1>1 DEF CacheInv, ArrayFits, IInv, BlocksFit, Defined
    <2>2. \A n \in DOMAIN notices : notices[n] \in Notice
      BY <1>1 DEF CacheInv, InputFits
    <2>3. ASSUME NEW t \in Threads
          PROVE  /\ reqs[t] \subseteq Stored /\ DOMAIN got[t] \subseteq Grid
                 /\ DOMAIN known[t] \subseteq InputVoxels
                 /\ \A v \in DOMAIN known[t] : known[t][v] \in 0 .. MaxChanges
      BY <1>1 DEF CacheInv, RequestFits, AnswersFit, KnownFits
    <2> QED BY <1>1, <2>1, <2>2, <2>3
            DEF CacheTypeOK, CacheInv, LockInv, StateFits, InputFits, Notice
  <1> QED BY <1>1, CacheInvariance, PTL

(* No change is lost, whatever requests are waiting for older data when it *)
(* arrives: a block is clean only while its data are current, or given, or *)
(* about to be marked, whatever the regions of changes and gifts and where *)
(* the image cuts its blocks.  Only voxels whose mark Array does not report*)
(* (missed) are left out, until their block is fetched again.              *)
THEOREM NoChangeIsLost == CacheSpec => []CleanIsCurrent
  <1>1. ASSUME CacheInv PROVE CleanIsCurrent
    <2>1. ASSUME NEW v \in InputVoxels \ (given \cup missed),
                 NEW c, c = blockGivenCoordinateP(v),
                 c \in Stored, ~blocks_[c].isDirty_
          PROVE  \/ \E n \in DOMAIN notices :
                       notices[n].at = "mark" /\ v \in Whole(notices[n].roi)
                 \/ At(v) = Input[v]
      <3>1. Fresh(vox[v], v, Input[v], notices)
        BY <1>1, <2>1 DEF CacheInv, CleanIsFresh
      <3>2. At(v) = vox[v]
        BY <1>1, <2>1, ImageMember, EntryOfVoxel DEF CacheInv, ArrayFits
      <3> QED BY <3>1, <3>2 DEF Fresh
    <2> QED BY <2>1 DEF CleanIsCurrent
  <1> QED BY <1>1, CacheInvariance, PTL

(* A request never returns data older than a change that downstream had    *)
(* been told of when it asked, unless the state is fixed: any regions, any *)
(* blocks, except for given voxels and those whose mark is missed.         *)
THEOREM AnswersAreFresh == CacheSpec => []NoOlderThanTold
  <1>1. CacheInv => NoOlderThanTold
    BY DEF CacheInv, RequestFits, ServedIsFresh, NoOlderThanTold
  <1> QED BY <1>1, CacheInvariance, PTL
==============================================================================
