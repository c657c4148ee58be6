--------------------------- MODULE RwIteratorProofs ---------------------------
(***************************************************************************)
(* The enumeration of blocks and the visits of an iterator, for any number *)
(* of dimensions, any block shape and any region.                          *)
(***************************************************************************)
EXTENDS RwIterator, BlockGeometryProofs

------------------------------------------------------------------------------
(* The blocks in range are those that share a voxel with the region.       *)

Touched == {c \in Box(Origin, q) : Hull(c) \cap Box(p, q) # {}}
InRange == BlocksInRange(p, q)

LEMMA HullMember ==
    ASSUME NEW c \in Vectors, NEW v
    PROVE  v \in Hull(c) <=> /\ v \in IntVectors
                             /\ \A d \in Dim : /\ BlockShape[d] * c[d] <= v[d]
                                               /\ v[d] < BlockShape[d] * (c[d] + 1)
  <1> DEFINE b == blockBounds(c)
  <1>1. b.p \in IntVectors /\ b.q \in IntVectors
    <2>1. ASSUME NEW d \in Dim
          PROVE  BlockShape[d] * c[d] \in Int /\ BlockShape[d] * (c[d] + 1) \in Int
      <3>1. BlockShape[d] \in Nat \ {0} /\ c[d] \in Int /\ c[d] + 1 \in Int
        BY ShapeType DEF Vectors
      <3> QED BY <3>1, MulMono
    <2> QED BY <2>1 DEF blockBounds, IntVectors
  <1>2. v \in Hull(c) <=> v \in IntVectors /\ InRoi(v, b.p, b.q)
    <2> HIDE DEF b
    <2> QED BY <1>1, BoxMember DEF Hull, b
  <1> QED BY <1>2 DEF InRoi, blockBounds

LEMMA TouchedInRange ==
    ASSUME IsRegion(p, q)
    PROVE  Touched = InRange
  <1>1. p \in IntVectors /\ q \in IntVectors /\ Origin \in IntVectors
    BY ShapeType DEF IsRegion
  <1>2. ASSUME NEW c \in Touched PROVE c \in InRange
    <2>1. c \in IntVectors /\ InRoi(c, Origin, q)
      BY <1>1, BoxMember DEF Touched
    <2>2. c \in Vectors
      BY <2>1, ShapeType DEF InRoi, Vectors, IntVectors
    <2>3. PICK v : v \in Hull(c) /\ v \in Box(p, q)
      BY DEF Touched
    <2>4. v \in IntVectors /\ InRoi(v, p, q)
      BY <1>1, <2>3, BoxMember
    <2>5. ASSUME NEW d \in Dim
          PROVE  BlockShape[d] * c[d] < q[d] /\ p[d] < BlockShape[d] * (c[d] + 1)
      <3>1. /\ BlockShape[d] * c[d] <= v[d] /\ v[d] < BlockShape[d] * (c[d] + 1)
            /\ p[d] <= v[d] /\ v[d] < q[d]
        BY <2>2, <2>3, <2>4, HullMember DEF InRoi
      <3>2. BlockShape[d] \in Nat \ {0} /\ c[d] \in Int /\ c[d] + 1 \in Int
        BY <2>2, ShapeType DEF Vectors
      <3>3. BlockShape[d] * c[d] \in Int /\ BlockShape[d] * (c[d] + 1) \in Int
        BY <3>2, MulMono
      <3>4. v[d] \in Int /\ p[d] \in Int /\ q[d] \in Int
        BY <1>1, <2>4 DEF IntVectors
      <3> DEFINE low == BlockShape[d] * c[d]
                 high == BlockShape[d] * (c[d] + 1)
      <3> HIDE DEF low, high
      <3>5. low \in Int /\ high \in Int /\ low <= v[d] /\ v[d] < high
        BY <3>1, <3>3 DEF low, high
      <3>6. low < q[d] /\ p[d] < high
        BY <3>1, <3>4, <3>5
      <3> QED BY <3>6 DEF low, high
    <2> QED BY <2>2, <2>5, VisitedBlocks DEF InRange
  <1>3. ASSUME NEW c \in InRange PROVE c \in Touched
    <2>1. /\ c \in Vectors
          /\ \A d \in Dim : BlockShape[d] * c[d] < q[d]
      BY VisitedBlocks DEF InRange
    <2>2. c \in Box(Origin, q)
      <3>1. ASSUME NEW d \in Dim PROVE 0 <= c[d] /\ c[d] < q[d]
        <4>1. BlockShape[d] \in Nat \ {0} /\ c[d] \in Nat /\ q[d] \in Int
          BY <1>1, <2>1, ShapeType DEF Vectors, IntVectors
        <4>2. c[d] <= BlockShape[d] * c[d] /\ BlockShape[d] * c[d] \in Int
          BY <4>1, SMT
        <4>3. BlockShape[d] * c[d] < q[d]
          BY <2>1
        <4> DEFINE low == BlockShape[d] * c[d]
        <4> HIDE DEF low
        <4>4. low \in Int /\ c[d] <= low /\ low < q[d]
          BY <4>2, <4>3 DEF low
        <4> QED BY <4>1, <4>4
      <3>2. InRoi(c, Origin, q)
        BY <3>1, ShapeType DEF InRoi
      <3> QED BY <1>1, <2>1, <3>2, BoxMember, ShapeType
    <2>3. PICK cell \in Cell : InRoi(Voxel(c, cell), p, q)
      BY VisitComplete DEF InRange
    <2> DEFINE v == Voxel(c, cell)
    <2>4. v \in Vectors
      BY <2>1, VoxelOfCell
    <2>5. v \in Box(p, q)
      BY <1>1, <2>3, <2>4, BoxMember, ShapeType
    <2>6. v \in Hull(c)
      <3>1. ASSUME NEW d \in Dim
            PROVE  /\ BlockShape[d] * c[d] <= v[d]
                   /\ v[d] < BlockShape[d] * (c[d] + 1)
        <4>1. /\ BlockShape[d] \in Nat \ {0} /\ c[d] \in Int
              /\ cell[d] \in Nat /\ cell[d] < BlockShape[d]
          BY <2>1, CellMember, ShapeType DEF Vectors
        <4>2. v[d] = BlockShape[d] * c[d] + cell[d]
          BY DEF Voxel, Plus, blockBounds
        <4>3. /\ BlockShape[d] * c[d] \in Int
              /\ BlockShape[d] * (c[d] + 1) = BlockShape[d] * c[d] + BlockShape[d]
          BY <4>1, MulMono
        <4> DEFINE low == BlockShape[d] * c[d]
        <4> HIDE DEF low, v
        <4>4. /\ low \in Int /\ v[d] = low + cell[d]
              /\ BlockShape[d] * (c[d] + 1) = low + BlockShape[d]
          BY <4>2, <4>3 DEF low
        <4>5. low <= v[d] /\ v[d] < low + BlockShape[d]
          BY <4>1, <4>4
        <4> QED BY <4>4, <4>5 DEF low
      <3> QED BY <2>1, <2>4, <3>1, HullMember, ShapeType
    <2> QED BY <2>2, <2>5, <2>6 DEF Touched
  <1> QED BY <1>2, <1>3

------------------------------------------------------------------------------
(* The constructor is the odometer loop; behind it stands the current      *)
(* block.                                                                  *)

(* The members that compute() sets are those of the current block.         *)
Current ==
    /\ blockCoord \in InRange
    /\ withinBlock = WithinBlock(blockCoord, p, q)
    /\ read = ReadRoi(blockCoord, p, q)

IInv ==
    /\ p \in Corners /\ q \in Corners /\ IsRegion(p, q)
    /\ blockList_ \in Seq(InRange) /\ blockList_ # <<>> /\ Ascending(blockList_)
    /\ x \in InRange /\ dim \in -1 .. N - 1
    /\ \/ /\ pc = "enumerate" /\ Odometer(p, q, x, dim, blockList_)
          /\ it_ = 1 /\ blockCoord = Origin /\ withinBlock = EmptyRoi /\ read = EmptyRoi
       \/ /\ pc \in {"iterate", "done"} /\ InRange \subseteq Listed /\ Current
          /\ it_ \in 1 .. Len(blockList_) + 1
          /\ pc = "iterate" => it_ <= Len(blockList_)

LEMMA IInvStarts == Init => IInv
  <1> SUFFICES ASSUME Init PROVE IInv
    OBVIOUS
  <1>1. IsRegion(p, q)
    BY CornersAssumption DEF Init, IsRegion
  <1>2. Odometer(p, q, x, dim, blockList_)
    BY <1>1, OdometerStarts DEF Init, blockP
  <1> QED BY <1>1, <1>2 DEF Init, IInv, Odometer, InRange

------------------------------------------------------------------------------
(* One lemma for each step.                                                *)

LEMMA LatestListed ==
    ASSUME IInv
    PROVE  /\ Len(blockList_) \in Nat \ {0} /\ DOMAIN blockList_ = 1 .. Len(blockList_)
           /\ Listed \subseteq InRange
           /\ \A i \in DOMAIN blockList_ : blockList_[i] \in InRange
           /\ InRange \subseteq Vectors
  <1>1. IsRegion(p, q) /\ blockList_ \in Seq(InRange) /\ blockList_ # <<>>
    BY DEF IInv
  <1>2. /\ Len(blockList_) \in Nat \ {0} /\ DOMAIN blockList_ = 1 .. Len(blockList_)
        /\ \A i \in DOMAIN blockList_ : blockList_[i] \in InRange
    BY <1>1
  <1>3. InRange \subseteq Vectors
    BY <1>1, RangeMember DEF InRange
  <1> QED BY <1>2, <1>3 DEF Listed

LEMMA CarryOK ==
    ASSUME IInv, Carry
    PROVE  IInv'
  <1>1. UNCHANGED <<p, q, blockList_, it_, blockCoord, withinBlock, read, pc>>
    BY DEF Carry
  <1>2. InRange' = InRange /\ IsRegion(p, q)'
    BY <1>1 DEF InRange, IInv
  <1>3. Odometer(p, q, x, dim, blockList_) /\ IsRegion(p, q)
    BY DEF Carry, IInv
  <1>4. Odometer(p, q, x', dim', blockList_)
    BY <1>3, OdometerCarries DEF Carry, blockP, blockQ
  <1>5. Odometer(p, q, x, dim, blockList_)'
    BY <1>1, <1>4
  <1>6. x' \in InRange' /\ dim' \in -1 .. N - 1
    BY <1>1, <1>2, <1>4 DEF Odometer, InRange
  <1> QED BY <1>1, <1>2, <1>5, <1>6 DEF IInv, Carry, EmptyRoi

LEMMA AdvanceOK ==
    ASSUME IInv, Advance
    PROVE  IInv'
  <1>1. UNCHANGED <<p, q, it_, blockCoord, withinBlock, read, pc>>
    BY DEF Advance
  <1>2. InRange' = InRange /\ IsRegion(p, q)'
    BY <1>1 DEF InRange, IInv
  <1>3. Odometer(p, q, x, dim, blockList_) /\ IsRegion(p, q)
    BY DEF Advance, IInv
  <1>4. Odometer(p, q, x', dim', blockList_')
    BY <1>3, OdometerAdvances DEF Advance, blockQ
  <1>5. Odometer(p, q, x, dim, blockList_)'
    BY <1>1, <1>4
  <1>6. /\ blockList_' \in Seq(InRange') /\ blockList_' # <<>> /\ Ascending(blockList_)'
        /\ x' \in InRange' /\ dim' \in -1 .. N - 1
    BY <1>1, <1>2, <1>4 DEF Odometer, InRange
  <1> QED BY <1>1, <1>2, <1>5, <1>6 DEF IInv, Advance, EmptyRoi

LEMMA BeginOK ==
    ASSUME IInv, Begin
    PROVE  IInv'
  <1>1. UNCHANGED <<p, q, x, dim, blockList_>> /\ it_' = 1 /\ pc' = "iterate"
    BY DEF Begin
  <1>2. /\ InRange' = InRange /\ Listed' = Listed /\ Ascending(blockList_)'
        /\ IsRegion(p, q)'
    BY <1>1 DEF InRange, Listed, IInv, Ascending
  <1>3. InRange \subseteq Listed
    <2>1. Odometer(p, q, x, dim, blockList_) /\ IsRegion(p, q) /\ dim < 0
      BY DEF Begin, IInv
    <2>2. Entries(blockList_) = BlocksInRange(p, q)
      BY <2>1, OdometerEnds
    <2> QED BY <2>2 DEF InRange, Listed, Entries
  <1>4. Current'
    <2>1. blockList_[1] \in InRange
      BY LatestListed
    <2> QED BY <1>1, <1>2, <2>1 DEF Begin, compute, Current
  <1>5. it_' \in 1 .. Len(blockList_') + 1 /\ it_' <= Len(blockList_')
    BY <1>1, LatestListed
  <1> QED BY <1>1, <1>2, <1>3, <1>4, <1>5 DEF IInv

LEMMA NextBlockOK ==
    ASSUME IInv, NextBlock
    PROVE  IInv'
  <1>1. UNCHANGED <<p, q, x, dim, blockList_>> /\ it_' = it_ + 1
    BY DEF NextBlock
  <1>2. /\ InRange' = InRange /\ Listed' = Listed /\ Ascending(blockList_)'
        /\ IsRegion(p, q)'
    BY <1>1 DEF InRange, Listed, Ascending, IInv
  <1>3. /\ pc = "iterate" /\ InRange \subseteq Listed /\ Current
        /\ it_ \in 1 .. Len(blockList_) /\ Len(blockList_) \in Nat
    BY LatestListed DEF NextBlock, IInv
  <1>4. it_' \in 1 .. Len(blockList_) + 1
    BY <1>1, <1>3
  <1>5. Current' /\ pc' \in {"iterate", "done"} /\ (pc' = "iterate" => it_' <= Len(blockList_))
    <2>1. CASE it_' <= Len(blockList_)
      <3>1. blockList_[it_'] \in InRange
        BY <1>4, <2>1, <1>3, LatestListed
      <3> QED BY <1>1, <1>2, <1>3, <2>1, <3>1 DEF NextBlock, compute, Current
    <2>2. CASE ~(it_' <= Len(blockList_))
      BY <1>1, <1>2, <1>3, <2>2 DEF NextBlock, Current
    <2> QED BY <2>1, <2>2
  <1> QED BY <1>1, <1>2, <1>3, <1>4, <1>5 DEF IInv

LEMMA IInvPreserved == IInv /\ [Next]_vars => IInv'
  <1> SUFFICES ASSUME IInv, [Next]_vars PROVE IInv'
    OBVIOUS
  <1>1. CASE UNCHANGED vars
    BY <1>1 DEF vars, IInv, IsRegion, InRange, Ascending, Odometer, Entries, Current, Listed,
                EmptyRoi
  <1> QED BY <1>1, CarryOK, AdvanceOK, BeginOK, NextBlockOK DEF Next

(* The odometer, the list and the current block fit together, always.      *)
THEOREM Invariance == Spec => []IInv
  BY IInvStarts, IInvPreserved, PTL DEF Spec

------------------------------------------------------------------------------
(* What follows from the invariant.                                        *)

(* The regions that compute() sets, dimension by dimension.                *)
LEMMA VisitedRois ==
    ASSUME NEW from, NEW to, IsRegion(from, to), NEW c \in BlocksInRange(from, to)
    PROVE  LET w == WithinBlock(c, from, to)
               r == ReadRoi(c, from, to)
               b == blockBounds(c)
           IN  /\ c \in Vectors /\ b.p \in Vectors
               /\ w.p \in Vectors /\ w.q \in Vectors /\ r.p \in Vectors
               /\ \A d \in Dim : w.q[d] = IF to[d] < b.p[d] + BlockShape[d]
                                         THEN to[d] - b.p[d] ELSE BlockShape[d]
               /\ r.q = Plus(r.p, Minus(w.q, w.p)) /\ Minus(r.q, r.p) = Minus(w.q, w.p)
               /\ Plus(from, r.p) = Voxel(c, w.p)
  <1> DEFINE w == WithinBlock(c, from, to)
             r == ReadRoi(c, from, to)
             b == blockBounds(c)
  <1>1. Minus(r.q, r.p) = Minus(w.q, w.p)
    BY SameShape
  <1>2. /\ c \in Vectors /\ b.p \in Vectors /\ b.q = Plus(b.p, BlockShape)
        /\ w.p \in Vectors /\ w.q \in Vectors
        /\ w.p = [d \in Dim |-> IF b.p[d] <= from[d] THEN from[d] - b.p[d] ELSE 0]
        /\ w.q = [d \in Dim |-> IF to[d] < b.q[d] THEN to[d] - b.p[d] ELSE BlockShape[d]]
        /\ r.p \in Vectors /\ r.q = Plus(r.p, Minus(w.q, w.p))
        /\ Plus(from, r.p) = Voxel(c, w.p)
    BY ComputedRois
  <1>3. \A d \in Dim : b.q[d] = b.p[d] + BlockShape[d]
    BY <1>2 DEF Plus
  <1> QED BY <1>1, <1>2, <1>3

LEMMA IInvTypes == IInv => TypeOK
  <1> SUFFICES ASSUME IInv PROVE TypeOK
    OBVIOUS
  <1>1. InRange \subseteq Vectors /\ Len(blockList_) \in Nat \ {0}
    BY LatestListed
  <1>2. x \in Vectors /\ blockList_ \in Seq(Vectors) /\ dim \in -1 .. N - 1
    BY <1>1 DEF IInv
  <1>3. Origin \in Vectors /\ EmptyRoi \in [p : Vectors, q : Vectors]
    BY ShapeType DEF EmptyRoi
  <1>4. ASSUME Current
        PROVE  /\ blockCoord \in Vectors
               /\ withinBlock \in [p : Vectors, q : Vectors]
               /\ read \in [p : Vectors, q : Vectors]
    <2> DEFINE w == WithinBlock(blockCoord, p, q)
               r == ReadRoi(blockCoord, p, q)
    <2>1. /\ blockCoord \in Vectors
          /\ w.p \in Vectors /\ w.q \in Vectors /\ r.p \in Vectors
          /\ r.q = Plus(r.p, Minus(w.q, w.p)) /\ Minus(r.q, r.p) = Minus(w.q, w.p)
      BY <1>4, VisitedRois DEF Current, IInv, InRange
    <2>2. w = [p |-> w.p, q |-> w.q] /\ r = [p |-> r.p, q |-> r.q]
      BY DEF WithinBlock, ReadRoi
    <2>3. r.q \in Vectors
      <3>1. \A d \in Dim : w.p[d] <= w.q[d]
        <4>1. PICK cell \in Cell : InRoi(Voxel(blockCoord, cell), p, q)
          BY <1>4, VisitComplete DEF Current, InRange, IInv
        <4>2. InRoi(cell, w.p, w.q)
          BY <1>4, <4>1, VisitExact DEF Current, InRange, IInv
        <4>3. \A d \in Dim : cell[d] \in Nat /\ w.p[d] \in Nat /\ w.q[d] \in Nat
          BY <2>1, CellMember DEF Vectors
        <4> HIDE DEF w
        <4> QED BY <4>2, <4>3 DEF InRoi
      <3>2. \A d \in Dim : r.p[d] + (w.q[d] - w.p[d]) \in Nat
        <4>1. \A d \in Dim : r.p[d] \in Nat /\ w.p[d] \in Nat /\ w.q[d] \in Nat
          BY <2>1 DEF Vectors
        <4> HIDE DEF w, r
        <4> QED BY <3>1, <4>1
      <3> HIDE DEF w, r
      <3> QED BY <2>1, <3>2 DEF Plus, Minus, Vectors
    <2> HIDE DEF w, r
    <2>4. w \in [p : Vectors, q : Vectors] /\ r \in [p : Vectors, q : Vectors]
      BY <2>1, <2>2, <2>3
    <2> QED BY <1>4, <2>1, <2>4 DEF Current, w, r
  <1>5. it_ \in 1 .. Len(blockList_) + 1
    BY <1>1 DEF IInv
  <1> QED BY <1>2, <1>3, <1>4, <1>5 DEF IInv, TypeOK

LEMMA IInvEnumerates == IInv => EnumerationExact
  <1> SUFFICES ASSUME IInv PROVE EnumerationExact
    OBVIOUS
  <1>1. Touched = InRange
    BY TouchedInRange DEF IInv
  <1>2. Listed \subseteq InRange /\ (pc # "enumerate" => Listed = InRange)
    BY LatestListed DEF IInv
  <1> QED BY <1>1, <1>2 DEF EnumerationExact, Touched, IInv, Ascending

LEMMA IInvAligns == IInv => ReadAligned
  <1> SUFFICES ASSUME IInv, pc # "enumerate" PROVE ReadAligned
    BY DEF ReadAligned
  <1> DEFINE w == withinBlock
             r == read
             c == blockCoord
  <1>1. c \in BlocksInRange(p, q) /\ w = WithinBlock(c, p, q) /\ r = ReadRoi(c, p, q)
    BY DEF IInv, Current, InRange
  <1>2. /\ Minus(r.q, r.p) = Minus(w.q, w.p) /\ Plus(p, r.p) = Voxel(c, w.p)
        /\ c \in Vectors /\ w.p \in Vectors /\ w.q \in Vectors /\ r.p \in Vectors
        /\ blockBounds(c).p \in Vectors
        /\ \A d \in Dim : w.q[d] = IF q[d] < blockBounds(c).p[d] + BlockShape[d]
                                  THEN q[d] - blockBounds(c).p[d] ELSE BlockShape[d]
        /\ r.q = Plus(r.p, Minus(w.q, w.p))
    BY <1>1, VisitedRois DEF IInv
  <1>3. ASSUME NEW d \in Dim PROVE r.q[d] <= q[d] - p[d]
    <2> DEFINE low == blockBounds(c).p
    <2>1. /\ p[d] \in Nat /\ q[d] \in Nat /\ low[d] \in Nat /\ BlockShape[d] \in Nat
          /\ w.p[d] \in Nat /\ w.q[d] \in Nat /\ r.p[d] \in Nat
      BY <1>2, ShapeType DEF IInv, IsRegion, Vectors
    <2>2. p[d] + r.p[d] = low[d] + w.p[d]
      BY <1>2 DEF Plus, Voxel
    <2>3. r.q[d] = r.p[d] + (w.q[d] - w.p[d])
      BY <1>2 DEF Plus, Minus
    <2>4. w.q[d] = IF q[d] < low[d] + BlockShape[d] THEN q[d] - low[d] ELSE BlockShape[d]
      BY <1>2
    <2> HIDE DEF low, w, r, c
    <2>5. low[d] + w.q[d] <= q[d]
      BY <2>1, <2>4
    <2> QED BY <2>1, <2>2, <2>3, <2>5
  <1> QED BY <1>2, <1>3 DEF ReadAligned

(* A voxel that a visit accesses lies in the block that is visited.        *)
LEMMA AccessedVoxels ==
    ASSUME IInv, NEW c \in InRange
    PROVE  /\ Accessed(c) \subseteq Box(p, q)
           /\ \A v \in Accessed(c) : blockGivenCoordinateP(v) = c
           /\ \A v \in Box(p, q) : blockGivenCoordinateP(v) = c => v \in Accessed(c)
  <1> DEFINE w == WithinBlock(c, p, q)
  <1>1. /\ c \in Vectors /\ w.p \in Vectors /\ w.q \in Vectors
        /\ \A d \in Dim : w.q[d] <= BlockShape[d]
    <2>1. /\ c \in Vectors /\ w.p \in Vectors /\ w.q \in Vectors
          /\ blockBounds(c).p \in Vectors
          /\ \A d \in Dim : w.q[d] = IF q[d] < blockBounds(c).p[d] + BlockShape[d]
                                    THEN q[d] - blockBounds(c).p[d] ELSE BlockShape[d]
      BY VisitedRois DEF IInv, InRange
    <2> DEFINE low == blockBounds(c).p
    <2>2. ASSUME NEW d \in Dim PROVE w.q[d] <= BlockShape[d]
      <3>1. low[d] \in Nat /\ q[d] \in Nat /\ BlockShape[d] \in Nat
        BY <2>1, ShapeType DEF IInv, IsRegion, Vectors
      <3>2. w.q[d] = IF q[d] < low[d] + BlockShape[d] THEN q[d] - low[d] ELSE BlockShape[d]
        BY <2>1
      <3> HIDE DEF low, w
      <3> QED BY <3>1, <3>2
    <2> QED BY <2>1, <2>2
  <1>2. p \in IntVectors /\ q \in IntVectors
    BY ShapeType DEF IInv, IsRegion
  <1>3. ASSUME NEW v \in Accessed(c)
        PROVE  v \in Box(p, q) /\ blockGivenCoordinateP(v) = c
    <2>1. PICK cell \in Box(w.p, w.q) : v = Voxel(c, cell)
      BY DEF Accessed
    <2>2. cell \in IntVectors /\ InRoi(cell, w.p, w.q)
      BY <1>1, <2>1, BoxMember, ShapeType
    <2>3. cell \in Cell
      <3>1. \A d \in Dim : cell[d] \in Nat /\ cell[d] < BlockShape[d]
        <4>1. \A d \in Dim : /\ cell[d] \in Int /\ w.p[d] \in Nat /\ w.q[d] \in Nat
                            /\ BlockShape[d] \in Nat
          BY <1>1, <2>2, ShapeType DEF Vectors, IntVectors
        <4>2. \A d \in Dim : w.p[d] <= cell[d] /\ cell[d] < w.q[d] /\ w.q[d] <= BlockShape[d]
          BY <1>1, <2>2 DEF InRoi
        <4> HIDE DEF w
        <4> QED BY <4>1, <4>2
      <3> QED BY <2>2, <3>1, CellMember DEF Vectors, IntVectors
    <2>4. InRoi(v, p, q)
      BY <2>1, <2>2, <2>3, VisitExact DEF InRange, IInv
    <2>5. v \in Vectors /\ blockGivenCoordinateP(v) = c
      BY <1>1, <2>1, <2>3, VoxelOfCell
    <2> QED BY <1>2, <2>4, <2>5, BoxMember, ShapeType
  <1>4. ASSUME NEW v \in Box(p, q), blockGivenCoordinateP(v) = c PROVE v \in Accessed(c)
    <2>1. v \in IntVectors /\ InRoi(v, p, q)
      BY <1>2, BoxMember
    <2>2. v \in Vectors
      BY <2>1 DEF IInv, IsRegion, InRoi, Vectors, IntVectors
    <2>3. pBlock(v) \in Cell /\ Voxel(c, pBlock(v)) = v
      BY <1>4, <2>2, BlockOfVoxel
    <2>4. InRoi(pBlock(v), w.p, w.q)
      BY <2>1, <2>3, VisitExact DEF InRange, IInv
    <2>5. pBlock(v) \in Box(w.p, w.q)
      BY <1>1, <2>3, <2>4, BoxMember, CellMember, ShapeType
    <2> QED BY <2>3, <2>5 DEF Accessed
  <1> QED BY <1>3, <1>4

LEMMA IInvPartitions == IInv => VisitsPartition
  <1> SUFFICES ASSUME IInv PROVE VisitsPartition
    OBVIOUS
  <1>1. ASSUME NEW i \in DOMAIN blockList_, NEW j \in DOMAIN blockList_, i # j
        PROVE  Accessed(blockList_[i]) \cap Accessed(blockList_[j]) = {}
    <2>1. blockList_[i] \in InRange /\ blockList_[j] \in InRange
      BY LatestListed
    <2>2. Before(blockList_[i], blockList_[j]) \/ Before(blockList_[j], blockList_[i])
      <3>1. i < j \/ j < i
        BY <1>1, LatestListed
      <3> QED BY <3>1 DEF IInv, Ascending
    <2>3. blockList_[i] # blockList_[j]
      BY <2>1, <2>2, BeforeOrders, LatestListed
    <2> QED BY <2>1, <2>3, AccessedVoxels
  <1>2. ASSUME pc # "enumerate"
        PROVE  UNION {Accessed(c) : c \in Listed} = Box(p, q)
    <2>1. Listed = InRange
      BY <1>2, LatestListed DEF IInv
    <2>2. ASSUME NEW v \in Box(p, q) PROVE \E c \in InRange : v \in Accessed(c)
      <3>1. v \in IntVectors /\ InRoi(v, p, q)
        BY BoxMember, ShapeType DEF IInv, IsRegion
      <3>2. v \in Vectors
        BY <3>1 DEF IInv, IsRegion, InRoi, Vectors, IntVectors
      <3>3. blockGivenCoordinateP(v) \in InRange
        BY <3>1, <3>2, VisitComplete DEF InRange, IInv
      <3> QED BY <3>3, AccessedVoxels
    <2> QED BY <2>1, <2>2, AccessedVoxels
  <1> QED BY <1>1, <1>2 DEF VisitsPartition

(* Lists, positions and the public members always have their types.        *)
THEOREM TypeCorrect == Spec => []TypeOK
  BY Invariance, IInvTypes, PTL

(* enumerateBlocksInRange lists the blocks that share a voxel with the     *)
(* region, all of them, once each and in scan order.                       *)
THEOREM EnumerationIsExact == Spec => []EnumerationExact
  BY Invariance, IInvEnumerates, PTL

(* compute() never pairs a voxel of a block with a wrong entry, or one     *)
(* outside, of the caller's array.                                         *)
THEOREM ReadsAreAligned == Spec => []ReadAligned
  BY Invariance, IInvAligns, PTL

(* The visits of an iteration split the region into disjoint parts.        *)
THEOREM VisitsArePartition == Spec => []VisitsPartition
  BY Invariance, IInvPartitions, PTL
==============================================================================
