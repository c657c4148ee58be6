------------------------ MODULE CompressedArrayProofs ------------------------
(***************************************************************************)
(* Whatever sequence of public operations is called on blocks, of whatever *)
(* shape and with whatever compressor, their data is that last written and *)
(* compression never finds a stale size.                                   *)
(***************************************************************************)
EXTENDS CompressedArray, CompressedBlockProofs

(* BlockOK is what makes it inductive: NeverThrows and BufferAgrees each   *)
(* need the other, and the cached size of a compressed block.              *)
IInv ==
    /\ image \in [Obj -> Image]
    /\ stale \in [Obj -> SUBSET Cell]
    /\ block \in [Obj -> Block]
    /\ \A o \in Obj : BlockOK(block[o]) /\ readArray(block[o]) = image[o]

------------------------------------------------------------------------------
(* What the regions and inputs of the calls are.                           *)

LEMMA CornersAreVectors ==
    ASSUME NEW v \in Corners
    PROVE  v \in Vectors /\ \A d \in Dim : v[d] <= BlockShape[d]
  <1>1. Plus(BlockShape, Ones) \in IntVectors /\ Origin \in IntVectors
    BY ShapeType DEF Plus, Ones, Vectors, IntVectors
  <1>2. v \in IntVectors /\ InRoi(v, Origin, Plus(BlockShape, Ones))
    BY <1>1, BoxMember DEF Corners
  <1>3. ASSUME NEW d \in Dim PROVE v[d] \in Nat /\ v[d] <= BlockShape[d]
    BY <1>2, ShapeType DEF InRoi, Plus, Ones, Vectors, IntVectors
  <1> QED BY <1>2, <1>3 DEF Vectors, IntVectors

LEMMA RoiWithinBlock ==
    ASSUME NEW r \in BlockRois
    PROVE  /\ r.p \in Vectors /\ r.q \in Vectors
           /\ Box(r.p, r.q) \subseteq Cell
  <1>1. /\ r.p \in Vectors /\ r.q \in Vectors
        /\ \A d \in Dim : r.q[d] <= BlockShape[d]
    BY CornersAreVectors DEF BlockRois
  <1>2. ASSUME NEW v \in Box(r.p, r.q) PROVE v \in Cell
    <2>1. v \in IntVectors /\ InRoi(v, r.p, r.q)
      BY <1>1, ShapeType, BoxMember
    <2>2. ASSUME NEW d \in Dim PROVE v[d] \in Nat /\ v[d] < BlockShape[d]
      <3>1. /\ r.p[d] \in Nat /\ r.q[d] \in Nat /\ v[d] \in Int
            /\ r.p[d] <= v[d] /\ v[d] < r.q[d] /\ r.q[d] <= BlockShape[d]
        BY <1>1, <2>1 DEF InRoi, Vectors, IntVectors
      <3>2. BlockShape[d] \in Nat
        BY ShapeType
      <3> QED BY <3>1, <3>2
    <2>3. v \in Vectors
      BY <2>1, <2>2 DEF Vectors, IntVectors
    <2> QED BY <2>2, <2>3, CellMember
  <1> QED BY <1>1, <1>2

LEMMA InputsFit ==
    ASSUME NEW r \in BlockRois, NEW a \in InputArrays(r)
    PROVE  IsInput(a, r.p, r.q)
  <1> SUFFICES ASSUME NEW cell \in Cell, InRoi(cell, r.p, r.q)
               PROVE  a[Minus(cell, r.p)] \in Value
    BY DEF IsInput
  <1>1. r.p \in Vectors /\ r.q \in Vectors /\ cell \in Vectors
    BY RoiWithinBlock, CellMember
  <1>2. /\ Minus(r.q, r.p) \in IntVectors /\ Minus(cell, r.p) \in IntVectors
        /\ Origin \in IntVectors
    BY <1>1, ShapeType DEF Minus, Vectors, IntVectors
  <1>3. InRoi(Minus(cell, r.p), Origin, Minus(r.q, r.p))
    BY <1>1, ShapeType DEF InRoi, Minus, Vectors
  <1> QED BY <1>2, <1>3, BoxMember DEF InputArrays

------------------------------------------------------------------------------
LEMMA InitIInv == Init => IInv
  <1> SUFFICES ASSUME Init PROVE IInv
    OBVIOUS
  <1>1. ASSUME NEW o \in Obj
        PROVE  BlockOK(block[o]) /\ block[o] \in Block /\ readArray(block[o]) = image[o]
    <2>1. image[o] \in Image /\ block[o] = NewBlock(image[o])
      BY DEF Init
    <2> QED BY <2>1, NewBlockOK DEF BlockOK
  <1> QED BY <1>1 DEF Init, IInv

(* A call on object o leaves the other objects alone, so it is enough to   *)
(* look at o.                                                              *)
LEMMA OneObject ==
    ASSUME IInv, NEW o \in Obj, NEW b, NEW img, NEW marks \in SUBSET Cell,
           block' = [block EXCEPT ![o] = b],
           image' = [image EXCEPT ![o] = img],
           stale' = [stale EXCEPT ![o] = marks],
           BlockOK(b), readArray(b) = img
    PROVE  IInv'
  <1>1. b \in Block /\ img \in Image
    BY DEF BlockOK, Block, readArray
  <1>2. /\ image' \in [Obj -> Image] /\ stale' \in [Obj -> SUBSET Cell]
        /\ block' \in [Obj -> Block]
    BY <1>1 DEF IInv
  <1>3. ASSUME NEW x \in Obj
        PROVE  BlockOK(block'[x]) /\ readArray(block'[x]) = image'[x]
    <2>1. CASE x = o
      BY <2>1 DEF IInv
    <2>2. CASE x # o
      BY <2>2 DEF IInv
    <2> QED BY <2>1, <2>2
  <1> QED BY <1>2, <1>3 DEF IInv

LEMMA NextIInv == IInv /\ [Next]_vars => IInv'
  <1> SUFFICES ASSUME IInv, [Next]_vars PROVE IInv'
    OBVIOUS
  <1> USE DEF vars
  <1>1. ASSUME NEW o \in Obj
        PROVE  /\ BlockOK(block[o]) /\ readArray(block[o]) = image[o]
               /\ image[o] \in Image /\ stale[o] \in SUBSET Cell
    BY DEF IInv
  <1>2. ASSUME UNCHANGED image
        PROVE  \A o \in Obj : image' = [image EXCEPT ![o] = image[o]]
    BY <1>2 DEF IInv
  <1>3. ASSUME UNCHANGED stale
        PROVE  \A o \in Obj : stale' = [stale EXCEPT ![o] = stale[o]]
    BY <1>3 DEF IInv
  <1>4. CASE UNCHANGED vars
    BY <1>4 DEF IInv
  <1>5. ASSUME NEW o \in Obj, NEW r \in BlockRois, NEW a \in InputArrays(r),
               WriteArray(o, r, a)
        PROVE  IInv'
    <2>1. /\ BlockOK(writeArray(block[o], r.p, r.q, a))
          /\ readArray(writeArray(block[o], r.p, r.q, a)) =
                Overwritten(image[o], r.p, r.q, a)
      BY <1>1, InputsFit, WriteArrayOK
    <2>2. stale[o] \ Box(r.p, r.q) \in SUBSET Cell
      BY <1>1
    <2> QED BY <1>5, <2>1, <2>2, OneObject DEF WriteArray
  <1>6. ASSUME NEW o \in Obj, NEW r \in BlockRois, NEW dirty \in BOOLEAN,
               SetDirtyRoi(o, r, dirty)
        PROVE  IInv'
    <2>1. /\ BlockOK(setDirty(block[o], r.p, r.q, dirty))
          /\ readArray(setDirty(block[o], r.p, r.q, dirty)) = image[o]
      BY <1>1, SetDirtyOK
    <2>2. (IF dirty THEN stale[o] \cup Box(r.p, r.q) ELSE stale[o] \ Box(r.p, r.q))
             \in SUBSET Cell
      BY <1>1, RoiWithinBlock
    <2> QED BY <1>2, <1>6, <2>1, <2>2, OneObject DEF SetDirtyRoi
  <1>7. ASSUME NEW o \in Obj, NEW dirty \in BOOLEAN, SetDirty(o, dirty)
        PROVE  IInv'
    <2>1. /\ BlockOK(setDirtyAll(block[o], dirty))
          /\ readArray(setDirtyAll(block[o], dirty)) = image[o]
      BY <1>1, SetDirtyAllOK
    <2>2. (IF dirty THEN Cell ELSE {}) \in SUBSET Cell
      OBVIOUS
    <2> QED BY <1>2, <1>7, <2>1, <2>2, OneObject DEF SetDirty
  <1>8. ASSUME NEW o \in Obj, NEW d \in Dim, NEW dirty \in BOOLEAN,
               NEW s \in 0 .. BlockShape[d] - 1, SetDirtySlice(o, d, s, dirty)
        PROVE  IInv'
    <2> DEFINE b     == SetSlots(block[o], {Slot(d, s)}, dirty)
               slice == {c \in Cell : c[d] = s}
               marks == IF dirty
                        THEN stale[o] \cup
                             {c \in slice : isDirty(block'[o], c, Plus(c, Ones))}
                        ELSE stale[o] \ slice
    <2>1. BlockOK(b) /\ readArray(b) = image[o]
      BY <1>1, SetSlotsOK
    <2>2. marks \in SUBSET Cell
      BY <1>1
    <2>3. /\ block' = [block EXCEPT ![o] = b] /\ stale' = [stale EXCEPT ![o] = marks]
          /\ UNCHANGED image
      BY <1>8 DEF SetDirtySlice
    <2> QED BY <1>2, <2>1, <2>2, <2>3, OneObject
  <1>9. ASSUME NEW o \in Obj, Compress(o)
        PROVE  IInv'
    <2>1. BlockOK(compress(block[o])) /\ readArray(compress(block[o])) = image[o]
      BY <1>1, CompressOK
    <2> QED BY <1>1, <1>2, <1>3, <1>9, <2>1, OneObject DEF Compress
  <1>10. ASSUME NEW o \in Obj, Uncompress(o)
         PROVE  IInv'
    <2>1. BlockOK(uncompress(block[o])) /\ readArray(uncompress(block[o])) = image[o]
      BY <1>1, UncompressOK
    <2> QED BY <1>1, <1>2, <1>3, <1>10, <2>1, OneObject DEF Uncompress
  <1>11. ASSUME NEW o \in Obj, NEW s \in Obj, Replace(o, s, CopyConstructed(block[s]))
         PROVE  IInv'
    <2>1. /\ BlockOK(CopyConstructed(block[s]))
          /\ readArray(CopyConstructed(block[s])) = image[s]
      BY <1>1, CopyOK
    <2> QED BY <1>1, <1>11, <2>1, OneObject DEF Replace
  <1>12. ASSUME NEW o \in Obj, NEW s \in Obj, Replace(o, s, Assigned(block[s]))
         PROVE  IInv'
    <2>1. /\ BlockOK(Assigned(block[s]))
          /\ readArray(Assigned(block[s])) = image[s]
      BY <1>1, CopyOK
    <2> QED BY <1>1, <1>12, <2>1, OneObject DEF Replace
  <1> QED BY <1>4, <1>5, <1>6, <1>7, <1>8, <1>9, <1>10, <1>11, <1>12 DEF Next

THEOREM Invariance == Spec => []IInv
  <1> QED BY InitIInv, NextIInv, PTL DEF Spec

------------------------------------------------------------------------------
(* Every object keeps the members of its type: copies, compressions and    *)
(* writes leave no buffer with a length or form that no operation reads.   *)
THEOREM TypeCorrect == Spec => []TypeOK
  <1>1. IInv => TypeOK
    BY DEF IInv, TypeOK
  <1> QED BY <1>1, Invariance, PTL

(* The buffer is always encoded and sized as isCompressed_ and             *)
(* currentSize() say, so uncompress, copies and readArray read it right.   *)
THEOREM BufferAgreement == Spec => []BufferAgrees
  <1>1. IInv => BufferAgrees
    BY DEF IInv, BlockOK, BufferFits, BufferAgrees
  <1> QED BY <1>1, Invariance, PTL

(* compress() never throws for a cached size that a write left behind.     *)
THEOREM CompressionNeverThrows == Spec => []NeverThrows
  <1>1. IInv => NeverThrows
    BY BlockOKNeverThrows DEF IInv, NeverThrows
  <1> QED BY <1>1, Invariance, PTL

(* A block reads back what was last written to each of its voxels.         *)
THEOREM DataReadsBack == Spec => []ReadsBack
  <1>1. IInv => ReadsBack
    BY DEF IInv, ReadsBack
  <1> QED BY <1>1, Invariance, PTL

------------------------------------------------------------------------------
(* One dimension: there is a slot for each slice and none is shared, so    *)
(* the slots say of every voxel whether it is dirty.                       *)

Mark(b, c) == b.dirtyDimensions_[c[0]]

LEMMA OneDimension ==
    ASSUME N = 1
    PROVE  /\ Dim = {0} /\ Slots = 0 .. BlockShape[0] - 1 /\ BlockShape[0] \in Nat \ {0}
           /\ \A i \in Int : Slot(0, i) = i
           /\ \A c \in Cell : c[0] \in Slots /\ c[0] \in Nat /\ c[0] < BlockShape[0]
  <1>1. Dim = {0}
    BY DEF Dim
  <1>2. ShapeSum[0 + 1] = ShapeSum[0] + BlockShape[0] /\ ShapeSum[0] = 0
    BY <1>1, ShapeSumIs
  <1>3. BlockShape[0] \in Nat \ {0}
    BY <1>1, ShapeType
  <1>4. ShapeSum[N] = BlockShape[0]
    BY <1>2, <1>3
  <1>5. Slots = 0 .. BlockShape[0] - 1
    BY <1>4 DEF Slots
  <1>6. \A i \in Int : Slot(0, i) = i
    BY <1>2 DEF Slot
  <1>7. ASSUME NEW c \in Cell PROVE c[0] \in Nat /\ c[0] < BlockShape[0]
    BY <1>1, CellMember DEF Vectors
  <1> QED BY <1>1, <1>3, <1>5, <1>6, <1>7

LEMMA ReportedIsMark ==
    ASSUME N = 1, NEW b \in Block, NEW c \in Cell
    PROVE  Reported(b, c) <=> Mark(b, c)
  <1>1. /\ Dim = {0} /\ c[0] \in Nat /\ c[0] \in Slots
        /\ \A i \in Int : Slot(0, i) = i
    BY OneDimension
  <1>2. Plus(c, Ones)[0] = c[0] + 1
    BY <1>1 DEF Plus, Ones
  <1>3. \A i : i \in c[0] .. Plus(c, Ones)[0] - 1 <=> i = c[0]
    BY <1>1, <1>2
  <1>4. Slot(0, c[0]) = c[0]
    BY <1>1
  <1> QED BY <1>1, <1>3, <1>4 DEF Reported, isDirty, isDirtySlice, Mark

LEMMA RegionOfLine ==
    ASSUME N = 1, NEW r \in BlockRois, NEW c \in Cell
    PROVE  /\ r.p[0] \in Nat /\ r.q[0] \in Nat /\ r.q[0] <= BlockShape[0]
           /\ c \in Box(r.p, r.q) <=> r.p[0] <= c[0] /\ c[0] < r.q[0]
           /\ SlotsOf(0, r.p, r.q) = r.p[0] .. r.q[0] - 1
           /\ FullExtent(0, r.p, r.q)
           /\ IsWhole(r.p, r.q) => Box(r.p, r.q) = Cell
  <1>1. Dim = {0} /\ c[0] \in Nat /\ \A i \in Int : Slot(0, i) = i
    BY OneDimension
  <1>2. /\ r.p \in Vectors /\ r.q \in Vectors /\ c \in Vectors
        /\ r.q[0] <= BlockShape[0]
    BY <1>1, RoiWithinBlock, CellMember, CornersAreVectors DEF BlockRois
  <1>3. r.p[0] \in Nat /\ r.q[0] \in Nat
    BY <1>1, <1>2 DEF Vectors
  <1>4. c \in Box(r.p, r.q) <=> r.p[0] <= c[0] /\ c[0] < r.q[0]
    BY <1>1, <1>2, ShapeType, BoxMember DEF InRoi
  <1>5. SlotsOf(0, r.p, r.q) = r.p[0] .. r.q[0] - 1
    <2>1. \A i \in r.p[0] .. r.q[0] - 1 : Slot(0, i) = i
      BY <1>1, <1>3
    <2> QED BY <2>1 DEF SlotsOf
  <1>6. FullExtent(0, r.p, r.q)
    BY <1>1 DEF FullExtent
  <1>7. IsWhole(r.p, r.q) => Box(r.p, r.q) = Cell
    BY DEF IsWhole, Cell
  <1> QED BY <1>2, <1>3, <1>4, <1>5, <1>6, <1>7

(* What the operations do to the mark of a voxel.                          *)
LEMMA MarkAfterSlots ==
    ASSUME N = 1, NEW b \in Block, NEW c \in Cell, NEW slots, NEW dirty \in BOOLEAN
    PROVE  /\ Mark(setDirtyAll(b, dirty), c) <=> dirty
           /\ c[0] \in slots => (Mark(SetSlots(b, slots, dirty), c) <=> dirty)
           /\ c[0] \notin slots => (Mark(SetSlots(b, slots, dirty), c) <=> Mark(b, c))
  <1>1. c[0] \in Slots
    BY OneDimension
  <1> QED BY <1>1 DEF Mark, setDirtyAll, SetSlots, Block

LEMMA MarkAfterSetDirty ==
    ASSUME N = 1, NEW b \in Block, NEW c \in Cell, NEW r \in BlockRois,
           NEW dirty \in BOOLEAN
    PROVE  /\ c \in Box(r.p, r.q) => (Mark(setDirty(b, r.p, r.q, dirty), c) <=> dirty)
           /\ c \notin Box(r.p, r.q) =>
                 (Mark(setDirty(b, r.p, r.q, dirty), c) <=> Mark(b, c))
  <1>1. Dim = {0} /\ c[0] \in Nat
    BY OneDimension
  <1>2. CASE IsWhole(r.p, r.q)
    BY <1>2, RegionOfLine, MarkAfterSlots DEF setDirty
  <1>3. CASE ~IsWhole(r.p, r.q)
    <2> DEFINE slots == UNION {SlotsOf(d, r.p, r.q) :
                                  d \in {e \in Dim : dirty \/ FullExtent(e, r.p, r.q)}}
    <2>1. slots = r.p[0] .. r.q[0] - 1
      BY <1>1, RegionOfLine
    <2>2. setDirty(b, r.p, r.q, dirty) = SetSlots(b, slots, dirty)
      BY <1>3 DEF setDirty
    <2> HIDE DEF slots
    <2>3. c[0] \in slots <=> c \in Box(r.p, r.q)
      BY <1>1, <2>1, RegionOfLine
    <2> QED BY <2>2, <2>3, MarkAfterSlots
  <1> QED BY <1>2, <1>3

(* Cleaning: the voxels written, or all of them when none is left dirty.   *)
LEMMA MarkAfterCleaning ==
    ASSUME N = 1, NEW b \in Block, NEW c \in Cell, NEW r \in BlockRois
    PROVE  Mark(CleanWritten(b, r.p, r.q), c) <=> c \notin Box(r.p, r.q) /\ Mark(b, c)
  <1>1. /\ Dim = {0} /\ c[0] \in Nat /\ 0 .. 0 = {0} /\ c[0] \in 0 .. BlockShape[0] - 1
        /\ \A i \in Int : Slot(0, i) = i
    BY OneDimension
  <1>2. CleanedUpTo(0, r.p, r.q) = r.p[0] .. r.q[0] - 1
    BY <1>1, RegionOfLine DEF CleanedUpTo
  <1>3. c[0] \in CleanedUpTo(0, r.p, r.q) <=> c \in Box(r.p, r.q)
    BY <1>1, <1>2, RegionOfLine
  <1>4. CASE IsWhole(r.p, r.q)
    BY <1>4, RegionOfLine, MarkAfterSlots DEF CleanWritten
  <1>5. CASE ~IsWhole(r.p, r.q) /\ AllClean(b, 0, r.p, r.q)
    <2>1. c[0] \in CleanedUpTo(0, r.p, r.q) \/ ~isDirtySlice(b, 0, c[0])
      BY <1>1, <1>5 DEF AllClean
    <2>2. isDirtySlice(b, 0, c[0]) = Mark(b, c)
      BY <1>1 DEF isDirtySlice, Mark
    <2>3. CleanWritten(b, r.p, r.q) = setDirtyAll(b, FALSE)
      BY <1>1, <1>5 DEF CleanWritten
    <2> QED BY <1>3, <2>1, <2>2, <2>3, MarkAfterSlots
  <1>6. CASE ~IsWhole(r.p, r.q) /\ ~AllClean(b, 0, r.p, r.q)
    <2>1. CleanWritten(b, r.p, r.q) = SetSlots(b, CleanedUpTo(0, r.p, r.q), FALSE)
      <3>1. N - 1 = 0
        OBVIOUS
      <3> QED BY <1>1, <1>6, <3>1 DEF CleanWritten
    <2> DEFINE slots == CleanedUpTo(0, r.p, r.q)
    <2>2. /\ c[0] \in slots => ~Mark(SetSlots(b, slots, FALSE), c)
          /\ c[0] \notin slots => (Mark(SetSlots(b, slots, FALSE), c) <=> Mark(b, c))
      <3>1. c[0] \in Slots
        BY OneDimension
      <3> HIDE DEF slots
      <3> QED BY <3>1 DEF Mark, SetSlots, Block
    <2> QED BY <1>3, <2>1, <2>2
  <1> QED BY <1>4, <1>5, <1>6

LEMMA MarkKept ==
    ASSUME NEW b \in Block, NEW c
    PROVE  /\ Mark(compress(b), c) = Mark(b, c) /\ Mark(uncompress(b), c) = Mark(b, c)
           /\ Mark(CopyConstructed(b), c) = Mark(b, c) /\ Mark(Assigned(b), c) = Mark(b, c)
           /\ \A p, q, a : Mark(WriteData(b, p, q, a), c) = Mark(b, c)
  <1>1. ASSUME NEW x, x \in Block PROVE compress(x).dirtyDimensions_ = x.dirtyDimensions_
    BY <1>1 DEF compress, Block
  <1> QED BY DEF compress, uncompress, CopyConstructed, Assigned, WriteData, Mark, Block

SlotsTell ==
    N = 1 => \A o \in Obj : \A c \in Cell : c \in stale[o] <=> Mark(block[o], c)

LEMMA InitSlotsTell == Init => SlotsTell
  <1> SUFFICES ASSUME Init, N = 1, NEW o \in Obj, NEW c \in Cell
               PROVE  c \in stale[o] <=> Mark(block[o], c)
    BY DEF SlotsTell
  <1>1. stale[o] = {} /\ block[o] = NewBlock(image[o]) /\ c[0] \in Slots
    BY OneDimension DEF Init
  <1> QED BY <1>1 DEF NewBlock, Mark

(* Only the object of the call changes.                                    *)
LEMMA OtherMarks ==
    ASSUME IInv, SlotsTell, N = 1, NEW o \in Obj, NEW b, NEW marks,
           block' = [block EXCEPT ![o] = b],
           stale' = [stale EXCEPT ![o] = marks],
           \A c \in Cell : c \in marks <=> Mark(b, c)
    PROVE  SlotsTell'
  <1> SUFFICES ASSUME NEW x \in Obj, NEW c \in Cell
               PROVE  c \in stale'[x] <=> Mark(block'[x], c)
    BY DEF SlotsTell
  <1>1. CASE x = o
    BY <1>1 DEF IInv
  <1>2. CASE x # o
    <2>1. block'[x] = block[x] /\ stale'[x] = stale[x]
      BY <1>2 DEF IInv
    <2> QED BY <2>1 DEF SlotsTell
  <1> QED BY <1>1, <1>2

LEMMA NextSlotsTell == IInv /\ SlotsTell /\ [Next]_vars => SlotsTell'
  <1> SUFFICES ASSUME IInv, SlotsTell, [Next]_vars, N = 1 PROVE SlotsTell'
    BY DEF SlotsTell
  <1>1. ASSUME NEW o \in Obj
        PROVE  /\ BlockOK(block[o]) /\ block[o] \in Block
               /\ \A c \in Cell : c \in stale[o] <=> Mark(block[o], c)
               /\ UNCHANGED stale => stale' = [stale EXCEPT ![o] = stale[o]]
    BY DEF IInv, SlotsTell, BlockOK
  <1>2. CASE UNCHANGED vars
    BY <1>2 DEF vars, SlotsTell
  <1>3. ASSUME NEW o \in Obj, NEW r \in BlockRois, NEW a \in InputArrays(r),
               WriteArray(o, r, a)
        PROVE  SlotsTell'
    <2> DEFINE b == WriteData(block[o], r.p, r.q, a)
    <2>1. b \in Block /\ \A c \in Cell : Mark(b, c) <=> Mark(block[o], c)
      BY <1>1, InputsFit, WriteDataOK, MarkKept DEF BlockOK
    <2>2. /\ block' = [block EXCEPT ![o] = CleanWritten(b, r.p, r.q)]
          /\ stale' = [stale EXCEPT ![o] = stale[o] \ Box(r.p, r.q)]
      BY <1>3 DEF WriteArray, writeArray
    <2> HIDE DEF b
    <2>3. ASSUME NEW c \in Cell
          PROVE  c \in stale[o] \ Box(r.p, r.q) <=> Mark(CleanWritten(b, r.p, r.q), c)
      BY <1>1, <2>1, MarkAfterCleaning
    <2> QED BY <2>2, <2>3, OtherMarks
  <1>4. ASSUME NEW o \in Obj, NEW r \in BlockRois, NEW dirty \in BOOLEAN,
               SetDirtyRoi(o, r, dirty)
        PROVE  SlotsTell'
    <2> DEFINE b     == setDirty(block[o], r.p, r.q, dirty)
               marks == IF dirty THEN stale[o] \cup Box(r.p, r.q)
                                 ELSE stale[o] \ Box(r.p, r.q)
    <2>1. ASSUME NEW c \in Cell PROVE c \in marks <=> Mark(b, c)
      <3>1. /\ c \in Box(r.p, r.q) => (Mark(b, c) <=> dirty)
            /\ c \notin Box(r.p, r.q) => (Mark(b, c) <=> Mark(block[o], c))
        BY <1>1, MarkAfterSetDirty
      <3> QED BY <1>1, <3>1
    <2>2. block' = [block EXCEPT ![o] = b] /\ stale' = [stale EXCEPT ![o] = marks]
      BY <1>4 DEF SetDirtyRoi
    <2> HIDE DEF b, marks
    <2> QED BY <2>1, <2>2, OtherMarks
  <1>5. ASSUME NEW o \in Obj, NEW dirty \in BOOLEAN, SetDirty(o, dirty)
        PROVE  SlotsTell'
    <2> DEFINE b     == setDirtyAll(block[o], dirty)
               marks == IF dirty THEN Cell ELSE {}
    <2>1. ASSUME NEW c \in Cell PROVE c \in marks <=> Mark(b, c)
      <3>1. Mark(b, c) <=> dirty
        BY <1>1, MarkAfterSlots
      <3> QED BY <3>1
    <2>2. block' = [block EXCEPT ![o] = b] /\ stale' = [stale EXCEPT ![o] = marks]
      BY <1>5 DEF SetDirty
    <2> HIDE DEF b, marks
    <2> QED BY <2>1, <2>2, OtherMarks
  <1>6. ASSUME NEW o \in Obj, NEW d \in Dim, NEW dirty \in BOOLEAN,
               NEW s \in 0 .. BlockShape[d] - 1, SetDirtySlice(o, d, s, dirty)
        PROVE  SlotsTell'
    <2> DEFINE b     == SetSlots(block[o], {Slot(d, s)}, dirty)
               slice == {c \in Cell : c[d] = s}
               marks == IF dirty
                        THEN stale[o] \cup
                             {c \in slice : isDirty(block'[o], c, Plus(c, Ones))}
                        ELSE stale[o] \ slice
    <2>1. d = 0 /\ Slot(d, s) = s
      BY OneDimension
    <2>2. /\ block' = [block EXCEPT ![o] = b] /\ stale' = [stale EXCEPT ![o] = marks]
          /\ block'[o] = b
      BY <1>6 DEF SetDirtySlice, IInv
    <2>3. b \in Block
      BY <1>1, SetSlotsOK DEF BlockOK
    <2>4. ASSUME NEW c \in Cell PROVE c \in marks <=> Mark(b, c)
      <3>1. isDirty(block'[o], c, Plus(c, Ones)) <=> Mark(b, c)
        <4> HIDE DEF b
        <4> QED BY <2>2, <2>3, ReportedIsMark DEF Reported
      <3>2. /\ c[0] = s => (Mark(b, c) <=> dirty)
            /\ c[0] # s => (Mark(b, c) <=> Mark(block[o], c))
        <4>1. c[0] \in {Slot(d, s)} <=> c[0] = s
          BY <2>1
        <4> QED BY <1>1, <4>1, MarkAfterSlots
      <3>3. c \in slice <=> c[0] = s
        BY <2>1
      <3> HIDE DEF slice, b
      <3> QED BY <1>1, <3>1, <3>2, <3>3
    <2> HIDE DEF b, marks
    <2> QED BY <2>2, <2>4, OtherMarks
  <1>7. ASSUME NEW o \in Obj, Compress(o) \/ Uncompress(o)
        PROVE  SlotsTell'
    <2>1. PICK b \in {compress(block[o]), uncompress(block[o])} :
             block' = [block EXCEPT ![o] = b] /\ stale' = [stale EXCEPT ![o] = stale[o]]
      BY <1>1, <1>7 DEF Compress, Uncompress
    <2>2. \A c \in Cell : c \in stale[o] <=> Mark(b, c)
      BY <1>1, MarkKept
    <2> QED BY <2>1, <2>2, OtherMarks
  <1>8. ASSUME NEW o \in Obj, NEW s \in Obj,
               NEW b \in {CopyConstructed(block[s]), Assigned(block[s])}, Replace(o, s, b)
        PROVE  SlotsTell'
    <2>1. block' = [block EXCEPT ![o] = b] /\ stale' = [stale EXCEPT ![o] = stale[s]]
      BY <1>8 DEF Replace
    <2>2. \A c \in Cell : c \in stale[s] <=> Mark(b, c)
      BY <1>1, MarkKept
    <2> QED BY <2>1, <2>2, OtherMarks
  <1> QED BY <1>2, <1>3, <1>4, <1>5, <1>6, <1>7, <1>8 DEF Next

LEMMA SlotsTellAlways == Spec => []SlotsTell
  <1> QED BY Invariance, InitSlotsTell, NextSlotsTell, PTL DEF Spec

(* With one dimension, and whatever the length of a block, the number of   *)
(* objects and the sequence of calls, a voxel is reported dirty iff it was *)
(* marked and neither overwritten nor marked clean since.                  *)
THEOREM SlicesAreExact ==
    ASSUME N = 1
    PROVE  Spec => []SlicesExact
  <1>1. IInv /\ SlotsTell => SlicesExact
    <2> SUFFICES ASSUME IInv, SlotsTell, NEW o \in Obj
                 PROVE  stale[o] = {c \in Cell : Reported(block[o], c)}
      BY DEF SlicesExact
    <2>1. stale[o] \subseteq Cell /\ block[o] \in Block
      BY DEF IInv
    <2>2. \A c \in Cell : c \in stale[o] <=> Reported(block[o], c)
      BY <2>1, ReportedIsMark DEF SlotsTell
    <2> QED BY <2>1, <2>2
  <1> QED BY <1>1, Invariance, SlotsTellAlways, PTL

------------------------------------------------------------------------------
(* A block's mark is only taken off by cleaning all its slots.             *)

LEMMA SlotsKeepMark ==
    ASSUME NEW b \in Block, NEW slots, NEW dirty \in BOOLEAN
    PROVE  /\ SetSlots(b, slots, dirty).isDirty_ = b.isDirty_
           /\ setDirtyAll(b, dirty).isDirty_ = dirty
  BY DEF SetSlots, setDirtyAll, Block

LEMMA CleanedWhole ==
    ASSUME NEW b \in Block, NEW p, NEW q
    PROVE  \/ CleanWritten(b, p, q) = setDirtyAll(b, FALSE)
           \/ CleanWritten(b, p, q).isDirty_ = b.isDirty_
  <1>1. \A slots : SetSlots(b, slots, FALSE).isDirty_ = b.isDirty_
    BY DEF SetSlots, Block
  <1> QED BY <1>1 DEF CleanWritten

LEMMA SetDirtyWhole ==
    ASSUME NEW b \in Block, NEW p, NEW q, NEW dirty \in BOOLEAN
    PROVE  \/ setDirty(b, p, q, dirty) = setDirtyAll(b, dirty)
           \/ setDirty(b, p, q, dirty).isDirty_ = b.isDirty_
  <1>1. \A slots : SetSlots(b, slots, dirty).isDirty_ = b.isDirty_
    BY DEF SetSlots, Block
  <1> QED BY <1>1 DEF setDirty

LEMMA WriteKeepsMark ==
    ASSUME NEW b \in Block, NEW p, NEW q, NEW a
    PROVE  WriteData(b, p, q, a).isDirty_ = b.isDirty_
  BY DEF WriteData, compress, uncompress, Block

LEMMA MarkTakenOff ==
    ASSUME IInv, Next, NEW o \in Obj, block[o].isDirty_, ~block'[o].isDirty_,
           \A s \in Obj \ {o} : block'[o] # CopyConstructed(block[s])
                             /\ block'[o] # Assigned(block[s])
    PROVE  \E b \in Block : block'[o] = setDirtyAll(b, FALSE)
  <1>1. ASSUME NEW x \in Obj PROVE BlockOK(block[x]) /\ block[x] \in Block
    BY DEF IInv, BlockOK
  <1>2. ASSUME NEW x \in Obj, NEW b, block' = [block EXCEPT ![x] = b]
        PROVE  x = o /\ b = block'[o]
    BY <1>2 DEF IInv
  <1>3. ASSUME NEW x \in Obj, NEW r \in BlockRois, NEW a \in InputArrays(r),
               WriteArray(x, r, a)
        PROVE  \E b \in Block : block'[o] = setDirtyAll(b, FALSE)
    <2> DEFINE b == WriteData(block[x], r.p, r.q, a)
    <2>1. b \in Block
      BY <1>1, InputsFit, WriteDataOK DEF BlockOK
    <2>2. x = o /\ block'[o] = CleanWritten(b, r.p, r.q)
      BY <1>2, <1>3 DEF WriteArray, writeArray
    <2>3. b.isDirty_ = block[x].isDirty_
      BY <1>1, WriteKeepsMark
    <2> HIDE DEF b
    <2>4. CleanWritten(b, r.p, r.q) = setDirtyAll(b, FALSE)
      BY <2>1, <2>2, <2>3, CleanedWhole
    <2> QED BY <2>1, <2>2, <2>4
  <1>4. ASSUME NEW x \in Obj, NEW r \in BlockRois, NEW dirty \in BOOLEAN,
               SetDirtyRoi(x, r, dirty)
        PROVE  \E b \in Block : block'[o] = setDirtyAll(b, FALSE)
    <2>1. x = o /\ block'[o] = setDirty(block[o], r.p, r.q, dirty)
      BY <1>2, <1>4 DEF SetDirtyRoi
    <2>2. block'[o] = setDirtyAll(block[o], dirty)
      BY <1>1, <2>1, SetDirtyWhole
    <2>3. setDirtyAll(block[o], dirty).isDirty_ = dirty
      BY <1>1, SlotsKeepMark
    <2> QED BY <1>1, <2>2, <2>3
  <1>5. ASSUME NEW x \in Obj, NEW dirty \in BOOLEAN, SetDirty(x, dirty)
        PROVE  \E b \in Block : block'[o] = setDirtyAll(b, FALSE)
    <2>1. x = o /\ block'[o] = setDirtyAll(block[o], dirty)
      BY <1>2, <1>5 DEF SetDirty
    <2>2. setDirtyAll(block[o], dirty).isDirty_ = dirty
      BY <1>1, SlotsKeepMark
    <2> QED BY <1>1, <2>1, <2>2
  <1>6. ASSUME NEW x \in Obj, NEW d \in Dim, NEW dirty \in BOOLEAN,
               NEW s \in 0 .. BlockShape[d] - 1, SetDirtySlice(x, d, s, dirty)
        PROVE  FALSE
    <2>1. x = o /\ block'[o] = SetSlots(block[o], {Slot(d, s)}, dirty)
      BY <1>2, <1>6 DEF SetDirtySlice
    <2> DEFINE slots == {Slot(d, s)}
    <2> HIDE DEF slots
    <2>2. SetSlots(block[o], slots, dirty).isDirty_ = block[o].isDirty_
      BY <1>1, SlotsKeepMark
    <2> QED BY <2>1, <2>2 DEF slots
  <1>7. ASSUME NEW x \in Obj, Compress(x) \/ Uncompress(x)
        PROVE  FALSE
    <2>1. x = o /\ block'[o] \in {compress(block[o]), uncompress(block[o])}
      BY <1>2, <1>7 DEF Compress, Uncompress
    <2>2. compress(block[o]).isDirty_ = block[o].isDirty_
          /\ uncompress(block[o]).isDirty_ = block[o].isDirty_
      BY <1>1 DEF compress, uncompress, Block
    <2> QED BY <2>1, <2>2
  <1>8. ASSUME NEW x \in Obj, NEW s \in Obj,
               NEW b \in {CopyConstructed(block[s]), Assigned(block[s])}, Replace(x, s, b)
        PROVE  FALSE
    <2>1. x = o /\ block'[o] = b /\ x # s
      BY <1>2, <1>8 DEF Replace
    <2> QED BY <2>1
  <1> QED BY <1>3, <1>4, <1>5, <1>6, <1>7, <1>8 DEF Next

(* With one dimension a write takes the dirty mark off a block only when   *)
(* no marked voxel is left that was not overwritten, as                    *)
(* testCompressedArray expects.  With more dimensions it is not so: the    *)
(* run SharedSlots shows a block that loses its mark too early.            *)
THEOREM LineStaysDirty ==
    ASSUME N = 1
    PROVE  Spec => BlockStaysDirty
  <1> DEFINE StaysDirty ==
                \A o \in Obj :
                    /\ block[o].isDirty_ /\ ~block'[o].isDirty_
                    /\ \A s \in Obj \ {o} : block'[o] # CopyConstructed(block[s])
                                         /\ block'[o] # Assigned(block[s])
                    => stale'[o] = {}
  <1>1. ASSUME IInv, IInv', SlotsTell', Next PROVE StaysDirty
    <2> SUFFICES ASSUME NEW o \in Obj, block[o].isDirty_, ~block'[o].isDirty_,
                        \A s \in Obj \ {o} : block'[o] # CopyConstructed(block[s])
                                          /\ block'[o] # Assigned(block[s])
                 PROVE  stale'[o] = {}
      OBVIOUS
    <2>1. PICK b \in Block : block'[o] = setDirtyAll(b, FALSE)
      BY <1>1, MarkTakenOff
    <2>2. \A c \in Cell : ~Mark(block'[o], c)
      BY <2>1, MarkAfterSlots
    <2>3. stale'[o] \subseteq Cell
      BY <1>1 DEF IInv
    <2>4. \A c \in Cell : c \in stale'[o] <=> Mark(block'[o], c)
      BY <1>1 DEF SlotsTell
    <2> QED BY <2>2, <2>3, <2>4
  <1>2. IInv /\ IInv' /\ SlotsTell' /\ [Next]_vars => [StaysDirty]_vars
    BY <1>1
  <1>3. BlockStaysDirty <=> [][StaysDirty]_vars
    BY DEF BlockStaysDirty
  <1> HIDE DEF StaysDirty
  <1> QED BY <1>2, <1>3, Invariance, SlotsTellAlways, PTL DEF Spec
==============================================================================
