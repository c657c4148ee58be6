------------------------ MODULE CompressedBlockProofs ------------------------
(***************************************************************************)
(* What the operations of a block do to its data, and the invariant that   *)
(* they all preserve.                                                      *)
(***************************************************************************)
EXTENDS CompressedBlock, BlockGeometryProofs

(* The cached size is unknown or that of the current data, and it is known *)
(* while the data is compressed.                                           *)
SizeFits(b) ==
    /\ b.compressedSize_ \in {0, CompressedLen(b.data_.img)}
    /\ b.isCompressed_ => b.compressedSize_ = CompressedLen(b.data_.img)

BufferFits(b) ==
    /\ b.isCompressed_ <=> b.data_.form = "snappy"
    /\ b.data_.len = currentSize(b)

BlockOK(b) == b \in Block /\ SizeFits(b) /\ BufferFits(b)

LEMMA BlockOKNeverThrows ==
    ASSUME NEW b, BlockOK(b)
    PROVE  ~CompressThrows(b)
  BY DEF BlockOK, SizeFits, CompressThrows

LEMMA NewBlockOK ==
    ASSUME NEW a \in Image
    PROVE  /\ BlockOK(NewBlock(a))
           /\ readArray(NewBlock(a)) = a
           /\ ~NewBlock(a).isCompressed_
  BY DEF BlockOK, SizeFits, BufferFits, NewBlock, Raw, Block, currentSize, readArray

LEMMA SetSlotsOK ==
    ASSUME NEW b, BlockOK(b), NEW slots, NEW dirty \in BOOLEAN
    PROVE  /\ BlockOK(SetSlots(b, slots, dirty))
           /\ readArray(SetSlots(b, slots, dirty)) = readArray(b)
           /\ SetSlots(b, slots, dirty).isCompressed_ = b.isCompressed_
  BY DEF BlockOK, SizeFits, BufferFits, SetSlots, Block, currentSize, readArray

LEMMA SetDirtyAllOK ==
    ASSUME NEW b, BlockOK(b), NEW dirty \in BOOLEAN
    PROVE  /\ BlockOK(setDirtyAll(b, dirty))
           /\ readArray(setDirtyAll(b, dirty)) = readArray(b)
           /\ setDirtyAll(b, dirty).isCompressed_ = b.isCompressed_
  BY DEF BlockOK, SizeFits, BufferFits, setDirtyAll, Block, currentSize, readArray

LEMMA SetDirtyOK ==
    ASSUME NEW b, BlockOK(b), NEW p, NEW q, NEW dirty \in BOOLEAN
    PROVE  /\ BlockOK(setDirty(b, p, q, dirty))
           /\ readArray(setDirty(b, p, q, dirty)) = readArray(b)
           /\ setDirty(b, p, q, dirty).isCompressed_ = b.isCompressed_
  BY SetDirtyAllOK, SetSlotsOK DEF setDirty

LEMMA UncompressOK ==
    ASSUME NEW b, BlockOK(b)
    PROVE  /\ BlockOK(uncompress(b))
           /\ readArray(uncompress(b)) = readArray(b)
           /\ ~uncompress(b).isCompressed_
  BY DEF BlockOK, SizeFits, BufferFits, uncompress, Raw, Block, currentSize, readArray

LEMMA CompressOK ==
    ASSUME NEW b, BlockOK(b)
    PROVE  /\ BlockOK(compress(b))
           /\ readArray(compress(b)) = readArray(b)
           /\ compress(b).isCompressed_
  <1>1. CompressedLen(b.data_.img) \in Nat \ {0}
    BY SnappyAssumption DEF BlockOK, Block
  <1>2. CASE b.isCompressed_
    BY <1>2 DEF compress
  <1>3. CASE ~b.isCompressed_
    <2> DEFINE n == CompressedLen(b.data_.img)
               buffer == RawCompress(b.data_.img)
               c == [b EXCEPT !.data_ = buffer, !.isCompressed_ = TRUE,
                              !.compressedSize_ = n]
    <2>1. compress(b) = c
      BY <1>3, BlockOKNeverThrows DEF compress
    <2>2. /\ buffer = [form |-> "snappy", img |-> b.data_.img, len |-> n]
          /\ b.data_.img \in Image
      BY DEF RawCompress, BlockOK, Block
    <2>3. n \in Nat
      BY <1>1
    <2> HIDE DEF n, buffer
    <2>4. c \in Block /\ c.data_ = buffer /\ c.isCompressed_ /\ c.compressedSize_ = n
      BY <2>2, <2>3 DEF BlockOK, Block
    <2>5. buffer.form = "snappy" /\ buffer.img = b.data_.img /\ buffer.len = n
      BY <2>2
    <2> HIDE DEF c
    <2>6. SizeFits(c) /\ BufferFits(c)
      BY <2>4, <2>5 DEF SizeFits, BufferFits, currentSize, n
    <2> QED
      BY <2>1, <2>4, <2>5, <2>6 DEF BlockOK, readArray
  <1> QED BY <1>2, <1>3 DEF BlockOK, Block

LEMMA CopyOK ==
    ASSUME NEW b, BlockOK(b)
    PROVE  /\ BlockOK(CopyConstructed(b)) /\ readArray(CopyConstructed(b)) = readArray(b)
           /\ BlockOK(Assigned(b)) /\ readArray(Assigned(b)) = readArray(b)
  BY DEF BlockOK, SizeFits, BufferFits, CopyConstructed, Assigned, Block, currentSize,
         readArray

------------------------------------------------------------------------------
(* The input array a has a value for every cell of [p, q).                 *)
IsInput(a, p, q) ==
    \A cell \in Cell : InRoi(cell, p, q) => a[Minus(cell, p)] \in Value

LEMMA OverwrittenImage ==
    ASSUME NEW img \in Image, NEW p, NEW q, NEW a, IsInput(a, p, q)
    PROVE  Overwritten(img, p, q, a) \in Image
  BY DEF Overwritten, IsInput, Image

LEMMA WriteDataOK ==
    ASSUME NEW b, BlockOK(b), NEW p, NEW q, NEW a, IsInput(a, p, q)
    PROVE  /\ BlockOK(WriteData(b, p, q, a))
           /\ readArray(WriteData(b, p, q, a)) = Overwritten(readArray(b), p, q, a)
           /\ WriteData(b, p, q, a).isCompressed_ = b.isCompressed_
  <1> DEFINE img == Overwritten(readArray(b), p, q, a)
             raw == [uncompress(b) EXCEPT !.compressedSize_ = 0, !.data_ = [@ EXCEPT !.img = img]]
  <1>1. img \in Image
    BY OverwrittenImage DEF BlockOK, Block, readArray
  <1>2. BlockOK(uncompress(b)) /\ ~uncompress(b).isCompressed_
    BY UncompressOK
  <1> HIDE DEF img
  <1>3. BlockOK(raw) /\ readArray(raw) = img /\ ~raw.isCompressed_
    BY <1>1, <1>2 DEF BlockOK, SizeFits, BufferFits, Block, currentSize, readArray
  <1>4. WriteData(b, p, q, a) = IF b.isCompressed_ THEN compress(raw) ELSE raw
    BY DEF WriteData, img
  <1> HIDE DEF raw
  <1>5. b.isCompressed_ \in BOOLEAN /\ raw.isCompressed_ \in BOOLEAN
        /\ compress(raw).isCompressed_ \in BOOLEAN
    BY <1>3, CompressOK DEF BlockOK, Block
  <1> QED BY <1>3, <1>4, <1>5, CompressOK DEF img

(* writeArray replaces exactly the region and keeps the block in the form  *)
(* it was in.                                                              *)
THEOREM WriteArrayOK ==
    ASSUME NEW b, BlockOK(b), NEW p, NEW q, NEW a, IsInput(a, p, q)
    PROVE  /\ BlockOK(writeArray(b, p, q, a))
           /\ readArray(writeArray(b, p, q, a)) = Overwritten(readArray(b), p, q, a)
           /\ writeArray(b, p, q, a).isCompressed_ = b.isCompressed_
  <1>1. ASSUME NEW x, BlockOK(x)
        PROVE  /\ BlockOK(CleanWritten(x, p, q))
               /\ readArray(CleanWritten(x, p, q)) = readArray(x)
               /\ CleanWritten(x, p, q).isCompressed_ = x.isCompressed_
    BY <1>1, SetDirtyAllOK, SetSlotsOK DEF CleanWritten
  <1> QED BY <1>1, WriteDataOK DEF writeArray

------------------------------------------------------------------------------
(* Slots: ShapeSum adds up the extents of the dimensions before d, so the   *)
(* slots of all the slices exist, though dimensions 0 and 1 share theirs.   *)

LEMMA ShapeSumIs ==
    /\ ShapeSum \in [0 .. N -> Nat]
    /\ ShapeSum[0] = 0
    /\ \A d \in Dim : ShapeSum[d + 1] = ShapeSum[d] + BlockShape[d]
  <1> DEFINE D    == 0 .. N
             pred == [d \in D |-> IF d = 0 THEN 0 ELSE d - 1]
             op   == [dn \in D \X Nat |-> IF dn[1] = 0 THEN 0
                                          ELSE dn[2] + BlockShape[dn[1] - 1]]
             Sums(f) == f = [d \in D |-> IF d = 0 THEN 0 ELSE f[d - 1] + BlockShape[d - 1]]
  <1>1. N \in Nat \ {0} /\ 0 \in D
    BY GeometryAssumption
  <1>2. ASSUME NEW d \in D, d # 0
        PROVE  d - 1 \in Dim /\ d - 1 \in D /\ BlockShape[d - 1] \in Nat
    <2>1. d - 1 \in Dim
      BY <1>1, <1>2 DEF Dim
    <2> QED BY <1>1, <1>2, <2>1, GeometryAssumption
  <1>3. pred \in [D -> D] /\ \A d \in D : d # 0 => pred[d] = d - 1
    BY <1>1, <1>2
  <1>4. op \in [D \X Nat -> Nat]
    BY <1>2
  <1>5. Inductive(D, 0, pred)
    <2>1. ASSUME NEW Good, 0 \in Good,
                 \A d \in D : d # 0 /\ pred[d] \in Good => d \in Good
          PROVE  D \subseteq Good
      <3> DEFINE G == {n \in Nat : n \in D => n \in Good}
      <3>1. 0 \in G
        BY <2>1
      <3>2. \A n \in Nat : n # 0 /\ n - 1 \in G => n \in G
        BY <1>2, <1>3, <2>1
      <3> HIDE DEF G
      <3>3. Nat \subseteq G
        BY <3>1, <3>2, NatSetInduction
      <3> QED BY <3>3 DEF G
    <2> QED BY <2>1 DEF Inductive
  <1> HIDE DEF pred, op
  <1>6. PICK f \in [D -> Nat] : Follows(f, D, 0, pred, 0, op)
    <2> HIDE DEF D
    <2> QED BY <1>1, <1>3, <1>4, <1>5, RecursionExists
  <1>7. f[0] = 0 /\ \A d \in D : d # 0 => f[d] = f[d - 1] + BlockShape[d - 1]
    <2>1. \A d \in D : d # 0 => op[<<d, f[d - 1]>>] = f[d - 1] + BlockShape[d - 1]
      BY <1>2 DEF op
    <2> QED BY <1>3, <1>6, <2>1 DEF Follows
  <1>8. Sums(f)
    BY <1>6, <1>7
  <1>9. Sums(ShapeSum)
    <2>1. ShapeSum = CHOOSE g : Sums(g)
      BY DEF ShapeSum
    <2> HIDE DEF Sums
    <2> QED BY <1>8, <2>1
  <1>10. ASSUME NEW g, Sums(g) PROVE g \in [D -> Nat]
    <2> DEFINE G == {d \in D : g[d] \in Nat}
    <2>1. 0 \in G
      BY <1>1, <1>10
    <2>2. \A d \in D : d # 0 /\ pred[d] \in G => d \in G
      BY <1>2, <1>3, <1>10
    <2> HIDE DEF G
    <2>3. D \subseteq G
      BY <1>5, <2>1, <2>2 DEF Inductive
    <2>4. \A d \in D : g[d] \in Nat
      BY <2>3 DEF G
    <2> QED BY <1>10, <2>4
  <1>11. ASSUME NEW g, Sums(g)
         PROVE  g[0] = 0 /\ \A d \in D : d # 0 => g[d] = g[d - 1] + BlockShape[d - 1]
    BY <1>1, <1>11
  <1> HIDE DEF Sums
  <1>12. /\ ShapeSum[0] = 0
         /\ \A d \in D : d # 0 => ShapeSum[d] = ShapeSum[d - 1] + BlockShape[d - 1]
    BY <1>9, <1>11
  <1>13. ShapeSum \in [D -> Nat]
    BY <1>9, <1>10
  <1>14. ASSUME NEW d \in Dim
         PROVE  ShapeSum[d + 1] = ShapeSum[d] + BlockShape[d]
    <2> DEFINE e == d + 1
    <2>1. e \in D /\ e # 0 /\ e - 1 = d
      BY <1>1 DEF Dim
    <2> HIDE DEF e
    <2>2. ShapeSum[e] = ShapeSum[d] + BlockShape[d]
      BY <1>12, <2>1
    <2> QED BY <2>2 DEF e
  <1> QED BY <1>12, <1>13, <1>14

LEMMA ShapeSumGrows ==
    ASSUME NEW e \in 0 .. N
    PROVE  \A d \in 0 .. e : ShapeSum[d] <= ShapeSum[e]
  <1> DEFINE Good == {n \in Nat : n \in 0 .. N =>
                          \A d \in 0 .. n : ShapeSum[d] <= ShapeSum[n]}
  <1>1. N \in Nat
    BY GeometryAssumption
  <1>2. 0 \in Good
    BY <1>1, ShapeSumIs
  <1>3. ASSUME NEW n \in Nat, n # 0, n - 1 \in Good
        PROVE  n \in Good
    <2> SUFFICES ASSUME n \in 0 .. N, NEW d \in 0 .. n
                 PROVE  ShapeSum[d] <= ShapeSum[n]
      OBVIOUS
    <2>1. n - 1 \in Dim /\ n - 1 \in 0 .. N /\ d \in 0 .. N /\ n - 1 + 1 = n
      BY <1>1, <1>3 DEF Dim
    <2>2. /\ ShapeSum[n] = ShapeSum[n - 1] + BlockShape[n - 1]
          /\ BlockShape[n - 1] \in Nat
          /\ ShapeSum[n] \in Nat /\ ShapeSum[n - 1] \in Nat /\ ShapeSum[d] \in Nat
      BY <2>1, ShapeSumIs, GeometryAssumption
    <2>3. CASE d = n
      BY <2>2, <2>3
    <2>4. CASE d # n
      <3>1. d \in 0 .. n - 1
        BY <1>3, <2>4
      <3>2. ShapeSum[d] <= ShapeSum[n - 1]
        BY <1>3, <2>1, <3>1
      <3> QED BY <2>2, <3>2
    <2> QED BY <2>3, <2>4
  <1> HIDE DEF Good
  <1>4. Nat \subseteq Good
    BY <1>2, <1>3, NatSetInduction
  <1> QED BY <1>1, <1>4 DEF Good

(* The slot of every slice is one of the vector's.                          *)
LEMMA SlotExists ==
    ASSUME NEW d \in Dim, NEW i \in Nat, i < BlockShape[d]
    PROVE  Slot(d, i) \in Slots
  <1> DEFINE e == IF d > 0 THEN d - 1 ELSE 0
  <1>1. N \in Nat \ {0} /\ d \in 0 .. N - 1 /\ e \in 0 .. d /\ d + 1 \in 0 .. N
        /\ N \in 0 .. N /\ d \in 0 .. N /\ e \in 0 .. N /\ d + 1 \in 0 .. N
    BY GeometryAssumption DEF Dim
  <1>2. /\ ShapeSum[e] <= ShapeSum[d] /\ ShapeSum[d + 1] <= ShapeSum[N]
        /\ ShapeSum[d + 1] = ShapeSum[d] + BlockShape[d]
    BY <1>1, ShapeSumGrows, ShapeSumIs
  <1>3. /\ ShapeSum[e] \in Nat /\ ShapeSum[d] \in Nat /\ ShapeSum[d + 1] \in Nat
        /\ ShapeSum[N] \in Nat /\ BlockShape[d] \in Nat
    BY <1>1, ShapeSumIs, GeometryAssumption
  <1>4. Slot(d, i) = ShapeSum[e] + i
    BY DEF Slot
  <1> HIDE DEF e
  <1> QED BY <1>2, <1>3, <1>4 DEF Slots
=============================================================================
