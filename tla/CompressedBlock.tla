--------------------------- MODULE CompressedBlock ---------------------------
(***************************************************************************)
(* CompressedArray<N,T> (include/bw/compressedarray.h): one block of       *)
(* voxels, kept raw or compressed with snappy, with a dirty flag for the   *)
(* whole block and one for each slice of each dimension.  The operations   *)
(* are operators on the record of the object's members; they are the steps *)
(* of the state machine CompressedArray and are called by BlockedArray.    *)
(*                                                                         *)
(* shape_ is BlockShape for every block; T() is 0.                         *)
(***************************************************************************)
EXTENDS BlockGeometry, FiniteSets

CONSTANTS
    Value,              \* the values of T in use
    CompressedLen(_)    \* elements of T that snappy needs for an image

Image == [Cell -> Value]

ASSUME ValueAssumption == 0 \in Value

(* snappy is a function of its input, and its output is never empty.       *)
ASSUME SnappyAssumption == \A img \in Image : CompressedLen(img) \in Nat \ {0}

uncompressedSize == Cardinality(Cell)

(* A buffer of T: what it encodes, how, and the elements it was given.     *)
Raw(img)         == [form |-> "raw", img |-> img, len |-> uncompressedSize]
RawCompress(img) == [form |-> "snappy", img |-> img, len |-> CompressedLen(img)]

(* dirtyDimensions_ has a slot for each slice of each dimension.           *)
ShapeSum[d \in 0 .. N] == IF d = 0 THEN 0 ELSE ShapeSum[d - 1] + BlockShape[d - 1]
Slots == 0 .. ShapeSum[N] - 1

Block ==
    [data_: [form: {"raw", "snappy"}, img: Image, len: Nat \cup {uncompressedSize}],
     compressedSize_: Nat,
     isCompressed_: BOOLEAN,
     isDirty_: BOOLEAN,
     dirtyDimensions_: [Slots -> BOOLEAN]]

currentSize(b) == IF b.isCompressed_ THEN b.compressedSize_ ELSE uncompressedSize

------------------------------------------------------------------------------
(* Construction, copies.                                                   *)

NewBlock(a) ==
    [data_ |-> Raw(a), compressedSize_ |-> 0, isCompressed_ |-> FALSE,
     isDirty_ |-> FALSE, dirtyDimensions_ |-> [i \in Slots |-> FALSE]]

(* Mutant of CopyConstructed: dirtyDimensions_ is not allocated.           *)
CopyWithoutSlots(other) ==
    [other EXCEPT !.data_ = [@ EXCEPT !.len = currentSize(other)],
                  !.isDirty_ = FALSE, !.dirtyDimensions_ = [i \in {} |-> FALSE]]

(* The copy constructor copies currentSize() elements of the buffer and    *)
(* every member but isDirty_.                                              *)
CopyConstructed(other) ==
    [other EXCEPT !.data_ = [@ EXCEPT !.len = currentSize(other)], !.isDirty_ = FALSE]

(* Mutant of Assigned: copies as many elements as there are voxels.        *)
AssignedWholeSize(other) == [other EXCEPT !.data_ = [@ EXCEPT !.len = uncompressedSize]]

(* operator= copies isDirty_, too.                                         *)
Assigned(other) == [other EXCEPT !.data_ = [@ EXCEPT !.len = currentSize(other)]]

------------------------------------------------------------------------------
(* Dirtiness.                                                              *)

(* The slot of a slice: the loop that adds up the extents before it stops  *)
(* at dimension - 1, so dimensions 0 and 1 start at the same slot.         *)
Slot(dimension, slice) ==
    ShapeSum[IF dimension > 0 THEN dimension - 1 ELSE 0] + slice

isDirtySlice(b, dimension, slice) == b.dirtyDimensions_[Slot(dimension, slice)]

setDirtyAll(b, dirty) ==
    [b EXCEPT !.isDirty_ = dirty, !.dirtyDimensions_ = [i \in Slots |-> dirty]]

(* setDirty(dimension, slice, dirty) for a set of slots.                   *)
SetSlots(b, slots, dirty) ==
    [b EXCEPT !.dirtyDimensions_ =
        [i \in Slots |-> IF i \in slots THEN dirty ELSE b.dirtyDimensions_[i]]]

SlotsOf(d, p, q) == {Slot(d, i) : i \in p[d] .. q[d] - 1}

IsWhole(p, q) == p = Origin /\ q = BlockShape

(* [p, q) covers all the other dimensions: its slices of d are complete.   *)
FullExtent(d, p, q) == \A j \in Dim \ {d} : p[j] = 0 /\ q[j] = BlockShape[j]

(* Mutant of setDirty: a region marks only slices that it covers entirely. *)
setDirtyWholeSlices(b, p, q, dirty) ==
    IF IsWhole(p, q) THEN setDirtyAll(b, dirty)
    ELSE SetSlots(b, UNION {SlotsOf(d, p, q) : d \in {e \in Dim : FullExtent(e, p, q)}},
                  dirty)

setDirty(b, p, q, dirty) ==
    IF IsWhole(p, q) THEN setDirtyAll(b, dirty)
    ELSE SetSlots(b,
                  UNION {SlotsOf(d, p, q) :
                            d \in {e \in Dim : dirty \/ FullExtent(e, p, q)}},
                  dirty)

isDirty(b, p, q) ==
    \A d \in Dim : \E i \in p[d] .. q[d] - 1 : isDirtySlice(b, d, i)

------------------------------------------------------------------------------
(* Compression.                                                            *)

uncompress(b) ==
    IF ~b.isCompressed_ THEN b
    ELSE [b EXCEPT !.data_ = Raw(b.data_.img), !.isCompressed_ = FALSE]

(* The size cached by an earlier compression no longer fits the data.      *)
CompressThrows(b) ==
    /\ ~b.isCompressed_
    /\ b.compressedSize_ \notin {0, CompressedLen(b.data_.img)}

(* An exception leaves the object as it was.                               *)
compress(b) ==
    IF b.isCompressed_ \/ CompressThrows(b) THEN b
    ELSE [b EXCEPT !.data_ = RawCompress(b.data_.img), !.isCompressed_ = TRUE,
                   !.compressedSize_ = CompressedLen(b.data_.img)]

------------------------------------------------------------------------------
(* Reading and writing.                                                    *)

readArray(b) == b.data_.img
readSubarray(b, p, q) == [v \in Box(Origin, Minus(q, p)) |-> readArray(b)[Plus(p, v)]]

(* The image img with [p, q) replaced by the array a, whose corner is p.   *)
Overwritten(img, p, q, a) ==
    [c \in Cell |-> IF InRoi(c, p, q) THEN a[Minus(c, p)] ELSE img[c]]

(* Mutants of WriteData: the cached size is kept; the old buffer of a      *)
(* compressed block is kept.                                               *)
WriteDataKeepsSize(b, p, q, a) ==
    LET raw == [uncompress(b) EXCEPT
                   !.data_ = [@ EXCEPT !.img = Overwritten(readArray(b), p, q, a)]]
    IN  IF b.isCompressed_ THEN compress(raw) ELSE raw

WriteDataRawOnly(b, p, q, a) ==
    IF b.isCompressed_ THEN b
    ELSE [b EXCEPT !.compressedSize_ = 0,
                   !.data_ = [@ EXCEPT !.img = Overwritten(readArray(b), p, q, a)]]

WriteData(b, p, q, a) ==
    LET raw == [uncompress(b) EXCEPT
                   !.compressedSize_ = 0,
                   !.data_ = [@ EXCEPT !.img = Overwritten(readArray(b), p, q, a)]]
    IN  IF b.isCompressed_ THEN compress(raw) ELSE raw

(* The slots that writing [p, q) marks clean while the loop over the       *)
(* dimensions is at d, and whether every slice of d is clean by then.      *)
CleanedUpTo(d, p, q) ==
    UNION {SlotsOf(e, p, q) : e \in {f \in 0 .. d : FullExtent(f, p, q)}}

AllClean(b, d, p, q) ==
    /\ FullExtent(d, p, q)
    /\ \A s \in 0 .. BlockShape[d] - 1 :
          Slot(d, s) \in CleanedUpTo(d, p, q) \/ ~isDirtySlice(b, d, s)

(* Mutant of CleanWritten: only a write of the whole block cleans.         *)
CleanWrittenWhole(b, p, q) ==
    IF IsWhole(p, q) THEN setDirtyAll(b, FALSE) ELSE b

CleanWritten(b, p, q) ==
    IF IsWhole(p, q) \/ \E d \in Dim : AllClean(b, d, p, q)
    THEN setDirtyAll(b, FALSE)
    ELSE SetSlots(b, CleanedUpTo(N - 1, p, q), FALSE)

writeArray(b, p, q, a) == CleanWritten(WriteData(b, p, q, a), p, q)
==============================================================================
