--------------------------- MODULE CompressedArray ---------------------------
(***************************************************************************)
(* The life of CompressedArray objects under every sequence of calls of    *)
(* their public operations.  Two history variables say what a caller       *)
(* expects: image[o] is the data last written to o, voxel by voxel, and    *)
(* stale[o] is the set of voxels marked dirty and neither overwritten nor  *)
(* marked clean since.                                                     *)
(***************************************************************************)
EXTENDS CompressedBlock

CONSTANT Obj           \* the objects

VARIABLES block, image, stale
vars == <<block, image, stale>>

(* The regions [p, q) of a block that have at least one voxel.             *)
Ones      == [d \in Dim |-> 1]
Corners   == Box(Origin, Plus(BlockShape, Ones))
BlockRois == {r \in [p : Corners, q : Corners] : \A d \in Dim : r.p[d] < r.q[d]}

InputArrays(r) == [Box(Origin, Minus(r.q, r.p)) -> Value]

Init ==
    /\ image \in [Obj -> Image]
    /\ block = [o \in Obj |-> NewBlock(image[o])]
    /\ stale = [o \in Obj |-> {}]

------------------------------------------------------------------------------
WriteArray(o, r, a) ==
    /\ block' = [block EXCEPT ![o] = writeArray(@, r.p, r.q, a)]
    /\ image' = [image EXCEPT ![o] = Overwritten(@, r.p, r.q, a)]
    /\ stale' = [stale EXCEPT ![o] = @ \ Box(r.p, r.q)]

SetDirtyRoi(o, r, dirty) ==
    /\ block' = [block EXCEPT ![o] = setDirty(@, r.p, r.q, dirty)]
    /\ stale' = [stale EXCEPT ![o] = IF dirty THEN @ \cup Box(r.p, r.q)
                                               ELSE @ \ Box(r.p, r.q)]
    /\ UNCHANGED image

SetDirty(o, dirty) ==
    /\ block' = [block EXCEPT ![o] = setDirtyAll(@, dirty)]
    /\ stale' = [stale EXCEPT ![o] = IF dirty THEN Cell ELSE {}]
    /\ UNCHANGED image

(* setDirty(dimension, slice, dirty).  A voxel is dirty when its slices in *)
(* all the dimensions are, so marking one slice may mark no voxel.         *)
SetDirtySlice(o, d, s, dirty) ==
    LET slice == {c \in Cell : c[d] = s}
    IN  /\ block' = [block EXCEPT ![o] = SetSlots(@, {Slot(d, s)}, dirty)]
        /\ stale' = [stale EXCEPT ![o] =
              IF dirty THEN @ \cup {c \in slice : isDirty(block'[o], c, Plus(c, Ones))}
                       ELSE @ \ slice]
        /\ UNCHANGED image

Compress(o) ==
    /\ block' = [block EXCEPT ![o] = compress(@)]
    /\ UNCHANGED <<image, stale>>

Uncompress(o) ==
    /\ block' = [block EXCEPT ![o] = uncompress(@)]
    /\ UNCHANGED <<image, stale>>

(* Object t becomes a copy of s, with the members of copy: those of        *)
(* CopyConstructed(s) when t is built from s, of Assigned(s) for t = s.    *)
Replace(t, s, copy) ==
    /\ t # s
    /\ block' = [block EXCEPT ![t] = copy]
    /\ image' = [image EXCEPT ![t] = image[s]]
    /\ stale' = [stale EXCEPT ![t] = stale[s]]

Next ==
    \E o \in Obj :
        \/ \E r \in BlockRois : \E a \in InputArrays(r) : WriteArray(o, r, a)
        \/ \E r \in BlockRois, dirty \in BOOLEAN : SetDirtyRoi(o, r, dirty)
        \/ \E dirty \in BOOLEAN : SetDirty(o, dirty)
        \/ \E d \in Dim, dirty \in BOOLEAN :
              \E s \in 0 .. BlockShape[d] - 1 : SetDirtySlice(o, d, s, dirty)
        \/ Compress(o)
        \/ Uncompress(o)
        \/ \E s \in Obj : Replace(o, s, CopyConstructed(block[s]))
        \/ \E s \in Obj : Replace(o, s, Assigned(block[s]))

Spec == Init /\ [][Next]_vars

------------------------------------------------------------------------------
(* Shape of the state.                                                     *)
TypeOK ==
    /\ block \in [Obj -> Block]
    /\ image \in [Obj -> Image]
    /\ stale \in [Obj -> SUBSET Cell]

(* The buffer is what the members say it is: encoded iff isCompressed_,    *)
(* and exactly as long as currentSize(), which copies and HDF5 output rely *)
(* on; a compressed block has a nonzero cached size.                       *)
BufferAgrees ==
    \A o \in Obj :
        LET b == block[o]
        IN  /\ b.isCompressed_ <=> b.data_.form = "snappy"
            /\ b.data_.len = currentSize(b)

(* compress() never finds a cached size that belongs to older data, so it  *)
(* never throws "CompressedArray::compress error", whatever was written    *)
(* between two compressions.                                               *)
NeverThrows == \A o \in Obj : ~CompressThrows(block[o])

(* The data read is the data written, through every compression,           *)
(* decompression and copy.                                                 *)
ReadsBack == \A o \in Obj : readArray(block[o]) = image[o]

Reported(b, c) == isDirty(b, c, Plus(c, Ones))

(* A voxel is reported dirty iff it was marked and neither overwritten nor *)
(* marked clean since.  In one dimension, where each voxel is a slice with *)
(* a slot of its own; in more, slices that share a slot are told apart no  *)
(* more, see BlockStaysDirty.                                              *)
SlicesExact ==
    \A o \in Obj : stale[o] = {c \in Cell : Reported(block[o], c)}

(* A write takes the dirty mark off a block only when no voxel of it is    *)
(* left that was marked and not overwritten: "now, write only a subset of  *)
(* the data. the whole block has to stay dirty" (test_compressedarray.cpp, *)
(* testCompressedArray).                                                   *)
BlockStaysDirty ==
    [][\A o \in Obj :
          /\ block[o].isDirty_ /\ ~block'[o].isDirty_
          /\ \A s \in Obj \ {o} : block'[o] # CopyConstructed(block[s])
                               /\ block'[o] # Assigned(block[s])
          => stale'[o] = {}]_vars
==============================================================================
