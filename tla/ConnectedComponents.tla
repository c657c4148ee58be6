-------------------------- MODULE ConnectedComponents --------------------------
(***************************************************************************)
(* ConnectedComponents<N> labels the objects of an image that is too large *)
(* to be held at once: it labels each block of an overlapping tiling by    *)
(* itself, unites labels that meet in an overlap, and writes the labels.   *)
(*                                                                         *)
(* The constructor runs the tiling and then three loops over blocks or     *)
(* pairs of blocks; writeResult is a fourth one.  Each iteration is an     *)
(* action.  Arrays over a block have coordinates relative to its corner.   *)
(* The compressed storage of the labels is that of CompressedBlock, which  *)
(* reads back what was written.                                            *)
(***************************************************************************)
EXTENDS Blocking, FiniteSetsExt

CONSTANTS
    Shapes,            \* blockProvider->shape()
    Value              \* voxel values of the source: vigra::UInt8

ASSUME ImageAssumption ==
    /\ \A s \in Shapes : s \in [Dim -> Nat \ {0}]
    /\ 0 \in Value

VARIABLES
    image,             \* what blockProvider_ reads from
    ccBlocks_,         \* labels of block i, at first the block's own
    offsets,           \* offsets[i] is added to the labels of block i
    ufd,               \* the union-find array, as the partition of the ids
    rank,              \* what it holds after makeContiguous(): a label per id
    k,                 \* the index of the current loop, from 1
    dataset            \* the file that writeResult writes

ccVars == <<image, ccBlocks_, offsets, ufd, rank, k, dataset>>
vars   == <<blockingVars, pc, ccVars>>

Relative(v, r) == Minus(v, r.p)
Voxels(r)      == Box(r.p, r.q)

(* Source::readBlock of region r.                                          *)
readBlock(r) == [v \in Box(Origin, shape(r)) |-> image[Plus(v, r.p)]]

Init ==
    \E s \in Shapes :
        /\ Construct([p |-> Origin, q |-> s], [d \in Dim |-> 1])
        /\ image \in [Box(Origin, s) -> Value]
        /\ ccBlocks_ = <<>> /\ offsets = <<0>>
        /\ ufd = {} /\ rank = <<>> /\ k = 1 /\ dataset = <<>>

------------------------------------------------------------------------------
(* The objects of an array: maximal sets of adjacent equal voxels that are *)
(* not background (0).                                                     *)
Objects(in) ==
    LET Join(v, objects) ==
            LET touching == {o \in objects : \E w \in o :
                                 in[w] = in[v] /\ Adjacent(v, w)}
            IN  (objects \ touching) \cup {{v} \cup UNION touching}
    IN  FoldSet(Join, {}, {v \in DOMAIN in : in[v] # 0})

(* vigra's labeling with background: the objects are numbered from 1 in    *)
(* the order of their first voxels.                                        *)
compute(in) ==
    LET objects   == Objects(in)
        First(o)  == CHOOSE v \in o : \A w \in o \ {v} : Before(v, w)
        firsts    == {First(o) : o \in objects}
        Number(o) == Cardinality({v \in firsts : ~Before(First(o), v)})
    IN  [v \in DOMAIN in |-> IF in[v] = 0 THEN 0
                             ELSE Number(CHOOSE o \in objects : v \in o)]

(* Mutant of LabelBlock: no id is set aside for the background.            *)
LabelBlockTight ==
    /\ pc = "tiled" /\ k <= numBlocks
    /\ LET cc == compute(readBlock(block(k)))
       IN  /\ ccBlocks_' = Append(ccBlocks_, cc)
           /\ offsets' = Append(offsets, offsets[k] + Max(Range(cc)))
    /\ k' = k + 1
    /\ UNCHANGED <<blockingVars, pc, image, ufd, rank, dataset>>

(* Label block k by itself.  Every id offsets[k] + label is its own,       *)
(* offsets[k] + 0 for the background of the block.                         *)
LabelBlock ==
    /\ pc = "tiled" /\ k <= numBlocks
    /\ LET cc == compute(readBlock(block(k)))
       IN  /\ ccBlocks_' = Append(ccBlocks_, cc)
           /\ offsets' = Append(offsets, offsets[k] + Max(Range(cc)) + 1)
    /\ k' = k + 1
    /\ UNCHANGED <<blockingVars, pc, image, ufd, rank, dataset>>

(* Mutant of StartMerge: maxOffset is the offset of the last block.        *)
StartMergeTooFew ==
    /\ pc = "tiled" /\ k > numBlocks
    /\ ufd' = {{id} : id \in 0 .. offsets[numBlocks]}
    /\ k' = 1 /\ pc' = "merge"
    /\ UNCHANGED <<blockingVars, image, ccBlocks_, offsets, rank, dataset>>

(* UnionFindArray ufd(maxOffset).                                          *)
StartMerge ==
    /\ pc = "tiled" /\ k > numBlocks
    /\ ufd' = {{id} : id \in 0 .. offsets[numBlocks + 1]}
    /\ k' = 1 /\ pc' = "merge"
    /\ UNCHANGED <<blockingVars, image, ccBlocks_, offsets, rank, dataset>>

(* Mutant of AreAdjacent: only blocks that follow each other in the list.  *)
AreAdjacentInList(i, j) == j = i + 1

squaredNorm(u)    == MapThenSumSet(LAMBDA d : u[d] * u[d], Dim)
AreAdjacent(i, j) == squaredNorm(Minus(blocks_[i].first, blocks_[j].first)) = 1

(* The pairs of adjacent blocks, and the place of one in their list, which *)
(* the two nested loops fill in lexicographic order.                       *)
adjBlocks ==
    {a \in (1 .. numBlocks) \X (1 .. numBlocks) : a[1] < a[2] /\ AreAdjacent(a[1], a[2])}

Earlier(a, b) == a[1] < b[1] \/ (a[1] = b[1] /\ a[2] < b[2])
Position(a)   == 1 + Cardinality({b \in adjBlocks : Earlier(b, a)})

makeUnion(u, a, b) ==
    LET united == {s \in u : a \in s \/ b \in s}
    IN  (u \ united) \cup {UNION united}

(* Mutant of blockMerge: the first view starts at the first corner.        *)
blockMergeMisaligned(u, i, j) ==
    LET both == intersect(block(i), block(j))
        Unite(v, w) ==
            makeUnion(w, ccBlocks_[i][Relative(v, both.out)] + offsets[i],
                         ccBlocks_[j][Relative(v, block(j))] + offsets[j])
    IN  IF both.meets THEN FoldSet(Unite, u, Voxels(both.out)) ELSE u

(* Unite the two ids of every voxel of the overlap, background included.   *)
blockMerge(u, i, j) ==
    LET both == intersect(block(i), block(j))
        Unite(v, w) ==
            makeUnion(w, ccBlocks_[i][Relative(v, block(i))] + offsets[i],
                         ccBlocks_[j][Relative(v, block(j))] + offsets[j])
    IN  IF both.meets THEN FoldSet(Unite, u, Voxels(both.out)) ELSE u

MergeBlocks ==
    /\ pc = "merge"
    /\ \E a \in adjBlocks : Position(a) = k /\ ufd' = blockMerge(ufd, a[1], a[2])
    /\ k' = k + 1
    /\ UNCHANGED <<blockingVars, pc, image, ccBlocks_, offsets, rank, dataset>>

(* ufd.makeContiguous(): the root of an id, the smallest one united with   *)
(* it, is replaced by its rank among the roots.                            *)
makeContiguous ==
    /\ pc = "merge" /\ k > Cardinality(adjBlocks)
    /\ LET root(id) == Min(CHOOSE s \in ufd : id \in s)
           roots    == {Min(s) : s \in ufd}
       IN  rank' = [id \in UNION ufd |-> Cardinality({r \in roots : r < root(id)})]
    /\ k' = 1 /\ pc' = "relabel"
    /\ UNCHANGED <<blockingVars, image, ccBlocks_, offsets, ufd, dataset>>

RelabelBlock ==
    /\ pc = "relabel" /\ k <= numBlocks
    /\ ccBlocks_' = [ccBlocks_ EXCEPT ![k] =
                         [v \in DOMAIN @ |-> rank[@[v] + offsets[k]]]]
    /\ k' = k + 1
    /\ UNCHANGED <<blockingVars, pc, image, offsets, ufd, rank, dataset>>

(* writeResult: createDataset fills the dataset with 0, then each block is *)
(* written at its corner, over what its neighbours wrote in the overlap.   *)
StartWrite ==
    /\ pc = "relabel" /\ k > numBlocks
    /\ dataset' = [v \in Voxels(roi_) |-> 0]
    /\ k' = 1 /\ pc' = "write"
    /\ UNCHANGED <<blockingVars, image, ccBlocks_, offsets, ufd, rank>>

WriteBlock ==
    /\ pc = "write" /\ k <= numBlocks
    /\ dataset' = [v \in DOMAIN dataset |->
                       IF InRoi(v, block(k).p, block(k).q)
                       THEN ccBlocks_[k][Relative(v, block(k))] ELSE dataset[v]]
    /\ k' = k + 1
    /\ UNCHANGED <<blockingVars, pc, image, ccBlocks_, offsets, ufd, rank>>

Close ==
    /\ pc = "write" /\ k > numBlocks
    /\ pc' = "done"
    /\ UNCHANGED <<blockingVars, ccVars>>

Next ==
    \/ Tile /\ UNCHANGED ccVars
    \/ LabelBlock \/ StartMerge
    \/ MergeBlocks \/ makeContiguous
    \/ RelabelBlock \/ StartWrite
    \/ WriteBlock \/ Close

Spec == Init /\ [][Next]_vars

------------------------------------------------------------------------------
(* Shape of the state: one label array per labelled block, of its shape.   *)
TypeOK ==
    /\ pc \in {"tile", "tiled", "merge", "relabel", "write", "done"}
    /\ image \in [Voxels(roi_) -> Value]
    /\ offsets \in Seq(Nat) /\ Len(offsets) = Len(ccBlocks_) + 1
    /\ \A i \in DOMAIN ccBlocks_ :
          ccBlocks_[i] \in [Box(Origin, shape(block(i))) -> Nat]
    /\ pc \in {"merge", "relabel", "write", "done"} =>
          UNION ufd = 0 .. offsets[numBlocks + 1]
    /\ pc \in {"relabel", "write", "done"} => rank \in [UNION ufd -> Nat]
    /\ pc \in {"write", "done"} => dataset \in [Voxels(roi_) -> Nat]

Core(i, v) == LET b == blockBounds(blocks_[i].first) IN InRoi(v, b.p, b.q)

(* The constructor of Blocking tiles its region: without the overlap the   *)
(* blocks partition it, no block reaches out of it, and, as the overlap is *)
(* 1, every two adjacent voxels lie in a common block.                     *)
TilingExact ==
    pc # "tile" =>
        /\ \A i \in 1 .. numBlocks : Voxels(block(i)) \subseteq Voxels(roi_)
        /\ \A v \in Voxels(roi_) :
              Cardinality({i \in 1 .. numBlocks : Core(i, v)}) = 1
        /\ \A v, w \in Voxels(roi_) :
              Adjacent(v, w) => \E i \in 1 .. numBlocks : {v, w} \subseteq Voxels(block(i))

(* The id of voxel v in block i, as long as labels are the block's own.    *)
Id(i, v) == ccBlocks_[i][Relative(v, block(i))] + offsets[i]

(* Merging never fuses what is not connected: at every moment of the       *)
(* merging loop, voxels whose ids have the same root are in one object, or *)
(* are both background.                                                    *)
UnionsSound ==
    pc = "merge" =>
        LET objects == Objects(image)
            Object(v) == IF image[v] = 0 THEN {} ELSE CHOOSE o \in objects : v \in o
            uses == UNION {{<<CHOOSE s \in ufd : Id(i, v) \in s, Object(v)>> : v \in Voxels(block(i))} :
                               i \in 1 .. numBlocks}
        IN  \A a, b \in uses : a[1] = b[1] => a[2] = b[2]

(* After relabeling, blocks agree on every voxel they share, also blocks   *)
(* that touch in a corner only and are never merged with each other: the   *)
(* order in which writeResult writes them does not matter.                 *)
BlocksAgree ==
    (pc = "relabel" /\ k > numBlocks) =>
        \A i, j \in 1 .. numBlocks :
            \A v \in Voxels(intersect(block(i), block(j)).out) :
                ccBlocks_[i][Relative(v, block(i))] = ccBlocks_[j][Relative(v, block(j))]

(* The written labels are those of one pass over the whole image, up to    *)
(* their numbers: object voxels have equal labels iff they are in the same *)
(* object, and never the label of a background voxel.                      *)
ComponentsExact ==
    pc = "done" =>
        LET objects == Objects(image)
            Labels(o) == {dataset[v] : v \in o}
            background == {v \in DOMAIN image : image[v] = 0}
        IN  /\ \A o \in objects : Cardinality(Labels(o)) = 1
            /\ \A o \in objects : \A other \in (objects \ {o}) \cup {background} :
                  Labels(o) \cap Labels(other) = {}

(* Label 0 is the background's, and only the background's: what            *)
(* labelImageWithBackground promises of a block, asked of the result.      *)
BackgroundIsZero ==
    pc = "done" => \A v \in DOMAIN dataset : dataset[v] = 0 <=> image[v] = 0
==============================================================================
