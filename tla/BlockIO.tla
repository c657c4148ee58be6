-------------------------------- MODULE BlockIO --------------------------------
(***************************************************************************)
(* Where blocks come from and go to: SourceHDF5, SinkHDF5 and              *)
(* SourceKnossos (include/bw/source*.h, sink*.h).                          *)
(*                                                                         *)
(* A SourceHDF5 is the record of the shape of its dataset and of roi_; the *)
(* voxel v of every dataset and cube is Pixel(v).  A SinkHDF5 is the       *)
(* record of shape_ and fileCreated_; its dataset is a function on the     *)
(* voxels, <<>> before it is created.  Chunks (blockShape_) and the        *)
(* compression of datasets are left out: they do not change what is read.  *)
(* A block is a function on coordinates relative to its corner.            *)
(***************************************************************************)
EXTENDS Blocking, FiniteSets

CONSTANTS
    Pixel(_),          \* the data, by coordinate
    Cube,              \* the edge of a Knossos cube: 128
    Boundary           \* boundary_ of the Knossos data set

ASSUME KnossosAssumption == Cube \in Nat \ {0} /\ Boundary \in [Dim -> Nat \ {0}]

Region(extent) == [p |-> [d \in DOMAIN extent |-> 0], q |-> extent]

Inside(v, r) == \A d \in DOMAIN v : r.p[d] <= v[d] /\ v[d] < r.q[d]

VoxelsOf(r) ==
    LET Coordinate == UNION {r.p[d] .. r.q[d] - 1 : d \in DOMAIN r.p}
    IN  {v \in [DOMAIN r.p -> Coordinate] : Inside(v, r)}

------------------------------------------------------------------------------
NoRoi(source) == EmptyRoi(DOMAIN source.extent)

(* SourceHDF5::shape(): the whole dataset, or what roi_ selects of it.     *)
sourceShape(source) ==
    IF source.roi = NoRoi(source) THEN source.extent
    ELSE shape(intersect(Region(source.extent), source.roi).out)

(* Mutant of Located: the region is relative to the upper corner of roi_,  *)
(* as the comment on Source::setRoi has it.                                *)
LocatedAtEnd(source, roi) ==
    IF source.roi = NoRoi(source) THEN roi
    ELSE intersect(source.roi, shift(roi, source.roi.q)).out

(* The region of the dataset that readBlock(roi, block) reads.             *)
Located(source, roi) ==
    IF source.roi = NoRoi(source) THEN roi
    ELSE intersect(source.roi, shift(roi, source.roi.p)).out

(* The precondition of readBlock, and that of the HDF5 library.            *)
Readable(source, roi) ==
    LET r == Located(source, roi)
    IN  /\ shape(r) = shape(roi)
        /\ \A d \in DOMAIN r.p : 0 <= r.p[d] /\ r.q[d] <= source.extent[d]

readBlock(source, roi) ==
    [v \in VoxelsOf(Region(shape(roi))) |-> Pixel(Add(v, Located(source, roi).p))]

------------------------------------------------------------------------------
NewSink == [shape |-> Origin, fileCreated |-> FALSE]

setShape(sink, s) == [sink EXCEPT !.shape = s]

(* Mutant of Opened: every block is written into a new dataset.            *)
OpenedAnew(sink, dataset) == [v \in VoxelsOf(Region(sink.shape)) |-> 0]

(* The dataset that writeBlock writes to: one of shape_ is created by the  *)
(* sink's first block, and kept whatever shape is set later.               *)
Opened(sink, dataset) ==
    IF sink.fileCreated THEN dataset ELSE [v \in VoxelsOf(Region(sink.shape)) |-> 0]

ShapeKnown(sink) == sink.fileCreated \/ sink.shape # Origin

(* HDF5 refuses a block that reaches out of the dataset.                   *)
Fits(sink, dataset, r) == VoxelsOf(r) \subseteq DOMAIN Opened(sink, dataset)

Written(sink, dataset, r, data) ==
    LET file == Opened(sink, dataset)
    IN  [v \in DOMAIN file |-> IF Inside(v, r) THEN data[Subtract(v, r.p)] ELSE file[v]]

------------------------------------------------------------------------------
(* SourceKnossos::readBlock(roi, block): the cubes it loads, in the order  *)
(* of its three nested loops ...                                           *)
startBlock(roi) == [d \in Dim |-> Quotient(roi.p[d], Cube)]
endBlock(roi)   == [d \in Dim |-> Quotient(roi.q[d] - 1, Cube) + 1]

cubes(roi)   == Box(startBlock(roi), endBlock(roi))
cube(roi, k) == CHOOSE c \in cubes(roi) : Cardinality({b \in cubes(roi) : Before(b, c)}) = k - 1

(* Mutant of CubePart: the end within the last cube is that of the last    *)
(* voxel.                                                                  *)
CubePartInclusive(roi, coor) ==
    LET first(d) == startBlock(roi)[d] = coor[d]
        p == [d \in Dim |-> IF first(d) THEN roi.p[d] - Cube * coor[d] ELSE 0]
    IN  [p |-> p,
         q |-> [d \in Dim |-> IF endBlock(roi)[d] = coor[d] + 1
                              THEN ((roi.q[d] - 1) % Cube) + 1 + p[d] ELSE Cube],
         offset |-> [d \in Dim |-> IF first(d) THEN 0
                                   ELSE Cube * (coor[d] - startBlock(roi)[d] - 1)]]

(* ... and p, q and offset of cube coor: its part [p, q) is copied to      *)
(* [p + offset, q + offset) of the block.                                  *)
CubePart(roi, coor) ==
    LET first(d) == startBlock(roi)[d] = coor[d]
        p == [d \in Dim |-> IF first(d) THEN roi.p[d] - Cube * coor[d] ELSE 0]
    IN  [p |-> p,
         q |-> [d \in Dim |-> IF endBlock(roi)[d] = coor[d] + 1
                              THEN (roi.q[d] % Cube) + p[d] ELSE Cube],
         offset |-> [d \in Dim |-> IF first(d) THEN 0
                                   ELSE Cube * (coor[d] - startBlock(roi)[d] - 1)]]

(* The copy stays within the cube and within the block: subarray does not  *)
(* look.  A part never ends before it starts, because remainders are not   *)
(* negative; when it ends where it starts, nothing is copied.              *)
PartInBounds(part, roi) ==
    \A d \in Dim : part.p[d] < part.q[d] =>
        part.q[d] <= Cube /\ part.q[d] + part.offset[d] <= shape(roi)[d]

CopiedCube(data, part, coor) ==
    LET target == shift([p |-> part.p, q |-> part.q], part.offset)
    IN  [v \in DOMAIN data |->
            IF Inside(v, target)
            THEN Pixel([d \in Dim |-> Cube * coor[d] + v[d] - part.offset[d]])
            ELSE data[v]]

(* Every cube that holds a voxel of the data set has a file.               *)
HasFile(coor) == \A d \in Dim : Cube * coor[d] < Boundary[d]
==============================================================================
