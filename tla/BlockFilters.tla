------------------------------ MODULE BlockFilters ------------------------------
(***************************************************************************)
(* Thresholding<N>, ChannelSelector<N+1> and ResampleImage<N>: filters     *)
(* that read an image of any size block by block from a Source, and write  *)
(* the result block by block to a Sink.  Also the block that a caller      *)
(* reads from a SourceKnossos, cube by cube.                               *)
(*                                                                         *)
(* A filter is constructed once and run as often as its owner likes, who   *)
(* may select another region of the source and take a new sink (on the     *)
(* same dataset) between two runs.  Each block of a run is a step; what    *)
(* throws ends the run; where the behaviour is undefined, pc says so.      *)
(***************************************************************************)
EXTENDS BlockIO, FiniteSetsExt

CONSTANTS
    Extents,           \* shapes of the source's dataset, of N or N + 1 dimensions
    Rois,              \* regions that setRoi selects
    Thresholds,        \* argument of Thresholding::run
    Factors,           \* argument of ResampleImage::run, as [num, den]
    CubeRois,          \* regions read from a SourceKnossos
    MaxRuns            \* bound on the runs of a filter

(* A dataset has voxels, of N dimensions or of one more; regions start at  *)
(* or after the first voxel, and those of cubes are not empty.             *)
ASSUME FilterAssumption ==
    /\ MaxRuns \in Nat
    /\ Extents \subseteq [Dim -> Nat \ {0}] \cup [0 .. N -> Nat \ {0}]
    /\ \A r \in Rois : \E axes \in {Dim, 0 .. N} : r \in [p : [axes -> Nat], q : [axes -> Nat]]
    /\ \A f \in Factors : f.num \in Nat \ {0} /\ f.den \in Nat \ {0}
    /\ \A r \in CubeRois : r \in [p : Vectors, q : Vectors] /\ \A d \in Dim : r.p[d] < r.q[d]

VARIABLES
    filter,            \* the class of the object
    source,            \* source_
    sink,              \* the sink of the current run, or of the last one
    dataset,           \* the dataset that sinks write to
    args,              \* arguments of the current run, or of the last one
    k,                 \* its next block or cube, from 1; 0 between runs
    runs,              \* runs started
    cubeBlock          \* the block that is read from a SourceKnossos

Filters == {"Thresholding", "ChannelSelector", "ResampleImage"}

filterVars == <<filter, source, sink, dataset, args, k, runs, cubeBlock>>
vars       == <<blockingVars, pc, filterVars>>

(* What setRoi may select of a dataset: some of its voxels, or all of them *)
(* (Roi()).                                                                *)
RoisOf(extent) ==
    {r \in Rois : DOMAIN r.p = DOMAIN extent /\ intersect(Region(extent), r).meets}
        \cup {EmptyRoi(DOMAIN extent)}

(* The blocking of a ChannelSelector is default-constructed until it runs. *)
NotBlocked ==
    /\ roi_ = EmptyRoi(Dim) /\ overlap_ = Origin
    /\ x = Origin /\ dim = -1 /\ blocks_ = <<>>
    /\ pc = "tiled"

FilterInit ==
    \E extent \in Extents :
        /\ source \in {[extent |-> extent, roi |-> r] : r \in RoisOf(extent)}
        /\ IF DOMAIN extent = Dim
           THEN /\ filter \in {"Thresholding", "ResampleImage"}
                /\ Construct([p |-> Origin, q |-> sourceShape(source)], Origin)
           ELSE filter = "ChannelSelector" /\ NotBlocked
        /\ sink = NewSink /\ dataset = <<>> /\ args = <<>>
        /\ k = 0 /\ runs = 0 /\ cubeBlock = <<>>

CubeInit ==
    /\ filter = "SourceKnossos" /\ NotBlocked
    /\ source = <<>> /\ sink = <<>> /\ dataset = <<>> /\ args = <<>>
    /\ k = 0 /\ runs = 0 /\ cubeBlock = <<>>

Init == FilterInit \/ CubeInit

------------------------------------------------------------------------------
Idle == k = 0 /\ pc \in {"tiled", "done", "failed"} /\ runs < MaxRuns

SetRoi ==
    /\ Idle /\ filter \in Filters
    /\ \E r \in RoisOf(source.extent) : source' = [source EXCEPT !.roi = r]
    /\ pc' = "tiled"
    /\ UNCHANGED <<blockingVars, filter, sink, dataset, args, k, runs, cubeBlock>>

TakeNewSink ==
    /\ Idle /\ filter \in Filters
    /\ sink' = NewSink
    /\ pc' = "tiled"
    /\ UNCHANGED <<blockingVars, filter, source, dataset, args, k, runs, cubeBlock>>

(* Thresholding::run(threshold, ifLower, ifHigher, sink), up to its loop.  *)
Threshold ==
    /\ Idle /\ filter = "Thresholding"
    /\ \E t \in Thresholds : args' = [threshold |-> t, ifLower |-> 0, ifHigher |-> 1]
    /\ sink' = setShape(sink, roi_.q)
    /\ k' = 1 /\ pc' = "run" /\ runs' = runs + 1
    /\ UNCHANGED <<blockingVars, filter, source, dataset, cubeBlock>>

(* A shape or a corner times the factor num / den.                         *)
Scaled(v, f) ==
    [d \in Dim |-> IF f.num < f.den
                   THEN (v[d] * f.num + f.den - 1) \div f.den     \* vigra::ceil
                   ELSE (v[d] * f.num) \div f.den]                \* vigra::floor

(* ResampleImage::run(factor, sink, blockShape), up to its loop.           *)
Resample ==
    /\ Idle /\ filter = "ResampleImage"
    /\ \E f \in Factors :
          /\ args' = f
          /\ sink' = setShape(sink, Scaled(sourceShape(source), f))
    /\ k' = 1 /\ pc' = "run" /\ runs' = runs + 1
    /\ UNCHANGED <<blockingVars, filter, source, dataset, cubeBlock>>

(* ChannelSelector::run(dim, channel, sink): the blocking is that of the   *)
(* remaining dimensions.                                                   *)
SelectChannel ==
    /\ Idle /\ filter = "ChannelSelector"
    /\ LET sh == sourceShape(source)
       IN  \E d \in DOMAIN sh : \E channel \in 0 .. sh[d] - 1 :
              /\ args' = [dim |-> d, channel |-> channel]
              /\ Reconstruct([p |-> Origin, q |-> WithoutAxis(sh, d)], Origin)
    /\ k' = 1 /\ runs' = runs + 1
    /\ UNCHANGED <<filter, source, sink, dataset, cubeBlock>>

(* Mutant of ChannelBlocked: the sink is not told the shape.               *)
ChannelBlockedUntold ==
    /\ k = 1 /\ pc = "tiled" /\ filter = "ChannelSelector"
    /\ pc' = "run"
    /\ UNCHANGED <<blockingVars, filter, source, sink, dataset, args, k, runs, cubeBlock>>

ChannelBlocked ==
    /\ k = 1 /\ pc = "tiled" /\ filter = "ChannelSelector"
    /\ sink' = setShape(sink, roi_.q)
    /\ pc' = "run"
    /\ UNCHANGED <<blockingVars, filter, source, dataset, args, k, runs, cubeBlock>>

------------------------------------------------------------------------------
Throw == /\ pc' = "failed" /\ k' = 0
         /\ UNCHANGED <<blockingVars, filter, source, args, runs, cubeBlock>>

(* The rest of an iteration, for the region it reads, the one it writes    *)
(* and the block it writes there.                                          *)
Process(from, to, out) ==
    \/ /\ ~Readable(source, from) \/ ~ShapeKnown(sink)
       /\ Throw /\ UNCHANGED <<sink, dataset>>
    \/ /\ Readable(source, from) /\ ShapeKnown(sink)
       /\ sink' = [sink EXCEPT !.fileCreated = TRUE]
       /\ IF Fits(sink, dataset, to)
          THEN /\ dataset' = Written(sink, dataset, to, out)
               /\ k' = k + 1
               /\ UNCHANGED <<blockingVars, pc, filter, source, args, runs, cubeBlock>>
          ELSE dataset' = Opened(sink, dataset) /\ Throw

NextBlockOf(class) == filter = class /\ pc = "run" /\ k <= numBlocks

ThresholdBlock ==
    /\ NextBlockOf("Thresholding")
    /\ LET in  == readBlock(source, block(k))
           out == [v \in DOMAIN in |-> IF in[v] > args.threshold
                                       THEN args.ifHigher ELSE args.ifLower]
       IN  Process(block(k), block(k), out)

SelectBlock ==
    /\ NextBlockOf("ChannelSelector")
    /\ LET newRoi == insertAxisBefore(block(k), args.dim, args.channel, args.channel + 1)
           in  == readBlock(source, newRoi)
           out == [v \in VoxelsOf(Region(shape(block(k)))) |-> in[WithAxis(v, args.dim, 0)]]
       IN  Process(newRoi, block(k), out)

stride(f) == f.den \div f.num

(* Mutant of resample: a stride of 2 takes the second voxel of each pair.  *)
resampleLast(in, inShape, outShape, f) ==
    LET s   == stride(f)
        end == [d \in Dim |-> Smaller(outShape[d], (inShape[d] + s - 1) \div s)]
    IN  [v \in VoxelsOf(Region(outShape)) |->
            IF Inside(v, Region(end))
            THEN in[[d \in Dim |-> Smaller(s * v[d] + s - 1, inShape[d] - 1)]] ELSE 0]

(* resample(in, out, factor): every stride-th voxel, as far as both reach; *)
(* the strided view is rounded up, as in vigra.                            *)
resample(in, inShape, outShape, f) ==
    LET s   == stride(f)
        end == [d \in Dim |-> Smaller(outShape[d], (inShape[d] + s - 1) \div s)]
    IN  [v \in VoxelsOf(Region(outShape)) |->
            IF Inside(v, Region(end)) THEN in[[d \in Dim |-> s * v[d]]] ELSE 0]

(* A factor above 1 makes the stride 0, and stridearray divides integers   *)
(* by it, which ends the program.                                          *)
ResampleBlock ==
    /\ NextBlockOf("ResampleImage")
    /\ LET in       == readBlock(source, block(k))
           inShape  == shape(block(k))
           outShape == Scaled(inShape, args)
           outP     == Scaled(block(k).p, args)
       IN  IF Readable(source, block(k)) /\ stride(args) = 0
           THEN /\ pc' = "undefined" /\ k' = 0
                /\ UNCHANGED <<blockingVars, filter, source, sink, dataset, args, runs, cubeBlock>>
           ELSE Process(block(k), [p |-> outP, q |-> Plus(outP, outShape)],
                        resample(in, inShape, outShape, args))

Finish ==
    /\ pc = "run" /\ k > numBlocks
    /\ pc' = "done" /\ k' = 0
    /\ UNCHANGED <<blockingVars, filter, source, sink, dataset, args, runs, cubeBlock>>

------------------------------------------------------------------------------
(* SourceKnossos::readBlock, into a zero block.                            *)
ReadCubes ==
    /\ Idle /\ filter = "SourceKnossos"
    /\ \E r \in CubeRois :
          /\ args' = r
          /\ cubeBlock' = [v \in VoxelsOf(Region(shape(r))) |-> 0]
    /\ k' = 1 /\ pc' = "cubes" /\ runs' = runs + 1
    /\ UNCHANGED <<blockingVars, filter, source, sink, dataset>>

ReadCube ==
    /\ pc = "cubes" /\ k <= Cardinality(cubes(args))
    /\ LET coor == cube(args, k)
           part == CubePart(args, coor)
       IN  \/ ~HasFile(coor) /\ Throw /\ UNCHANGED <<sink, dataset>>
           \/ /\ HasFile(coor) /\ PartInBounds(part, args)
              /\ cubeBlock' = CopiedCube(cubeBlock, part, coor)
              /\ k' = k + 1
              /\ UNCHANGED <<blockingVars, pc, filter, source, sink, dataset, args, runs>>
           \/ /\ HasFile(coor) /\ ~PartInBounds(part, args)
              /\ pc' = "undefined"
              /\ UNCHANGED <<blockingVars, filterVars>>

CubesRead ==
    /\ pc = "cubes" /\ k > Cardinality(cubes(args))
    /\ pc' = "done" /\ k' = 0
    /\ UNCHANGED <<blockingVars, filter, source, sink, dataset, args, runs, cubeBlock>>

Next ==
    \/ Tile /\ UNCHANGED filterVars
    \/ SetRoi \/ TakeNewSink
    \/ Threshold \/ Resample
    \/ SelectChannel \/ ChannelBlocked
    \/ ThresholdBlock \/ SelectBlock \/ ResampleBlock
    \/ Finish
    \/ ReadCubes \/ ReadCube \/ CubesRead

Spec == Init /\ [][Next]_vars

------------------------------------------------------------------------------
(* Shape of the state: a run has a filter of its class, a block to do and  *)
(* a sink of the result's shape, and the dataset has all its voxels.       *)
TypeOK ==
    /\ runs \in 0 .. MaxRuns
    /\ pc = "run" => /\ k \in 1 .. numBlocks + 1 /\ sink.shape \in [Dim -> Nat \ {0}]
                     /\ k > 1 => sink.fileCreated
    /\ pc = "cubes" => k \in 1 .. Cardinality(cubes(args)) + 1
    /\ filter \in Filters =>
          /\ source.roi \in RoisOf(source.extent)
          /\ sink.fileCreated => DOMAIN dataset = VoxelsOf(Region([d \in Dim |->
                1 + Max({v[d] : v \in DOMAIN dataset})]))

(* The voxel of the selected region of the source.                         *)
View(v) == Pixel(Add(v, source.roi.p))

Completed(class) == filter = class /\ pc = "run" /\ k > numBlocks

(* However an image is cut into blocks, and whatever region of the source  *)
(* is selected: every voxel of a completed thresholding tells whether the  *)
(* source's voxel at its own position in the region is above the threshold *)
(* of this run, and every voxel of a selected channel is the source's.     *)
(* This is what the code promises: two comments say otherwise, see         *)
(* AsCommented.                                                            *)
FilterExact ==
    /\ Completed("Thresholding") => \A v \in VoxelsOf(roi_) :
          dataset[v] = IF View(v) > args.threshold THEN args.ifHigher ELSE args.ifLower
    /\ Completed("ChannelSelector") => \A v \in VoxelsOf(roi_) :
          dataset[v] = View(WithAxis(v, args.dim, args.channel))

(* Resampling by 1 / s: every voxel v of the result, also next to block    *)
(* corners that are no multiples of s and are rounded on their own, holds  *)
(* a voxel of the source less than s before s * v, and the one at s * v    *)
(* itself if the blocks are aligned.                                       *)
ResampleNear ==
    (Completed("ResampleImage") /\ args.num = 1) =>
        LET s == stride(args)
            Near(v) == {w \in VoxelsOf(roi_) :
                           \A d \in Dim : /\ s * v[d] - w[d] \in 0 .. s - 1
                                          /\ BlockShape[d] % s = 0 => w[d] = s * v[d]}
        IN  \A v \in VoxelsOf(Region(Scaled(roi_.q, args))) :
                dataset[v] \in {View(w) : w \in Near(v)}

(* A run fails, or ends the program, only for a reason its caller can      *)
(* know: another region was selected since the filter was constructed, the *)
(* sink has been used for a result of another shape, or an image is        *)
(* resampled by a factor whose inverse is no integer or does not divide    *)
(* the block shape.                                                        *)
FailureExplained ==
    (pc \in {"failed", "undefined"} /\ filter \in Filters) =>
        \/ filter # "ChannelSelector" /\ sourceShape(source) # roi_.q
        \/ sink.fileCreated /\ DOMAIN dataset # VoxelsOf(Region(sink.shape))
        \/ /\ filter = "ResampleImage"
           /\ args.num # 1 \/ \E d \in Dim : BlockShape[d] % stride(args) # 0

(* What SourceKnossos reads correctly: a region that in every dimension    *)
(* starts with a cube and ends within it, not with its last voxel.         *)
Readily(roi) == \A d \in Dim : roi.p[d] % Cube = 0 /\ roi.q[d] < roi.p[d] + Cube

(* A block read from a SourceKnossos is right iff its region is of that    *)
(* kind; for others it has voxels of the wrong place or none, or the copy  *)
(* runs out of the block.  Only a region with no data fails.               *)
KnossosExact ==
    filter = "SourceKnossos" =>
        /\ (pc = "cubes" /\ k > Cardinality(cubes(args))) =>
              (Readily(args) <=> \A v \in DOMAIN cubeBlock :
                                    cubeBlock[v] = Pixel(Add(v, args.p)))
        /\ pc = "undefined" => ~Readily(args)
        /\ pc = "failed" => \E coor \in cubes(args) : ~HasFile(coor)

------------------------------------------------------------------------------
(* What the comments say and the code does not do.                         *)

(* The result of a completed thresholding, when block regions are relative *)
(* to corner and voxels above the threshold get the value above.           *)
Thresholded(corner, above, below) ==
    \A v \in VoxelsOf(roi_) :
        dataset[v] = IF Pixel(Add(v, corner)) > args.threshold THEN above ELSE below

(* "If a pixel value is greater than 'threshold', it is assigned the       *)
(* 'ifLower' value, otherwise the 'ifHigher' value" (run in thresholding.h)*)
(* and "selects only the region of interest ... When readBlock() is used,  *)
(* the coordinates are relative to roi.q" (setRoi in source.h).  If either *)
(* comment were right, with or without the other, a completed run would    *)
(* leave one of these three results.                                       *)
AsCommented ==
    Completed("Thresholding") =>
        \/ Thresholded(source.roi.p, args.ifLower, args.ifHigher)
        \/ Thresholded(source.roi.q, args.ifHigher, args.ifLower)
        \/ Thresholded(source.roi.q, args.ifLower, args.ifHigher)
==============================================================================
