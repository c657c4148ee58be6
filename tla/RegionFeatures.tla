---------------------------- MODULE RegionFeatures ----------------------------
(***************************************************************************)
(* RegionFeatures<N> computes statistics of the regions of a label image:  *)
(* a first pass over the blocks finds the largest value, which fixes the   *)
(* range of all histograms; a second one accumulates each block by itself; *)
(* the accumulators are then merged, and the features written.             *)
(*                                                                         *)
(* Of vigra's statistics those are modelled whose merging tells blocks     *)
(* apart: count, sum (the mean's), extrema, histogram and sum of           *)
(* coordinates (the region center's).  The higher moments are sums, too;   *)
(* quantiles are computed from the histogram.  The other state and actions *)
(* are those of BlockFilters.                                              *)
(***************************************************************************)
EXTENDS BlockFilters

CONSTANTS
    LabelImages(_),    \* label images of a shape
    Bins               \* DynamicHistogramSize

(* Labels are unsigned, and there is one for each voxel.                   *)
ASSUME FeaturesAssumption ==
    /\ Bins \in Nat \ {0}
    /\ \A extent \in {e \in Extents : DOMAIN e = Dim} : \A r \in RoisOf(extent) :
          LET s == sourceShape([extent |-> extent, roi |-> r])
          IN  LabelImages(s) \subseteq [VoxelsOf(Region(s)) -> Nat]

VARIABLES
    labels,            \* what labelsBlockSource_ reads
    M,                 \* the largest value found by the first pass
    accumulators_,     \* one for each block, from the first run on
    merged             \* a: the accumulator of the image, and the file

featureVars == <<labels, M, accumulators_, merged>>
allVars     == <<vars, featureVars>>

Bin(value, top) == IF value = top THEN Bins - 1 ELSE (value * Bins) \div top

(* What a region's accumulator holds after the voxels S, with their values *)
(* and their coordinates.                                                  *)
FeaturesOf(S, value, at, top) ==
    [count     |-> Cardinality(S),
     sum       |-> MapThenSumSet(LAMBDA v : value[v], S),
     extrema   |-> IF S = {} THEN {}
                   ELSE {Min({value[v] : v \in S}), Max({value[v] : v \in S})},
     histogram |-> [b \in 0 .. Bins - 1 |->
                      Cardinality({v \in S : value[v] <= top /\ Bin(value[v], top) = b})],
     center    |-> [d \in Dim |-> MapThenSumSet(LAMBDA v : at[v][d], S)]]

NoFeatures == FeaturesOf({}, <<>>, <<>>, 1)

(* vigra's merging of two of them.                                         *)
Combined(f, g) ==
    [count     |-> f.count + g.count,
     sum       |-> f.sum + g.sum,
     extrema   |-> LET both == f.extrema \cup g.extrema
                   IN  IF both = {} THEN {} ELSE {Min(both), Max(both)},
     histogram |-> [b \in 0 .. Bins - 1 |-> f.histogram[b] + g.histogram[b]],
     center    |-> Plus(f.center, g.center)]

(* The constructor; its precondition is that the sources' shapes are equal.*)
FeaturesInit ==
    \E extent \in {e \in Extents : DOMAIN e = Dim} :
        /\ source \in {[extent |-> extent, roi |-> r] : r \in RoisOf(extent)}
        /\ labels \in LabelImages(sourceShape(source))
        /\ filter = "RegionFeatures"
        /\ Construct([p |-> Origin, q |-> sourceShape(source)], Origin)
        /\ sink = <<>> /\ dataset = <<>> /\ args = <<>>
        /\ k = 0 /\ runs = 0 /\ cubeBlock = <<>>
        /\ M = 0 /\ accumulators_ = <<>> /\ merged = <<>>

------------------------------------------------------------------------------
GoTo(step) ==
    /\ pc' = step /\ k' = 1
    /\ UNCHANGED <<blockingVars, filter, source, sink, dataset, args, runs, cubeBlock>>

NextBlock ==
    /\ k' = k + 1
    /\ UNCHANGED <<blockingVars, pc, filter, source, sink, dataset, args, runs, cubeBlock>>

(* run(filename): M starts from the smallest positive float, 0 here.       *)
Run ==
    /\ Idle /\ filter = "RegionFeatures"
    /\ M' = 0 /\ merged' = <<>>
    /\ k' = 1 /\ pc' = "maximum" /\ runs' = runs + 1
    /\ UNCHANGED <<blockingVars, filter, source, sink, dataset, args, cubeBlock,
                   labels, accumulators_>>

MaximumOf(i) ==
    LET in == readBlock(source, block(i)) IN Max({in[v] : v \in DOMAIN in})

(* Mutant of FindMaximum: the maximum of the last block.                   *)
FindMaximumOfBlock ==
    /\ pc = "maximum" /\ k <= numBlocks
    /\ M' = MaximumOf(k)
    /\ NextBlock /\ UNCHANGED <<labels, accumulators_, merged>>

FindMaximum ==
    /\ pc = "maximum" /\ k <= numBlocks
    /\ M' = Larger(M, MaximumOf(k))
    /\ NextBlock /\ UNCHANGED <<labels, accumulators_, merged>>

MaximumFound ==
    /\ pc = "maximum" /\ k > numBlocks
    /\ GoTo("accumulate") /\ UNCHANGED featureVars

(* The accumulator of block i: its regions are those up to its largest     *)
(* label, label 0 is ignored, coordinates are those of the image.          *)
Accumulator(i, top) ==
    LET r   == block(i)
        in  == readBlock(source, r)
        lab == [v \in DOMAIN in |-> labels[Plus(v, r.p)]]
        at  == [v \in DOMAIN in |-> Plus(v, r.p)]
        Of(l) == {v \in DOMAIN in : lab[v] = l /\ l # 0}
    IN  [range   |-> top,
         regions |-> [l \in 0 .. Max({lab[v] : v \in DOMAIN in}) |->
                       FeaturesOf(Of(l), in, at, top)]]

(* Mutant of Accumulate: each block has its own histogram range.           *)
AccumulateInRange ==
    /\ pc = "accumulate" /\ k <= numBlocks
    /\ IF k \in DOMAIN accumulators_
       THEN Throw /\ UNCHANGED <<sink, dataset, featureVars>>
       ELSE /\ accumulators_' = Append(accumulators_, Accumulator(k, MaximumOf(k)))
            /\ NextBlock /\ UNCHANGED <<labels, M, merged>>

(* extractFeatures(dataBlock, labelsBlock, accumulators_[i]) needs two     *)
(* passes, and vigra refuses the first one of an accumulator that has made *)
(* the second one: accumulators_ is a member that nothing clears.          *)
Accumulate ==
    /\ pc = "accumulate" /\ k <= numBlocks
    /\ IF k \in DOMAIN accumulators_
       THEN Throw /\ UNCHANGED <<sink, dataset, featureVars>>
       ELSE /\ accumulators_' = Append(accumulators_, Accumulator(k, M))
            /\ NextBlock /\ UNCHANGED <<labels, M, merged>>

(* The regions of a are those up to maxRegionLabel.                        *)
Accumulated ==
    /\ pc = "accumulate" /\ k > numBlocks
    /\ LET maxRegionLabel == Max(UNION {DOMAIN accumulators_[i].regions : i \in 1 .. numBlocks})
       IN  merged' = [range |-> M, regions |-> [l \in 0 .. maxRegionLabel |-> NoFeatures]]
    /\ GoTo("mergeFeatures") /\ UNCHANGED <<labels, M, accumulators_>>

(* a.merge(accumulators_[i], relabeling), the relabeling being the         *)
(* identity; histograms of different ranges cannot be merged.              *)
Merge ==
    /\ pc = "mergeFeatures" /\ k <= numBlocks
    /\ LET other == accumulators_[k]
       IN  IF other.range # merged.range
           THEN Throw /\ UNCHANGED <<sink, dataset, featureVars>>
           ELSE /\ merged' = [merged EXCEPT !.regions = [l \in DOMAIN @ |->
                            IF l \in DOMAIN other.regions
                            THEN Combined(@[l], other.regions[l]) ELSE @[l]]]
                /\ NextBlock /\ UNCHANGED <<labels, M, accumulators_>>

(* Every feature of merged's regions goes to the file.                          *)
WriteFeatures ==
    /\ pc = "mergeFeatures" /\ k > numBlocks
    /\ pc' = "done" /\ k' = 0
    /\ UNCHANGED <<blockingVars, filter, source, sink, dataset, args, runs, cubeBlock,
                   featureVars>>

FeaturesIdle == labels = <<>> /\ M = 0 /\ accumulators_ = <<>> /\ merged = <<>>

AllInit == (Init /\ FeaturesIdle) \/ FeaturesInit

AllNext ==
    \/ Next /\ UNCHANGED featureVars
    \/ Run \/ FindMaximum \/ MaximumFound
    \/ Accumulate \/ Accumulated
    \/ Merge \/ WriteFeatures

AllSpec == AllInit /\ [][AllNext]_allVars

------------------------------------------------------------------------------
(* The written features are those of one pass over the whole image: of     *)
(* every label that occurs, wherever its voxels lie, with one histogram    *)
(* range, coordinates of the image, and nothing for the background.        *)
FeaturesExact ==
    (filter = "RegionFeatures" /\ pc = "done") =>
        LET all   == VoxelsOf(roi_)
            value == [v \in all |-> View(v)]
            top   == Max({value[v] : v \in all})
            Of(l) == {v \in all : labels[v] = l /\ l # 0}
        IN  merged.regions = [l \in 0 .. Max({labels[v] : v \in all}) |->
                            FeaturesOf(Of(l), value, [v \in all |-> v], top)]

(* A RegionFeatures object is good for one run, and that run never fails:  *)
(* its accumulators can always be merged; a second run never completes.    *)
OneRun ==
    filter = "RegionFeatures" =>
        /\ pc = "failed" => runs > 1
        /\ pc \in {"mergeFeatures", "done"} => runs = 1
==============================================================================
