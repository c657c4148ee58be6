# Verification of blockedarray

blockedarray is a C++ template library (`include/bw/`, with Python bindings in
`blockedarray/`) for arrays that are too large or too sparse to be held in one
piece.  `Array<N,T>` keeps only the blocks that were written, optionally
compressed; a family of blockwise algorithms reads blocks from a `Source` and
writes them to a `Sink`.  This directory holds TLA+ models of the library, TLC
configurations that check them on small instances, and proofs for all
instances, checked by TLAPS.

    tlc -config Array1D.cfg MCPersistence       # one run
    tlapm BlockedArrayProofs.tla                # one module's proofs

`PROJECT.json` lists the runs, the source lines behind every definition, the
hazards of the code and the theorems.

## 1. Inventory

| component | state | operations | used by |
|---|---|---|---|
| `Roi` (`roi.h`) | corners `p`, `q` of `[p, q)` | shape, shift, intersect, add/remove axis | everything |
| `Array::RwIterator` (`array.h`) | list of blocks, position, `blockCoord`, `withinBlock`, `read` | constructor (odometer), `next`, `hasMore` | every region operation of `Array` |
| `CompressedArray` (`compressedarray.h`) | `data_`, `compressedSize_`, `isCompressed_`, `isDirty_`, `dirtyDimensions_` | construct, copy, assign, compare, compress, uncompress, read, write, mark and query dirtiness, HDF5 | `Array`, `ConnectedComponents` |
| `Array` (`array.h`) | `blocks_`, four options, `blockMinMax_`, `blockVoxelValues_`, scratch `tmpBlock_` | option setters, write / overlay / delete / relabel, mark dirty, queries, HDF5 | users, Python, `OpArrayCacheCpp` |
| persistence (HDF5 parts of both, `hdf5utils`) | groups, datasets and attributes of a file | `writeHDF5`, `readHDF5` | users |
| `Blocking` (`blocking.h`) | list of (overlapping) block regions | constructor | all blockwise algorithms |
| `ConnectedComponents` | labels per block, offsets, union-find | one pass per block, merge over overlaps, relabel, write | users, Python |
| `Thresholding`, `ChannelSelector`, `ResampleImage` | a `Blocking` | `run`: read, transform, write each block | users |
| `RegionFeatures` | one accumulator per block | two passes, merge, write | users |
| `Source`, `Sink`, `SourceHDF5`, `SinkHDF5`, `SourceKnossos` | file, region, shape, whether the dataset was created | `setRoi`, `shape`, `readBlock`, `setShape`, `writeBlock` | blockwise algorithms |
| `MeshExtractor` | VTK pipeline | extract, smooth, write | users |
| `OpArrayCacheCpp` (Python, lazyflow) | an `Array`, a lock, `_fixed` | `setupOutputs`, `execute`, `propagateDirty`, `setInSlot` | ilastik |
| Python bindings | none | argument conversion | Python |

Components call each other synchronously.  An `Array` owns its blocks through
shared pointers and calls `CompressedArray` for every access to data; a
blockwise algorithm calls `readBlock` and `writeBlock` of objects it does not
own.  The C++ code has no threads: the one concurrent component is
`OpArrayCacheCpp`, whose requests run on lazyflow's worker threads.

What is hard here, and where a unit test does not reach:

* *Boundaries.*  Regions are cut into blocks by integer arithmetic in four
  places (`blockGivenCoordinateP/Q`, the odometer, `withinBlock`, `read`), and
  the cases differ for the first, second, third and last block of each
  dimension.
* *Redundant state.*  A cached compressed size, a block flag beside slice
  flags, tables beside blocks: each has to follow every write under options
  that change at any time.
* *Iterators over a map that the loop itself changes.*
* *Two paths to the same result*: a new block is built from the data or
  written into, depending on how the region covers it.
* *Rounding, offsets and overlaps* in the blockwise algorithms, and *lock
  against notification order* in the cache operator.

What makes each component correct:

* RwIterator: visits each touched block once; the visits partition the region
  and agree with the caller's array; it ends.
* CompressedArray: reads return what was written, whatever was compressed,
  copied or assigned in between; `compress` never throws; dirtiness is not
  lost before the data is rewritten.
* Array: it behaves like one box of voxels and a set of existing blocks;
  tables, compression state and empty-block deletion agree with the options;
  dirtiness of a region is that of its voxels.
* Persistence: what is read behaves like what was written.
* Blocking: tiles its region.  ConnectedComponents: equal labels iff connected.
  Pipelines: the output is the transformed input, whatever the block shape,
  and a run that fails does so for a reason its caller can know.
  RegionFeatures: the features are those of one pass over the image.
* OpArrayCacheCpp: a request returns data no older than the last notification
  before it, and requests and notifications do not wait on each other.

## 2. Modules

| module | models | depends on |
|---|---|---|
| `BlockGeometry` | index functions of `array.h` on regions of voxels | |
| `Roi` | `Roi<N>`: regions of any number of dimensions, with `intersect` and `insertAxisBefore` | |
| `RwIterator` | the iterator as a state machine, one loop step per action | `BlockGeometry` |
| `CompressedBlock` | the operations of `CompressedArray<N,T>` as operators on the record of its members | `BlockGeometry` |
| `CompressedArray` | objects of that class under every sequence of calls | `CompressedBlock` |
| `VoxelStore` | the abstract contents of an array: one box of voxels | `BlockGeometry` |
| `SparseStore` | the abstract specification of an array: voxels, and which blocks exist | `VoxelStore` |
| `BlockedArray` | `Array<N,T>`, one action per public operation | `CompressedBlock`; `VoxelStore`, `SparseStore` (instances) |
| `Persistence` | writing an array to HDF5, reading it into a new object, and using that | `BlockedArray` |
| `OpArrayCacheCpp` | the lazyflow cache operator: threads, lock and notifications around an array | `BlockedArray` |
| `Blocking` | the tiling constructor of `Blocking<N>` | `BlockGeometry`, `Roi` |
| `ConnectedComponents` | the constructor and `writeResult` of `ConnectedComponents<N>`, one loop iteration per action | `Blocking` |
| `BlockIO` | `SourceHDF5`, `SinkHDF5` and `SourceKnossos` as operators | `Blocking` |
| `BlockFilters` | `Thresholding`, `ChannelSelector`, `ResampleImage` and reads from Knossos cubes, one block or cube per action | `BlockIO` |
| `RegionFeatures` | `RegionFeatures<N>`, one block of a loop per action, beside the filters | `BlockFilters` |
| `MC*` | constants for TLC | the module they are named after |
| `*Proofs` | theorems | the module they are named after |

Names follow the source: a definition `writeSubarray` is
`Array::writeSubarray`, a variable `blockMinMax_` the member.  Where a class
has overloads, the model tells them apart: `setDirtyAll`, `setDirty` (region)
and `SetSlots` (slice) are the three `setDirty` of `CompressedArray`, `At` is
`operator[]`.

**Abstractions.**  Dimensions are numbered from 0 as in the code, vectors are
functions on them, arrays are functions on a box of vectors.  Values are
members of a small set with 0 as `T()`.  A buffer is a record of what it
encodes, its form (raw or snappy) and its length in elements; snappy is an
unknown function from images to lengths (`CompressedLen`), because lengths are
all that the control flow looks at.  Output streams and byte sizes are left
out.  `RwIterator` shows that the visits of one loop touch disjoint parts, one
block each; `BlockedArray` relies on it and maps over the touched blocks in
one step.  The operation's whole tail (deleting empty blocks, updating both
tables) is part of the step.

A file of `Persistence` is the record of what one HDF5 group holds.  Datasets
are numbered by the position of their block in the map's order, which is the
lexicographic one (`Before`): everything that was kept per block is found again
by position.  While the file is all there is, the variables of `BlockedArray`
are the history of what was written, so that `RoundTrip` is a property of the
step that reads.  `BlockFromFile` keeps `isDirty_`: the block is returned
without a copy (as compilers do for a named local) and then assigned.

In `ConnectedComponents` the union-find array is the partition of the ids, and
the labeling of one block is what vigra documents: numbers from 1 for the
objects, in scan order.  The reference for the result is the set of objects of
the whole image, `Objects(image)`.  The labels of a block are kept in a
`CompressedArray`, which reads back what was written (proved below).

**Block pipelines.**  A filter of `BlockFilters` is one object that its owner
constructs once and runs up to `MaxRuns` times.  Between two runs the owner may
call `setRoi` of the source, or take a new sink on the same file: `blocking_` is
fixed at construction (a `ChannelSelector` builds it when it runs), the shape
that `ResampleImage` announces is not, and a `SinkHDF5` creates its dataset only
once.  A stride of 0 is an integer division by zero, and `pc` becomes
`"undefined"`.  An image is the function `Pixel` on coordinates, of a different
value for each voxel, so that a voxel of a wrong place is noticed. A block's
iteration (read, transform, write) is one step; what throws ends the run.  Of
libraries we take: HDF5 refuses by throwing what reaches out of a dataset;
`createDataset` replaces the dataset that is there; vigra's `stridearray` rounds
up and divides by the stride.  Where a Knossos copy's end is computed as
remainder plus start, it is never before its start.  Factors are exact
rationals: rounding of `double` is left out.  `readBlock` of `SourceKnossos` is
one step per cube; the cubes' files are complete.  Where `subarray` leaves the
block or the cube, `pc` becomes `"undefined"`, for nothing looks.

`RegionFeatures` models of vigra's statistics those whose merging tells blocks
apart: count, sum, extrema, histogram and sum of coordinates.  vigra refuses a
first pass of an accumulator that has made its second, and to merge histograms
of different ranges.  `M` starts at the type's `min()`, 0 here.

**The cache operator.**  In `OpArrayCacheCpp` each request is a thread, and
every place where another thread can come between is a step: taking the lock,
each answer from upstream, each block written back, giving the lock back; and
for a change of the input: the change, marking blocks, telling those
downstream.  `threading.Lock` is not re-entrant and blocks the thread.  An
answer holds the input's data of the moment it is given, or is an exception.
`Input` counts changes: change *k* leaves the value *k* + 1 in its region, so
data tell how old they are.  `given`, `missed`, `known` and `fetches` are
history.  Changes are bounded by `MaxChanges`, calls of `setupOutputs`,
settings and gifts together by `MaxCalls`, requests by one for each thread.

The operator calls `b.setDirty(start, stop, True)`, but the Python binding in
this repository takes a tuple of slices and a flag.  `setupOutputs` therefore
has three outcomes: `"unsupported"`, a type that has no class (`int32` and
`int64`, which it names, are not exported, either); `"refused"`, what the
committed binding does: the new array is there, the call raises, and the lock
is never released; `"made"`, what the operator means.  All other
actions need an array and a free lock, so they are the operator on a binding
that takes the corners, with `Array::setDirty` behind it (`Mark`).

**Refinement.**  `SparseStore` is what a user of an `Array` can rely on about
its sparsity: the voxels, the set of blocks that exist and the one option that
decides about it.  `ImplementsSparseStore` maps its voxels to what `operator[]`
answers (`Contained`), its blocks to the keys of `blocks_` and `defined` to
`status = "ok"`; compression, tables, dirtiness, both paths of a write and the
history variable are hidden.  Undefined behaviour is the last step that the
abstract specification allows: `defined` becomes FALSE and the rest stands
still, so the array is held to nothing afterwards.

**Undefined behaviour.**  In two places `Array` goes on with an iterator that
is no longer valid, and in a third, after loading, with a scratch block of no
elements.  The step then sets `status` to the name of the misuse and
is the last one: nothing can be said of what follows (for the scratch block,
`tmpBlock` becomes `"missed"`).  The invariants about
contents and tables hold while `status = "ok"`; the run `EndIterator` shows how
the other values come about.  This is why deadlock checking is off for
`BlockedArray`; the other machines end in `pc = "done"` or use up their bounds.

**Left out of these modules.**  Empty regions (`p[d] = q[d]`): the code then
still visits one block, possibly as a whole, and nothing documents what is
meant.  Calls on a default-constructed `Array` or `CompressedArray`.
Allocation failure.  Errors of the HDF5 library, whose return codes the code
of `Array` does not look at.  Regions of `Blocking` that do not start at the
origin: no caller has them, and the constructor would start its loop at a voxel
coordinate where it means a block coordinate.  The width of labels: every block
takes `maxLabel + 1` ids, which an `int` holds up to 2^31 components.

## 3. Runs

| run | instance | distinct states | question |
|---|---|---|---|
| `RwIterator` | 2-d, 2 x 3 blocks, all regions of a 6 x 8 box: up to 3 blocks per dimension | 3840 | Does the odometer list exactly the touched blocks, in order, and do the visits partition the region? |
| `BlockCopies` | two 1-d blocks of 2 voxels, with copies | 9216 | Do copies agree with their members, and are slices exact? |
| `Array1D` | 1-d, 2 blocks of 2 voxels, all options switched at any time, written to a file and read back at any time; values 0 to 2, `TypeMin` 1 | 72711 | Do contents, tables and compression agree with the options after any sequence of operations, is what is read what was written, is the array a sparse store, and when are extrema right? |
| `ArrayMarks` | 2 x 1 blocks of 2 x 3 voxels, contents constant | 289 | Is dirtiness of a region that of its voxels, is a marked region reported although dimensions share slots, and is an overwritten block clean? |
| `ConnectedComponents` | all binary images of 3 x 4 voxels in 2 x 2 blocks of 2 x 2, overlapping by 1, and of 2 x 1 voxels in one block | 114732 | Is the tiling exact, is every merge sound at every moment, do blocks agree where they overlap, and is the result that of one pass? |
| `OpArrayCacheCpp` | 3 voxels in 2 blocks, 2 requests, 2 changes of all or part of the input, setInSlot across the blocks, switching `fixAtCurrent`, new setups with every outcome | 257091 | Is a change ever lost or an answer stale, and does waiting with the lock held stop anyone for good? |
| `BlockFilters` | images of 2 and 3 dimensions of up to 24 voxels in 2 x 3 blocks, regions and sinks changed between 2 runs, 5 factors, 2 thresholds, stripes of labels; Knossos cubes of 3 x 3 | 142604 | Are results those of the whole image, and when does a run fail? |

*Why the bounds are enough.*  Every case distinction of the index functions is
between the first, second, third or last block and between a cut and a whole
block: three blocks per dimension and two dimensions with different extents
reach all of them, and regions start and end at every voxel.  Compression
depends on the data only through the length, so two lengths (constant and other
images), one shorter and one longer than the raw block, are all distinctions.
Four blocks in two dimensions are the smallest tiling with blocks that overlap
in a corner and are not merged with each other; 3 x 4 voxels make it end just
above a multiple of the block shape in one dimension (3 = 2 + 1, where the last
block lies in the overlap of its neighbour) and at a multiple in the other, and
leave room for objects that leave a block and come back to it through the
others, and for background that is cut off.  Contents of two-dimensional arrays
are left to the proof of `ReadsBack`, which covers every number of dimensions.
`writeAsZero` is a value that is neither 0 nor in the data, and relabelings
permute or erase.  For the cache, two requests, two changes and one gift are
what it takes for data to be fetched, changed, written back and asked for again;
the image cuts its second block, and what is given, or changed, starts inside
the first.  The images of the pipelines end at, just above and just below a
multiple of the block shape; block extents of 2 and 3 are aligned with one of
the strides 2 and 3 each, factors of 1, below and above 1 and one with no
integer inverse are tried; regions of Knossos data start and end before, at and
after the boundaries of the cubes.  Labels come in stripes of every kind, so
that a region spans several blocks, and a label is missing in a block or in all
of them.  The proofs below remove the bounds for the properties they cover.

*Fairness.*  `Termination` of `RwIterator` assumes `WF_vars(Next)`: a
single-threaded loop keeps running.  `RequestsEnd` and `ChangesPassedOn` of
`OpArrayCacheCpp` assume weak fairness of each request's thread and of each
notification: threads are scheduled, and the input answers (or fails, which no
fairness asks for).  A Python lock promises no order, but requests and
notifications are finitely many and each gives the lock back, so each waiting
thread is at last the only one.  Both properties except the case that a holder
of the lock has raised: then everybody waits for ever, which is what the code
does.

Five runs end with a counterexample: what a comment or a test of the repository
says and the code does not do (`findings` in PROJECT.json has the lines).

| run | statement | counterexample |
|---|---|---|
| `SharedSlots` | writing a subset leaves the block dirty (test) | dimensions 0 and 1 share slots, so a half-written 2 x 2 block becomes clean |
| `EndIterator` | empty blocks are deleted on every write | `writeSubarray` of a whole absent block, with an option on, dereferences `end()`; `write` and `applyRelabeling` use the block they have just erased |
| `BackgroundLabels` | the background has label 0 | background cut off from that of the first block by an object gets a label of its own |
| `PartialMarks` | `setDirty` flags all blocks that the region intersects | a clean block that is marked in part is not among the dirty blocks |
| `FilterComments` | what a thresholded voxel gets, and what block regions are relative to | voxels above the threshold get `ifHigher`, and regions are relative to `roi.p`, where two comments say `ifLower` and `roi.q` |

Other disagreements need no run.  `dirtyBlocks(p, q)` and `blocks(p, q)` are
documented to list blocks of the region and list those of the whole array: the
definitions say so.  `readHDF5` leaves `tmpBlock_` without elements
(`array.h:893`), so that the first operation of a loaded array that goes through
it fails.  `setupOutputs` as committed raises with the lock in its hands
(`opArrayCacheCpp.py:218`), and no request is ever served; on a binding that
takes the corners, a block that is not stored is not listed as dirty, so it is
not fetched and reads as 0, where `testOpArrayCacheCpp.py:69` expects the
input's data.  `minMax` starts its maximum from `numeric_limits<T>::min()`,
which is positive for floating-point types, so data that is nowhere positive
gets a maximum that it does not contain: `MinMaxExact` says so, and `Array1D`
has values below `TypeMin`. The Python method `readHDF5` is bound to `writeHDF5`
(`blockedarray_py.cxx:287`).  `setManageCoordinateLists(true)` is documented to
imply deletion of empty blocks, and a later `setDeleteEmptyBlocks(false)` takes
it back.

What the runs of the pipelines show of the limits of the code: `KnossosExact`
says that exactly the regions that start with a cube and end inside the same one
are read correctly; all others get voxels of a wrong place or none, or leave the
block. `ResampleNear` and `FailureExplained` together say that blocks whose
extents are no multiple of the stride give a result that is off by less than a
stride, or a write out of the dataset.  A `RegionFeatures` object is good for
one run (`OneRun`).  When `fixAtCurrent` is taken back, nobody downstream is
told of what changed meanwhile (the code that would is a string), which
`ChangesPassedOn` calls kept back.  A block that the image cuts is never written
as a whole, so it stays dirty and is fetched by every request.

## 4. Proofs

The theorems hold for every `N`, block shape, extent, value set and compressor,
and, for the cache, for every number of threads and changes.

* `BlockGeometryProofs`: a visit lies within its block and accesses exactly
  the voxels of the block that are in the region (`VisitExact`), every voxel
  of the region is in a touched block (`VisitComplete`), and the read region
  pairs it with its own entry of the caller's array (`ReadExact`).  Division
  by a block extent that is itself a variable is nonlinear, so the module
  first proves the few facts on `\div` and `%` that the rest needs.  It also
  proves that scan order is a strict linear order with a first element of each
  set of blocks, and what the odometer loop that `RwIterator` and `Blocking`
  share does in one carry or advance.  Induction over naturals and over finite
  sets, and the existence of functions defined by recursion over either, are
  proved here from the least member of a set of naturals, with a set in the
  place of the predicate (`NatSetInduction`, `SubsetInduction`,
  `RecursionExists`): the slots and the labeling need them.
* `RwIteratorProofs`: `TypeOK`, `EnumerationExact`, `ReadAligned`,
  `VisitsPartition`.  The inductive invariant (`Invariance`) says that the list
  holds exactly the touched blocks up to `blockCoord` in scan order, none twice:
  a carry of the odometer, which resets the coordinates after dimension `k` and
  increments that of `k`, leads to the successor in that order, with nothing
  between.
* `CompressedBlockProofs`, `CompressedArrayProofs`: `TypeOK`, `BufferAgrees`,
  `NeverThrows`, `ReadsBack`.  The inductive invariant adds to typing that a
  block's cached size is 0 or the compressed length of its present contents, and
  that a compressed block has a nonzero one: `NeverThrows` alone speaks only of
  raw blocks, and would not survive `uncompress`.  Slots are sums of extents,
  `ShapeSum`, whose recursion is unfolded once; that every slot is one of some
  slice, and in one dimension of one slice only, gives `SlicesExact`
  (`SlicesAreExact`) and `BlockStaysDirty` (`LineStaysDirty`) for `N = 1`.  In
  two dimensions slices share slots, and the run `SharedSlots` refutes the
  second.
* `BlockedArrayProofs`: `TypeOK`, `TablesCoherent`, `CompressionHonoured`,
  `ReadsBack`, `NonzeroExact`, `MinMaxExact`.  The inductive invariant says of
  every stored block what the block's own invariant says (`BlockOK`), that its
  cells are the voxels of the abstract store and that voxels without a block
  are 0 (`Contents`), that the tables fit the stored blocks (`TablesFit`) and
  that compression fits the option (`BlocksFit`, `OptionsFit`).  `ReadsBack`
  speaks of regions; `Contents` is what a single step preserves, and the
  geometry theorems carry one over to the other.  `MinMaxExact` follows from
  `TablesFit`: the bounds that the fold collects are those of sets of integers
  of the type, whose maximum starts from `TypeMin`.
  *Dirtiness.*  A block is dirty in a region iff each dimension has a dirty
  slice there, and a region of voxels is cut into blocks by the same geometry
  that reads use, so `DirtyVoxelwise` holds in every state, for any number of
  dimensions.  `MarkedIsReported`, of the state right after a `setDirty`, holds
  although dimensions share slots, because every voxel of the region is in
  marked slices only, whatever else is marked; `OverwrittenIsClean` follows the
  two paths of `writeSubarray`, of which one builds the block anew and the other
  clears it.
  *Sparsity.*  `SparseStoreImplemented`: `BlockedArray` implements
  `SparseStore`.  Each operation is shown to overwrite, erase or relabel, or to
  leave all voxels, and to make and unmake the blocks that the abstract step
  says; the invariant of the array supplies that a block is deleted only when
  its voxels are 0.
  *Files.*  A finite set of vectors can be listed in scan order, and the list
  holds each of them at a position of its own (`SortedIs`), so blocks, bounds
  and coordinate lists are found again by position.  A block comes back as it
  was because its buffer has the length that `currentSizeBytes()` says, which
  `BlockOK` contains.  With the file that of the array as long as there is one
  (`FileFits`), a read restores all members: `RoundTrip`, and, since writing and
  reading are then stutters, `PersistSpec => Spec` (`FilesDoNotShow`).  All
  properties of arrays therefore hold of those that were read from files
  (`ArraysFromFiles`).
* `ConnectedComponentsProofs`: `TypeOK`, `TilingExact`, `UnionsSound`,
  `BlocksAgree`, `ComponentsExact`.  The invariant follows the constructor. The
  list of blocks grows in scan order.  Ids of different blocks are apart, as
  each offset is at least the sum of the numbers of labels before it.  While
  blocks are merged, united ids stand for one object (or background), and the
  ids at every shared voxel of the pairs that are done are united.  The fold
  that computes `Objects` is shown to give the connected sets of equal voxels.
  Soundness of the result is that of the unions; for completeness, the voxels
  whose label is that of a given voxel form a set that no step to a neighbour
  leaves, because two adjacent voxels lie in a common block (`TilingExact`).
  Blocks that touch in an edge or a corner are never merged with each other:
  they agree because a path of blocks, all of which contain the shared voxel,
  leads from one to the other through pairs that are (`CornerPath`).
* `OpArrayCacheCppProofs`: `LockHeld` (`RequestsExclude`), `CacheTypeOK`,
  `CleanIsCurrent` and `NoOlderThanTold`, for any regions of changes, gifts and
  requests within the image.  Call a datum *fresh* if it is at least as
  new as every change that has been marked, and current unless a mark is
  pending.  The invariant (`CacheInv`) says that answers held under the lock
  are fresh, that clean blocks are fresh unless given or missed, and that
  whatever a request found no need to fetch is no older than what downstream
  knew when it asked.  The first part is what makes the write back sound:
  between a mark and the writing of an older answer over it, the answer would
  have to be stale, which the lock excludes since marks need it.

  *What is missed.*  A change that covers only part of a block marks slices and
  leaves `isDirty_` as it is.  If the block was clean, it is not fetched again,
  and a request returns what is older than it was told (`PartialMarks` refutes
  that such blocks are listed).  The history variable `missed` holds exactly the
  voxels of such a change (`Overlooked`) until their block is written back; in
  several dimensions also those beside a partial gift (`Shadowed`), which may
  take the mark off them because slots are shared (`SharedSlots`).  Both
  properties leave these voxels out, and no others.  Two parts of the invariant
  keep `missed` as small as that.  `BlocksInImage`: a block that reaches beyond
  the image is never covered and keeps the slice at its far end dirty, and
  itself with it (`SliceStaysDirty`), so that it is asked for every time and
  partial marks do it no harm.  `OnlyGivenIsCleaned`: in one dimension, a gift
  to part of a block leaves the slots of the other voxels dirty, and the block,
  until all of it is given.

* `BlockFiltersProofs`: `TypeOK`, `FilterExact`, `ResampleNear`,
  `FailureExplained`, `KnossosExact`, `OneRun`, `FeaturesExact`, for every image
  and region, threshold, factor, and sequence of runs, regions and sinks.
  *Filters.*  The odometer's invariant says that the list of blocks is complete
  once the constructor has ended (`Tiling`).  During a run, `FilterInv` says of
  every block done that the voxels it stands for are right, and stay right when
  another block is written.  For a resampled image this is the hard part: the
  corner and the shape of a block are rounded separately, so its result may
  overlap the next one's.  `FilterInv` therefore does not ask for the one voxel
  at `s * v`, but for one less than `s` before it, whichever block wrote it last
  (`ResampledRead`), and the roundings leave no gap (`ResampledCover`).
  `FailureExplained` is part of the invariant: a block within the source's
  present region is readable (`InsideReadable`), and its result fits into a sink
  of the right shape, if the factor's inverse divides the block shape
  (`ResampledFits`).
  *Cubes.*  A block that is read holds at every voxel 0 or a stored one of some
  cube.  When the region is of the kind that is read right, each copy puts a
  voxel where it belongs (`ReadilyCopied`).  The converse needs data that tell
  voxels apart, `PixelsDiffer`: then the last voxel of a region that reaches a
  cube's end or another cube cannot be right (`RightOnly`).
  *Features.*  Sums over finite sets are folds, whose recursion is unfolded once
  (`SumIterStep`); that a sum does not depend on the order of its terms
  (`TotalRemove`) is proved by induction over subsets.  So features of disjoint
  sets of voxels combine to those of their union (`FeaturesJoined`), and do not
  depend on what the voxels are called (`FeaturesMoved`), which takes a block's
  own coordinates to the image's. The invariant `FeaturesInv` follows the loops:
  `M` is the largest value of the blocks done, the accumulators are those of the
  blocks with that range, and the merged one has the features of all voxels of
  the blocks done.  Histograms begin at 0, so `FeaturesExact` is for data that
  is not negative (`NotNegative`).  `OneRun` has no such hypothesis: in a second
  run every block has an accumulator before it is done.

Assumptions: extents and block extents are positive (`GeometryAssumption`,
`ExtentAssumption`), 0 is a value (`ValueAssumption`), values are integers
between the type's lowest and largest, `TypeMin` anywhere between them, which
leaves room for the floating-point types (`TypeAssumption`), corners of the
iterator's regions are coordinates (`CornersAssumption`), snappy's output is not
empty (`SnappyAssumption`), images to label have voxels and 0 is the value of
their background (`ImageAssumption`), arrays given to an operation have the
shape of their region (`InputAssumption`), regions of the cache lie in the
array, its values number the changes, and the names of a free and of a set-up
lock are no threads (`CacheAssumption`).  Cubes have an edge
(`KnossosAssumption`), datasets that filters read have `N` or `N + 1` dimensions
and voxels, regions have no negative corners, factors are positive, and regions
read from cubes are not empty (`FilterAssumption`); labels are unsigned, one for
each voxel, and histograms have bins (`FeaturesAssumption`).

Only model-checked: liveness (`Termination`, `RequestsEnd`, `ChangesPassedOn`).

## 5. Not modelled

* `MeshExtractor`: a pipeline of VTK filters on floating-point meshes with no
  state of its own between calls.
* Python bindings: argument conversion between numpy and the operations that
  `BlockedArray` models; where a binding differs from what it names, section 3
  says so.
* Explicit instantiations, tests, benchmarks, examples and build files.
* `operator==` of `CompressedArray` (a query), and default-constructed arrays
  and blocks, which only `readHDF5` uses, as the target of an assignment.
* Copies of an `Array`: they share blocks through `BlockPtr` but not the tables,
  so that a write through one makes the tables of the other stale.  Nothing in
  the repository copies an array that it goes on to write to.
* Failures of allocation, and of HDF5 where `Array` does not look at the result.
* Statistics of `RegionFeatures` other than those named in section 2: they are
  vigra's, and merging treats them alike.
* Boundary files of Knossos cubes that are shorter than a cube.
* Rounding of `double` in the factors of `ResampleImage`.
* The buffer of snappy's worst-case length that `compress` allocates and frees
  again: only its result stays.
* In `OpArrayCacheCpp`, the functions that are strings or commented out, the
  output `CleanBlocks`, which is never answered, and the memory manager's
  queries, which do nothing.
