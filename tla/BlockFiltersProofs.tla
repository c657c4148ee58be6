-------------------------- MODULE BlockFiltersProofs --------------------------
(***************************************************************************)
(* The filters, for every number of dimensions, every block shape, images  *)
(* and regions of every size, every threshold and every factor: what a     *)
(* completed run has written, and why one fails.  The same for the blocks  *)
(* that are read from a SourceKnossos.                                     *)
(***************************************************************************)
EXTENDS RegionFeatures, BlockGeometryProofs

------------------------------------------------------------------------------
(* Regions of any dimensions D, and reading them from a source.            *)

Ints(D) == [D -> Int]

IsRoi(D, r) == /\ r.p \in [D -> Nat] /\ r.q \in [D -> Nat]
               /\ \A d \in D : r.p[d] < r.q[d]

LEMMA VoxelMember ==
    ASSUME NEW D, NEW r, r.p \in Ints(D), r.q \in Ints(D), NEW v
    PROVE  v \in VoxelsOf(r) <=> v \in Ints(D) /\ \A d \in D : r.p[d] <= v[d] /\ v[d] < r.q[d]
  <1> DEFINE Coordinate == UNION {r.p[d] .. r.q[d] - 1 : d \in DOMAIN r.p}
  <1>1. DOMAIN r.p = D
    BY DEF Ints
  <1>2. v \in VoxelsOf(r) <=> v \in [D -> Coordinate] /\ Inside(v, r)
    BY <1>1 DEF VoxelsOf
  <1>3. ASSUME v \in [D -> Coordinate]
        PROVE  v \in Ints(D) /\ (Inside(v, r) <=> \A d \in D : r.p[d] <= v[d] /\ v[d] < r.q[d])
    <2>1. \A c \in Coordinate : c \in Int
      OBVIOUS
    <2> HIDE DEF Coordinate
    <2> QED BY <1>3, <2>1 DEF Inside, Ints
  <1>4. ASSUME v \in Ints(D), \A d \in D : r.p[d] <= v[d] /\ v[d] < r.q[d]
        PROVE  v \in [D -> Coordinate]
    <2>1. ASSUME NEW d \in D PROVE v[d] \in Coordinate
      <3>1. v[d] \in r.p[d] .. r.q[d] - 1
        BY <1>4 DEF Ints
      <3> QED BY <1>1, <3>1
    <2> HIDE DEF Coordinate
    <2> QED BY <1>4, <2>1 DEF Ints
  <1> HIDE DEF Coordinate
  <1> QED BY <1>2, <1>3, <1>4

(* The voxels of the region that starts at zero.                           *)
LEMMA ExtentMember ==
    ASSUME NEW D, NEW s \in Ints(D), NEW v
    PROVE  v \in VoxelsOf(Region(s)) <=> v \in Ints(D) /\ \A d \in D : 0 <= v[d] /\ v[d] < s[d]
  <1>1. /\ Region(s).p = [d \in D |-> 0] /\ Region(s).q = s
        /\ Region(s).p \in Ints(D) /\ Region(s).q \in Ints(D)
    BY DEF Region, Ints
  <1>2. \A d \in D : Region(s).p[d] = 0
    BY <1>1
  <1> QED BY <1>1, <1>2, VoxelMember

------------------------------------------------------------------------------
(* Sources.                                                                *)

IsSource(src) == src.extent \in Extents /\ src.roi \in RoisOf(src.extent)

(* What setRoi selects is a region of the dataset.                         *)
LEMMA SourceFacts ==
    ASSUME NEW src, IsSource(src), NEW D, DOMAIN src.extent = D
    PROVE  /\ src.extent \in [D -> Nat \ {0}]
           /\ src.roi.p \in [D -> Nat] /\ src.roi.q \in [D -> Nat]
           /\ sourceShape(src) \in [D -> Nat \ {0}]
           /\ \A d \in D : src.roi.p[d] + sourceShape(src)[d] <= src.extent[d]
           /\ src.roi = NoRoi(src) => \A d \in D : src.roi.p[d] = 0
           /\ src.roi # NoRoi(src) => \A d \in D : src.roi.p[d] + sourceShape(src)[d] <= src.roi.q[d]
  <1>1. src.extent \in [D -> Nat \ {0}]
    BY FilterAssumption DEF IsSource
  <1>2. CASE src.roi = NoRoi(src)
    <2>1. src.roi.p = [d \in D |-> 0] /\ src.roi.q = [d \in D |-> 0]
      BY <1>2 DEF NoRoi, EmptyRoi
    <2>2. sourceShape(src) = src.extent
      BY <1>2 DEF sourceShape
    <2> QED BY <1>1, <1>2, <2>1, <2>2
  <1>3. CASE src.roi # NoRoi(src)
    <2> DEFINE r == Region(src.extent)
               s == src.roi
               low(d)  == Larger(r.p[d], s.p[d])
               high(d) == Smaller(r.q[d], s.q[d])
               fails(d) == \/ low(d) >= r.q[d] \/ low(d) >= s.q[d]
                           \/ high(d) < r.p[d] \/ high(d) < s.p[d]
    <2>1. s \in Rois /\ DOMAIN s.p = D /\ intersect(r, s).meets
      BY <1>3 DEF IsSource, RoisOf, NoRoi
    <2>2. s.p \in [D -> Nat] /\ s.q \in [D -> Nat]
      <3>1. PICK axes \in {Dim, 0 .. N} : s \in [p : [axes -> Nat], q : [axes -> Nat]]
        BY <2>1, FilterAssumption
      <3>2. s.p \in [axes -> Nat] /\ s.q \in [axes -> Nat]
        BY <3>1
      <3> HIDE DEF s
      <3> QED BY <2>1, <3>2
    <2>3. r.p = [d \in D |-> 0] /\ r.q = src.extent /\ DOMAIN r.p = D
      BY DEF Region
    <2>4. \A d \in D : ~fails(d)
      BY <2>1, <2>3 DEF intersect
    <2>5. /\ intersect(r, s).out.p = [d \in D |-> low(d)]
          /\ intersect(r, s).out.q = [d \in D |-> high(d)]
      BY <2>3, <2>4 DEF intersect
    <2>6. sourceShape(src) = [d \in D |-> high(d) - low(d)]
      <3>1. sourceShape(src) = shape(intersect(r, s).out)
        BY <1>3 DEF sourceShape
      <3>2. DOMAIN intersect(r, s).out.q = D
        BY <2>5
      <3> HIDE DEF low, high, r, s
      <3> QED BY <2>5, <3>1, <3>2 DEF shape, Subtract
    <2>7. ASSUME NEW d \in D
          PROVE  /\ low(d) = s.p[d] /\ high(d) \in Nat /\ high(d) <= src.extent[d] /\ high(d) <= s.q[d]
                 /\ low(d) < high(d)
      <3>1. r.p[d] = 0 /\ r.q[d] = src.extent[d] /\ src.extent[d] \in Nat \ {0}
            /\ s.p[d] \in Nat /\ s.q[d] \in Nat
        BY <1>1, <2>2, <2>3
      <3>2. ~fails(d)
        BY <2>4
      <3> QED BY <3>1, <3>2 DEF Larger, Smaller
    <2> HIDE DEF low, high
    <2>8. ASSUME NEW d \in D
          PROVE  /\ sourceShape(src)[d] \in Nat \ {0}
                 /\ src.roi.p[d] + sourceShape(src)[d] <= src.extent[d]
                 /\ src.roi.p[d] + sourceShape(src)[d] <= src.roi.q[d]
      <3>1. sourceShape(src)[d] = high(d) - low(d) /\ s.p[d] \in Nat /\ src.extent[d] \in Nat
            /\ s.q[d] \in Nat
        BY <1>1, <2>2, <2>6
      <3> QED BY <2>7, <3>1
    <2>9. sourceShape(src) \in [D -> Nat \ {0}]
      BY <2>6, <2>8
    <2> QED BY <1>1, <1>3, <2>2, <2>8, <2>9
  <1> QED BY <1>2, <1>3

(* If a region of a source can be read, it is read where it is: the        *)
(* selected region's corner is added to its own.                           *)
LEMMA LocatedExact ==
    ASSUME NEW src, IsSource(src), NEW D, DOMAIN src.extent = D, NEW r, IsRoi(D, r),
           Readable(src, r)
    PROVE  Located(src, r).p = [d \in D |-> r.p[d] + src.roi.p[d]]
  <1>1. /\ src.roi.p \in [D -> Nat] /\ src.roi.q \in [D -> Nat]
        /\ src.roi = NoRoi(src) => \A d \in D : src.roi.p[d] = 0
    BY SourceFacts
  <1>2. r.p \in [D -> Nat] /\ r.q \in [D -> Nat] /\ \A d \in D : r.p[d] < r.q[d]
    BY DEF IsRoi
  <1>3. CASE src.roi = NoRoi(src)
    <2>1. Located(src, r) = r
      BY <1>3 DEF Located
    <2>2. \A d \in D : r.p[d] = r.p[d] + src.roi.p[d]
      BY <1>1, <1>2, <1>3
    <2> QED BY <1>2, <2>1, <2>2
  <1>4. DOMAIN src.roi.p = D
    BY <1>1
  <1>5. CASE src.roi # NoRoi(src)
    <2> DEFINE s == src.roi
               t == shift(r, s.p)
               low(d)  == Larger(s.p[d], t.p[d])
               high(d) == Smaller(s.q[d], t.q[d])
               fails(d) == \/ low(d) >= s.q[d] \/ low(d) >= t.q[d]
                           \/ high(d) < s.p[d] \/ high(d) < t.p[d]
               Reached(d) == ~ \E e \in DOMAIN s.p : e < d /\ fails(e)
               out == Located(src, r)
    <2>1. out = intersect(s, t).out
      BY <1>5 DEF Located
    <2>2. DOMAIN s.p = D
      BY <1>4
    <2>3. /\ out.p = [d \in D |-> IF Reached(d) THEN low(d) ELSE 0]
          /\ out.q = [d \in D |-> IF Reached(d) THEN high(d) ELSE 0]
      BY <2>1, <2>2 DEF intersect
    <2>4. t.p = [d \in D |-> r.p[d] + s.p[d]]
      BY <1>2 DEF shift, Add
    <2>5. shape(out) = shape(r)
      BY DEF Readable
    <2> HIDE DEF Reached, low, high, fails, t, s
    <2>6. ASSUME NEW d \in D PROVE Reached(d)
      <3>1. shape(out)[d] = out.q[d] - out.p[d]
        BY <2>3 DEF shape, Subtract
      <3>2. shape(r)[d] = r.q[d] - r.p[d]
        BY <1>2 DEF shape, Subtract
      <3>3. r.q[d] - r.p[d] # 0
        BY <1>2
      <3>4. ~Reached(d) => out.p[d] = 0 /\ out.q[d] = 0
        BY <2>3
      <3> QED BY <2>5, <3>1, <3>2, <3>3, <3>4
    <2>7. ASSUME NEW d \in D PROVE low(d) = r.p[d] + s.p[d]
      <3>1. r.p[d] \in Nat /\ s.p[d] \in Nat
        BY <1>1, <1>2 DEF s
      <3>2. t.p[d] = r.p[d] + s.p[d]
        BY <2>4
      <3> QED BY <3>1, <3>2 DEF low, Larger
    <2> HIDE DEF out
    <2>8. out.p = [d \in D |-> r.p[d] + s.p[d]]
      BY <2>3, <2>6, <2>7
    <2> QED BY <2>8 DEF out, s
  <1> QED BY <1>3, <1>5

(* A region within the shape that a source has can be read.                *)
LEMMA InsideReadable ==
    ASSUME NEW src, IsSource(src), NEW D, DOMAIN src.extent = D, NEW r, IsRoi(D, r),
           \A d \in D : r.q[d] <= sourceShape(src)[d]
    PROVE  Readable(src, r)
  <1>1. /\ src.extent \in [D -> Nat \ {0}]
        /\ src.roi.p \in [D -> Nat] /\ src.roi.q \in [D -> Nat]
        /\ sourceShape(src) \in [D -> Nat \ {0}]
        /\ \A d \in D : src.roi.p[d] + sourceShape(src)[d] <= src.extent[d]
        /\ src.roi = NoRoi(src) => \A d \in D : src.roi.p[d] = 0
        /\ src.roi # NoRoi(src) => \A d \in D : src.roi.p[d] + sourceShape(src)[d] <= src.roi.q[d]
    BY SourceFacts
  <1>2. r.p \in [D -> Nat] /\ r.q \in [D -> Nat] /\ \A d \in D : r.p[d] < r.q[d]
    BY DEF IsRoi
  <1>3. CASE src.roi = NoRoi(src)
    <2>1. Located(src, r) = r /\ DOMAIN r.p = D
      BY <1>2, <1>3 DEF Located
    <2>2. \A d \in D : 0 <= r.p[d] /\ r.q[d] <= src.extent[d]
      <3>1. \A d \in D : /\ r.p[d] \in Nat /\ r.q[d] \in Nat /\ src.extent[d] \in Nat
                         /\ sourceShape(src)[d] \in Nat /\ src.roi.p[d] \in Nat
        BY <1>1, <1>2
      <3> QED BY <1>1, <3>1
    <2> QED BY <2>1, <2>2 DEF Readable
  <1>4. CASE src.roi # NoRoi(src)
    <2> DEFINE s == src.roi
               t == shift(r, s.p)
               low(d)  == Larger(s.p[d], t.p[d])
               high(d) == Smaller(s.q[d], t.q[d])
               fails(d) == \/ low(d) >= s.q[d] \/ low(d) >= t.q[d]
                           \/ high(d) < s.p[d] \/ high(d) < t.p[d]
               out == Located(src, r)
    <2>1. out = intersect(s, t).out /\ DOMAIN s.p = D
      BY <1>1, <1>4 DEF Located
    <2>2. t.p = [d \in D |-> r.p[d] + s.p[d]] /\ t.q = [d \in D |-> r.q[d] + s.p[d]]
      BY <1>2 DEF shift, Add
    <2>3. ASSUME NEW d \in D
          PROVE  /\ ~fails(d) /\ low(d) = r.p[d] + s.p[d] /\ high(d) = r.q[d] + s.p[d]
                 /\ 0 <= low(d) /\ high(d) <= src.extent[d] /\ high(d) - low(d) = r.q[d] - r.p[d]
      <3>1. /\ r.p[d] \in Nat /\ r.q[d] \in Nat /\ src.extent[d] \in Nat
            /\ sourceShape(src)[d] \in Nat /\ s.p[d] \in Nat /\ s.q[d] \in Nat
        BY <1>1, <1>2
      <3>2. s.p[d] + sourceShape(src)[d] <= s.q[d] /\ s.p[d] + sourceShape(src)[d] <= src.extent[d]
            /\ r.q[d] <= sourceShape(src)[d] /\ r.p[d] < r.q[d]
        BY <1>1, <1>2, <1>4
      <3> HIDE DEF t
      <3>3. t.p[d] = r.p[d] + s.p[d] /\ t.q[d] = r.q[d] + s.p[d]
        BY <2>2
      <3> HIDE DEF s
      <3> QED BY <3>1, <3>2, <3>3 DEF Larger, Smaller
    <2>4. /\ out.p = [d \in D |-> low(d)]
          /\ out.q = [d \in D |-> high(d)]
      BY <2>1, <2>3 DEF intersect
    <2> HIDE DEF low, high, fails, s, t, out
    <2>5. shape(out) = [d \in D |-> high(d) - low(d)] /\ DOMAIN out.p = D
      BY <2>4 DEF shape, Subtract
    <2>6. shape(r) = [d \in D |-> r.q[d] - r.p[d]]
      BY <1>2 DEF shape, Subtract
    <2>7. shape(out) = shape(r) /\ \A d \in D : 0 <= out.p[d] /\ out.q[d] <= src.extent[d]
      BY <2>3, <2>4, <2>5, <2>6
    <2> QED BY <2>5, <2>7 DEF Readable, out
  <1> QED BY <1>3, <1>4

(* What is read of the voxel v of a region is the voxel's own value.       *)
LEMMA BlockRead ==
    ASSUME NEW src, IsSource(src), NEW D, DOMAIN src.extent = D, NEW r, IsRoi(D, r),
           Readable(src, r)
    PROVE  /\ DOMAIN readBlock(src, r) = VoxelsOf(Region(shape(r)))
           /\ \A v \in VoxelsOf(r) :
                 /\ Subtract(v, r.p) \in VoxelsOf(Region(shape(r)))
                 /\ readBlock(src, r)[Subtract(v, r.p)] = Pixel(Add(v, src.roi.p))
  <1>1. src.roi.p \in [D -> Nat]
    BY SourceFacts
  <1>2. r.p \in [D -> Nat] /\ r.q \in [D -> Nat]
    BY DEF IsRoi
  <1>3. r.p \in Ints(D) /\ r.q \in Ints(D)
    BY <1>2 DEF Ints
  <1>4. DOMAIN readBlock(src, r) = VoxelsOf(Region(shape(r)))
    BY DEF readBlock
  <1>5. ASSUME NEW v \in VoxelsOf(r)
        PROVE  /\ Subtract(v, r.p) \in VoxelsOf(Region(shape(r)))
               /\ readBlock(src, r)[Subtract(v, r.p)] = Pixel(Add(v, src.roi.p))
    <2>1. v \in Ints(D) /\ \A d \in D : r.p[d] <= v[d] /\ v[d] < r.q[d]
      BY <1>3, VoxelMember
    <2>2. shape(r) = [d \in D |-> r.q[d] - r.p[d]]
      BY <1>2 DEF shape, Subtract
    <2>3. Subtract(v, r.p) = [d \in D |-> v[d] - r.p[d]]
      BY <2>1 DEF Subtract, Ints
    <2>4. \A d \in D : v[d] \in Int /\ r.p[d] \in Nat /\ r.q[d] \in Nat /\ src.roi.p[d] \in Nat
      BY <1>1, <1>2, <2>1 DEF Ints
    <2>5. Subtract(v, r.p) \in Ints(D) /\ shape(r) \in Ints(D)
      BY <2>2, <2>3, <2>4 DEF Ints
    <2>6. \A d \in D : 0 <= Subtract(v, r.p)[d] /\ Subtract(v, r.p)[d] < shape(r)[d]
      BY <2>1, <2>2, <2>3, <2>4
    <2>7. Subtract(v, r.p) \in VoxelsOf(Region(shape(r)))
      BY <2>5, <2>6, ExtentMember
    <2>8. readBlock(src, r)[Subtract(v, r.p)] = Pixel(Add(Subtract(v, r.p), Located(src, r).p))
      BY <2>7 DEF readBlock
    <2>9. Add(Subtract(v, r.p), Located(src, r).p) = Add(v, src.roi.p)
      <3>1. Located(src, r).p = [d \in D |-> r.p[d] + src.roi.p[d]]
        BY LocatedExact
      <3>2. Add(v, src.roi.p) = [d \in D |-> v[d] + src.roi.p[d]]
        BY <2>1 DEF Add, Ints
      <3>3. Add(Subtract(v, r.p), Located(src, r).p)
               = [d \in D |-> (v[d] - r.p[d]) + (r.p[d] + src.roi.p[d])]
        BY <2>3, <3>1 DEF Add
      <3>4. \A d \in D : (v[d] - r.p[d]) + (r.p[d] + src.roi.p[d]) = v[d] + src.roi.p[d]
        BY <2>4
      <3> QED BY <3>2, <3>3, <3>4
    <2> QED BY <2>7, <2>8, <2>9
  <1> QED BY <1>4, <1>5

------------------------------------------------------------------------------
(* The blocking of an image, without an overlap.                           *)

TileRoi(c, s) == BlockRoi(c, [p |-> Origin, q |-> s], Origin)

LEMMA TileFacts ==
    ASSUME NEW s, IsShape(s), NEW c \in BlocksInRange(Origin, s)
    PROVE  LET r == TileRoi(c, s)
           IN  /\ IsRoi(Dim, r) /\ c \in Vectors
               /\ \A d \in Dim : /\ r.p[d] = BlockShape[d] * c[d]
                                 /\ r.q[d] = Smaller(BlockShape[d] * (c[d] + 1), s[d])
                                 /\ r.q[d] <= s[d]
  <1> DEFINE r == TileRoi(c, s)
  <1>1. c \in Vectors /\ s \in Vectors /\ \A d \in Dim : BlockShape[d] * c[d] < s[d]
    BY WholeRegion, VisitedBlocks
  <1>2. ASSUME NEW d \in Dim
        PROVE  /\ r.p[d] = BlockShape[d] * c[d]
               /\ r.q[d] = Smaller(BlockShape[d] * (c[d] + 1), s[d])
               /\ r.p[d] \in Nat /\ r.q[d] \in Nat /\ r.p[d] < r.q[d] /\ r.q[d] <= s[d]
    <2> DEFINE low == BlockShape[d] * c[d]
               high == BlockShape[d] * (c[d] + 1)
    <2>1. BlockShape[d] \in Nat \ {0} /\ c[d] \in Nat /\ s[d] \in Nat
      BY <1>1, ShapeType DEF Vectors
    <2>2. low \in Nat /\ high = low + BlockShape[d] /\ low < s[d]
      <3>1. low \in Int /\ high = low + BlockShape[d]
        BY <2>1, MulMono
      <3>2. low >= 0
        BY <2>1, SMT
      <3> QED BY <1>1, <3>1, <3>2
    <2>3. r.p[d] = low /\ r.q[d] = Smaller(high + 0, s[d])
      BY ShapeType DEF TileRoi, BlockRoi, blockBounds
    <2> HIDE DEF low, high, r
    <2>4. high + 0 = high
      BY <2>1, <2>2
    <2>5. /\ r.p[d] \in Nat /\ r.q[d] \in Nat /\ r.p[d] < r.q[d] /\ r.q[d] <= s[d]
      BY <2>1, <2>2, <2>3, <2>4 DEF Smaller
    <2> QED BY <2>3, <2>4, <2>5 DEF low, high
  <1>3. r.p \in [Dim -> Nat] /\ r.q \in [Dim -> Nat]
    <2>1. r.p = [d \in Dim |-> r.p[d]] /\ r.q = [d \in Dim |-> r.q[d]]
      BY DEF TileRoi, BlockRoi, blockBounds
    <2> HIDE DEF r
    <2> QED BY <1>2, <2>1
  <1> QED BY <1>1, <1>2, <1>3 DEF IsRoi

LEMMA QuotientBounds ==
    ASSUME NEW n \in Nat, NEW b \in Nat \ {0}
    PROVE  b * Quotient(n, b) <= n /\ n < b * (Quotient(n, b) + 1)
  <1> DEFINE quot == Quotient(n, b)
             low == b * quot
  <1>1. quot \in Nat /\ n % b \in Nat /\ n % b < b /\ b * quot + (n % b) = n
    BY QuotientSplits
  <1>2. b * (quot + 1) = b * quot + b /\ b * quot \in Int
    BY <1>1, MulMono
  <1> HIDE DEF low, quot
  <1>3. low \in Int /\ low + (n % b) = n /\ b * (quot + 1) = low + b
    BY <1>1, <1>2 DEF low
  <1>4. low <= n /\ n < b * (quot + 1)
    BY <1>1, <1>3
  <1> QED BY <1>4 DEF low, quot

(* Every voxel of an image lies in a block.                                *)
LEMMA TilesCover ==
    ASSUME NEW s, IsShape(s), NEW v \in VoxelsOf(Region(s))
    PROVE  \E c \in BlocksInRange(Origin, s) : v \in VoxelsOf(TileRoi(c, s))
  <1> DEFINE c == blockGivenCoordinateP(v)
             r == TileRoi(c, s)
  <1>1. s \in Ints(Dim) /\ s \in Vectors /\ IsRegion(Origin, s)
    BY WholeRegion DEF IsShape, Ints
  <1>2. v \in Ints(Dim) /\ \A d \in Dim : 0 <= v[d] /\ v[d] < s[d]
    BY <1>1, ExtentMember
  <1>3. v \in Vectors
    BY <1>2 DEF Ints, Vectors
  <1>4. c \in BlocksInRange(Origin, s)
    <2>1. InRoi(v, Origin, s)
      BY <1>2, ShapeType DEF InRoi
    <2> QED BY <1>1, <1>3, <2>1, VisitComplete
  <1>5. ASSUME NEW d \in Dim PROVE BlockShape[d] * c[d] <= v[d] /\ v[d] < BlockShape[d] * (c[d] + 1)
    <2>1. BlockShape[d] \in Nat \ {0} /\ v[d] \in Nat /\ c[d] = Quotient(v[d], BlockShape[d])
      BY <1>3, ShapeType DEF Vectors, blockGivenCoordinateP
    <2> QED BY <2>1, QuotientBounds
  <1> HIDE DEF c, r
  <1>6. /\ IsRoi(Dim, TileRoi(c, s))
        /\ \A d \in Dim : /\ r.p[d] = BlockShape[d] * c[d]
                          /\ r.q[d] = Smaller(BlockShape[d] * (c[d] + 1), s[d])
    BY <1>4, TileFacts DEF r
  <1>7. r.p \in Ints(Dim) /\ r.q \in Ints(Dim)
    BY <1>6 DEF IsRoi, Ints, r
  <1>8. \A d \in Dim : r.p[d] <= v[d] /\ v[d] < r.q[d]
    BY <1>2, <1>5, <1>6 DEF Smaller
  <1>9. v \in VoxelsOf(r)
    BY <1>2, <1>7, <1>8, VoxelMember
  <1> QED BY <1>4, <1>9 DEF r

Shape   == roi_.q
InRange == BlocksInRange(Origin, Shape)
Coord   == [i \in DOMAIN blocks_ |-> blocks_[i].first]

Tiling ==
    /\ IsShape(Shape) /\ roi_ = [p |-> Origin, q |-> Shape] /\ overlap_ = Origin
    /\ blocks_ \in Seq({Pair(c, roi_, overlap_) : c \in InRange}) /\ blocks_ # <<>>
    /\ IF pc = "tile" THEN Odometer(Origin, Shape, x, dim, Coord)
       ELSE Ascending(Coord) /\ Entries(Coord) = InRange

LEMMA TilingState ==
    ASSUME Tiling
    PROVE  /\ IsShape(Shape) /\ IsRegion(Origin, Shape) /\ roi_ = Region(Shape)
           /\ numBlocks \in Nat \ {0} /\ Coord \in Seq(InRange) /\ Len(Coord) = numBlocks
           /\ DOMAIN blocks_ = 1 .. numBlocks /\ DOMAIN Coord = 1 .. numBlocks
           /\ \A i \in 1 .. numBlocks : /\ Coord[i] \in InRange
                                        /\ blocks_[i] = Pair(Coord[i], roi_, overlap_)
                                        /\ block(i) = TileRoi(Coord[i], Shape)
  <1> DEFINE pairs == {Pair(c, roi_, overlap_) : c \in InRange}
  <1>1. /\ IsShape(Shape) /\ roi_ = [p |-> Origin, q |-> Shape]
        /\ overlap_ = Origin /\ blocks_ \in Seq(pairs) /\ blocks_ # <<>>
    BY DEF Tiling
  <1>2. IsShape(Shape)
    BY <1>1
  <1>3. IsRegion(Origin, Shape)
    BY <1>2, WholeRegion
  <1>4. numBlocks \in Nat \ {0} /\ DOMAIN blocks_ = 1 .. numBlocks
    <2> HIDE DEF pairs
    <2> QED BY <1>1 DEF numBlocks
  <1>5. roi_ = Region(Shape)
    BY <1>1, <1>2 DEF Region, IsShape, Origin
  <1>6. ASSUME NEW i \in 1 .. numBlocks
        PROVE  /\ Coord[i] \in InRange
               /\ blocks_[i] = Pair(Coord[i], roi_, overlap_)
               /\ block(i) = TileRoi(Coord[i], Shape)
    <2>1. blocks_[i] \in pairs
      <3> HIDE DEF pairs
      <3> QED BY <1>1, <1>4
    <2>2. PICK c \in InRange : blocks_[i] = Pair(c, roi_, overlap_)
      BY <2>1
    <2>3. Coord[i] = c
      BY <1>4, <2>2 DEF Coord, Pair
    <2>4. block(i) = BlockRoi(c, roi_, overlap_)
      BY <2>2 DEF block, Pair
    <2> QED BY <1>1, <2>2, <2>3, <2>4 DEF TileRoi
  <1>7. Coord \in Seq(InRange) /\ Len(Coord) = numBlocks /\ DOMAIN Coord = 1 .. numBlocks
    <2>1. Coord = [i \in 1 .. numBlocks |-> Coord[i]]
      BY <1>4 DEF Coord
    <2>2. \A i \in 1 .. numBlocks : Coord[i] \in InRange
      BY <1>6
    <2> HIDE DEF pairs
    <2> QED BY <1>4, <2>1, <2>2
  <1> QED BY <1>2, <1>3, <1>4, <1>5, <1>6, <1>7

(* Each block of the region is listed, and once.                           *)
LEMMA TilingComplete ==
    ASSUME Tiling, pc # "tile"
    PROVE  /\ \A c \in InRange : \E i \in 1 .. numBlocks : Coord[i] = c
           /\ \A i, j \in 1 .. numBlocks : Coord[i] = Coord[j] => i = j
  <1>1. Ascending(Coord) /\ Entries(Coord) = InRange
    BY DEF Tiling
  <1>2. /\ DOMAIN Coord = 1 .. numBlocks /\ numBlocks \in Nat
        /\ \A i \in 1 .. numBlocks : Coord[i] \in InRange
        /\ InRange \subseteq Vectors
    BY TilingState, RangeMember DEF InRange
  <1>3. \A c \in InRange : \E i \in 1 .. numBlocks : Coord[i] = c
    BY <1>1, <1>2 DEF Entries
  <1>4. \A i, j \in 1 .. numBlocks : i < j => Coord[i] # Coord[j]
    BY <1>1, <1>2, BeforeOrders DEF Ascending
  <1>5. \A i, j \in 1 .. numBlocks : i = j \/ i < j \/ j < i
    BY <1>2
  <1> QED BY <1>3, <1>4, <1>5

LEMMA TilingStarts ==
    ASSUME NEW s, IsShape(s), Construct([p |-> Origin, q |-> s], Origin)
    PROVE  Tiling
  <1>2. /\ roi_ = [p |-> Origin, q |-> s] /\ Shape = s /\ overlap_ = Origin
        /\ x = Origin /\ dim = N - 1 /\ blocks_ = <<Pair(Origin, roi_, overlap_)>> /\ pc = "tile"
    BY DEF Construct, Shape
  <1>4. IsRegion(Origin, Shape) /\ blockGivenCoordinateP(Origin) = Origin
    BY <1>2, WholeRegion
  <1>5. Origin \in InRange
    BY <1>4, RangeMember DEF InRange
  <1>6. Coord = <<Origin>>
    BY <1>2 DEF Coord, Pair
  <1>7. Odometer(Origin, Shape, x, dim, Coord)
    BY <1>2, <1>4, <1>6, OdometerStarts
  <1> QED BY <1>2, <1>5, <1>7 DEF Tiling

LEMMA TilingRestarts ==
    ASSUME NEW s, IsShape(s), Reconstruct([p |-> Origin, q |-> s], Origin)
    PROVE  Tiling'
  <1>2. /\ roi_' = [p |-> Origin, q |-> s] /\ Shape' = s /\ overlap_' = Origin
        /\ x' = Origin /\ dim' = N - 1 /\ blocks_' = <<Pair(Origin, roi_', overlap_')>> /\ pc' = "tile"
    BY DEF Reconstruct, Shape
  <1>4. IsRegion(Origin, Shape') /\ blockGivenCoordinateP(Origin) = Origin
    BY <1>2, WholeRegion
  <1>5. Origin \in InRange'
    <2>1. Origin \in BlocksInRange(Origin, s)
      BY <1>2, <1>4, RangeMember
    <2> QED BY <1>2, <2>1 DEF InRange
  <1>6. Coord' = <<Origin>>
    BY <1>2 DEF Coord, Pair
  <1>7. Odometer(Origin, Shape', x', dim', Coord')
    BY <1>2, <1>4, <1>6, OdometerStarts
  <1> QED BY <1>2, <1>5, <1>7 DEF Tiling

LEMMA TilingStep ==
    ASSUME Tiling, Tile \/ (pc # "tile" /\ pc' # "tile" /\ UNCHANGED blockingVars)
    PROVE  Tiling'
  <1> DEFINE pairs == {Pair(c, roi_, overlap_) : c \in InRange}
  <1>1. /\ IsShape(Shape) /\ roi_ = [p |-> Origin, q |-> Shape]
        /\ overlap_ = Origin /\ blocks_ \in Seq(pairs) /\ blocks_ # <<>>
        /\ IsRegion(Origin, Shape)
    BY TilingState DEF Tiling
  <1>2. roi_' = roi_ /\ overlap_' = overlap_
    BY DEF Tile, Carry, Advance, Constructed, blockingVars
  <1>3. Shape' = Shape /\ InRange' = InRange /\ pairs' = pairs
    BY <1>2 DEF Shape, InRange
  <1>4. blockP = blockGivenCoordinateP(Origin) /\ blockQ = blockGivenCoordinateQ(Shape)
    BY <1>1 DEF blockP, blockQ
  <1>5. CASE pc # "tile" /\ pc' # "tile" /\ UNCHANGED blockingVars
    <2>1. blocks_' = blocks_ /\ Coord' = Coord
      BY <1>5 DEF blockingVars, Coord
    <2> QED BY <1>1, <1>2, <1>3, <1>5, <2>1 DEF Tiling
  <1>6. CASE Carry
    <2>1. /\ pc = "tile" /\ pc' = "tile" /\ blocks_' = blocks_ /\ Coord' = Coord
          /\ dim >= 0 /\ x[dim] >= blockQ[dim] - 1
          /\ x' = [x EXCEPT ![dim] = blockP[dim]] /\ dim' = dim - 1
      BY <1>6 DEF Carry, Coord
    <2>2. Odometer(Origin, Shape, x, dim, Coord)
      BY <2>1 DEF Tiling
    <2>3. Odometer(Origin, Shape, x', dim', Coord)
      BY <1>1, <1>4, <2>1, <2>2, OdometerCarries
    <2> QED BY <1>1, <1>2, <1>3, <2>1, <2>3 DEF Tiling
  <1>7. CASE Advance
    <2> DEFINE y == [x EXCEPT ![dim] = @ + 1]
    <2>1. /\ pc = "tile" /\ pc' = "tile" /\ dim >= 0 /\ x[dim] < blockQ[dim] - 1
          /\ x' = y /\ dim' = N - 1 /\ blocks_' = Append(blocks_, Pair(y, roi_, overlap_))
      BY <1>7 DEF Advance
    <2>2. Odometer(Origin, Shape, x, dim, Coord)
      BY <2>1 DEF Tiling
    <2>3. Odometer(Origin, Shape, y, N - 1, Append(Coord, y))
      BY <1>1, <1>4, <2>1, <2>2, OdometerAdvances
    <2>4. y \in InRange
      BY <2>3 DEF Odometer, InRange
    <2> HIDE DEF y
    <2>5. Pair(y, roi_, overlap_) \in pairs /\ Pair(y, roi_, overlap_).first = y
      BY <2>4 DEF Pair
    <2> HIDE DEF pairs
    <2>6. blocks_' \in Seq(pairs) /\ blocks_' # <<>>
      BY <1>1, <2>1, <2>5
    <2>7. Coord' = Append(Coord, y)
      <3>1. /\ DOMAIN blocks_ = 1 .. numBlocks /\ DOMAIN Coord = 1 .. numBlocks
            /\ Len(Coord) = numBlocks /\ numBlocks = Len(blocks_) /\ numBlocks \in Nat
            /\ Coord \in Seq(InRange)
        BY TilingState DEF numBlocks
      <3>2. /\ DOMAIN blocks_' = 1 .. numBlocks + 1
            /\ \A i \in 1 .. numBlocks : blocks_'[i] = blocks_[i]
            /\ blocks_'[numBlocks + 1] = Pair(y, roi_, overlap_)
        BY <1>1, <2>1, <2>5, <3>1
      <3>3. /\ DOMAIN Append(Coord, y) = 1 .. numBlocks + 1
            /\ \A i \in 1 .. numBlocks : Append(Coord, y)[i] = Coord[i]
            /\ Append(Coord, y)[numBlocks + 1] = y
        BY <2>4, <3>1
      <3>4. Append(Coord, y) = [i \in 1 .. numBlocks + 1 |-> Append(Coord, y)[i]]
        <4>1. Append(Coord, y) \in Seq(InRange) /\ Len(Append(Coord, y)) = numBlocks + 1
          BY <2>4, <3>1
        <4>2. \A l \in Seq(InRange) : l = [i \in 1 .. Len(l) |-> l[i]]
          OBVIOUS
        <4> QED BY <4>1, <4>2
      <3>5. Coord' = [i \in 1 .. numBlocks + 1 |-> blocks_'[i].first]
        BY <3>2 DEF Coord
      <3>6. \A i \in 1 .. numBlocks + 1 : blocks_'[i].first = Append(Coord, y)[i]
        <4>1. \A i \in 1 .. numBlocks : Coord[i] = blocks_[i].first
          BY <3>1 DEF Coord
        <4>2. \A i \in 1 .. numBlocks + 1 : i \in 1 .. numBlocks \/ i = numBlocks + 1
          BY <3>1
        <4> QED BY <2>5, <3>2, <3>3, <4>1, <4>2
      <3> QED BY <3>4, <3>5, <3>6
    <2>8. Odometer(Origin, Shape, x', dim', Coord')
      BY <2>1, <2>3, <2>7
    <2> QED BY <1>1, <1>2, <1>3, <2>1, <2>6, <2>8 DEF Tiling, pairs
  <1>8. CASE Constructed
    <2>1. pc = "tile" /\ pc' = "tiled" /\ dim < 0 /\ blocks_' = blocks_ /\ Coord' = Coord
      BY <1>8 DEF Constructed, blockingVars, Coord
    <2>2. Odometer(Origin, Shape, x, dim, Coord)
      BY <2>1 DEF Tiling
    <2>3. Entries(Coord) = InRange
      BY <1>1, <2>1, <2>2, OdometerEnds DEF InRange
    <2>4. Ascending(Coord)
      BY <2>2 DEF Odometer
    <2> QED BY <1>1, <1>2, <1>3, <2>1, <2>3, <2>4 DEF Tiling
  <1> QED BY <1>5, <1>6, <1>7, <1>8 DEF Tile

(* The blocks, once they are listed, are regions that cover the image.     *)
LEMMA BlockFacts ==
    ASSUME Tiling, NEW i \in 1 .. numBlocks
    PROVE  /\ IsRoi(Dim, block(i)) /\ Shape \in [Dim -> Nat \ {0}]
           /\ \A d \in Dim : block(i).q[d] <= Shape[d]
           /\ \A d \in Dim : \E m \in Nat : block(i).p[d] = BlockShape[d] * m
  <1>1. IsShape(Shape) /\ Coord[i] \in BlocksInRange(Origin, Shape) /\ block(i) = TileRoi(Coord[i], Shape)
    BY TilingState DEF InRange
  <1> DEFINE c == Coord[i]
             r == TileRoi(c, Shape)
  <1> HIDE DEF c
  <1>2. IsRoi(Dim, r) /\ \A d \in Dim : r.p[d] = BlockShape[d] * c[d] /\ r.q[d] <= Shape[d]
    BY <1>1, TileFacts DEF c
  <1>3. \A d \in Dim : c[d] \in Nat
    BY <1>1, TileFacts DEF c, Vectors
  <1> HIDE DEF r
  <1>4. \A d \in Dim : \E m \in Nat : r.p[d] = BlockShape[d] * m
    BY <1>2, <1>3
  <1> QED BY <1>1, <1>2, <1>4 DEF IsShape, c, r

LEMMA BlocksCover ==
    ASSUME Tiling, pc # "tile", NEW v \in VoxelsOf(roi_)
    PROVE  \E i \in 1 .. numBlocks : v \in VoxelsOf(block(i))
  <1>1. PICK c \in InRange : v \in VoxelsOf(TileRoi(c, Shape))
    BY TilingState, TilesCover DEF InRange
  <1>2. PICK i \in 1 .. numBlocks : Coord[i] = c
    BY TilingComplete
  <1>3. block(i) = TileRoi(c, Shape)
    BY <1>2, TilingState
  <1> QED BY <1>1, <1>3

------------------------------------------------------------------------------
(* An image with one dimension more.                                       *)

AllAxes == 0 .. N

LEMMA AxisFacts ==
    /\ \A d \in AllAxes : d \in Int
    /\ \A d \in Dim : d \in AllAxes /\ d + 1 \in AllAxes /\ d \in Int
    /\ \A d \in AllAxes, e \in AllAxes : /\ e < d => e \in Dim
                                         /\ ~(e < d) /\ e # d => e - 1 \in Dim /\ (e - 1) + 1 = e /\ ~(e - 1 < d)
    /\ \A d \in AllAxes : d + 1 \in AllAxes <=> d \in Dim
  BY GeometryAssumption DEF AllAxes, Dim

LEMMA WithAxisIs ==
    ASSUME NEW v, DOMAIN v = Dim, NEW d \in AllAxes, NEW c
    PROVE  WithAxis(v, d, c) =
               [e \in AllAxes |-> IF e < d THEN v[e] ELSE IF e = d THEN c ELSE v[e - 1]]
  <1>1. Dim \cup {d} \cup {e + 1 : e \in Dim} = AllAxes
    <2>1. \A n : n \in Dim \cup {d} \cup {e + 1 : e \in Dim} => n \in AllAxes
      BY AxisFacts
    <2>2. ASSUME NEW n \in AllAxes PROVE n \in Dim \cup {d} \cup {e + 1 : e \in Dim}
      BY AxisFacts
    <2> QED BY <2>1, <2>2
  <1> QED BY <1>1 DEF WithAxis

LEMMA WithoutAxisIs ==
    ASSUME NEW u, DOMAIN u = AllAxes, NEW d \in AllAxes
    PROVE  WithoutAxis(u, d) = [e \in Dim |-> IF e < d THEN u[e] ELSE u[e + 1]]
  <1>1. {e \in AllAxes : e + 1 \in AllAxes} = Dim
    BY AxisFacts
  <1> QED BY <1>1 DEF WithoutAxis

(* A region of the remaining dimensions, with one channel of the image, is *)
(* a region of the image, and its voxels are those of the channel.         *)
LEMMA ChannelRead ==
    ASSUME NEW src, IsSource(src), DOMAIN src.extent = AllAxes,
           NEW d \in AllAxes, NEW c \in 0 .. sourceShape(src)[d] - 1,
           NEW r, IsRoi(Dim, r),
           \A e \in Dim : r.q[e] <= WithoutAxis(sourceShape(src), d)[e]
    PROVE  LET big == insertAxisBefore(r, d, c, c + 1)
           IN  /\ Readable(src, big)
               /\ \A v \in VoxelsOf(r) : readBlock(src, big)[WithAxis(Subtract(v, r.p), d, 0)]
                                            = Pixel(Add(WithAxis(v, d, c), src.roi.p))
  <1> DEFINE big == insertAxisBefore(r, d, c, c + 1)
             sh  == sourceShape(src)
  <1>1. sh \in [AllAxes -> Nat \ {0}]
    BY SourceFacts
  <1>2. r.p \in [Dim -> Nat] /\ r.q \in [Dim -> Nat] /\ \A e \in Dim : r.p[e] < r.q[e]
    BY DEF IsRoi
  <1>3. c \in Nat /\ c + 1 \in Nat /\ c < sh[d] /\ c + 1 <= sh[d]
    BY <1>1
  <1>4. /\ big.p = [e \in AllAxes |-> IF e < d THEN r.p[e] ELSE IF e = d THEN c ELSE r.p[e - 1]]
        /\ big.q = [e \in AllAxes |-> IF e < d THEN r.q[e] ELSE IF e = d THEN c + 1 ELSE r.q[e - 1]]
    <2>1. DOMAIN r.p = Dim /\ DOMAIN r.q = Dim
      BY <1>2
    <2>2. big.p = WithAxis(r.p, d, c) /\ big.q = WithAxis(r.q, d, c + 1)
      BY DEF insertAxisBefore
    <2> HIDE DEF big
    <2> QED BY <2>1, <2>2, WithAxisIs
  <1> HIDE DEF big
  <1>5. WithoutAxis(sh, d) = [e \in Dim |-> IF e < d THEN sh[e] ELSE sh[e + 1]]
    BY <1>1, WithoutAxisIs
  <1> HIDE DEF sh
  <1>6. ASSUME NEW e \in AllAxes
        PROVE  big.p[e] \in Nat /\ big.q[e] \in Nat /\ big.p[e] < big.q[e] /\ big.q[e] <= sh[e]
    <2>1. CASE e < d
      <3>1. e \in Dim /\ big.p[e] = r.p[e] /\ big.q[e] = r.q[e]
        BY <1>4, <2>1, AxisFacts
      <3>2. r.q[e] <= sh[e]
        BY <1>5, <2>1, <3>1 DEF sh
      <3> QED BY <1>2, <3>1, <3>2
    <2>2. CASE e = d
      <3>1. big.p[e] = c /\ big.q[e] = c + 1
        BY <1>4, <2>2, AxisFacts
      <3> QED BY <1>3, <2>2, <3>1
    <2>3. CASE ~(e < d) /\ e # d
      <3>1. e - 1 \in Dim /\ big.p[e] = r.p[e - 1] /\ big.q[e] = r.q[e - 1]
        BY <1>4, <2>3, AxisFacts
      <3>2. WithoutAxis(sh, d)[e - 1] = sh[e]
        <4>1. ~(e - 1 < d) /\ (e - 1) + 1 = e
          BY <2>3, AxisFacts
        <4> QED BY <1>5, <3>1, <4>1
      <3>3. r.q[e - 1] <= sh[e]
        BY <3>1, <3>2 DEF sh
      <3> QED BY <1>2, <3>1, <3>3
    <2> QED BY <2>1, <2>2, <2>3
  <1>7. IsRoi(AllAxes, big)
    BY <1>4, <1>6 DEF IsRoi
  <1>8. Readable(src, big)
    BY <1>6, <1>7, InsideReadable DEF sh
  <1>9. big.p \in Ints(AllAxes) /\ big.q \in Ints(AllAxes) /\ r.p \in Ints(Dim) /\ r.q \in Ints(Dim)
    BY <1>2, <1>7 DEF IsRoi, Ints
  <1>10. ASSUME NEW v \in VoxelsOf(r)
         PROVE  readBlock(src, big)[WithAxis(Subtract(v, r.p), d, 0)]
                   = Pixel(Add(WithAxis(v, d, c), src.roi.p))
    <2> DEFINE w == WithAxis(v, d, c)
    <2>1. v \in Ints(Dim) /\ DOMAIN v = Dim /\ \A e \in Dim : r.p[e] <= v[e] /\ v[e] < r.q[e]
      <3>1. v \in Ints(Dim) /\ \A e \in Dim : r.p[e] <= v[e] /\ v[e] < r.q[e]
        BY <1>9, VoxelMember
      <3> QED BY <3>1 DEF Ints
    <2>2. w = [e \in AllAxes |-> IF e < d THEN v[e] ELSE IF e = d THEN c ELSE v[e - 1]]
      BY <2>1, WithAxisIs
    <2> HIDE DEF w
    <2>3. ASSUME NEW e \in AllAxes
          PROVE  w[e] \in Int /\ big.p[e] <= w[e] /\ w[e] < big.q[e]
      <3>1. /\ e < d => e \in Dim
            /\ ~(e < d) /\ e # d => e - 1 \in Dim
        BY AxisFacts
      <3>2. \A n \in Dim : v[n] \in Int
        BY <2>1 DEF Ints
      <3>3. CASE e < d
        BY <1>4, <2>1, <2>2, <3>1, <3>2, <3>3
      <3>4. CASE ~(e < d) /\ e = d
        BY <1>3, <1>4, <2>2, <3>4
      <3>5. CASE ~(e < d) /\ e # d
        BY <1>4, <2>1, <2>2, <3>1, <3>2, <3>5
      <3> QED BY <3>3, <3>4, <3>5
    <2>4. w \in VoxelsOf(big)
      <3>1. w \in Ints(AllAxes)
        BY <2>2, <2>3 DEF Ints
      <3> QED BY <1>9, <2>3, <3>1, VoxelMember
    <2>5. readBlock(src, big)[Subtract(w, big.p)] = Pixel(Add(w, src.roi.p))
      BY <1>7, <1>8, <2>4, BlockRead
    <2>6. Subtract(w, big.p) = WithAxis(Subtract(v, r.p), d, 0)
      <3> DEFINE u == Subtract(v, r.p)
      <3>1. DOMAIN u = Dim /\ \A e \in Dim : u[e] = v[e] - r.p[e]
        BY <2>1 DEF Subtract
      <3> HIDE DEF u
      <3>2. WithAxis(u, d, 0) = [e \in AllAxes |-> IF e < d THEN u[e] ELSE IF e = d THEN 0 ELSE u[e - 1]]
        BY <3>1, WithAxisIs
      <3>3. Subtract(w, big.p) = [e \in AllAxes |-> w[e] - big.p[e]]
        BY <2>2 DEF Subtract
      <3>4. ASSUME NEW e \in AllAxes PROVE w[e] - big.p[e] = WithAxis(u, d, 0)[e]
        <4>1. /\ e < d => e \in Dim
              /\ ~(e < d) /\ e # d => e - 1 \in Dim
          BY AxisFacts
        <4>2. c - c = 0
          BY <1>3
        <4> QED BY <1>4, <2>2, <3>1, <3>2, <4>1, <4>2
      <3>5. WithAxis(u, d, 0) = [e \in AllAxes |-> WithAxis(u, d, 0)[e]]
        BY <3>2
      <3> QED BY <3>3, <3>4, <3>5 DEF u
    <2> QED BY <2>5, <2>6 DEF w
  <1> QED BY <1>8, <1>10 DEF big

------------------------------------------------------------------------------
(* Scaling by num / den, and by 1 / s.                                     *)

IsFactor(f) == f.num \in Nat \ {0} /\ f.den \in Nat \ {0}

LEMMA CeilingExact ==
    ASSUME NEW n \in Int, NEW s \in Nat \ {0}
    PROVE  LET c == (n + s - 1) \div s
           IN  c \in Int /\ s * c - n \in 0 .. s - 1 /\ s * c \in Int
  <1> DEFINE m == n + s - 1
             c == m \div s
             sc == s * c
  <1>1. m \in Int /\ c \in Int /\ m % s \in 0 .. s - 1 /\ m = s * c + (m % s)
    BY DivMod
  <1>2. sc \in Int
    BY <1>1, MulMono
  <1> HIDE DEF sc, c
  <1>3. m = sc + (m % s)
    BY <1>1 DEF sc
  <1>4. sc - n \in 0 .. s - 1
    BY <1>1, <1>2, <1>3
  <1> QED BY <1>1, <1>2, <1>4 DEF sc, c

(* The result of a positive shape is one.                                  *)
LEMMA ScaledShape ==
    ASSUME NEW f, IsFactor(f), NEW v, IsShape(v)
    PROVE  IsShape(Scaled(v, f))
  <1>1. ASSUME NEW n \in Nat \ {0}, NEW num \in Nat \ {0}, NEW den \in Nat \ {0}
        PROVE  /\ (n * num + den - 1) \div den \in Nat \ {0}
               /\ den <= num => (n * num) \div den \in Nat \ {0}
    <2> DEFINE t == n * num
    <2>1. t \in Nat /\ t >= num
      <3>1. num * n \in Int /\ num * 1 <= num * n /\ num * 1 = num
        BY MulMono
      <3>2. num * n = n * num
        BY SMT
      <3> QED BY <3>1, <3>2
    <2> HIDE DEF t
    <2>2. ASSUME NEW a \in Nat, a >= den PROVE a \div den \in Nat \ {0}
      <3>1. a \div den \in Int /\ a % den \in 0 .. den - 1 /\ a = den * (a \div den) + (a % den)
        BY DivMod
      <3> DEFINE q == a \div den
      <3> HIDE DEF q
      <3>2. q \in Int /\ a = den * q + (a % den) /\ den * q \in Int
        BY <3>1, MulMono DEF q
      <3>3. den * q > 0
        BY <2>2, <3>1, <3>2
      <3>4. den * 0 = 0
        BY SMT
      <3>5. 0 < q
        <4>1. den * 0 < den * q => 0 < q
          BY <3>2, MulMono
        <4> QED BY <3>3, <3>4, <4>1
      <3> QED BY <3>2, <3>5 DEF q
    <2>3. t + den - 1 \in Nat /\ t + den - 1 >= den
      BY <2>1
    <2>4. den <= num => t >= den
      BY <2>1
    <2> QED BY <2>1, <2>2, <2>3, <2>4 DEF t
  <1>2. ASSUME NEW d \in Dim PROVE Scaled(v, f)[d] \in Nat \ {0}
    <2>1. v[d] \in Nat \ {0} /\ f.num \in Nat \ {0} /\ f.den \in Nat \ {0}
      BY DEF IsFactor, IsShape
    <2>2. CASE f.num < f.den
      BY <1>1, <2>1, <2>2 DEF Scaled
    <2>3. CASE ~(f.num < f.den)
      <3>1. f.den <= f.num
        BY <2>1, <2>3
      <3> QED BY <1>1, <2>1, <2>3, <3>1 DEF Scaled
    <2> QED BY <2>2, <2>3
  <1>3. Scaled(v, f) = [d \in Dim |-> Scaled(v, f)[d]]
    BY DEF Scaled
  <1> QED BY <1>2, <1>3 DEF IsShape

LEMMA ScaledByInverse ==
    ASSUME NEW f, IsFactor(f), f.num = 1, NEW v \in Ints(Dim)
    PROVE  /\ stride(f) = f.den /\ stride(f) \in Nat \ {0}
           /\ Scaled(v, f) = [d \in Dim |-> (v[d] + stride(f) - 1) \div stride(f)]
  <1>1. stride(f) = f.den /\ f.den \in Nat \ {0}
    BY SMT DEF stride, IsFactor
  <1>2. \A d \in Dim : v[d] \in Int /\ v[d] * 1 = v[d]
    BY DEF Ints
  <1>3. CASE f.num < f.den
    BY <1>1, <1>2, <1>3 DEF Scaled
  <1>4. CASE ~(f.num < f.den)
    <2>1. f.den = 1
      BY <1>1, <1>4
    <2>2. \A d \in Dim : v[d] + 1 - 1 = v[d]
      BY <1>2
    <2> QED BY <1>1, <1>2, <1>4, <2>1, <2>2 DEF Scaled
  <1> QED BY <1>1, <1>3, <1>4

Ceiling(n, s) == (n + s - 1) \div s
NearAxis(s, n, m, aligned) == s * n - m \in 0 .. s - 1 /\ (aligned => m = s * n)

(* A block [p, q) of an axis, and the part of the result that it becomes:  *)
(* the first voxel is rounded up, and the number of voxels on its own.     *)
LEMMA ResampledAxis ==
    ASSUME NEW s \in Nat \ {0}, NEW p \in Nat, NEW q \in Nat, p < q
    PROVE  LET to  == Ceiling(p, s)
               len == Ceiling(q - p, s)
           IN  /\ to \in Int /\ len \in Int
               /\ s * to - p \in 0 .. s - 1 /\ s * to \in Int
               /\ p % s = 0 => s * to = p
               /\ s * len \in Int /\ s * len - (q - p) \in 0 .. s - 1
               /\ \A n \in Int : p <= s * n /\ s * n < q => to <= n /\ n < to + len
               /\ \A end \in Nat : p % s = 0 /\ q <= end => to + len <= Ceiling(end, s)
  <1> DEFINE to  == Ceiling(p, s)
             len == Ceiling(q - p, s)
             A == s * to
             B == s * len
  <1>1. q - p \in Int /\ p \in Int
    OBVIOUS
  <1>2. /\ to \in Int /\ A \in Int /\ A - p \in 0 .. s - 1
        /\ len \in Int /\ B \in Int /\ B - (q - p) \in 0 .. s - 1
    BY <1>1, CeilingExact DEF Ceiling
  <1>3. \A a \in Int, b \in Int : /\ s * (a - b) = s * a - s * b /\ s * (a + b) = s * a + s * b
                                  /\ s * a \in Int /\ s * 1 = s
    <2>1. ASSUME NEW a \in Int, NEW b \in Int
          PROVE  /\ s * (a - b) = s * a - s * b /\ s * (a + b) = s * a + s * b
                 /\ s * a \in Int /\ s * 1 = s
      BY SMT
    <2> QED BY <2>1
  <1>4. \A a \in Int, b \in Int : (a <= b => s * a <= s * b) /\ (s * a < s * b => a < b)
    BY MulMono
  <1> HIDE DEF to, len
  <1>6. ASSUME NEW n \in Int, p <= s * n, s * n < q
        PROVE  to <= n /\ n < to + len
    <2> DEFINE X == s * n
    <2>1. X \in Int /\ p <= X /\ X < q
      BY <1>3, <1>6
    <2>2. to <= n
      <3> SUFFICES ASSUME n <= to - 1 PROVE FALSE
        BY <1>2
      <3>1. to - 1 \in Int /\ 1 \in Int
        BY <1>2
      <3>2. X <= s * (to - 1) /\ s * (to - 1) = A - s
        BY <1>2, <1>3, <1>4, <3>1
      <3> HIDE DEF X, A
      <3> QED BY <1>2, <2>1, <3>2
    <2>3. n < to + len
      <3> SUFFICES ASSUME to + len <= n PROVE FALSE
        BY <1>2
      <3>1. to + len \in Int
        BY <1>2
      <3>2. s * (to + len) <= X /\ s * (to + len) = A + B
        BY <1>2, <1>3, <1>4, <3>1
      <3> HIDE DEF X, A, B
      <3> QED BY <1>2, <2>1, <3>2
    <2> QED BY <2>2, <2>3
  <1>7. ASSUME p % s = 0 PROVE A = p
    <2> DEFINE m == p \div s
    <2>1. m \in Int /\ p = s * m + (p % s)
      BY DivMod
    <2> HIDE DEF m
    <2> DEFINE P == s * m
    <2>2. P = p /\ P \in Int
      <3>1. P \in Int
        BY <1>3, <2>1
      <3> HIDE DEF P
      <3> QED BY <1>7, <2>1, <3>1 DEF P
    <2>3. to <= m
      <3> SUFFICES ASSUME m <= to - 1 PROVE FALSE
        BY <1>2, <2>1
      <3>1. to - 1 \in Int
        BY <1>2
      <3>2. P <= s * (to - 1) /\ s * (to - 1) = A - s
        BY <1>2, <1>3, <1>4, <2>1, <3>1
      <3> HIDE DEF P, A
      <3> QED BY <1>2, <2>2, <3>2
    <2>4. A <= P
      BY <1>2, <1>4, <2>1, <2>3
    <2> HIDE DEF P, A
    <2> QED BY <1>2, <2>2, <2>4
  <1>8. ASSUME NEW end \in Nat, p % s = 0, q <= end
        PROVE  to + len <= Ceiling(end, s)
    <2> DEFINE c == Ceiling(end, s)
               C == s * c
    <2>1. c \in Int /\ C \in Int /\ C - end \in 0 .. s - 1
      BY CeilingExact DEF Ceiling
    <2> HIDE DEF c
    <2> SUFFICES ASSUME c + 1 <= to + len PROVE FALSE
      BY <1>2, <2>1 DEF c
    <2>2. c + 1 \in Int /\ to + len \in Int /\ 1 \in Int
      BY <1>2, <2>1
    <2>3. s * (c + 1) <= s * (to + len) /\ s * (c + 1) = C + s /\ s * (to + len) = A + B
      BY <1>2, <1>3, <1>4, <2>1, <2>2
    <2>4. A = p
      BY <1>7, <1>8
    <2> HIDE DEF A, B, C
    <2> QED BY <1>2, <1>8, <2>1, <2>3, <2>4
  <1>9. A - p \in 0 .. s - 1 /\ A \in Int /\ B \in Int /\ B - (q - p) \in 0 .. s - 1
    BY <1>2
  <1> QED BY <1>2, <1>6, <1>7, <1>8, <1>9 DEF to, len

(* The voxels of that part, and the voxels of the block they are taken from.*)
LEMMA ResampledVoxel ==
    ASSUME NEW s \in Nat \ {0}, NEW p \in Nat, NEW q \in Nat, p < q, NEW n \in Int,
           Ceiling(p, s) <= n, n < Ceiling(p, s) + Ceiling(q - p, s)
    PROVE  LET u == n - Ceiling(p, s)
           IN  /\ u \in Nat /\ u < Ceiling(q - p, s)
               /\ s * u \in Nat /\ s * u < q - p
               /\ NearAxis(s, n, s * u + p, p % s = 0)
  <1> DEFINE to  == Ceiling(p, s)
             len == Ceiling(q - p, s)
             u == n - to
             A == s * to
             B == s * len
             W == s * u
             X == s * n
  <1>1. /\ to \in Int /\ len \in Int /\ A - p \in 0 .. s - 1 /\ A \in Int
        /\ p % s = 0 => A = p
        /\ B \in Int /\ B - (q - p) \in 0 .. s - 1
    BY ResampledAxis
  <1>2. \A a \in Int, b \in Int : s * (a - b) = s * a - s * b /\ s * a \in Int /\ s * 1 = s
    <2>1. ASSUME NEW a \in Int, NEW b \in Int
          PROVE  s * (a - b) = s * a - s * b /\ s * a \in Int /\ s * 1 = s
      BY SMT
    <2> QED BY <2>1
  <1> HIDE DEF to, len
  <1>3. u \in Nat /\ u < len /\ u <= len - 1 /\ len - 1 \in Int /\ 0 <= u
    BY <1>1 DEF to, len
  <1>4. W = X - A /\ X \in Int
    BY <1>1, <1>2
  <1>5. W <= s * (len - 1) /\ s * (len - 1) = B - s
    BY <1>1, <1>2, <1>3, MulMono
  <1>6. s * 0 <= W /\ s * 0 = 0
    <2>1. s * 0 = 0
      BY <1>2
    <2> QED BY <1>3, <2>1, MulMono
  <1> HIDE DEF W, X, A, B, u
  <1>7. W \in Nat /\ W < q - p /\ X - (W + p) = A - p
    BY <1>1, <1>4, <1>5, <1>6
  <1>8. X - (W + p) \in 0 .. s - 1 /\ (p % s = 0 => W + p = X)
    BY <1>1, <1>4, <1>7
  <1> QED BY <1>3, <1>7, <1>8 DEF NearAxis, W, X, u, to, len

LEMMA BelowCeiling ==
    ASSUME NEW s \in Nat \ {0}, NEW end \in Int, NEW n \in Int, n < Ceiling(end, s)
    PROVE  s * n < end /\ s * n \in Int
  <1> DEFINE c == Ceiling(end, s)
             C == s * c
             X == s * n
  <1>1. c \in Int /\ C \in Int /\ C - end \in 0 .. s - 1
    BY CeilingExact DEF Ceiling
  <1> HIDE DEF c
  <1>2. n <= c - 1 /\ c - 1 \in Int
    BY <1>1 DEF c
  <1>3. X <= s * (c - 1) /\ X \in Int
    BY <1>2, MulMono
  <1>4. s * (c - 1) = C - s
    BY <1>1, SMT
  <1> HIDE DEF C, X
  <1> QED BY <1>1, <1>3, <1>4 DEF X

LEMMA MultipleDivides ==
    ASSUME NEW s \in Nat \ {0}, NEW b \in Nat, b % s = 0, NEW c \in Nat
    PROVE  (b * c) % s = 0
  <1> DEFINE m == b \div s
  <1>1. m \in Int /\ b = s * m + (b % s)
    BY DivMod
  <1> HIDE DEF m
  <1>2. b = s * m
    <2> DEFINE P == s * m
    <2>1. P \in Int
      BY <1>1, MulMono
    <2> HIDE DEF P
    <2> QED BY <1>1, <2>1 DEF P
  <1>3. b * c = s * (m * c) /\ m * c \in Int
    BY <1>1, <1>2, SMT
  <1> DEFINE n == m * c
  <1> HIDE DEF n
  <1>4. n \in Int /\ b * c = s * n
    BY <1>3 DEF n
  <1>5. s * n \in Int /\ s * (n + 1) = s * n + s
    BY <1>4, MulMono
  <1>6. s * n <= s * n /\ s * n < s * (n + 1)
    BY <1>5
  <1>7. (s * n) % s = s * n - s * n
    BY <1>4, <1>5, <1>6, DivUnique
  <1>8. s * n - s * n = 0
    BY <1>5
  <1> QED BY <1>4, <1>7, <1>8

(* The region of the result that a block becomes, and what is written      *)
(* there: for every voxel the value of a voxel of the block close to it.   *)
ResampledRoi(r, f) ==
    [p |-> Scaled(r.p, f), q |-> Plus(Scaled(r.p, f), Scaled(shape(r), f))]

LEMMA ResampledFacts ==
    ASSUME NEW f, IsFactor(f), f.num = 1, NEW r, IsRoi(Dim, r)
    PROVE  LET to == ResampledRoi(r, f)
               s  == stride(f)
           IN  /\ s \in Nat \ {0}
               /\ to.p \in Ints(Dim) /\ to.q \in Ints(Dim)
               /\ shape(r) = [d \in Dim |-> r.q[d] - r.p[d]]
               /\ Scaled(shape(r), f) \in Ints(Dim)
               /\ \A d \in Dim : /\ r.p[d] \in Nat /\ r.q[d] \in Nat /\ r.p[d] < r.q[d]
                                 /\ to.p[d] = Ceiling(r.p[d], s)
                                 /\ Scaled(shape(r), f)[d] = Ceiling(r.q[d] - r.p[d], s)
                                 /\ to.q[d] = Ceiling(r.p[d], s) + Ceiling(r.q[d] - r.p[d], s)
  <1> DEFINE s == stride(f)
             to == ResampledRoi(r, f)
  <1>1. r.p \in [Dim -> Nat] /\ r.q \in [Dim -> Nat] /\ \A d \in Dim : r.p[d] < r.q[d]
    BY DEF IsRoi
  <1>2. shape(r) = [d \in Dim |-> r.q[d] - r.p[d]]
    BY <1>1 DEF shape, Subtract
  <1>3. r.p \in Ints(Dim) /\ shape(r) \in Ints(Dim)
    BY <1>1, <1>2 DEF Ints
  <1>4. s \in Nat \ {0}
    BY <1>3, ScaledByInverse
  <1>5. /\ Scaled(r.p, f) = [d \in Dim |-> Ceiling(r.p[d], s)]
        /\ Scaled(shape(r), f) = [d \in Dim |-> Ceiling(shape(r)[d], s)]
    BY <1>3, ScaledByInverse DEF Ceiling
  <1> HIDE DEF s
  <1>6. /\ to.p = Scaled(r.p, f)
        /\ to.q = [d \in Dim |-> Scaled(r.p, f)[d] + Scaled(shape(r), f)[d]]
    BY DEF ResampledRoi, Plus
  <1> HIDE DEF to
  <1>7. ASSUME NEW d \in Dim
        PROVE  /\ r.p[d] \in Nat /\ r.q[d] \in Nat /\ r.p[d] < r.q[d]
               /\ to.p[d] = Ceiling(r.p[d], s)
               /\ Scaled(shape(r), f)[d] = Ceiling(r.q[d] - r.p[d], s)
               /\ to.q[d] = Ceiling(r.p[d], s) + Ceiling(r.q[d] - r.p[d], s)
               /\ Ceiling(r.p[d], s) \in Int /\ Ceiling(r.q[d] - r.p[d], s) \in Int
    <2>1. r.p[d] \in Nat /\ r.q[d] \in Nat /\ r.p[d] < r.q[d]
      BY <1>1
    <2>2. Ceiling(r.p[d], s) \in Int /\ Ceiling(r.q[d] - r.p[d], s) \in Int
      BY <1>4, <2>1, ResampledAxis
    <2>3. shape(r)[d] = r.q[d] - r.p[d]
      BY <1>2
    <2> QED BY <1>5, <1>6, <2>1, <2>2, <2>3
  <1>8. Scaled(shape(r), f) \in Ints(Dim)
    <2>1. Scaled(shape(r), f) = [d \in Dim |-> Scaled(shape(r), f)[d]]
      BY <1>5
    <2> QED BY <1>7, <2>1 DEF Ints
  <1>9. to.p \in Ints(Dim) /\ to.q \in Ints(Dim)
    <2>1. to.p = [d \in Dim |-> to.p[d]] /\ to.q = [d \in Dim |-> to.q[d]]
      BY <1>5, <1>6
    <2> QED BY <1>7, <2>1 DEF Ints
  <1> QED BY <1>2, <1>4, <1>7, <1>8, <1>9 DEF s, to

LEMMA ResampledRead ==
    ASSUME NEW src, IsSource(src), DOMAIN src.extent = Dim, NEW r, IsRoi(Dim, r),
           Readable(src, r), NEW f, IsFactor(f), f.num = 1,
           NEW v \in VoxelsOf(ResampledRoi(r, f))
    PROVE  \E w \in VoxelsOf(r) :
              /\ \A d \in Dim : NearAxis(stride(f), v[d], w[d], r.p[d] % stride(f) = 0)
              /\ resample(readBlock(src, r), shape(r), Scaled(shape(r), f), f)
                    [Subtract(v, ResampledRoi(r, f).p)] = Pixel(Add(w, src.roi.p))
  <1> DEFINE s == stride(f)
             to == ResampledRoi(r, f)
             in == readBlock(src, r)
             len == Scaled(shape(r), f)
             u == Subtract(v, to.p)
             y == [d \in Dim |-> s * u[d]]
             w == [d \in Dim |-> s * u[d] + r.p[d]]
             end == [d \in Dim |-> Smaller(len[d], (shape(r)[d] + s - 1) \div s)]
  <1>1. /\ s \in Nat \ {0}
        /\ to.p \in Ints(Dim) /\ to.q \in Ints(Dim)
        /\ shape(r) = [d \in Dim |-> r.q[d] - r.p[d]]
        /\ len \in Ints(Dim)
    BY ResampledFacts
  <1>2. \A d \in Dim : /\ r.p[d] \in Nat /\ r.q[d] \in Nat /\ r.p[d] < r.q[d]
                       /\ to.p[d] = Ceiling(r.p[d], s)
                       /\ len[d] = Ceiling(r.q[d] - r.p[d], s)
                       /\ to.q[d] = Ceiling(r.p[d], s) + Ceiling(r.q[d] - r.p[d], s)
    BY ResampledFacts
  <1>3. v \in Ints(Dim) /\ \A d \in Dim : to.p[d] <= v[d] /\ v[d] < to.q[d]
    BY <1>1, VoxelMember
  <1>4. u = [d \in Dim |-> v[d] - to.p[d]]
    BY <1>3 DEF Subtract, Ints
  <1>5. r.p \in Ints(Dim) /\ r.q \in Ints(Dim)
    BY DEF IsRoi, Ints
  <1> HIDE DEF s, to, in, len, u
  <1>6. ASSUME NEW d \in Dim
        PROVE  /\ u[d] \in Nat /\ u[d] < len[d] /\ s * u[d] \in Nat /\ s * u[d] < r.q[d] - r.p[d]
               /\ end[d] = len[d]
               /\ NearAxis(s, v[d], w[d], r.p[d] % s = 0)
    <2> DEFINE a == r.p[d]
               b == r.q[d]
               n == v[d]
               t == Ceiling(a, s)
               l == Ceiling(b - a, s)
    <2>1. a \in Nat /\ b \in Nat /\ a < b /\ n \in Int /\ t <= n /\ n < t + l
      BY <1>2, <1>3 DEF Ints
    <2>2. u[d] = n - t /\ len[d] = l
      BY <1>2, <1>4
    <2> HIDE DEF a, b, n
    <2>3. /\ n - t \in Nat /\ n - t < l
          /\ s * (n - t) \in Nat /\ s * (n - t) < b - a
          /\ NearAxis(s, n, s * (n - t) + a, a % s = 0)
      BY <1>1, <2>1, ResampledVoxel
    <2>4. w[d] = s * (n - t) + a
      BY <2>2 DEF a
    <2>5. end[d] = len[d]
      <3>1. (shape(r)[d] + s - 1) \div s = l
        BY <1>1 DEF Ceiling, a, b
      <3>2. Smaller(l, l) = l
        BY DEF Smaller
      <3>3. end[d] = Smaller(len[d], (shape(r)[d] + s - 1) \div s)
        OBVIOUS
      <3> HIDE DEF end, l
      <3> QED BY <2>2, <3>1, <3>2, <3>3
    <2> HIDE DEF w, end, t, l
    <2> QED BY <2>2, <2>3, <2>4, <2>5 DEF a, b, n
  <1>7. w \in VoxelsOf(r)
    <2>1. \A d \in Dim : w[d] \in Int /\ r.p[d] <= w[d] /\ w[d] < r.q[d]
      <3> TAKE d \in Dim
      <3> DEFINE W == s * u[d]
      <3>1. W \in Nat /\ W < r.q[d] - r.p[d] /\ w[d] = W + r.p[d] /\ r.p[d] \in Nat /\ r.q[d] \in Nat
        BY <1>2, <1>6
      <3> HIDE DEF W, w
      <3> QED BY <3>1
    <2>2. w \in Ints(Dim)
      BY <2>1 DEF Ints
    <2> HIDE DEF w
    <2> QED BY <1>5, <2>1, <2>2, VoxelMember
  <1>8. resample(in, shape(r), len, f)[u] = in[y]
    <2>1. u \in VoxelsOf(Region(len))
      <3>1. u \in Ints(Dim)
        BY <1>4, <1>6 DEF Ints
      <3> QED BY <1>1, <1>6, <3>1, ExtentMember
    <2>2. Inside(u, Region(end))
      <3>1. DOMAIN u = Dim /\ Region(end).p = [d \in Dim |-> 0] /\ Region(end).q = end
        BY <1>4 DEF Region
      <3> HIDE DEF end
      <3> QED BY <1>6, <3>1 DEF Inside
    <2>3. resample(in, shape(r), len, f) =
             [z \in VoxelsOf(Region(len)) |->
                 IF Inside(z, Region(end)) THEN in[[d \in Dim |-> s * z[d]]] ELSE 0]
      BY DEF resample, s
    <2> HIDE DEF end
    <2> QED BY <2>1, <2>2, <2>3
  <1>9. y = Subtract(w, r.p)
    <2>1. Subtract(w, r.p) = [d \in Dim |-> (s * u[d] + r.p[d]) - r.p[d]]
      BY DEF Subtract
    <2>2. \A d \in Dim : (s * u[d] + r.p[d]) - r.p[d] = s * u[d]
      <3> TAKE d \in Dim
      <3> DEFINE W == s * u[d]
      <3>1. W \in Nat /\ r.p[d] \in Nat
        BY <1>2, <1>6
      <3> HIDE DEF W
      <3>2. (W + r.p[d]) - r.p[d] = W
        BY <3>1
      <3> QED BY <3>2 DEF W
    <2> QED BY <2>1, <2>2
  <1> HIDE DEF y, w
  <1>10. in[Subtract(w, r.p)] = Pixel(Add(w, src.roi.p))
    BY <1>7, BlockRead DEF in
  <1> QED BY <1>6, <1>7, <1>8, <1>9, <1>10 DEF s, to, in, len, u

(* Every voxel of the result lies in the region that a block becomes: that *)
(* of the block with the voxel s times as far.                             *)
LEMMA ResampledCover ==
    ASSUME NEW f, IsFactor(f), f.num = 1, Tiling, pc # "tile",
           NEW v \in VoxelsOf(Region(Scaled(Shape, f)))
    PROVE  \E i \in 1 .. numBlocks : v \in VoxelsOf(ResampledRoi(block(i), f))
  <1> DEFINE s == stride(f)
             w == [d \in Dim |-> s * v[d]]
  <1>1. IsShape(Shape) /\ Shape \in Ints(Dim) /\ roi_ = Region(Shape)
    BY TilingState DEF IsShape, Ints
  <1>2. s \in Nat \ {0} /\ Scaled(Shape, f) = [d \in Dim |-> Ceiling(Shape[d], s)]
    BY <1>1, ScaledByInverse DEF Ceiling
  <1> HIDE DEF s
  <1>3. \A d \in Dim : Shape[d] \in Int /\ Ceiling(Shape[d], s) \in Int
    <2> TAKE d \in Dim
    <2>1. Shape[d] \in Int
      BY <1>1 DEF Ints
    <2> QED BY <1>2, <2>1, CeilingExact DEF Ceiling
  <1>4. Scaled(Shape, f) \in Ints(Dim)
    BY <1>2, <1>3 DEF Ints
  <1>5. v \in Ints(Dim) /\ \A d \in Dim : 0 <= v[d] /\ v[d] < Ceiling(Shape[d], s)
    BY <1>2, <1>4, ExtentMember
  <1>6. ASSUME NEW d \in Dim PROVE w[d] \in Int /\ 0 <= w[d] /\ w[d] < Shape[d]
    <2>1. v[d] \in Int /\ 0 <= v[d] /\ v[d] < Ceiling(Shape[d], s) /\ Shape[d] \in Int
      BY <1>3, <1>5 DEF Ints
    <2>2. s * v[d] < Shape[d] /\ s * v[d] \in Int
      BY <1>2, <2>1, BelowCeiling
    <2>3. s * 0 <= s * v[d] /\ s * 0 = 0
      <3>1. s * 0 = 0
        BY <1>2
      <3> QED BY <1>2, <2>1, <3>1, MulMono
    <2> QED BY <2>2, <2>3
  <1>7. w \in VoxelsOf(roi_)
    <2>1. w \in Ints(Dim)
      BY <1>6 DEF Ints
    <2> HIDE DEF w
    <2> QED BY <1>1, <1>6, <2>1, ExtentMember
  <1>8. PICK i \in 1 .. numBlocks : w \in VoxelsOf(block(i))
    BY <1>7, BlocksCover
  <1> DEFINE r == block(i)
             to == ResampledRoi(r, f)
  <1>9. IsRoi(Dim, r)
    BY BlockFacts
  <1>10. /\ to.p \in Ints(Dim) /\ to.q \in Ints(Dim)
         /\ \A d \in Dim : /\ r.p[d] \in Nat /\ r.q[d] \in Nat /\ r.p[d] < r.q[d]
                           /\ to.p[d] = Ceiling(r.p[d], s)
                           /\ to.q[d] = Ceiling(r.p[d], s) + Ceiling(r.q[d] - r.p[d], s)
    <2> HIDE DEF r
    <2> QED BY <1>9, ResampledFacts DEF s
  <1>11. \A d \in Dim : r.p[d] <= w[d] /\ w[d] < r.q[d]
    <2>1. r.p \in Ints(Dim) /\ r.q \in Ints(Dim)
      BY <1>9 DEF IsRoi, Ints
    <2> HIDE DEF r, w
    <2> QED BY <1>8, <2>1, VoxelMember DEF r
  <1> HIDE DEF r, to
  <1>12. ASSUME NEW d \in Dim PROVE to.p[d] <= v[d] /\ v[d] < to.q[d]
    <2>1. r.p[d] \in Nat /\ r.q[d] \in Nat /\ r.p[d] < r.q[d] /\ v[d] \in Int
          /\ r.p[d] <= s * v[d] /\ s * v[d] < r.q[d]
      BY <1>5, <1>10, <1>11 DEF Ints
    <2>2. Ceiling(r.p[d], s) <= v[d] /\ v[d] < Ceiling(r.p[d], s) + Ceiling(r.q[d] - r.p[d], s)
      BY <1>2, <2>1, ResampledAxis
    <2> QED BY <1>10, <2>2
  <1>13. v \in VoxelsOf(to)
    BY <1>5, <1>10, <1>12, VoxelMember
  <1> QED BY <1>13 DEF to, r

(* Aligned blocks become regions within the result.                        *)
LEMMA ResampledFits ==
    ASSUME NEW f, IsFactor(f), f.num = 1, Tiling, NEW i \in 1 .. numBlocks,
           \A d \in Dim : BlockShape[d] % stride(f) = 0
    PROVE  VoxelsOf(ResampledRoi(block(i), f)) \subseteq VoxelsOf(Region(Scaled(Shape, f)))
  <1> DEFINE s == stride(f)
             r == block(i)
             to == ResampledRoi(r, f)
             big == Scaled(Shape, f)
  <1>1. /\ IsRoi(Dim, r) /\ Shape \in [Dim -> Nat \ {0}]
        /\ \A d \in Dim : r.q[d] <= Shape[d]
        /\ \A d \in Dim : \E m \in Nat : r.p[d] = BlockShape[d] * m
    BY BlockFacts
  <1> HIDE DEF r
  <1>2. /\ s \in Nat \ {0} /\ to.p \in Ints(Dim) /\ to.q \in Ints(Dim)
        /\ \A d \in Dim : /\ r.p[d] \in Nat /\ r.q[d] \in Nat /\ r.p[d] < r.q[d]
                          /\ to.p[d] = Ceiling(r.p[d], s)
                          /\ to.q[d] = Ceiling(r.p[d], s) + Ceiling(r.q[d] - r.p[d], s)
    BY <1>1, ResampledFacts
  <1>3. big = [d \in Dim |-> Ceiling(Shape[d], s)]
    <2>1. Shape \in Ints(Dim)
      BY <1>1 DEF Ints
    <2> QED BY <2>1, ScaledByInverse DEF Ceiling
  <1> HIDE DEF s, to, big
  <1>4. ASSUME NEW d \in Dim
        PROVE  /\ 0 <= to.p[d] /\ to.q[d] <= big[d] /\ big[d] \in Int
               /\ to.p[d] \in Int /\ to.q[d] \in Int
    <2> DEFINE a == r.p[d]
               b == r.q[d]
               end == Shape[d]
    <2>1. a \in Nat /\ b \in Nat /\ a < b /\ end \in Nat /\ b <= end
      BY <1>1, <1>2
    <2>2. a % s = 0
      <3>1. PICK m \in Nat : a = BlockShape[d] * m
        BY <1>1
      <3>2. BlockShape[d] \in Nat /\ BlockShape[d] % s = 0
        BY ShapeType DEF s
      <3> HIDE DEF a
      <3> QED BY <1>2, <3>1, <3>2, MultipleDivides
    <2> HIDE DEF a, b, end
    <2> DEFINE t == Ceiling(a, s)
               l == Ceiling(b - a, s)
               c == Ceiling(end, s)
               A == s * t
    <2>3. t \in Int /\ l \in Int /\ A = a /\ t + l <= c
      BY <1>2, <2>1, <2>2, ResampledAxis
    <2>4. c \in Int
      <3>1. end \in Int
        BY <2>1
      <3> QED BY <1>2, <3>1, CeilingExact DEF Ceiling
    <2>5. 0 <= t
      <3> SUFFICES ASSUME t < 0 PROVE FALSE
        BY <2>3
      <3> HIDE DEF t
      <3>1. A < 0
        BY <1>2, <2>3, SMT
      <3> QED BY <2>1, <2>3, <3>1
    <2>6. to.p[d] = t /\ to.q[d] = t + l /\ big[d] = c
      BY <1>2, <1>3 DEF a, b, end
    <2> HIDE DEF t, l, c, A
    <2> QED BY <2>3, <2>4, <2>5, <2>6
  <1>5. big \in Ints(Dim)
    BY <1>3, <1>4 DEF Ints
  <1>6. ASSUME NEW v \in VoxelsOf(to) PROVE v \in VoxelsOf(Region(big))
    <2>1. v \in Ints(Dim) /\ \A d \in Dim : to.p[d] <= v[d] /\ v[d] < to.q[d]
      BY <1>2, VoxelMember
    <2>2. \A d \in Dim : 0 <= v[d] /\ v[d] < big[d]
      <3> TAKE d \in Dim
      <3>1. v[d] \in Int
        BY <2>1 DEF Ints
      <3> QED BY <1>4, <2>1, <3>1
    <2> QED BY <1>5, <2>1, <2>2, ExtentMember
  <1> QED BY <1>6 DEF to, r, big

------------------------------------------------------------------------------
(* The invariant of a filter.  RightFor says what the value of voxel v of  *)
(* the result has to be, TargetFor which region of it block r becomes and  *)
(* ShapeFor which shape the result of an image of shape s has.             *)

RightFor(class, src, a, region, v, value) ==
    /\ class = "Thresholding" =>
          value = IF Pixel(Add(v, src.roi.p)) > a.threshold THEN a.ifHigher ELSE a.ifLower
    /\ class = "ChannelSelector" =>
          value = Pixel(Add(WithAxis(v, a.dim, a.channel), src.roi.p))
    /\ class = "ResampleImage" /\ a.num = 1 =>
          \E w \in VoxelsOf(region) :
              /\ \A d \in Dim : NearAxis(stride(a), v[d], w[d], BlockShape[d] % stride(a) = 0)
              /\ value = Pixel(Add(w, src.roi.p))

TargetFor(class, a, r) == IF class = "ResampleImage" THEN ResampledRoi(r, a) ELSE r

ShapeFor(class, src, a, s) == IF class = "ResampleImage" THEN Scaled(sourceShape(src), a) ELSE s

(* The arguments of a run, for an object whose blocking is of shape s.     *)
ArgsFor(class, src, a, s) ==
    /\ class = "ChannelSelector" =>
          /\ a.dim \in AllAxes /\ a.channel \in 0 .. sourceShape(src)[a.dim] - 1
          /\ s = WithoutAxis(sourceShape(src), a.dim)
    /\ class = "ResampleImage" => IsFactor(a)

AxesFor(class) == IF class = "ChannelSelector" THEN AllAxes ELSE Dim

IsSink ==
    /\ sink \in [shape : Vectors, fileCreated : BOOLEAN]
    /\ sink.fileCreated => \E s : IsShape(s) /\ DOMAIN dataset = VoxelsOf(Region(s))

Processed(i) ==
    \A v \in VoxelsOf(TargetFor(filter, args, block(i))) :
        v \in DOMAIN dataset /\ RightFor(filter, source, args, roi_, v, dataset[v])

Waiting == k = 0 /\ pc \in {"tile", "tiled", "done", "failed", "undefined"}

Selecting ==
    /\ k = 1 /\ pc \in {"tile", "tiled"} /\ filter = "ChannelSelector"
    /\ ArgsFor(filter, source, args, Shape)

Processing ==
    /\ pc = "run" /\ k \in 1 .. numBlocks + 1 /\ ArgsFor(filter, source, args, Shape)
    /\ sink.shape = ShapeFor(filter, source, args, Shape) /\ IsShape(sink.shape)
    /\ k > 1 => sink.fileCreated
    /\ \A i \in 1 .. k - 1 : Processed(i)

FilterInv ==
    /\ filter \in Filters /\ IsSource(source) /\ DOMAIN source.extent = AxesFor(filter) /\ IsSink
    /\ Tiling \/ (filter = "ChannelSelector" /\ k = 0 /\ pc = "tiled")
    /\ Waiting \/ Selecting \/ Processing
    /\ FailureExplained

(* The reasons of a failure that do not depend on the sink.                *)
Unfit ==
    \/ filter # "ChannelSelector" /\ sourceShape(source) # roi_.q
    \/ /\ filter = "ResampleImage"
       /\ args.num # 1 \/ \E d \in Dim : BlockShape[d] % stride(args) # 0

LEMMA ShapeNotOrigin ==
    ASSUME NEW s, IsShape(s)
    PROVE  s # Origin
  <1>1. 0 \in Dim
    BY GeometryAssumption DEF Dim
  <1> QED BY <1>1, ShapeType DEF IsShape

LEMMA ProcessKeeps ==
    ASSUME FilterInv, Processing, Tiling, k <= numBlocks,
           NEW from, NEW to, NEW out, Process(from, to, out),
           to.p \in Ints(Dim), to.q \in Ints(Dim),
           VoxelsOf(to) = VoxelsOf(TargetFor(filter, args, block(k))),
           Readable(source, from) =>
               \A v \in VoxelsOf(to) :
                   RightFor(filter, source, args, roi_, v, out[Subtract(v, to.p)]),
           Readable(source, from) \/ Unfit,
           VoxelsOf(to) \subseteq VoxelsOf(Region(sink.shape)) \/ Unfit
    PROVE  FilterInv'
  <1>1. /\ filter \in Filters /\ IsSource(source) /\ DOMAIN source.extent = AxesFor(filter)
        /\ sink \in [shape : Vectors, fileCreated : BOOLEAN]
        /\ sink.fileCreated => \E s : IsShape(s) /\ DOMAIN dataset = VoxelsOf(Region(s))
    BY DEF FilterInv, IsSink
  <1>2. /\ pc = "run" /\ k \in 1 .. numBlocks + 1 /\ ArgsFor(filter, source, args, Shape)
        /\ sink.shape = ShapeFor(filter, source, args, Shape) /\ IsShape(sink.shape)
        /\ k > 1 => sink.fileCreated
        /\ \A i \in 1 .. k - 1 : Processed(i)
    BY DEF Processing
  <1>3. /\ roi_' = roi_ /\ blocks_' = blocks_ /\ UNCHANGED blockingVars
        /\ filter' = filter /\ source' = source /\ args' = args
        /\ pc' = "failed" \/ pc' = pc
    BY DEF Process, Throw, blockingVars
  <1>4. Tiling'
    <2>1. pc # "tile" /\ pc' # "tile"
      BY <1>2, <1>3
    <2> QED BY <1>3, <2>1, TilingStep
  <1>5. /\ filter' \in Filters /\ IsSource(source') /\ DOMAIN source'.extent = AxesFor(filter')
        /\ numBlocks' = numBlocks /\ Shape' = Shape /\ \A i : block(i)' = block(i)
    BY <1>1, <1>3 DEF numBlocks, Shape, block
  <1>6. ShapeKnown(sink)
    BY <1>2, ShapeNotOrigin DEF ShapeKnown
  <1>7. Unfit => Unfit'
    BY <1>3 DEF Unfit
  <1>8. CASE ~Readable(source, from) \/ ~ShapeKnown(sink)
    <2>1. Unfit /\ pc' = "failed" /\ k' = 0 /\ sink' = sink /\ dataset' = dataset
      BY <1>6, <1>8 DEF Process, Throw
    <2>2. IsSink'
      BY <1>1, <2>1 DEF IsSink
    <2>3. FailureExplained' /\ Waiting'
      BY <1>7, <2>1 DEF FailureExplained, Unfit, Waiting
    <2> QED BY <1>4, <1>5, <2>2, <2>3 DEF FilterInv
  <1>9. CASE Readable(source, from) /\ ShapeKnown(sink)
    <2> DEFINE file == Opened(sink, dataset)
    <2>1. sink' = [sink EXCEPT !.fileCreated = TRUE]
      BY <1>9 DEF Process
    <2>2. /\ sink' \in [shape : Vectors, fileCreated : BOOLEAN]
          /\ sink'.fileCreated /\ sink'.shape = sink.shape
      BY <1>1, <2>1
    <2>3. \E s : IsShape(s) /\ DOMAIN file = VoxelsOf(Region(s))
      <3>1. CASE sink.fileCreated
        BY <1>1, <3>1 DEF Opened
      <3>2. CASE ~sink.fileCreated
        BY <1>2, <3>2 DEF Opened
      <3> QED BY <3>1, <3>2
    <2> HIDE DEF file
    <2>4. CASE ~Fits(sink, dataset, to)
      <3>1. dataset' = file /\ pc' = "failed" /\ k' = 0
        BY <1>9, <2>4 DEF Process, Throw, file
      <3>2. IsSink'
        BY <2>2, <2>3, <3>1 DEF IsSink
      <3>3. Unfit \/ DOMAIN dataset' # VoxelsOf(Region(sink'.shape))
        <4>1. VoxelsOf(Region(sink'.shape)) = VoxelsOf(Region(sink.shape))
          BY <2>2
        <4> QED BY <2>4, <3>1, <4>1 DEF Fits, file
      <3>4. FailureExplained' /\ Waiting'
        BY <1>7, <2>2, <3>1, <3>3 DEF FailureExplained, Unfit, Waiting
      <3> QED BY <1>4, <1>5, <3>2, <3>4 DEF FilterInv
    <2>5. CASE Fits(sink, dataset, to)
      <3>1. dataset' = Written(sink, dataset, to, out) /\ k' = k + 1 /\ pc' = pc
        BY <1>9, <2>5 DEF Process
      <3>2. dataset' = [v \in DOMAIN file |-> IF Inside(v, to) THEN out[Subtract(v, to.p)] ELSE file[v]]
        BY <3>1 DEF Written, file
      <3>3. DOMAIN dataset' = DOMAIN file /\ VoxelsOf(to) \subseteq DOMAIN file
        BY <2>5, <3>2 DEF Fits, file
      <3>4. IsSink'
        BY <2>2, <2>3, <3>3 DEF IsSink
      <3>5. k' \in 1 .. numBlocks' + 1 /\ k' - 1 = k /\ k \in Nat \ {0}
        <4>1. numBlocks \in Nat /\ numBlocks' = numBlocks /\ k' = k + 1 /\ k <= numBlocks
          BY <1>5, <3>1, TilingState
        <4> QED BY <1>2, <4>1
      <3>6. \A v \in DOMAIN file : Inside(v, to) <=> v \in VoxelsOf(to)
        <4>1. PICK s : IsShape(s) /\ DOMAIN file = VoxelsOf(Region(s))
          BY <2>3
        <4>2. s \in Ints(Dim)
          BY <4>1 DEF IsShape, Ints
        <4>3. \A v \in DOMAIN file : v \in Ints(Dim) /\ DOMAIN v = Dim
          <5>1. \A v \in DOMAIN file : v \in Ints(Dim)
            BY <4>1, <4>2, ExtentMember
          <5> QED BY <5>1 DEF Ints
        <4> QED BY <4>3, VoxelMember DEF Inside
      <3>7. \A v \in VoxelsOf(to) :
               v \in DOMAIN dataset' /\ RightFor(filter, source, args, roi_, v, dataset'[v])
        BY <1>9, <3>2, <3>3, <3>6
      <3>8. ASSUME NEW i \in 1 .. k, NEW v \in VoxelsOf(TargetFor(filter, args, block(i)))
            PROVE  v \in DOMAIN dataset' /\ RightFor(filter, source, args, roi_, v, dataset'[v])
        <4>1. CASE v \in VoxelsOf(to)
          BY <3>7, <4>1
        <4>2. CASE v \notin VoxelsOf(to)
          <5>1. i \in 1 .. k - 1 /\ k > 1
            <6>1. i # k
              BY <4>2
            <6> QED BY <3>5, <6>1
          <5>2. v \in DOMAIN dataset /\ RightFor(filter, source, args, roi_, v, dataset[v])
            BY <1>2, <5>1 DEF Processed
          <5>3. file = dataset
            BY <1>2, <5>1 DEF Opened, file
          <5>4. v \in DOMAIN dataset' /\ dataset'[v] = dataset[v]
            BY <3>2, <3>6, <4>2, <5>2, <5>3
          <5> QED BY <5>2, <5>4
        <4> QED BY <4>1, <4>2
      <3>9. \A i \in 1 .. k' - 1 : Processed(i)'
        BY <1>3, <1>5, <3>5, <3>8 DEF Processed
      <3>10. Processing'
        BY <1>2, <1>3, <1>5, <2>2, <3>1, <3>5, <3>9 DEF Processing
      <3>11. FailureExplained'
        BY <1>2, <3>1 DEF FailureExplained
      <3> QED BY <1>4, <1>5, <3>4, <3>10, <3>11 DEF FilterInv
    <2> QED BY <2>4, <2>5
  <1> QED BY <1>8, <1>9

(* A block of a run, for each of the classes.                              *)
LEMMA ProcessingBlock ==
    ASSUME FilterInv, pc = "run", k <= numBlocks
    PROVE  /\ Processing /\ Tiling /\ k \in 1 .. numBlocks
           /\ IsSource(source) /\ DOMAIN source.extent = AxesFor(filter)
           /\ IsRoi(Dim, block(k)) /\ block(k).p \in Ints(Dim) /\ block(k).q \in Ints(Dim)
           /\ Shape \in Ints(Dim)
           /\ \A d \in Dim : block(k).q[d] <= Shape[d]
           /\ VoxelsOf(block(k)) \subseteq VoxelsOf(Region(Shape))
  <1>1. Processing /\ Tiling
    BY DEF FilterInv, Waiting, Selecting
  <1>2. k \in 1 .. numBlocks
    BY <1>1, TilingState DEF Processing
  <1>3. /\ IsRoi(Dim, block(k)) /\ Shape \in [Dim -> Nat \ {0}]
        /\ \A d \in Dim : block(k).q[d] <= Shape[d]
    BY <1>1, <1>2, BlockFacts
  <1>4. /\ block(k).p \in Ints(Dim) /\ block(k).q \in Ints(Dim) /\ Shape \in Ints(Dim)
        /\ \A d \in Dim : block(k).p[d] \in Nat
    BY <1>3 DEF IsRoi, Ints
  <1>5. ASSUME NEW v \in VoxelsOf(block(k)) PROVE v \in VoxelsOf(Region(Shape))
    <2>1. v \in Ints(Dim) /\ \A d \in Dim : block(k).p[d] <= v[d] /\ v[d] < block(k).q[d]
      BY <1>4, VoxelMember
    <2>2. \A d \in Dim : v[d] \in Int /\ block(k).q[d] \in Int /\ Shape[d] \in Int
      BY <1>4, <2>1 DEF Ints
    <2>3. \A d \in Dim : 0 <= v[d] /\ v[d] < Shape[d]
      BY <1>3, <1>4, <2>1, <2>2
    <2> QED BY <1>4, <2>1, <2>3, ExtentMember
  <1> QED BY <1>1, <1>2, <1>3, <1>4, <1>5 DEF FilterInv

LEMMA ThresholdBlockKeeps ==
    ASSUME FilterInv, ThresholdBlock
    PROVE  FilterInv'
  <1> DEFINE r == block(k)
             in == readBlock(source, r)
             out == [v \in DOMAIN in |-> IF in[v] > args.threshold
                                         THEN args.ifHigher ELSE args.ifLower]
  <1>1. filter = "Thresholding" /\ pc = "run" /\ k <= numBlocks /\ Process(r, r, out)
    BY DEF ThresholdBlock, NextBlockOf
  <1>2. /\ Processing /\ Tiling /\ k \in 1 .. numBlocks
        /\ IsSource(source) /\ DOMAIN source.extent = Dim
        /\ IsRoi(Dim, r) /\ r.p \in Ints(Dim) /\ r.q \in Ints(Dim)
        /\ \A d \in Dim : r.q[d] <= Shape[d]
        /\ VoxelsOf(r) \subseteq VoxelsOf(Region(Shape))
    BY <1>1, ProcessingBlock DEF AxesFor
  <1>3. TargetFor(filter, args, r) = r
    BY <1>1 DEF TargetFor
  <1>4. sink.shape = Shape
    BY <1>1, <1>2 DEF Processing, ShapeFor
  <1> HIDE DEF r
  <1>5. ASSUME Readable(source, r), NEW v \in VoxelsOf(r)
        PROVE  RightFor(filter, source, args, roi_, v, out[Subtract(v, r.p)])
    <2>1. /\ Subtract(v, r.p) \in DOMAIN in
          /\ in[Subtract(v, r.p)] = Pixel(Add(v, source.roi.p))
      BY <1>2, <1>5, BlockRead
    <2>2. out[Subtract(v, r.p)] = IF in[Subtract(v, r.p)] > args.threshold
                                  THEN args.ifHigher ELSE args.ifLower
      BY <2>1
    <2> HIDE DEF out, in
    <2> QED BY <1>1, <2>1, <2>2 DEF RightFor
  <1>6. Readable(source, r) \/ Unfit
    <2>1. CASE sourceShape(source) = Shape
      BY <1>2, <2>1, InsideReadable
    <2>2. CASE sourceShape(source) # Shape
      BY <1>1, <2>2 DEF Unfit, Shape
    <2> QED BY <2>1, <2>2
  <1> HIDE DEF out
  <1> QED BY <1>1, <1>2, <1>3, <1>4, <1>5, <1>6, ProcessKeeps DEF r

LEMMA SelectBlockKeeps ==
    ASSUME FilterInv, SelectBlock
    PROVE  FilterInv'
  <1> DEFINE r == block(k)
             newRoi == insertAxisBefore(r, args.dim, args.channel, args.channel + 1)
             in == readBlock(source, newRoi)
             out == [v \in VoxelsOf(Region(shape(r))) |-> in[WithAxis(v, args.dim, 0)]]
  <1>1. filter = "ChannelSelector" /\ pc = "run" /\ k <= numBlocks /\ Process(newRoi, r, out)
    BY DEF SelectBlock, NextBlockOf
  <1>2. /\ Processing /\ Tiling /\ k \in 1 .. numBlocks
        /\ IsSource(source) /\ DOMAIN source.extent = AllAxes
        /\ IsRoi(Dim, r) /\ r.p \in Ints(Dim) /\ r.q \in Ints(Dim)
        /\ \A d \in Dim : r.q[d] <= Shape[d]
        /\ VoxelsOf(r) \subseteq VoxelsOf(Region(Shape))
    BY <1>1, ProcessingBlock DEF AxesFor
  <1>3. TargetFor(filter, args, r) = r
    BY <1>1 DEF TargetFor
  <1>4. /\ sink.shape = Shape
        /\ args.dim \in AllAxes /\ args.channel \in 0 .. sourceShape(source)[args.dim] - 1
        /\ Shape = WithoutAxis(sourceShape(source), args.dim)
    BY <1>1, <1>2 DEF Processing, ShapeFor, ArgsFor
  <1> HIDE DEF r
  <1>5. /\ Readable(source, newRoi)
        /\ \A v \in VoxelsOf(r) : in[WithAxis(Subtract(v, r.p), args.dim, 0)]
                                     = Pixel(Add(WithAxis(v, args.dim, args.channel), source.roi.p))
    BY <1>2, <1>4, ChannelRead
  <1>6. ASSUME NEW v \in VoxelsOf(r) PROVE Subtract(v, r.p) \in VoxelsOf(Region(shape(r)))
    <2>1. v \in Ints(Dim) /\ \A d \in Dim : r.p[d] <= v[d] /\ v[d] < r.q[d]
      BY <1>2, VoxelMember
    <2>2. shape(r) = [d \in Dim |-> r.q[d] - r.p[d]]
      BY <1>2 DEF shape, Subtract, Ints
    <2>3. Subtract(v, r.p) = [d \in Dim |-> v[d] - r.p[d]]
      BY <2>1 DEF Subtract, Ints
    <2>4. \A d \in Dim : v[d] \in Int /\ r.p[d] \in Int /\ r.q[d] \in Int
      BY <1>2, <2>1 DEF Ints
    <2>5. Subtract(v, r.p) \in Ints(Dim) /\ shape(r) \in Ints(Dim)
      BY <2>2, <2>3, <2>4 DEF Ints
    <2>6. \A d \in Dim : 0 <= Subtract(v, r.p)[d] /\ Subtract(v, r.p)[d] < shape(r)[d]
      BY <2>1, <2>2, <2>3, <2>4
    <2> QED BY <2>5, <2>6, ExtentMember
  <1> HIDE DEF newRoi, in
  <1>7. ASSUME NEW v \in VoxelsOf(r)
        PROVE  RightFor(filter, source, args, roi_, v, out[Subtract(v, r.p)])
    <2>1. out[Subtract(v, r.p)] = in[WithAxis(Subtract(v, r.p), args.dim, 0)]
      BY <1>6
    <2> HIDE DEF out
    <2> QED BY <1>1, <1>5, <2>1 DEF RightFor
  <1> HIDE DEF out
  <1> QED BY <1>1, <1>2, <1>3, <1>4, <1>5, <1>7, ProcessKeeps DEF r

LEMMA ResampleBlockKeeps ==
    ASSUME FilterInv, ResampleBlock
    PROVE  FilterInv'
  <1> DEFINE r == block(k)
             in == readBlock(source, r)
             to == ResampledRoi(r, args)
             out == resample(in, shape(r), Scaled(shape(r), args), args)
             s == stride(args)
  <1>1. /\ filter = "ResampleImage" /\ pc = "run" /\ k <= numBlocks
        /\ \/ s = 0 /\ pc' = "undefined" /\ k' = 0
              /\ UNCHANGED <<blockingVars, filter, source, sink, dataset, args>>
           \/ Process(r, to, out)
    BY DEF ResampleBlock, NextBlockOf, ResampledRoi
  <1>2. /\ Processing /\ Tiling /\ k \in 1 .. numBlocks
        /\ IsSource(source) /\ DOMAIN source.extent = Dim
        /\ IsRoi(Dim, r) /\ \A d \in Dim : r.q[d] <= Shape[d]
    BY <1>1, ProcessingBlock DEF AxesFor
  <1>3. IsFactor(args) /\ sink.shape = Scaled(sourceShape(source), args)
    BY <1>1, <1>2 DEF Processing, ShapeFor, ArgsFor
  <1>4. TargetFor(filter, args, r) = to
    BY <1>1 DEF TargetFor
  <1>5. ASSUME args.num = 1 PROVE s \in Nat \ {0}
    <2>1. Shape \in Ints(Dim)
      BY <1>1, ProcessingBlock
    <2> QED BY <1>3, <1>5, <2>1, ScaledByInverse
  <1>6. CASE /\ s = 0 /\ pc' = "undefined" /\ k' = 0
             /\ UNCHANGED <<blockingVars, filter, source, sink, dataset, args>>
    <2>1. /\ pc' = "undefined" /\ k' = 0 /\ sink' = sink /\ dataset' = dataset
          /\ UNCHANGED blockingVars /\ filter' = filter /\ source' = source /\ args' = args
      BY <1>6
    <2>2. args'.num # 1
      BY <1>5, <1>6, <2>1
    <2>3. Tiling'
      <3>1. pc # "tile" /\ pc' # "tile"
        BY <1>1, <2>1
      <3> QED BY <1>2, <2>1, <3>1, TilingStep
    <2>4. IsSink' /\ Waiting'
      BY <2>1 DEF FilterInv, IsSink, Waiting
    <2>5. FailureExplained'
      BY <1>1, <2>1, <2>2 DEF FailureExplained
    <2>6. filter' \in Filters /\ IsSource(source') /\ DOMAIN source'.extent = AxesFor(filter')
      BY <2>1 DEF FilterInv
    <2> QED BY <2>3, <2>4, <2>5, <2>6 DEF FilterInv
  <1>7. CASE Process(r, to, out)
    <2> HIDE DEF r
    <2>1. Process(r, to, out)
      BY <1>7
    <2>2. to.p \in Ints(Dim) /\ to.q \in Ints(Dim)
      <3>1. r.p \in [Dim -> Nat] /\ r.q \in [Dim -> Nat] /\ \A d \in Dim : r.p[d] < r.q[d]
        BY <1>2 DEF IsRoi
      <3>2. shape(r) = [d \in Dim |-> r.q[d] - r.p[d]]
        BY <3>1 DEF shape, Subtract
      <3>3. /\ \A v \in Ints(Dim) : Scaled(v, args) \in Ints(Dim)
        <4> SUFFICES ASSUME NEW v \in Ints(Dim), NEW d \in Dim PROVE Scaled(v, args)[d] \in Int
          BY DEF Scaled, Ints
        <4>1. v[d] \in Int /\ args.num \in Nat \ {0} /\ args.den \in Nat \ {0}
          BY <1>3 DEF IsFactor, Ints
        <4> DEFINE m == v[d] * args.num
        <4>2. m \in Int /\ args.den \in Nat \ {0}
          BY <4>1
        <4> HIDE DEF m
        <4>3. (m + args.den - 1) \div args.den \in Int /\ m \div args.den \in Int
          <5>1. m + args.den - 1 \in Int
            BY <4>2
          <5> QED BY <4>2, <5>1, DivMod
        <4> QED BY <4>3 DEF Scaled, m
      <3>4. r.p \in Ints(Dim) /\ shape(r) \in Ints(Dim)
        BY <3>1, <3>2 DEF Ints
      <3>5. Scaled(r.p, args) \in Ints(Dim) /\ Scaled(shape(r), args) \in Ints(Dim)
        BY <3>3, <3>4
      <3> QED BY <3>5 DEF ResampledRoi, Plus, Ints
    <2>3. ASSUME Readable(source, r), NEW v \in VoxelsOf(to)
          PROVE  RightFor(filter, source, args, roi_, v, out[Subtract(v, to.p)])
      <3> SUFFICES ASSUME args.num = 1
                   PROVE  \E w \in VoxelsOf(roi_) :
                             /\ \A d \in Dim : NearAxis(s, v[d], w[d], BlockShape[d] % s = 0)
                             /\ out[Subtract(v, to.p)] = Pixel(Add(w, source.roi.p))
        BY <1>1 DEF RightFor
      <3>1. PICK w \in VoxelsOf(r) :
               /\ \A d \in Dim : NearAxis(s, v[d], w[d], r.p[d] % s = 0)
               /\ out[Subtract(v, to.p)] = Pixel(Add(w, source.roi.p))
        BY <1>2, <1>3, <2>3, ResampledRead
      <3>2. w \in VoxelsOf(roi_)
        <4>1. VoxelsOf(r) \subseteq VoxelsOf(Region(Shape)) /\ roi_ = Region(Shape)
          BY <1>1, <1>2, ProcessingBlock, TilingState DEF r
        <4> QED BY <4>1
      <3>3. ASSUME NEW d \in Dim, BlockShape[d] % s = 0 PROVE r.p[d] % s = 0
        <4>1. PICK m \in Nat : r.p[d] = BlockShape[d] * m
          BY <1>2, BlockFacts DEF r
        <4>2. BlockShape[d] \in Nat /\ s \in Nat \ {0}
          BY <1>5, ShapeType
        <4> HIDE DEF s
        <4>3. (BlockShape[d] * m) % s = 0
          BY <3>3, <4>2, MultipleDivides
        <4> QED BY <4>1, <4>3
      <3>4. \A d \in Dim : NearAxis(s, v[d], w[d], BlockShape[d] % s = 0)
        BY <3>1, <3>3 DEF NearAxis
      <3> QED BY <3>1, <3>2, <3>4
    <2>4. Readable(source, r) \/ Unfit
      <3>1. CASE sourceShape(source) = Shape
        BY <1>2, <3>1, InsideReadable
      <3>2. CASE sourceShape(source) # Shape
        BY <1>1, <3>2 DEF Unfit, Shape
      <3> QED BY <3>1, <3>2
    <2>5. VoxelsOf(to) \subseteq VoxelsOf(Region(sink.shape)) \/ Unfit
      <3> SUFFICES ASSUME ~Unfit PROVE VoxelsOf(to) \subseteq VoxelsOf(Region(sink.shape))
        OBVIOUS
      <3>1. sourceShape(source) = Shape /\ args.num = 1 /\ \A d \in Dim : BlockShape[d] % s = 0
        BY <1>1 DEF Unfit, Shape
      <3> QED BY <1>2, <1>3, <3>1, ResampledFits DEF r
    <2>6. VoxelsOf(to) = VoxelsOf(TargetFor(filter, args, block(k)))
      BY <1>4 DEF r
    <2> HIDE DEF to, out
    <2> QED BY <1>1, <1>2, <2>1, <2>2, <2>3, <2>4, <2>5, <2>6, ProcessKeeps
  <1> QED BY <1>1, <1>6, <1>7

(* What its owner does between two runs, and the start of a run.           *)
LEMMA TileKeeps ==
    ASSUME FilterInv, Tile, UNCHANGED filterVars
    PROVE  FilterInv'
  <1>1. pc = "tile" /\ pc' \in {"tile", "tiled"} /\ roi_' = roi_
    BY DEF Tile, Carry, Advance, Constructed, blockingVars
  <1>2. /\ filter' = filter /\ source' = source /\ sink' = sink /\ dataset' = dataset
        /\ args' = args /\ k' = k
    BY DEF filterVars
  <1>3. Tiling'
    BY <1>1, TilingStep DEF FilterInv
  <1>4. Shape' = Shape
    BY <1>1 DEF Shape
  <1>5. Waiting' \/ Selecting'
    BY <1>1, <1>2, <1>4 DEF FilterInv, Waiting, Selecting, Processing
  <1>6. IsSink' /\ FailureExplained'
    BY <1>1, <1>2 DEF FilterInv, IsSink, FailureExplained
  <1> QED BY <1>2, <1>3, <1>5, <1>6 DEF FilterInv

LEMMA SetRoiKeeps ==
    ASSUME FilterInv, SetRoi
    PROVE  FilterInv'
  <1>1. PICK r \in RoisOf(source.extent) : source' = [source EXCEPT !.roi = r]
    BY DEF SetRoi
  <1>2. /\ k = 0 /\ pc \in {"tiled", "done", "failed"} /\ pc' = "tiled" /\ k' = 0
        /\ UNCHANGED blockingVars /\ roi_' = roi_ /\ blocks_' = blocks_
        /\ filter' = filter /\ sink' = sink /\ dataset' = dataset
    BY DEF SetRoi, Idle, blockingVars
  <1>3. IsSource(source') /\ source'.extent = source.extent
    BY <1>1 DEF FilterInv, IsSource
  <1>4. Tiling' \/ filter' = "ChannelSelector"
    BY <1>2, TilingStep DEF FilterInv
  <1>5. IsSink' /\ FailureExplained' /\ Waiting'
    BY <1>2 DEF FilterInv, IsSink, FailureExplained, Waiting
  <1> QED BY <1>2, <1>3, <1>4, <1>5 DEF FilterInv

LEMMA TakeNewSinkKeeps ==
    ASSUME FilterInv, TakeNewSink
    PROVE  FilterInv'
  <1>1. /\ k = 0 /\ pc \in {"tiled", "done", "failed"} /\ pc' = "tiled" /\ k' = 0
        /\ UNCHANGED blockingVars /\ roi_' = roi_ /\ blocks_' = blocks_
        /\ filter' = filter /\ source' = source /\ sink' = NewSink /\ dataset' = dataset
    BY DEF TakeNewSink, Idle, blockingVars
  <1>2. Tiling' \/ filter' = "ChannelSelector"
    BY <1>1, TilingStep DEF FilterInv
  <1>3. Origin \in Vectors
    BY ShapeType
  <1>4. IsSink'
    BY <1>1, <1>3 DEF IsSink, NewSink
  <1>5. FailureExplained' /\ Waiting'
    BY <1>1 DEF FailureExplained, Waiting
  <1> QED BY <1>1, <1>2, <1>4, <1>5 DEF FilterInv

LEMMA RunStarts ==
    ASSUME FilterInv, NEW s, IsShape(s), sink' = setShape(sink, s),
           k' = 1, pc' = "run", UNCHANGED <<blockingVars, filter, source, dataset>>,
           pc # "tile", Tiling,
           s = ShapeFor(filter, source, args', Shape), ArgsFor(filter, source, args', Shape)
    PROVE  FilterInv'
  <1>1. sink \in [shape : Vectors, fileCreated : BOOLEAN] /\ s \in Vectors
    BY DEF FilterInv, IsSink, IsShape, Vectors
  <1>2. /\ sink' \in [shape : Vectors, fileCreated : BOOLEAN]
        /\ sink'.shape = s /\ sink'.fileCreated = sink.fileCreated
    BY <1>1 DEF setShape
  <1>3. roi_' = roi_ /\ blocks_' = blocks_ /\ UNCHANGED blockingVars
        /\ filter' = filter /\ source' = source /\ dataset' = dataset
    BY DEF blockingVars
  <1>4. Tiling'
    <2>1. pc # "tile" /\ pc' # "tile"
      OBVIOUS
    <2> QED BY <1>3, <2>1, TilingStep
  <1>5. IsSink'
    BY <1>2, <1>3 DEF FilterInv, IsSink
  <1>6. Shape' = Shape /\ numBlocks' = numBlocks /\ numBlocks \in Nat \ {0}
    BY <1>3, TilingState DEF Shape, numBlocks
  <1>7. k' \in 1 .. numBlocks' + 1 /\ 1 .. k' - 1 = {}
    BY <1>6
  <1>8. Processing'
    <2>1. \A i \in 1 .. k' - 1 : Processed(i)'
      BY <1>7
    <2> QED BY <1>2, <1>3, <1>6, <1>7, <2>1 DEF Processing
  <1>9. FailureExplained'
    BY DEF FailureExplained
  <1> QED BY <1>3, <1>4, <1>5, <1>8, <1>9 DEF FilterInv

LEMMA ThresholdKeeps ==
    ASSUME FilterInv, Threshold
    PROVE  FilterInv'
  <1>1. /\ filter = "Thresholding" /\ sink' = setShape(sink, Shape) /\ k' = 1 /\ pc' = "run"
        /\ UNCHANGED <<blockingVars, filter, source, dataset>>
        /\ pc # "tile"
    BY DEF Threshold, Shape, Idle
  <1>2. Tiling /\ IsShape(Shape)
    BY <1>1 DEF FilterInv, Tiling
  <1>3. Shape = ShapeFor(filter, source, args', Shape) /\ ArgsFor(filter, source, args', Shape)
    BY <1>1 DEF ShapeFor, ArgsFor
  <1> HIDE DEF Shape
  <1> QED BY <1>1, <1>2, <1>3, RunStarts

LEMMA ResampleKeeps ==
    ASSUME FilterInv, Resample
    PROVE  FilterInv'
  <1>1. PICK f \in Factors : args' = f /\ sink' = setShape(sink, Scaled(sourceShape(source), f))
    BY DEF Resample
  <1>2. /\ filter = "ResampleImage" /\ k' = 1 /\ pc' = "run"
        /\ UNCHANGED <<blockingVars, filter, source, dataset>>
        /\ pc # "tile"
    BY DEF Resample, Idle
  <1>3. IsFactor(f)
    BY FilterAssumption DEF IsFactor
  <1>4. IsShape(sourceShape(source)) /\ Tiling
    <2>1. IsSource(source) /\ DOMAIN source.extent = Dim
      BY <1>2 DEF FilterInv, AxesFor
    <2> QED BY <1>2, <2>1, SourceFacts DEF IsShape, FilterInv
  <1> DEFINE s == Scaled(sourceShape(source), f)
  <1>5. IsShape(s)
    BY <1>3, <1>4, ScaledShape
  <1>6. s = ShapeFor(filter, source, args', Shape) /\ ArgsFor(filter, source, args', Shape)
    BY <1>1, <1>2, <1>3 DEF ShapeFor, ArgsFor
  <1>7. sink' = setShape(sink, s)
    BY <1>1
  <1> HIDE DEF s
  <1> QED BY <1>2, <1>4, <1>5, <1>6, <1>7, RunStarts

LEMMA SelectChannelKeeps ==
    ASSUME FilterInv, SelectChannel
    PROVE  FilterInv'
  <1> DEFINE sh == sourceShape(source)
  <1>0. PICK d \in DOMAIN sh : \E c \in 0 .. sh[d] - 1 :
            /\ args' = [dim |-> d, channel |-> c]
            /\ Reconstruct([p |-> Origin, q |-> WithoutAxis(sh, d)], Origin)
    BY DEF SelectChannel
  <1>1. PICK c \in 0 .. sh[d] - 1 :
            /\ args' = [dim |-> d, channel |-> c]
            /\ Reconstruct([p |-> Origin, q |-> WithoutAxis(sh, d)], Origin)
    BY <1>0
  <1>2. /\ filter = "ChannelSelector" /\ k' = 1
        /\ filter' = filter /\ source' = source /\ sink' = sink /\ dataset' = dataset
    BY DEF SelectChannel
  <1>3. sh \in [AllAxes -> Nat \ {0}]
    <2>1. IsSource(source) /\ DOMAIN source.extent = AllAxes
      BY <1>2 DEF FilterInv, AxesFor
    <2> QED BY <2>1, SourceFacts
  <1>4. IsShape(WithoutAxis(sh, d))
    <2> HIDE DEF sh
    <2>1. WithoutAxis(sh, d) = [e \in Dim |-> IF e < d THEN sh[e] ELSE sh[e + 1]]
      BY <1>3, WithoutAxisIs
    <2>2. \A e \in Dim : sh[e] \in Nat \ {0} /\ sh[e + 1] \in Nat \ {0}
      BY <1>3, AxisFacts
    <2> QED BY <2>1, <2>2 DEF IsShape
  <1>5. Tiling'
    <2> HIDE DEF sh
    <2> QED BY <1>1, <1>4, TilingRestarts
  <1>6. pc' = "tile" /\ Shape' = WithoutAxis(sh, d)
    BY <1>1 DEF Reconstruct, Shape
  <1>7. Selecting'
    <2>1. ArgsFor(filter', source', args', Shape')
      BY <1>1, <1>2, <1>3, <1>6 DEF ArgsFor
    <2> QED BY <1>2, <1>6, <2>1 DEF Selecting
  <1>8. IsSink' /\ FailureExplained'
    BY <1>2, <1>6 DEF FilterInv, IsSink, FailureExplained
  <1> QED BY <1>2, <1>5, <1>7, <1>8 DEF FilterInv

LEMMA ChannelBlockedKeeps ==
    ASSUME FilterInv, ChannelBlocked
    PROVE  FilterInv'
  <1>1. /\ filter = "ChannelSelector" /\ sink' = setShape(sink, Shape) /\ k = 1 /\ k' = 1
        /\ pc' = "run" /\ UNCHANGED <<blockingVars, filter, source, dataset>>
        /\ pc # "tile" /\ pc = "tiled" /\ args' = args
    BY DEF ChannelBlocked, Shape
  <1>2. Tiling /\ IsShape(Shape)
    BY <1>1 DEF FilterInv, Tiling
  <1>3. Shape = ShapeFor(filter, source, args', Shape) /\ ArgsFor(filter, source, args', Shape)
    BY <1>1 DEF FilterInv, Waiting, Selecting, Processing, ShapeFor
  <1> HIDE DEF Shape
  <1> QED BY <1>1, <1>2, <1>3, RunStarts

LEMMA FinishKeeps ==
    ASSUME FilterInv, Finish
    PROVE  FilterInv'
  <1>1. /\ pc = "run" /\ pc' = "done" /\ k' = 0 /\ UNCHANGED blockingVars
        /\ filter' = filter /\ source' = source /\ sink' = sink /\ dataset' = dataset
    BY DEF Finish
  <1>2. Tiling'
    <2>1. pc # "tile" /\ pc' # "tile"
      BY <1>1
    <2> QED BY <1>1, <2>1, TilingStep DEF FilterInv
  <1>3. IsSink' /\ FailureExplained' /\ Waiting'
    BY <1>1 DEF FilterInv, IsSink, FailureExplained, Waiting
  <1> QED BY <1>1, <1>2, <1>3 DEF FilterInv

LEMMA FilterStep ==
    ASSUME FilterInv, [AllNext]_allVars
    PROVE  FilterInv'
  <1>1. filter \in {"Thresholding", "ChannelSelector", "ResampleImage"}
        /\ pc \in {"tile", "tiled", "run", "done", "failed", "undefined"}
    BY DEF FilterInv, Filters, Waiting, Selecting, Processing
  <1>2. CASE UNCHANGED allVars
    <2>1. /\ roi_' = roi_ /\ overlap_' = overlap_ /\ x' = x /\ dim' = dim /\ blocks_' = blocks_
          /\ pc' = pc /\ filter' = filter /\ source' = source /\ sink' = sink
          /\ dataset' = dataset /\ args' = args /\ k' = k
      BY <1>2 DEF allVars, vars, filterVars, blockingVars
    <2> QED BY <2>1 DEF FilterInv, Tiling, Shape, InRange, Coord, IsSink, Waiting, Selecting,
                        Processing, Processed, numBlocks, block, FailureExplained
  <1>3. CASE Next
    <2>1. ~ReadCubes /\ ~ReadCube /\ ~CubesRead
      BY <1>1 DEF ReadCubes, ReadCube, CubesRead
    <2> QED BY <1>3, <2>1, TileKeeps, SetRoiKeeps, TakeNewSinkKeeps, ThresholdKeeps,
               ResampleKeeps, SelectChannelKeeps, ChannelBlockedKeeps, ThresholdBlockKeeps,
               SelectBlockKeeps, ResampleBlockKeeps, FinishKeeps DEF Next
  <1>4. ~Run /\ ~FindMaximum /\ ~MaximumFound /\ ~Accumulate /\ ~Accumulated
        /\ ~Merge /\ ~WriteFeatures
    BY <1>1 DEF Run, FindMaximum, MaximumFound, Accumulate, Accumulated, Merge, WriteFeatures
  <1> QED BY <1>2, <1>3, <1>4 DEF AllNext

LEMMA FilterStarts ==
    ASSUME FilterInit
    PROVE  FilterInv
  <1>1. PICK extent \in Extents :
            /\ source \in {[extent |-> extent, roi |-> r] : r \in RoisOf(extent)}
            /\ IF DOMAIN extent = Dim
               THEN /\ filter \in {"Thresholding", "ResampleImage"}
                    /\ Construct([p |-> Origin, q |-> sourceShape(source)], Origin)
               ELSE filter = "ChannelSelector" /\ NotBlocked
            /\ sink = NewSink /\ dataset = <<>> /\ k = 0
    BY DEF FilterInit
  <1>2. source.extent = extent /\ source.roi \in RoisOf(extent) /\ IsSource(source)
    BY <1>1 DEF IsSource
  <1>3. DOMAIN extent \in {Dim, AllAxes}
    BY FilterAssumption DEF AllAxes
  <1>4. filter \in Filters /\ DOMAIN extent = AxesFor(filter) /\ pc \in {"tile", "tiled"}
    BY <1>1, <1>3 DEF Filters, AxesFor, Construct, NotBlocked
  <1>5. Tiling \/ (filter = "ChannelSelector" /\ pc = "tiled")
    <2>1. CASE DOMAIN extent = Dim
      <3> DEFINE s == sourceShape(source)
      <3>1. IsShape(s)
        BY <1>2, <2>1, SourceFacts DEF IsShape
      <3>2. Construct([p |-> Origin, q |-> s], Origin)
        BY <1>1, <2>1
      <3> HIDE DEF s
      <3> QED BY <3>1, <3>2, TilingStarts
    <2> QED BY <1>1, <2>1 DEF NotBlocked
  <1>6. IsSink
    <2>1. Origin \in Vectors
      BY ShapeType
    <2> QED BY <1>1, <2>1 DEF IsSink, NewSink
  <1>7. Waiting /\ FailureExplained
    BY <1>1, <1>4 DEF Waiting, FailureExplained
  <1> QED BY <1>1, <1>2, <1>4, <1>5, <1>6, <1>7 DEF FilterInv

------------------------------------------------------------------------------
(* The cubes of a region that is read from a SourceKnossos, in their order.*)

Rank(S, c) == Cardinality({b \in S : Before(b, c)})

LEMMA RankOf ==
    ASSUME NEW S, IsFiniteSet(S), S \subseteq Vectors, NEW c \in S
    PROVE  Rank(S, c) \in 0 .. Cardinality(S) - 1
  <1> DEFINE T == {b \in S : Before(b, c)}
  <1>1. T \in SUBSET S /\ T # S
    BY BeforeOrders
  <1> HIDE DEF T
  <1>2. IsFiniteSet(T) /\ Cardinality(T) <= Cardinality(S) /\ Cardinality(T) # Cardinality(S)
    BY <1>1, FS_Subset
  <1>3. Cardinality(T) \in Nat /\ Cardinality(S) \in Nat
    BY <1>2, FS_CardinalityType
  <1>4. Cardinality(T) \in 0 .. Cardinality(S) - 1
    BY <1>2, <1>3
  <1> QED BY <1>4 DEF Rank, T

LEMMA RankIsOwn ==
    ASSUME NEW S, IsFiniteSet(S), S \subseteq Vectors, NEW c \in S, NEW e \in S,
           Rank(S, c) = Rank(S, e)
    PROVE  c = e
  <1>1. ASSUME NEW u \in S, NEW w \in S, Before(u, w) PROVE Rank(S, u) # Rank(S, w)
    <2> DEFINE T(a) == {b \in S : Before(b, a)}
    <2>1. T(u) \in SUBSET T(w) /\ u \in T(w) /\ u \notin T(u)
      BY <1>1, BeforeOrders
    <2>2. IsFiniteSet(T(w))
      BY FS_Subset
    <2> HIDE DEF T
    <2>3. Cardinality(T(u)) # Cardinality(T(w))
      BY <2>1, <2>2, FS_Subset
    <2> QED BY <2>3 DEF T, Rank
  <1>2. c = e \/ Before(c, e) \/ Before(e, c)
    BY BeforeTotal
  <1> QED BY <1>1, <1>2

LEMMA RankTaken ==
    ASSUME NEW S, IsFiniteSet(S), S \subseteq Vectors, NEW i \in 1 .. Cardinality(S)
    PROVE  \E c \in S : Rank(S, c) = i - 1
  <1> DEFINE n == Cardinality(S)
  <1>1. n \in Nat
    BY FS_CardinalityType
  <1>2. PICK s \in [1 .. n -> S] : Ascending(s)
    BY CanBeListed
  <1>3. \A j, l \in 1 .. n : j < l => Before(s[j], s[l])
    BY <1>2 DEF Ascending
  <1> HIDE DEF n
  <1>4. \A j, l \in 1 .. n : j = l \/ j < l \/ l < j
    BY <1>1
  <1>5. \A j \in 1 .. n : s[j] \in S /\ s[j] \in Vectors /\ ~Before(s[j], s[j])
    BY <1>2, BeforeOrders
  <1>6. s \in Injection(1 .. n, S)
    <2>1. \A j, l \in 1 .. n : s[j] = s[l] => j = l
      BY <1>3, <1>4, <1>5
    <2> QED BY <1>2, <2>1 DEF Injection, IsInjective
  <1>7. s \in Surjection(1 .. n, S)
    <2>1. Cardinality(1 .. n) = n
      BY <1>1, FS_Interval
    <2> QED BY <1>6, <2>1, FS_Injection DEF n
  <1> DEFINE T == {b \in S : Before(b, s[i])}
             low == [j \in 1 .. i - 1 |-> s[j]]
  <1>8. i \in 1 .. n /\ i \in Nat /\ (\A j : j \in 1 .. i - 1 <=> j \in 1 .. n /\ j < i)
    BY <1>1 DEF n
  <1>9. low \in Surjection(1 .. i - 1, T) /\ low \in Injection(1 .. i - 1, T)
    <2>1. \A j \in 1 .. i - 1 : low[j] \in T /\ low[j] = s[j]
      BY <1>3, <1>5, <1>8
    <2>2. ASSUME NEW b \in T PROVE \E j \in 1 .. i - 1 : low[j] = b
      <3>1. b \in S /\ Before(b, s[i])
        OBVIOUS
      <3>2. PICK j \in 1 .. n : s[j] = b
        BY <1>7, <3>1 DEF Surjection
      <3>3. ~Before(s[i], b)
        BY <1>5, <1>8, <3>1, BeforeOrders
      <3>4. j < i
        BY <1>3, <1>4, <1>5, <1>8, <3>1, <3>2, <3>3
      <3> QED BY <1>8, <2>1, <3>2, <3>4
    <2>3. \A j, l \in 1 .. i - 1 : low[j] = low[l] => j = l
      BY <1>3, <1>4, <1>5, <1>8, <2>1
    <2>4. low \in [1 .. i - 1 -> T]
      BY <2>1
    <2> HIDE DEF low, T
    <2> QED BY <2>2, <2>3, <2>4 DEF Surjection, Injection, IsInjective
  <1>10. IsFiniteSet(1 .. i - 1) /\ Cardinality(1 .. i - 1) = i - 1
    BY <1>8, FS_Interval
  <1>11. Cardinality(T) = i - 1
    <2> HIDE DEF low, T
    <2> QED BY <1>9, <1>10, FS_Surjection
  <1> QED BY <1>5, <1>8, <1>11 DEF Rank

IsCubeRoi(r) == r.p \in Vectors /\ r.q \in Vectors /\ \A d \in Dim : r.p[d] < r.q[d]

(* An axis of the region [a, b), in cubes of edge e: s is the first cube,  *)
(* and t the one after the last.                                           *)
IsCubeAxis(e, a, b, s, t) ==
    /\ e \in Nat \ {0} /\ a \in Nat /\ b \in Nat /\ a < b
    /\ s = Quotient(a, e) /\ t = Quotient(b - 1, e) + 1

LEMMA CubeAxis ==
    ASSUME NEW e, NEW a, NEW b, NEW s, NEW t, IsCubeAxis(e, a, b, s, t)
    PROVE  /\ s \in Nat /\ t \in Nat /\ s < t
           /\ a = e * s + (a % e) /\ a % e \in 0 .. e - 1 /\ e * s \in Nat
           /\ a % e = 0 /\ b < a + e => t = s + 1 /\ b % e = b - a
           /\ a % e = 0 /\ b - 1 - a < (IF t = s + 1 THEN b % e ELSE e) => b < a + e
           /\ a % e = 0 /\ t # s + 1 => b - 1 - a >= e
  <1>0. /\ e \in Nat \ {0} /\ a \in Nat /\ b \in Nat /\ a < b
        /\ s = Quotient(a, e) /\ t = Quotient(b - 1, e) + 1
    BY DEF IsCubeAxis
  <1>1. b - 1 \in Nat
    BY <1>0
  <1> USE <1>0
  <1> DEFINE h == t - 1
             A == e * s
             H == e * h
             f == a % e
             g == (b - 1) % e
  <1>2. s \in Nat /\ f \in Nat /\ f < e /\ A + f = a
    BY QuotientSplits
  <1>3. h \in Nat /\ g \in Nat /\ g < e /\ H + g = b - 1 /\ h = Quotient(b - 1, e) /\ t = h + 1
    <2>1. h = Quotient(b - 1, e)
      BY <1>1, QuotientSplits
    <2> QED BY <1>1, <2>1, QuotientSplits
  <1>4. /\ A \in Int /\ H \in Int /\ e * (s + 1) = A + e /\ e * (h + 1) = H + e
        /\ (h < s => e * (h + 1) <= A) /\ (s < h => e * (s + 1) <= H)
    <2>1. /\ A \in Int /\ e * (s + 1) = A + e /\ (s < h => e * (s + 1) <= H)
      BY <1>2, <1>3, MulMono
    <2>2. /\ H \in Int /\ e * (h + 1) = H + e /\ (h < s => e * (h + 1) <= A)
      BY <1>2, <1>3, MulMono
    <2> QED BY <2>1, <2>2
  <1> HIDE DEF A, H, f, g, h
  <1>5. s <= h
    BY <1>2, <1>3, <1>4
  <1>6. A >= 0
    BY <1>2, DivMod, SMT DEF A
  <1>7. s # h => A + e <= H
    BY <1>2, <1>3, <1>4, <1>5
  <1>8. ASSUME f = 0, b < a + e PROVE t = s + 1 /\ b % e = b - a
    <2>1. s = h
      BY <1>2, <1>3, <1>4, <1>7, <1>8
    <2>2. b = A + (b - a) /\ b - a \in Nat /\ b - a < e
      BY <1>2, <1>4, <1>8
    <2>3. b % e = b - a
      <3> DEFINE m == b - a
      <3>1. m \in Nat /\ m < e /\ b = e * s + m
        BY <2>2 DEF A
      <3> HIDE DEF m
      <3>2. (e * s + m) % e = m
        BY <1>2, <3>1, QuotientUnique
      <3> QED BY <3>1, <3>2 DEF m
    <2> QED BY <1>3, <2>1, <2>3
  <1>9. ASSUME f = 0, t # s + 1 PROVE b - 1 - a >= e
    BY <1>2, <1>3, <1>4, <1>7, <1>9
  <1>10. ASSUME f = 0, b - 1 - a < (IF t = s + 1 THEN b % e ELSE e) PROVE b < a + e
    <2>1. t = s + 1 /\ b - 1 - a < b % e
      BY <1>2, <1>3, <1>9, <1>10
    <2>2. s = h /\ b - a = g + 1
      BY <1>2, <1>3, <1>4, <1>10, <2>1 DEF A, H
    <2>3. CASE g + 1 < e
      BY <1>2, <1>3, <2>2, <2>3
    <2>4. CASE g + 1 >= e
      <3>1. b = A + e /\ b = e * (s + 1) /\ s + 1 \in Nat
        BY <1>2, <1>3, <1>4, <1>10, <2>2, <2>4
      <3>2. (e * (s + 1) + 0) % e = 0
        <4> DEFINE m == s + 1
        <4>1. m \in Nat /\ 0 \in Nat /\ 0 < e
          BY <3>1
        <4> HIDE DEF m
        <4> QED BY <4>1, QuotientUnique DEF m
      <3>3. e * (s + 1) + 0 = e * (s + 1)
        BY <1>4
      <3>4. b % e = 0
        BY <3>1, <3>2, <3>3
      <3> QED BY <2>1, <3>4
    <2> QED BY <1>3, <2>3, <2>4
  <1>11. s < t
    BY <1>2, <1>3, <1>5
  <1> QED BY <1>2, <1>3, <1>4, <1>6, <1>8, <1>9, <1>10, <1>11 DEF A, f

LEMMA CubesOfRoi ==
    ASSUME NEW r, IsCubeRoi(r)
    PROVE  /\ startBlock(r) \in Vectors /\ endBlock(r) \in Vectors
           /\ \A c : c \in cubes(r) <=> /\ c \in Vectors
                                        /\ \A d \in Dim : /\ startBlock(r)[d] <= c[d]
                                                          /\ c[d] < endBlock(r)[d]
           /\ startBlock(r) \in cubes(r) /\ cubes(r) \subseteq Vectors
           /\ IsFiniteSet(cubes(r)) /\ Cardinality(cubes(r)) \in Nat \ {0}
  <1> DEFINE s == startBlock(r)
             t == endBlock(r)
  <1>1. ASSUME NEW d \in Dim PROVE s[d] \in Nat /\ t[d] \in Nat /\ s[d] < t[d]
    <2>1. r.p[d] \in Nat /\ r.q[d] \in Nat /\ r.p[d] < r.q[d] /\ Cube \in Nat \ {0}
      BY KnossosAssumption DEF IsCubeRoi, Vectors
    <2>2. s[d] = Quotient(r.p[d], Cube) /\ t[d] = Quotient(r.q[d] - 1, Cube) + 1
      BY DEF startBlock, endBlock
    <2> HIDE DEF s, t
    <2>3. IsCubeAxis(Cube, r.p[d], r.q[d], s[d], t[d])
      BY <2>1, <2>2 DEF IsCubeAxis
    <2> QED BY <2>3, CubeAxis
  <1>2. s \in Vectors /\ t \in Vectors
    <2>1. s = [d \in Dim |-> s[d]] /\ t = [d \in Dim |-> t[d]]
      BY DEF startBlock, endBlock
    <2> HIDE DEF s, t
    <2> QED BY <1>1, <2>1 DEF Vectors
  <1>3. cubes(r) = Box(s, t)
    BY DEF cubes
  <1> HIDE DEF s, t
  <1>4. s \in IntVectors /\ t \in IntVectors
    BY <1>2, ShapeType
  <1>5. \A c : c \in cubes(r) <=> c \in Vectors /\ \A d \in Dim : s[d] <= c[d] /\ c[d] < t[d]
    <2>1. \A c : c \in cubes(r) <=> c \in IntVectors /\ InRoi(c, s, t)
      BY <1>3, <1>4, BoxMember
    <2>2. \A c \in IntVectors : InRoi(c, s, t) => c \in Vectors
      BY <1>2 DEF InRoi, IntVectors, Vectors
    <2> QED BY <2>1, <2>2, ShapeType DEF InRoi
  <1>6. s \in cubes(r) /\ cubes(r) \subseteq Vectors
    <2>1. \A d \in Dim : s[d] <= s[d] /\ s[d] < t[d]
      BY <1>1
    <2> QED BY <1>2, <1>5, <2>1
  <1>7. IsFiniteSet(cubes(r))
    BY <1>3, <1>4, FiniteBox
  <1>8. Cardinality(cubes(r)) \in Nat \ {0}
    BY <1>6, <1>7, FS_CardinalityType, FS_EmptySet
  <1> QED BY <1>2, <1>5, <1>6, <1>7, <1>8 DEF s, t

LEMMA CubeListed ==
    ASSUME NEW r, IsCubeRoi(r), NEW i \in 1 .. Cardinality(cubes(r))
    PROVE  cube(r, i) \in cubes(r) /\ Rank(cubes(r), cube(r, i)) = i - 1
  <1>1. \E c \in cubes(r) : Rank(cubes(r), c) = i - 1
    BY CubesOfRoi, RankTaken
  <1> QED BY <1>1 DEF cube, Rank

(* The voxel that a copy of cube c puts at v, and where it does.           *)
Copied(r, c, v) == [d \in Dim |-> Cube * c[d] + v[d] - CubePart(r, c).offset[d]]
TargetOf(r, c)  == LET part == CubePart(r, c)
                   IN  shift([p |-> part.p, q |-> part.q], part.offset)

PartAxis(r, c, d) ==
    LET first == startBlock(r)[d] = c[d]
    IN  [p |-> IF first THEN r.p[d] - Cube * c[d] ELSE 0,
         q |-> IF endBlock(r)[d] = c[d] + 1
               THEN (r.q[d] % Cube) + (IF first THEN r.p[d] - Cube * c[d] ELSE 0) ELSE Cube,
         offset |-> IF first THEN 0 ELSE Cube * (c[d] - startBlock(r)[d] - 1)]

LEMMA PartFacts ==
    ASSUME NEW r, NEW c, NEW v \in Ints(Dim)
    PROVE  /\ \A d \in Dim : /\ CubePart(r, c).p[d] = PartAxis(r, c, d).p
                             /\ CubePart(r, c).q[d] = PartAxis(r, c, d).q
                             /\ CubePart(r, c).offset[d] = PartAxis(r, c, d).offset
                             /\ Copied(r, c, v)[d] = Cube * c[d] + v[d] - PartAxis(r, c, d).offset
           /\ Inside(v, TargetOf(r, c)) <=>
                 \A d \in Dim : LET a == PartAxis(r, c, d)
                                IN  a.p + a.offset <= v[d] /\ v[d] < a.q + a.offset
  <1> DEFINE part == CubePart(r, c)
  <1>1. \A d \in Dim : /\ part.p[d] = PartAxis(r, c, d).p
                       /\ part.q[d] = PartAxis(r, c, d).q
                       /\ part.offset[d] = PartAxis(r, c, d).offset
    BY DEF CubePart, PartAxis
  <1>2. DOMAIN part.p = Dim /\ DOMAIN part.q = Dim
    BY DEF CubePart
  <1> HIDE DEF part
  <1>3. \A d \in Dim : /\ TargetOf(r, c).p[d] = part.p[d] + part.offset[d]
                       /\ TargetOf(r, c).q[d] = part.q[d] + part.offset[d]
    BY <1>2 DEF TargetOf, part, shift, Add
  <1>4. Inside(v, TargetOf(r, c)) <=>
           \A d \in Dim : /\ part.p[d] + part.offset[d] <= v[d]
                          /\ v[d] < part.q[d] + part.offset[d]
    BY <1>3 DEF Inside, Ints
  <1>5. \A d \in Dim : Copied(r, c, v)[d] = Cube * c[d] + v[d] - part.offset[d]
    BY DEF Copied, part
  <1> QED BY <1>1, <1>4, <1>5 DEF part

(* A region of the right kind has a single cube, and that is copied to all *)
(* of the block.                                                           *)
LEMMA ReadilyCopied ==
    ASSUME NEW r, IsCubeRoi(r), Readily(r), NEW c \in cubes(r)
    PROVE  /\ PartInBounds(CubePart(r, c), r)
           /\ \A v \in VoxelsOf(Region(shape(r))) : /\ Inside(v, TargetOf(r, c))
                                                    /\ Copied(r, c, v) = Add(v, r.p)
  <1> DEFINE sh == shape(r)
  <1>1. r.p \in [Dim -> Nat] /\ r.q \in [Dim -> Nat] /\ Cube \in Nat \ {0}
    BY KnossosAssumption DEF IsCubeRoi, Vectors
  <1>2. sh = [d \in Dim |-> r.q[d] - r.p[d]] /\ sh \in Ints(Dim)
    BY <1>1 DEF shape, Subtract, Ints
  <1> HIDE DEF sh
  <1>3. ASSUME NEW d \in Dim
        PROVE  LET a == PartAxis(r, c, d)
               IN  /\ a.p = 0 /\ a.q = sh[d] /\ a.offset = 0 /\ sh[d] <= Cube
                   /\ Cube * c[d] = r.p[d] /\ sh[d] \in Int
    <2> DEFINE s == startBlock(r)[d]
               t == endBlock(r)[d]
               A == Cube * s
               a == r.p[d]
               b == r.q[d]
    <2>1. a \in Nat /\ b \in Nat /\ a < b /\ a % Cube = 0 /\ b < a + Cube
      BY <1>1 DEF IsCubeRoi, Readily
    <2>2. s = Quotient(a, Cube) /\ t = Quotient(b - 1, Cube) + 1
      BY DEF startBlock, endBlock
    <2>3. c[d] \in Nat /\ s <= c[d] /\ c[d] < t
      BY CubesOfRoi DEF Vectors
    <2>4. sh[d] = b - a
      BY <1>2
    <2> HIDE DEF s, t, a, b
    <2>5. s \in Nat /\ t = s + 1 /\ b % Cube = b - a /\ A = a
      <3>0. IsCubeAxis(Cube, a, b, s, t)
        BY <1>1, <2>1, <2>2 DEF IsCubeAxis
      <3>1. s \in Nat /\ t = s + 1 /\ b % Cube = b - a /\ a = A + (a % Cube) /\ A \in Nat
        BY <2>1, <3>0, CubeAxis
      <3> HIDE DEF A
      <3> QED BY <2>1, <3>1
    <2>6. c[d] = s
      BY <2>3, <2>5
    <2> HIDE DEF A
    <2>7. Cube * c[d] = a
      BY <2>5, <2>6 DEF A
    <2>8. r.p[d] - Cube * c[d] = 0
      BY <2>1, <2>7 DEF a
    <2>9. /\ PartAxis(r, c, d).p = 0 /\ PartAxis(r, c, d).offset = 0
          /\ PartAxis(r, c, d).q = (b % Cube) + 0
      BY <2>5, <2>6, <2>8 DEF PartAxis, s, t, b
    <2> QED BY <1>1, <2>1, <2>4, <2>5, <2>7, <2>9 DEF a
  <1>4. PartInBounds(CubePart(r, c), r)
    <2>1. [d \in Dim |-> 0] \in Ints(Dim)
      BY DEF Ints
    <2>2. ASSUME NEW d \in Dim
          PROVE  CubePart(r, c).q[d] <= Cube /\ CubePart(r, c).q[d] + CubePart(r, c).offset[d] <= sh[d]
      <3>1. /\ CubePart(r, c).q[d] = PartAxis(r, c, d).q
            /\ CubePart(r, c).offset[d] = PartAxis(r, c, d).offset
        BY <2>1, PartFacts
      <3>2. /\ PartAxis(r, c, d).q = sh[d] /\ PartAxis(r, c, d).offset = 0
            /\ sh[d] <= Cube /\ sh[d] \in Int
        BY <1>3
      <3> QED BY <3>1, <3>2
    <2> QED BY <2>2 DEF PartInBounds, sh
  <1>5. ASSUME NEW v \in VoxelsOf(Region(sh))
        PROVE  Inside(v, TargetOf(r, c)) /\ Copied(r, c, v) = Add(v, r.p)
    <2>1. v \in Ints(Dim) /\ \A d \in Dim : 0 <= v[d] /\ v[d] < sh[d]
      BY <1>2, ExtentMember
    <2>2. \A d \in Dim : v[d] \in Int /\ v[d] + 0 = v[d]
      BY <2>1 DEF Ints
    <2>3. Inside(v, TargetOf(r, c))
      <3>1. ASSUME NEW d \in Dim
            PROVE  LET a == PartAxis(r, c, d)
                   IN  a.p + a.offset <= v[d] /\ v[d] < a.q + a.offset
        BY <1>3, <2>1, <2>2
      <3> QED BY <2>1, <3>1, PartFacts
    <2>4. ASSUME NEW d \in Dim PROVE Copied(r, c, v)[d] = v[d] + r.p[d]
      <3>1. Copied(r, c, v)[d] = Cube * c[d] + v[d] - PartAxis(r, c, d).offset
        BY <2>1, PartFacts
      <3>2. Cube * c[d] = r.p[d] /\ PartAxis(r, c, d).offset = 0 /\ r.p[d] \in Int
        BY <1>1, <1>3
      <3> QED BY <2>2, <3>1, <3>2
    <2>5. Copied(r, c, v) = [d \in Dim |-> Copied(r, c, v)[d]]
      BY DEF Copied
    <2>6. Add(v, r.p) = [d \in Dim |-> v[d] + r.p[d]]
      BY <2>1 DEF Add, Ints
    <2> QED BY <2>3, <2>4, <2>5, <2>6
  <1> QED BY <1>4, <1>5 DEF sh

(* Voxels of the files; their values all differ, and none is 0, the value  *)
(* of what is not read.                                                    *)
InCube(c, u) == \A d \in Dim : Cube * c[d] <= u[d] /\ u[d] < Cube * c[d] + Cube
Stored == {u \in Vectors : \E c \in Vectors : HasFile(c) /\ InCube(c, u)}

PixelsDiffer == \A u, w \in Stored : Pixel(u) # 0 /\ (Pixel(u) = Pixel(w) => u = w)

(* The value of voxel v of the block: 0, or copied from a cube.            *)
CubeValue(r, v, value) ==
    \/ value = 0
    \/ \E c \in cubes(r) : /\ HasFile(c) /\ PartInBounds(CubePart(r, c), r)
                           /\ Inside(v, TargetOf(r, c))
                           /\ value = Pixel(Copied(r, c, v))

LEMMA CopiedStored ==
    ASSUME NEW r, IsCubeRoi(r), NEW c \in cubes(r), HasFile(c),
           PartInBounds(CubePart(r, c), r), NEW v \in Ints(Dim), Inside(v, TargetOf(r, c))
    PROVE  Copied(r, c, v) \in Stored
  <1> DEFINE u == Copied(r, c, v)
  <1>1. c \in Vectors /\ r.p \in [Dim -> Nat] /\ r.q \in [Dim -> Nat] /\ Cube \in Nat \ {0}
    BY CubesOfRoi, KnossosAssumption DEF IsCubeRoi, Vectors
  <1>2. ASSUME NEW d \in Dim
        PROVE  u[d] \in Nat /\ Cube * c[d] <= u[d] /\ u[d] < Cube * c[d] + Cube
    <2> DEFINE s == startBlock(r)[d]
               t == endBlock(r)[d]
               A == Cube * c[d]
               part == PartAxis(r, c, d)
               O == Cube * (c[d] - s - 1)
    <2>1. r.p[d] \in Nat /\ r.q[d] \in Nat /\ r.p[d] < r.q[d] /\ c[d] \in Nat /\ v[d] \in Int
      BY <1>1 DEF IsCubeRoi, Vectors, Ints
    <2>2. IsCubeAxis(Cube, r.p[d], r.q[d], s, t)
      BY <1>1, <2>1 DEF IsCubeAxis, startBlock, endBlock
    <2>3. /\ part.p + part.offset <= v[d] /\ v[d] < part.q + part.offset
          /\ u[d] = A + v[d] - part.offset
      BY PartFacts
    <2>4. part.p < part.q => part.q <= Cube
      <3>1. CubePart(r, c).p[d] = part.p /\ CubePart(r, c).q[d] = part.q
        BY PartFacts
      <3> QED BY <3>1 DEF PartInBounds
    <2>5. A \in Nat
      BY <1>1, <2>1, DivMod, SMT
    <2>6. s \in Nat /\ r.p[d] = Cube * s + (r.p[d] % Cube) /\ r.p[d] % Cube \in 0 .. Cube - 1
      BY <2>2, CubeAxis
    <2>7. O \in Int
      <3>1. c[d] - s - 1 \in Int
        BY <2>1, <2>6
      <3> QED BY <1>1, <3>1, MulMono
    <2>8. part.p \in Int /\ part.p >= 0 /\ part.offset \in Int
      <3>1. CASE s = c[d]
        <4>1. part.p = r.p[d] - A /\ part.offset = 0
          BY <3>1 DEF PartAxis
        <4>2. r.p[d] = A + (r.p[d] % Cube)
          BY <2>6, <3>1
        <4> HIDE DEF A, part
        <4> QED BY <2>1, <2>5, <2>6, <4>1, <4>2
      <3>2. CASE s # c[d]
        <4>1. part.p = 0 /\ part.offset = O
          BY <3>2 DEF PartAxis
        <4> HIDE DEF O, part
        <4> QED BY <2>7, <4>1
      <3> QED BY <3>1, <3>2
    <2>9. part.q \in Int
      <3>1. r.q[d] % Cube \in Int /\ r.p[d] - A \in Int
        <4>1. r.q[d] % Cube \in Int
          <5> DEFINE b == r.q[d]
          <5>1. b \in Nat
            BY <2>1
          <5> HIDE DEF b
          <5>2. b % Cube \in Int
            BY <1>1, <5>1, QuotientSplits
          <5> QED BY <5>2 DEF b
        <4> HIDE DEF A
        <4> QED BY <2>1, <2>5, <4>1
      <3>2. \/ part.q = (r.q[d] % Cube) + (r.p[d] - A)
            \/ part.q = (r.q[d] % Cube) + 0
            \/ part.q = Cube
        BY DEF PartAxis
      <3> HIDE DEF A, part
      <3> QED BY <1>1, <3>1, <3>2
    <2> HIDE DEF A, part, u
    <2>10. part.p < part.q /\ part.q <= Cube
      BY <2>1, <2>3, <2>4, <2>8, <2>9
    <2>11. u[d] >= A /\ u[d] < A + Cube /\ u[d] \in Nat
      BY <1>1, <2>1, <2>3, <2>5, <2>8, <2>9, <2>10
    <2> QED BY <2>11 DEF A
  <1>3. u = [d \in Dim |-> u[d]]
    BY DEF Copied
  <1> HIDE DEF u
  <1>4. u \in Vectors
    BY <1>2, <1>3 DEF Vectors
  <1>5. InCube(c, u)
    BY <1>2 DEF InCube
  <1> QED BY <1>1, <1>4, <1>5 DEF Stored, u

(* If the whole block is right, consider its last voxel.                   *)
LEMMA RightOnly ==
    ASSUME NEW r, IsCubeRoi(r), PixelsDiffer, \A c \in cubes(r) : HasFile(c),
           \A v \in VoxelsOf(Region(shape(r))) : CubeValue(r, v, Pixel(Add(v, r.p)))
    PROVE  Readily(r)
  <1> DEFINE sh == shape(r)
             v == [d \in Dim |-> r.q[d] - 1 - r.p[d]]
             u == Add(v, r.p)
             last == [d \in Dim |-> endBlock(r)[d] - 1]
  <1>1. r.p \in [Dim -> Nat] /\ r.q \in [Dim -> Nat] /\ Cube \in Nat \ {0}
    BY KnossosAssumption DEF IsCubeRoi, Vectors
  <1>2. \A d \in Dim : r.p[d] \in Nat /\ r.q[d] \in Nat /\ r.p[d] < r.q[d]
    BY <1>1 DEF IsCubeRoi
  <1>3. sh = [d \in Dim |-> r.q[d] - r.p[d]] /\ sh \in Ints(Dim) /\ v \in Ints(Dim)
    BY <1>1 DEF shape, Subtract, Ints
  <1>4. v \in VoxelsOf(Region(sh))
    <2>1. \A d \in Dim : 0 <= v[d] /\ v[d] < sh[d]
      BY <1>2, <1>3
    <2> HIDE DEF v, sh
    <2> QED BY <1>3, <2>1, ExtentMember
  <1>5. u = [d \in Dim |-> r.q[d] - 1] /\ u \in Vectors
    <2>1. u = [d \in Dim |-> r.q[d] - 1 - r.p[d] + r.p[d]]
      BY DEF Add
    <2>2. \A d \in Dim : r.q[d] - 1 - r.p[d] + r.p[d] = r.q[d] - 1 /\ r.q[d] - 1 \in Nat
      BY <1>2
    <2>3. u = [d \in Dim |-> r.q[d] - 1]
      BY <2>1, <2>2
    <2> HIDE DEF u
    <2> QED BY <2>2, <2>3 DEF Vectors
  <1>6. ASSUME NEW d \in Dim
        PROVE  /\ IsCubeAxis(Cube, r.p[d], r.q[d], startBlock(r)[d], endBlock(r)[d])
               /\ startBlock(r)[d] \in Nat /\ endBlock(r)[d] \in Nat
               /\ startBlock(r)[d] < endBlock(r)[d]
    <2>1. IsCubeAxis(Cube, r.p[d], r.q[d], startBlock(r)[d], endBlock(r)[d])
      BY <1>1, <1>2 DEF IsCubeAxis, startBlock, endBlock
    <2> QED BY <2>1, CubeAxis
  <1>7. last \in cubes(r)
    <2>1. \A d \in Dim : last[d] \in Nat /\ startBlock(r)[d] <= last[d] /\ last[d] < endBlock(r)[d]
      BY <1>6
    <2>2. last \in Vectors
      BY <2>1 DEF Vectors
    <2> HIDE DEF last
    <2> QED BY <2>1, <2>2, CubesOfRoi
  <1>8. u \in Stored
    <2>1. InCube(last, u)
      <3> SUFFICES ASSUME NEW d \in Dim
                   PROVE  Cube * last[d] <= u[d] /\ u[d] < Cube * last[d] + Cube
        BY DEF InCube
      <3> DEFINE h == last[d]
                 H == Cube * h
      <3>1. r.q[d] - 1 \in Nat /\ h = Quotient(r.q[d] - 1, Cube) /\ u[d] = r.q[d] - 1
        <4>1. endBlock(r)[d] = Quotient(r.q[d] - 1, Cube) + 1 /\ r.q[d] - 1 \in Nat
          BY <1>2 DEF endBlock
        <4>2. Quotient(r.q[d] - 1, Cube) \in Nat
          BY <1>1, <4>1, QuotientSplits
        <4> HIDE DEF u
        <4> QED BY <1>5, <4>1, <4>2
      <3> DEFINE b == r.q[d] - 1
      <3> HIDE DEF b, h
      <3>2. b % Cube \in Nat /\ b % Cube < Cube /\ Cube * Quotient(b, Cube) + (b % Cube) = b
        BY <1>1, <3>1, QuotientSplits DEF b
      <3>3. H + (b % Cube) = b /\ H \in Int
        <4>1. h \in Int
          BY <1>1, <3>1, QuotientSplits
        <4> QED BY <1>1, <3>1, <3>2, <4>1, MulMono DEF b
      <3> HIDE DEF H, u
      <3>4. b \in Nat /\ u[d] = b
        BY <3>1 DEF b
      <3>5. H <= u[d] /\ u[d] < H + Cube
        BY <1>1, <3>2, <3>3, <3>4
      <3> QED BY <3>5 DEF H, h
    <2>2. HasFile(last) /\ last \in Vectors
      BY <1>7, CubesOfRoi
    <2> HIDE DEF u, last
    <2> QED BY <1>5, <2>1, <2>2 DEF Stored
  <1> HIDE DEF u, sh, last
  <1>9. CubeValue(r, v, Pixel(u)) /\ Pixel(u) # 0
    BY <1>4, <1>8 DEF u, sh, PixelsDiffer
  <1> HIDE DEF v
  <1>10. PICK c \in cubes(r) : /\ HasFile(c) /\ PartInBounds(CubePart(r, c), r)
                               /\ Inside(v, TargetOf(r, c)) /\ Pixel(u) = Pixel(Copied(r, c, v))
    BY <1>9 DEF CubeValue
  <1>11. u = Copied(r, c, v)
    <2>1. Copied(r, c, v) \in Stored
      BY <1>3, <1>10, CopiedStored
    <2> QED BY <1>8, <1>10, <2>1 DEF PixelsDiffer
  <1>12. ASSUME NEW d \in Dim PROVE r.p[d] % Cube = 0 /\ r.q[d] < r.p[d] + Cube
    <2> DEFINE s == startBlock(r)[d]
               t == endBlock(r)[d]
               a == r.p[d]
               b == r.q[d]
               A == Cube * s
               O == Cube * (c[d] - s - 1)
               C == Cube * c[d]
               f == a % Cube
               part == PartAxis(r, c, d)
    <2>1. /\ IsCubeAxis(Cube, a, b, s, t) /\ a \in Nat /\ b \in Nat /\ a < b
          /\ s \in Nat /\ c[d] \in Nat
      BY <1>2, <1>6, CubesOfRoi DEF Vectors
    <2>2. a = A + f /\ f \in 0 .. Cube - 1 /\ A \in Nat
      BY <2>1, CubeAxis
    <2>3. v[d] = b - 1 - a /\ u[d] = b - 1
      BY <1>5 DEF v
    <2>4. v[d] < part.q + part.offset /\ u[d] = C + v[d] - part.offset
      BY <1>3, <1>10, <1>11, PartFacts
    <2>5. C \in Int /\ O \in Int /\ C - O = A + Cube
      <3>1. /\ C \in Int /\ A \in Int
            /\ (c[d] - s - 1 \in Int /\ Cube * (c[d] - s - 1) = C - A - Cube)
        BY <1>1, <2>1, SMT
      <3> HIDE DEF A, C
      <3>2. O = C - A - Cube
        BY <3>1
      <3> HIDE DEF O
      <3> QED BY <1>1, <3>1, <3>2
    <2>6. s = c[d]
      <3> SUFFICES ASSUME s # c[d] PROVE FALSE
        OBVIOUS
      <3>1. part.offset = O
        BY DEF PartAxis
      <3> HIDE DEF A, O, C, f, a, b, part
      <3> QED BY <1>1, <2>1, <2>2, <2>3, <2>4, <2>5, <3>1
    <2>7. part.offset = 0 /\ C = A /\ part.q = IF t = s + 1 THEN (b % Cube) + (a - A) ELSE Cube
      BY <2>6 DEF PartAxis
    <2>8. f = 0 /\ a - A = 0
      <3> HIDE DEF A, O, C, f, a, b, part
      <3> QED BY <1>1, <2>1, <2>2, <2>3, <2>4, <2>7
    <2>9. b - 1 - a < (IF t = s + 1 THEN b % Cube ELSE Cube)
      <3>1. b % Cube \in Int
        BY <1>1, <2>1, QuotientSplits
      <3> HIDE DEF A, O, C, f, a, b, part, s, t
      <3> QED BY <1>1, <2>1, <2>3, <2>4, <2>7, <2>8, <3>1
    <2> QED BY <2>1, <2>8, <2>9, CubeAxis
  <1> QED BY <1>12 DEF Readily

------------------------------------------------------------------------------
(* The invariant of a SourceKnossos that is read from.                     *)

CubeRead ==
    /\ args \in CubeRois /\ k \in 1 .. Cardinality(cubes(args)) + 1
    /\ \A c \in cubes(args) : Rank(cubes(args), c) < k - 1 => HasFile(c)
    /\ DOMAIN cubeBlock = VoxelsOf(Region(shape(args)))
    /\ \A v \in DOMAIN cubeBlock : CubeValue(args, v, cubeBlock[v])
    /\ Readily(args) /\ k > 1 =>
          \A v \in DOMAIN cubeBlock : cubeBlock[v] = Pixel(Add(v, args.p))

CubesInv ==
    /\ filter = "SourceKnossos"
    /\ \/ pc \in {"tiled", "done"} /\ k = 0
       \/ pc = "failed" /\ k = 0 /\ \E c \in cubes(args) : ~HasFile(c)
       \/ pc = "cubes" /\ CubeRead
       \/ pc = "undefined" /\ ~Readily(args)

LEMMA IsCube ==
    ASSUME NEW r \in CubeRois
    PROVE  IsCubeRoi(r)
  BY FilterAssumption DEF IsCubeRoi

LEMMA BlockVoxels ==
    ASSUME NEW r, IsCubeRoi(r)
    PROVE  VoxelsOf(Region(shape(r))) \subseteq Ints(Dim)
  <1>1. shape(r) \in Ints(Dim)
    BY DEF shape, Subtract, IsCubeRoi, Vectors, Ints
  <1> QED BY <1>1, ExtentMember

LEMMA ReadCubesKeeps ==
    ASSUME CubesInv, ReadCubes
    PROVE  CubesInv'
  <1>1. PICK r \in CubeRois : args' = r /\ cubeBlock' = [v \in VoxelsOf(Region(shape(r))) |-> 0]
    BY DEF ReadCubes
  <1>2. k' = 1 /\ pc' = "cubes" /\ filter' = filter
    BY DEF ReadCubes
  <1>3. Cardinality(cubes(r)) \in Nat \ {0} /\ IsFiniteSet(cubes(r)) /\ cubes(r) \subseteq Vectors
    BY IsCube, CubesOfRoi
  <1>4. k' \in 1 .. Cardinality(cubes(r)) + 1
    BY <1>2, <1>3
  <1>5. \A c \in cubes(r) : ~(Rank(cubes(r), c) < k' - 1)
    <2> TAKE c \in cubes(r)
    <2>1. Rank(cubes(r), c) \in 0 .. Cardinality(cubes(r)) - 1
      BY <1>3, RankOf
    <2> QED BY <1>2, <1>3, <2>1
  <1>6. \A v \in DOMAIN cubeBlock' : CubeValue(r, v, cubeBlock'[v])
    BY <1>1 DEF CubeValue
  <1>7. CubeRead'
    BY <1>1, <1>2, <1>4, <1>5, <1>6 DEF CubeRead
  <1> QED BY <1>2, <1>7 DEF CubesInv

LEMMA ReadCubeKeeps ==
    ASSUME CubesInv, ReadCube
    PROVE  CubesInv'
  <1> DEFINE all == cubes(args)
             n == Cardinality(all)
             c == cube(args, k)
             part == CubePart(args, c)
  <1>1. pc = "cubes" /\ k <= n /\ CubeRead /\ filter' = filter /\ args' = args
    BY DEF CubesInv, ReadCube, Throw, filterVars
  <1>2. IsCubeRoi(args) /\ all \subseteq Vectors /\ IsFiniteSet(all) /\ n \in Nat
    BY <1>1, IsCube, CubesOfRoi DEF CubeRead
  <1>3. k \in 1 .. n
    BY <1>1, <1>2 DEF CubeRead
  <1>4. c \in all /\ Rank(all, c) = k - 1
    BY <1>2, <1>3, CubeListed
  <1>5. CASE ~HasFile(c) /\ Throw
    <2>1. pc' = "failed" /\ k' = 0
      BY <1>5 DEF Throw
    <2> QED BY <1>1, <1>4, <1>5, <2>1 DEF CubesInv
  <1>6. CASE HasFile(c) /\ ~PartInBounds(part, args) /\ pc' = "undefined"
    <2>1. ~Readily(args)
      BY <1>2, <1>4, <1>6, ReadilyCopied
    <2> QED BY <1>1, <1>6, <2>1 DEF CubesInv
  <1>7. CASE /\ HasFile(c) /\ PartInBounds(part, args)
             /\ cubeBlock' = CopiedCube(cubeBlock, part, c) /\ k' = k + 1 /\ pc' = pc
    <2>1. k' \in 1 .. n + 1 /\ k' - 1 = k
      BY <1>2, <1>3, <1>7
    <2>2. ASSUME NEW e \in all, Rank(all, e) < k' - 1 PROVE HasFile(e)
      <3>1. Rank(all, e) \in Int
        BY <1>2, RankOf
      <3>2. CASE Rank(all, e) < k - 1
        BY <1>1, <3>2 DEF CubeRead
      <3>3. CASE Rank(all, e) = k - 1
        <4>1. e = c
          <5> HIDE DEF all, c
          <5> QED BY <1>2, <1>4, <3>3, RankIsOwn
        <4> QED BY <1>7, <4>1
      <3> DEFINE rk == Rank(all, e)
      <3> HIDE DEF rk
      <3>4. rk \in Int /\ rk < k /\ k \in Int
        <4>1. rk \in Int /\ rk < k' - 1
          BY <2>2, <3>1 DEF rk
        <4>2. k' - 1 = k
          BY <2>1, Zenon
        <4>3. k \in Int
          BY <1>3
        <4>4. rk < k
          BY <4>1, <4>2, Zenon
        <4> QED BY <4>1, <4>3, <4>4
      <3>5. rk < k - 1 \/ rk = k - 1
        BY <3>4
      <3> QED BY <3>2, <3>3, <3>5 DEF rk
    <2>3. /\ DOMAIN cubeBlock' = DOMAIN cubeBlock
          /\ \A v \in DOMAIN cubeBlock :
                cubeBlock'[v] = IF Inside(v, TargetOf(args, c)) THEN Pixel(Copied(args, c, v))
                                ELSE cubeBlock[v]
      BY <1>7 DEF CopiedCube, TargetOf, Copied
    <2>4. DOMAIN cubeBlock' = VoxelsOf(Region(shape(args)))
      BY <1>1, <2>3 DEF CubeRead
    <2> HIDE DEF c, all
    <2>5. ASSUME NEW v \in DOMAIN cubeBlock' PROVE CubeValue(args, v, cubeBlock'[v])
      <3>1. CASE Inside(v, TargetOf(args, c))
        BY <1>4, <1>7, <2>3, <3>1 DEF CubeValue, all
      <3>2. CASE ~Inside(v, TargetOf(args, c))
        BY <1>1, <2>3, <3>2 DEF CubeRead
      <3> QED BY <3>1, <3>2
    <2>6. ASSUME Readily(args), NEW v \in DOMAIN cubeBlock'
          PROVE  cubeBlock'[v] = Pixel(Add(v, args.p))
      <3>1. Inside(v, TargetOf(args, c)) /\ Copied(args, c, v) = Add(v, args.p)
        BY <1>2, <1>4, <2>4, <2>6, ReadilyCopied DEF all
      <3> QED BY <2>3, <3>1
    <2>7. CubeRead'
      BY <1>1, <2>1, <2>2, <2>4, <2>5, <2>6 DEF CubeRead, all
    <2> QED BY <1>1, <1>7, <2>7 DEF CubesInv
  <1> QED BY <1>5, <1>6, <1>7 DEF ReadCube

LEMMA CubesStep ==
    ASSUME CubesInv, [AllNext]_allVars
    PROVE  CubesInv'
  <1>1. /\ filter = "SourceKnossos" /\ filter \notin Filters
        /\ pc \in {"tiled", "done", "failed", "cubes", "undefined"}
    BY DEF CubesInv, Filters
  <1>2. CASE UNCHANGED allVars
    <2>1. pc' = pc /\ filter' = filter /\ args' = args /\ k' = k /\ cubeBlock' = cubeBlock
      BY <1>2 DEF allVars, vars, filterVars
    <2> QED BY <2>1 DEF CubesInv, CubeRead
  <1>3. CASE CubesRead
    <2>1. pc' = "done" /\ k' = 0 /\ filter' = filter
      BY <1>3 DEF CubesRead
    <2> QED BY <1>1, <2>1 DEF CubesInv
  <1>4. CASE Next
    <2>1. ~Tile
      BY <1>1 DEF Tile, Carry, Advance, Constructed
    <2>2. /\ ~SetRoi /\ ~TakeNewSink /\ ~Threshold /\ ~Resample /\ ~SelectChannel /\ ~ChannelBlocked
          /\ ~ThresholdBlock /\ ~SelectBlock /\ ~ResampleBlock /\ ~Finish
      BY <1>1 DEF SetRoi, TakeNewSink, Threshold, Resample, SelectChannel, ChannelBlocked,
                  ThresholdBlock, SelectBlock, ResampleBlock, NextBlockOf, Finish
    <2> QED BY <1>3, <1>4, <2>1, <2>2, ReadCubesKeeps, ReadCubeKeeps DEF Next
  <1>5. ~Run /\ ~FindMaximum /\ ~MaximumFound /\ ~Accumulate /\ ~Accumulated
        /\ ~Merge /\ ~WriteFeatures
    BY <1>1 DEF Run, FindMaximum, MaximumFound, Accumulate, Accumulated, Merge, WriteFeatures
  <1> QED BY <1>2, <1>4, <1>5 DEF AllNext

(* What the invariant says of a block that is read.                        *)
LEMMA CubesKnossos ==
    ASSUME CubesInv, PixelsDiffer
    PROVE  KnossosExact
  <1>1. ASSUME pc = "cubes", k > Cardinality(cubes(args))
        PROVE  Readily(args) <=> \A v \in DOMAIN cubeBlock : cubeBlock[v] = Pixel(Add(v, args.p))
    <2>1. CubeRead
      BY <1>1 DEF CubesInv
    <2>2. /\ IsCubeRoi(args) /\ cubes(args) \subseteq Vectors /\ IsFiniteSet(cubes(args))
          /\ Cardinality(cubes(args)) \in Nat \ {0}
      BY <2>1, IsCube, CubesOfRoi DEF CubeRead
    <2>3. k = Cardinality(cubes(args)) + 1 /\ k > 1
      BY <1>1, <2>1, <2>2 DEF CubeRead
    <2>4. ASSUME NEW c \in cubes(args) PROVE HasFile(c)
      <3>1. Rank(cubes(args), c) \in 0 .. Cardinality(cubes(args)) - 1
        BY <2>2, RankOf
      <3>2. Rank(cubes(args), c) < k - 1
        BY <2>2, <2>3, <3>1
      <3> QED BY <2>1, <3>2 DEF CubeRead
    <2>5. ASSUME \A v \in DOMAIN cubeBlock : cubeBlock[v] = Pixel(Add(v, args.p))
          PROVE  Readily(args)
      <3>1. \A v \in VoxelsOf(Region(shape(args))) : CubeValue(args, v, Pixel(Add(v, args.p)))
        BY <2>1, <2>5 DEF CubeRead
      <3> QED BY <2>2, <2>4, <3>1, RightOnly
    <2> QED BY <2>1, <2>3, <2>5 DEF CubeRead
  <1>2. pc = "undefined" => ~Readily(args)
    BY DEF CubesInv
  <1>3. pc = "failed" => \E c \in cubes(args) : ~HasFile(c)
    BY DEF CubesInv
  <1> QED BY <1>1, <1>2, <1>3 DEF KnossosExact

------------------------------------------------------------------------------
(* Sums over finite sets, as folds compute them, and their greatest and    *)
(* least members.                                                          *)

LEMMA StrictSubsetInduction ==
    ASSUME NEW S, IsFiniteSet(S), NEW Good,
           \A s \in SUBSET S : (\A t \in SUBSET s : t # s => t \in Good) => s \in Good
    PROVE  SUBSET S \subseteq Good
  <1> DEFINE Bad == (SUBSET S) \ Good
  <1> SUFFICES ASSUME Bad # {} PROVE FALSE
    OBVIOUS
  <1>1. IsWellFoundedOn(StrictSubsetOrdering(S), SUBSET S)
    <2>1. FiniteSubsetsOf(S) = SUBSET S
      BY FS_FiniteSubsetsOfFinite
    <2>2. IsWellFoundedOn(StrictSubsetOrdering(S), FiniteSubsetsOf(S))
      BY FS_StrictSubsetOrderingWellFounded
    <2> QED BY <2>1, <2>2
  <1>2. PICK s \in Bad : \A r \in Bad : <<r, s>> \notin StrictSubsetOrdering(S)
    <2>1. Bad \subseteq SUBSET S
      OBVIOUS
    <2> HIDE DEF Bad
    <2> QED BY <1>1, <2>1, WFMin
  <1>3. \A t \in SUBSET s : t # s => t \in Good
    BY <1>2 DEF StrictSubsetOrdering
  <1> QED BY <1>2, <1>3

Summable(f, S) == IsFiniteSet(S) /\ \A v \in S : f[v] \in Int

SumSteps(f, S, g) ==
    [s \in SUBSET S |-> IF s = {} THEN 0 ELSE f[CHOOSE e \in s : TRUE] + g[Rest(s)]]
SumIter(f, S) == CHOOSE g : g = SumSteps(f, S, g)
Total(f, S)   == SumIter(f, S)[S]

LEMMA SumIterStep ==
    ASSUME NEW S, NEW f, Summable(f, S)
    PROVE  SumIter(f, S) = SumSteps(f, S, SumIter(f, S)) /\ SumIter(f, S) \in [SUBSET S -> Int]
  <1> DEFINE step == [vt \in S \X Int |-> f[vt[1]] + vt[2]]
             base == 0
  <1>1. IsFiniteSet(S) /\ base \in Int /\ step \in [S \X Int -> Int]
    <2>1. \A v \in S, t \in Int : f[v] + t \in Int
      BY DEF Summable
    <2> QED BY <2>1 DEF Summable
  <1>2. \A v \in S, t \in Int : step[<<v, t>>] = f[v] + t
    OBVIOUS
  <1> HIDE DEF step
  <1>3. FoldExists(S, Int, base, step)
    <2> HIDE DEF base
    <2> QED BY <1>1, SubsetRecursion
  <1>4. PICK g \in [SUBSET S -> Int] :
           /\ g[{}] = base
           /\ \A s \in SUBSET S : s # {} => g[s] = step[<<CHOOSE e \in s : TRUE, g[Rest(s)]>>]
    BY <1>3 DEF FoldExists
  <1>5. \A s \in SUBSET S : g[s] = SumSteps(f, S, g)[s]
    <2> TAKE s \in SUBSET S
    <2>1. CASE s = {}
      BY <1>4, <2>1 DEF SumSteps
    <2>2. CASE s # {}
      <3>1. g[Rest(s)] \in Int /\ (CHOOSE e \in s : TRUE) \in S
        BY <2>2 DEF Rest
      <3> QED BY <1>2, <1>4, <2>2, <3>1 DEF SumSteps
    <2> QED BY <2>1, <2>2
  <1>6. g = SumSteps(f, S, g)
    <2>1. SumSteps(f, S, g) = [s \in SUBSET S |-> SumSteps(f, S, g)[s]]
      BY DEF SumSteps
    <2> QED BY <1>4, <1>5, <2>1
  <1>7. SumIter(f, S) = SumSteps(f, S, SumIter(f, S))
    BY <1>6 DEF SumIter
  <1>8. ASSUME NEW j, j = SumSteps(f, S, j) PROVE \A s \in SUBSET S : j[s] = g[s]
    <2> DEFINE Good == {s \in SUBSET S : j[s] = g[s]}
    <2>1. {} \in Good
      BY <1>4, <1>8 DEF SumSteps
    <2>2. ASSUME NEW s \in SUBSET S, s # {}, Rest(s) \in Good PROVE s \in Good
      BY <1>6, <1>8, <2>2 DEF SumSteps
    <2>3. SUBSET S \subseteq Good
      <3> HIDE DEF Good
      <3> QED BY <1>1, <2>1, <2>2, SubsetInduction
    <2> QED BY <2>3
  <1>9. SumIter(f, S) \in [SUBSET S -> Int]
    <2> DEFINE j == SumIter(f, S)
    <2>1. j = [s \in SUBSET S |-> j[s]]
      BY <1>7 DEF SumSteps
    <2>2. \A s \in SUBSET S : j[s] = g[s]
      BY <1>7, <1>8
    <2> HIDE DEF j
    <2>3. j \in [SUBSET S -> Int]
      BY <1>4, <2>1, <2>2
    <2> QED BY <2>3 DEF j
  <1> QED BY <1>7, <1>9

(* Such an iteration on S has the sums of all subsets of S.                *)
LEMMA IterIsTotal ==
    ASSUME NEW S, NEW f, Summable(f, S), NEW g, g = SumSteps(f, S, g), NEW t \in SUBSET S
    PROVE  g[t] = Total(f, t) /\ Total(f, t) \in Int
  <1> DEFINE j == SumIter(f, t)
  <1>1. Summable(f, t)
    BY FS_Subset DEF Summable
  <1>2. j = SumSteps(f, t, j) /\ j \in [SUBSET t -> Int]
    BY <1>1, SumIterStep
  <1> HIDE DEF j
  <1> DEFINE Good == {s \in SUBSET t : j[s] = g[s]}
  <1>3. {} \in Good
    BY <1>2 DEF SumSteps
  <1>4. ASSUME NEW s \in SUBSET t, s # {}, Rest(s) \in Good PROVE s \in Good
    <2>1. j[s] = f[CHOOSE e \in s : TRUE] + j[Rest(s)]
      BY <1>2, <1>4 DEF SumSteps
    <2>2. g[s] = f[CHOOSE e \in s : TRUE] + g[Rest(s)]
      BY <1>4 DEF SumSteps
    <2> QED BY <1>4, <2>1, <2>2
  <1>5. SUBSET t \subseteq Good
    <2>1. IsFiniteSet(t)
      BY <1>1 DEF Summable
    <2> HIDE DEF Good
    <2> QED BY <1>3, <1>4, <2>1, SubsetInduction
  <1>6. j[t] = g[t] /\ j[t] \in Int
    BY <1>2, <1>5
  <1> QED BY <1>6 DEF Total, j

LEMMA TotalStep ==
    ASSUME NEW S, NEW f, Summable(f, S)
    PROVE  /\ Total(f, S) \in Int
           /\ S = {} => Total(f, S) = 0
           /\ S # {} => Total(f, S) = f[CHOOSE e \in S : TRUE] + Total(f, Rest(S))
  <1> DEFINE g == SumIter(f, S)
  <1>1. g = SumSteps(f, S, g)
    BY SumIterStep
  <1> HIDE DEF g
  <1>2. g[S] = Total(f, S) /\ Total(f, S) \in Int
    BY <1>1, IterIsTotal
  <1>3. g[Rest(S)] = Total(f, Rest(S))
    BY <1>1, IterIsTotal DEF Rest
  <1>4. S = {} => g[S] = 0
    BY <1>1 DEF SumSteps
  <1>5. S # {} => g[S] = f[CHOOSE e \in S : TRUE] + g[Rest(S)]
    BY <1>1 DEF SumSteps
  <1> QED BY <1>2, <1>3, <1>4, <1>5

(* The order of a sum does not matter: any element may be the first.       *)
LEMMA TotalRemove ==
    ASSUME NEW S, NEW f, Summable(f, S), NEW a \in S
    PROVE  Total(f, S) = f[a] + Total(f, S \ {a})
  <1> DEFINE Good == {s \in SUBSET S : \A b \in s : Total(f, s) = f[b] + Total(f, s \ {b})}
  <1>1. IsFiniteSet(S) /\ \A s \in SUBSET S : Summable(f, s)
    BY FS_Subset DEF Summable
  <1>2. ASSUME NEW s \in SUBSET S, \A t \in SUBSET s : t # s => t \in Good
        PROVE  s \in Good
    <2> SUFFICES ASSUME NEW b \in s PROVE Total(f, s) = f[b] + Total(f, s \ {b})
      OBVIOUS
    <2> DEFINE c == CHOOSE e \in s : TRUE
    <2>1. c \in s /\ Rest(s) = s \ {c}
      BY DEF Rest
    <2>2. Total(f, s) = f[c] + Total(f, s \ {c})
      BY <1>1, <2>1, TotalStep
    <2> HIDE DEF c
    <2>3. CASE b = c
      BY <2>2, <2>3
    <2>4. CASE b # c
      <3> DEFINE r == (s \ {b}) \ {c}
      <3>1. r = (s \ {c}) \ {b} /\ r \in SUBSET S
        OBVIOUS
      <3>2. Total(f, s \ {c}) = f[b] + Total(f, r)
        <4>1. s \ {c} \in Good /\ b \in s \ {c}
          BY <1>2, <2>1, <2>4
        <4> QED BY <3>1, <4>1
      <3>3. Total(f, s \ {b}) = f[c] + Total(f, r)
        <4>1. s \ {b} \in Good /\ c \in s \ {b}
          BY <1>2, <2>1, <2>4
        <4> QED BY <4>1
      <3>4. f[b] \in Int /\ f[c] \in Int /\ Total(f, r) \in Int
        <4>1. f[b] \in Int /\ f[c] \in Int
          BY <2>1 DEF Summable
        <4> HIDE DEF r
        <4> QED BY <1>1, <3>1, <4>1, TotalStep
      <3> HIDE DEF r
      <3> QED BY <2>2, <3>2, <3>3, <3>4
    <2> QED BY <2>3, <2>4
  <1>3. SUBSET S \subseteq Good
    <2> HIDE DEF Good
    <2> QED BY <1>1, <1>2, StrictSubsetInduction
  <1> QED BY <1>3

LEMMA TotalUnion ==
    ASSUME NEW S, NEW T, NEW f, Summable(f, S), Summable(f, T), S \cap T = {}
    PROVE  Summable(f, S \cup T) /\ Total(f, S \cup T) = Total(f, S) + Total(f, T)
  <1> DEFINE Good == {t \in SUBSET T : Total(f, S \cup t) = Total(f, S) + Total(f, t)}
  <1>1. IsFiniteSet(T) /\ \A t \in SUBSET T : Summable(f, t) /\ Summable(f, S \cup t)
    <2>1. IsFiniteSet(S) /\ IsFiniteSet(T)
      BY DEF Summable
    <2>2. \A t \in SUBSET T : IsFiniteSet(t)
      BY <2>1, FS_Subset
    <2>3. \A t \in SUBSET T : IsFiniteSet(S \cup t)
      BY <2>1, <2>2, FS_Union
    <2> QED BY <2>1, <2>2, <2>3 DEF Summable
  <1>2. {} \in Good
    <2>1. S \cup {} = S /\ Total(f, {}) = 0 /\ Total(f, S) \in Int
      BY <1>1, TotalStep
    <2> QED BY <2>1
  <1>3. ASSUME NEW t \in SUBSET T, t # {}, Rest(t) \in Good PROVE t \in Good
    <2> DEFINE c == CHOOSE e \in t : TRUE
               r == Rest(t)
    <2>1. c \in t /\ r = t \ {c} /\ c \notin S /\ r \in SUBSET T
      BY <1>3 DEF Rest
    <2>2. f[c] \in Int
      BY <2>1 DEF Summable
    <2> HIDE DEF c
    <2>3. Total(f, t) = f[c] + Total(f, r)
      <3>1. Summable(f, t)
        BY <1>1
      <3> HIDE DEF r
      <3> QED BY <2>1, <3>1, TotalRemove
    <2>4. Total(f, S \cup t) = f[c] + Total(f, S \cup r)
      <3>1. (S \cup t) \ {c} = S \cup r /\ c \in S \cup t
        BY <2>1
      <3> QED BY <1>1, <3>1, TotalRemove
    <2>5. Total(f, S \cup r) = Total(f, S) + Total(f, r)
      BY <1>3
    <2>6. Total(f, r) \in Int /\ Total(f, S) \in Int
      BY <1>1, <2>1, TotalStep
    <2> HIDE DEF r
    <2> QED BY <2>2, <2>3, <2>4, <2>5, <2>6
  <1>4. SUBSET T \subseteq Good
    <2> HIDE DEF Good
    <2> QED BY <1>1, <1>2, <1>3, SubsetInduction
  <1> QED BY <1>1, <1>4

(* A one-to-one map h moves the summands elsewhere.                        *)
Moves(h, S, T) == /\ \A v \in S, w \in S : h[v] = h[w] => v = w
                  /\ T = {h[v] : v \in S}

LEMMA MovedCardinality ==
    ASSUME NEW S, IsFiniteSet(S), NEW h, NEW T, Moves(h, S, T)
    PROVE  IsFiniteSet(T) /\ Cardinality(T) = Cardinality(S)
  <1> DEFINE j == [v \in S |-> h[v]]
  <1>1. j \in [S -> T] /\ \A v \in S : j[v] = h[v]
    BY DEF Moves
  <1>2. \A w \in T : \E v \in S : j[v] = w
    BY DEF Moves
  <1>3. \A v \in S, w \in S : j[v] = j[w] => v = w
    BY <1>1 DEF Moves
  <1> HIDE DEF j
  <1>4. j \in Surjection(S, T) /\ j \in Injection(S, T)
    BY <1>1, <1>2, <1>3 DEF Surjection, Injection, IsInjective
  <1> QED BY <1>4, FS_Surjection

LEMMA TotalMoved ==
    ASSUME NEW S, NEW f, Summable(f, S), NEW h, NEW T, Moves(h, S, T),
           NEW e, \A v \in S : e[h[v]] = f[v]
    PROVE  Summable(e, T) /\ Total(e, T) = Total(f, S)
  <1> DEFINE Img(t) == {h[v] : v \in t}
             Good == {t \in SUBSET S : Total(e, Img(t)) = Total(f, t)}
  <1>1. IsFiniteSet(S) /\ \A v \in S : f[v] \in Int
    BY DEF Summable
  <1>2. ASSUME NEW t \in SUBSET S PROVE Summable(f, t) /\ Summable(e, Img(t))
    <2>1. IsFiniteSet(t)
      BY <1>1, FS_Subset
    <2>2. Moves(h, t, Img(t))
      BY DEF Moves
    <2>3. \A w \in Img(t) : e[w] \in Int
      BY <1>1
    <2> HIDE DEF Img
    <2>4. IsFiniteSet(Img(t))
      BY <2>1, <2>2, MovedCardinality
    <2> QED BY <1>1, <2>1, <2>3, <2>4 DEF Summable
  <1>3. {} \in Good
    <2>1. Img({}) = {}
      OBVIOUS
    <2>2. Total(f, {}) = 0 /\ Total(e, {}) = 0
      <3>1. Summable(f, {}) /\ Summable(e, {})
        BY <1>2, <2>1
      <3> QED BY <3>1, TotalStep
    <2> QED BY <2>1, <2>2
  <1>4. ASSUME NEW t \in SUBSET S, t # {}, Rest(t) \in Good PROVE t \in Good
    <2> DEFINE c == CHOOSE v \in t : TRUE
               r == Rest(t)
    <2>1. c \in t /\ r = t \ {c} /\ r \in SUBSET S
      BY <1>4 DEF Rest
    <2> HIDE DEF c
    <2>2. Img(t) \ {h[c]} = Img(r) /\ h[c] \in Img(t)
      BY <2>1 DEF Moves
    <2> HIDE DEF Img, r
    <2>3. Total(f, t) = f[c] + Total(f, r)
      <3>1. Summable(f, t)
        BY <1>2
      <3> QED BY <2>1, <3>1, TotalRemove
    <2>4. Total(e, Img(t)) = e[h[c]] + Total(e, Img(r))
      <3>1. Summable(e, Img(t))
        BY <1>2
      <3>2. Total(e, Img(t)) = e[h[c]] + Total(e, Img(t) \ {h[c]})
        BY <2>2, <3>1, TotalRemove
      <3> QED BY <2>2, <3>2
    <2>5. e[h[c]] = f[c]
      BY <2>1
    <2>6. Total(e, Img(r)) = Total(f, r)
      BY <1>4 DEF r
    <2> QED BY <2>3, <2>4, <2>5, <2>6
  <1>5. SUBSET S \subseteq Good
    <2> HIDE DEF Good
    <2> QED BY <1>1, <1>3, <1>4, SubsetInduction
  <1>6. Img(S) = T
    BY DEF Moves
  <1>7. Summable(e, Img(S)) /\ Total(e, Img(S)) = Total(f, S)
    <2>1. S \in SUBSET S
      OBVIOUS
    <2>2. S \in Good
      <3> HIDE DEF Good
      <3> QED BY <1>5, <2>1
    <2> QED BY <1>2, <2>1, <2>2
  <1> QED BY <1>6, <1>7

(* The folds of the features.                                              *)
Axis(at, d, S) == [v \in S |-> at[v][d]]

LEMMA SumIsTotal ==
    ASSUME NEW S, NEW f
    PROVE  MapThenSumSet(LAMBDA v : f[v], S) = Total(f, S)
  BY DEF MapThenSumSet, MapThenFoldSet, Total, SumIter, SumSteps, Rest

LEMMA CenterIsTotal ==
    ASSUME NEW S, NEW at, NEW d, Summable(Axis(at, d, S), S)
    PROVE  MapThenSumSet(LAMBDA v : at[v][d], S) = Total(Axis(at, d, S), S)
  <1> DEFINE f == Axis(at, d, S)
             Steps(g) == [s \in SUBSET S |->
                             IF s = {} THEN 0
                             ELSE LET v == CHOOSE e \in s : TRUE
                                  IN  at[v][d] + g[s \ {v}]]
             j == CHOOSE g : g = Steps(g)
  <1>1. MapThenSumSet(LAMBDA v : at[v][d], S) = j[S]
    BY DEF MapThenSumSet, MapThenFoldSet
  <1>2. ASSUME NEW g PROVE Steps(g) = SumSteps(f, S, g)
    <2>1. \A s \in SUBSET S : s # {} => (CHOOSE e \in s : TRUE) \in S
      OBVIOUS
    <2>2. \A v \in S : f[v] = at[v][d]
      BY DEF Axis
    <2> HIDE DEF f
    <2>3. \A s \in SUBSET S : Steps(g)[s] = SumSteps(f, S, g)[s]
      BY <2>1, <2>2 DEF SumSteps, Rest
    <2>4. Steps(g) = [s \in SUBSET S |-> Steps(g)[s]]
      OBVIOUS
    <2>5. SumSteps(f, S, g) = [s \in SUBSET S |-> SumSteps(f, S, g)[s]]
      BY DEF SumSteps
    <2> HIDE DEF Steps
    <2> QED BY <2>3, <2>4, <2>5
  <1>3. j = Steps(j)
    <2>1. SumIter(f, S) = SumSteps(f, S, SumIter(f, S))
      BY SumIterStep
    <2>2. SumIter(f, S) = Steps(SumIter(f, S))
      BY <1>2, <2>1
    <2> HIDE DEF Steps
    <2> QED BY <2>2
  <1>4. j = SumSteps(f, S, j)
    BY <1>2, <1>3
  <1> HIDE DEF j
  <1>5. j[S] = Total(f, S)
    <2> HIDE DEF f
    <2>1. Summable(f, S) /\ S \in SUBSET S
      BY DEF f
    <2> QED BY <1>4, <2>1, IterIsTotal
  <1> QED BY <1>1, <1>5

LEMMA MaxUnique ==
    ASSUME NEW S, S \subseteq Int, NEW m \in S, \A y \in S : y <= m
    PROVE  Max(S) = m
  <1>1. \A y \in S : m >= y
    OBVIOUS
  <1>2. \A n \in S : (\A y \in S : n >= y) => n = m
    OBVIOUS
  <1> QED BY <1>1, <1>2 DEF Max

LEMMA MinUnique ==
    ASSUME NEW S, S \subseteq Int, NEW m \in S, \A y \in S : m <= y
    PROVE  Min(S) = m
  <1>1. \A n \in S : (\A y \in S : n <= y) => n = m
    OBVIOUS
  <1> QED BY <1>1 DEF Min

LEMMA EndsExist ==
    ASSUME NEW S, IsFiniteSet(S), S \subseteq Int, S # {}
    PROVE  /\ Max(S) \in S /\ \A y \in S : y <= Max(S)
           /\ Min(S) \in S /\ \A y \in S : Min(S) <= y
  <1> DEFINE HasEnds(s) == /\ \E m \in s : \A y \in s : y <= m
                           /\ \E m \in s : \A y \in s : m <= y
             Good == {s \in SUBSET S : s # {} => HasEnds(s)}
  <1>1. {} \in Good
    OBVIOUS
  <1>2. ASSUME NEW s \in SUBSET S, s # {}, Rest(s) \in Good PROVE s \in Good
    <2> DEFINE c == CHOOSE e \in s : TRUE
    <2>1. c \in s /\ Rest(s) = s \ {c} /\ Rest(s) \subseteq Int /\ c \in Int
      BY <1>2 DEF Rest
    <2> HIDE DEF c
    <2>2. \A y \in s : y = c \/ y \in Rest(s)
      BY <2>1
    <2>3. CASE Rest(s) = {}
      BY <2>1, <2>2, <2>3
    <2>4. CASE Rest(s) # {}
      <3>1. PICK m \in Rest(s) : \A y \in Rest(s) : y <= m
        BY <1>2, <2>4
      <3>2. PICK n \in Rest(s) : \A y \in Rest(s) : n <= y
        BY <1>2, <2>4
      <3>3. \E u \in s : \A y \in s : y <= u
        <4>1. CASE m <= c
          <5>1. ASSUME NEW y \in s PROVE y <= c
            <6>1. CASE y = c
              BY <2>1, <3>1, <4>1, <6>1
            <6>2. CASE y \in Rest(s)
              <7>1. y \in Int /\ c \in Int /\ m \in Int /\ y <= m
                BY <2>1, <3>1, <6>2
              <7> QED BY <4>1, <7>1
            <6> QED BY <2>2, <6>1, <6>2
          <5> QED BY <2>1, <5>1
        <4>2. CASE ~(m <= c)
          <5>1. ASSUME NEW y \in s PROVE y <= m
            <6>1. CASE y = c
              <7>1. c \in Int /\ m \in Int
                BY <2>1
              <7> QED BY <4>2, <6>1, <7>1
            <6>2. CASE y \in Rest(s)
              <7>1. y \in Int /\ c \in Int /\ m \in Int /\ y <= m
                BY <2>1, <3>1, <6>2
              <7> QED BY <4>2, <7>1
            <6> QED BY <2>2, <6>1, <6>2
          <5> QED BY <2>1, <5>1
        <4> QED BY <4>1, <4>2
      <3>4. \E u \in s : \A y \in s : u <= y
        <4>1. CASE c <= n
          <5>1. ASSUME NEW y \in s PROVE c <= y
            <6>1. CASE y = c
              BY <2>1, <3>2, <4>1, <6>1
            <6>2. CASE y \in Rest(s)
              <7>1. y \in Int /\ c \in Int /\ n \in Int /\ n <= y
                BY <2>1, <3>2, <6>2
              <7> QED BY <4>1, <7>1
            <6> QED BY <2>2, <6>1, <6>2
          <5> QED BY <2>1, <5>1
        <4>2. CASE ~(c <= n)
          <5>1. ASSUME NEW y \in s PROVE n <= y
            <6>1. CASE y = c
              <7>1. c \in Int /\ n \in Int
                BY <2>1
              <7> QED BY <4>2, <6>1, <7>1
            <6>2. CASE y \in Rest(s)
              <7>1. y \in Int /\ c \in Int /\ n \in Int /\ n <= y
                BY <2>1, <3>2, <6>2
              <7> QED BY <4>2, <7>1
            <6> QED BY <2>2, <6>1, <6>2
          <5> QED BY <2>1, <5>1
        <4> QED BY <4>1, <4>2
      <3> QED BY <3>3, <3>4
    <2> QED BY <2>3, <2>4
  <1>3. SUBSET S \subseteq Good
    <2> HIDE DEF Good
    <2> QED BY <1>1, <1>2, SubsetInduction
  <1>4. HasEnds(S)
    BY <1>3
  <1>5. PICK m \in S : \A y \in S : y <= m
    BY <1>4
  <1>6. PICK n \in S : \A y \in S : n <= y
    BY <1>4
  <1> QED BY <1>5, <1>6, MaxUnique, MinUnique

Ends(A) == IF A = {} THEN {} ELSE {Min(A), Max(A)}

LEMMA EndsJoined ==
    ASSUME NEW A, IsFiniteSet(A), A \subseteq Int, NEW B, IsFiniteSet(B), B \subseteq Int
    PROVE  Ends(Ends(A) \cup Ends(B)) = Ends(A \cup B)
  <1> DEFINE X == Ends(A) \cup Ends(B)
             Y == A \cup B
  <1>1. CASE Y = {}
    BY <1>1 DEF Ends
  <1>2. CASE Y # {}
    <2>1. IsFiniteSet(Y) /\ Y \subseteq Int
      BY FS_Union
    <2>2. A # {} => /\ Max(A) \in A /\ Min(A) \in A /\ Ends(A) = {Min(A), Max(A)}
                    /\ \A y \in A : y <= Max(A) /\ Min(A) <= y
      BY EndsExist DEF Ends
    <2>3. B # {} => /\ Max(B) \in B /\ Min(B) \in B /\ Ends(B) = {Min(B), Max(B)}
                    /\ \A y \in B : y <= Max(B) /\ Min(B) <= y
      BY EndsExist DEF Ends
    <2>4. (A = {} => Ends(A) = {}) /\ (B = {} => Ends(B) = {})
      BY DEF Ends
    <2>5. X \subseteq Y /\ X # {} /\ X \subseteq Int
      BY <1>2, <2>2, <2>3, <2>4
    <2>6. /\ Max(Y) \in Y /\ Min(Y) \in Y
          /\ \A y \in Y : y <= Max(Y) /\ Min(Y) <= y
      <3> HIDE DEF Y
      <3> QED BY <1>2, <2>1, EndsExist
    <2>7. Max(Y) \in X
      <3> DEFINE m == Max(Y)
      <3>1. ASSUME m \in A PROVE m \in X
        <4>1. Max(A) \in A /\ m <= Max(A) /\ Max(A) <= m /\ Max(A) \in X
          BY <2>2, <2>6, <3>1
        <4>2. m = Max(A)
          <5> HIDE DEF m, X, Y
          <5>1. m \in Int /\ Max(A) \in Int
            BY <3>1, <4>1
          <5> QED BY <4>1, <5>1
        <4> QED BY <4>1, <4>2
      <3>2. ASSUME m \in B PROVE m \in X
        <4>1. Max(B) \in B /\ m <= Max(B) /\ Max(B) <= m /\ Max(B) \in X
          BY <2>3, <2>6, <3>2
        <4>2. m = Max(B)
          <5> HIDE DEF m, X, Y
          <5>1. m \in Int /\ Max(B) \in Int
            BY <3>2, <4>1
          <5> QED BY <4>1, <5>1
        <4> QED BY <4>1, <4>2
      <3> QED BY <2>6, <3>1, <3>2
    <2>8. Min(Y) \in X
      <3> DEFINE m == Min(Y)
      <3>1. ASSUME m \in A PROVE m \in X
        <4>1. Min(A) \in A /\ m <= Min(A) /\ Min(A) <= m /\ Min(A) \in X
          BY <2>2, <2>6, <3>1
        <4>2. m = Min(A)
          <5> HIDE DEF m, X, Y
          <5>1. m \in Int /\ Min(A) \in Int
            BY <3>1, <4>1
          <5> QED BY <4>1, <5>1
        <4> QED BY <4>1, <4>2
      <3>2. ASSUME m \in B PROVE m \in X
        <4>1. Min(B) \in B /\ m <= Min(B) /\ Min(B) <= m /\ Min(B) \in X
          BY <2>3, <2>6, <3>2
        <4>2. m = Min(B)
          <5> HIDE DEF m, X, Y
          <5>1. m \in Int /\ Min(B) \in Int
            BY <3>2, <4>1
          <5> QED BY <4>1, <5>1
        <4> QED BY <4>1, <4>2
      <3> QED BY <2>6, <3>1, <3>2
    <2> HIDE DEF X, Y
    <2>9. Max(X) = Max(Y) /\ Min(X) = Min(Y)
      BY <2>5, <2>6, <2>7, <2>8, MaxUnique, MinUnique
    <2>10. Ends(X) = {Min(X), Max(X)} /\ Ends(Y) = {Min(Y), Max(Y)}
      BY <1>2, <2>5 DEF Ends
    <2>11. Ends(X) = Ends(Y)
      BY <2>9, <2>10
    <2> QED BY <2>11 DEF X, Y
  <1> QED BY <1>1, <1>2

------------------------------------------------------------------------------
(* The features of a set of voxels, of whose values and coordinates sums   *)
(* can be taken.                                                           *)

Featured(S, value, at) == Summable(value, S) /\ \A d \in Dim : Summable(Axis(at, d, S), S)

InBin(S, value, top, b) == {v \in S : value[v] <= top /\ Bin(value[v], top) = b}

Parts(S, value, at, top) ==
    [count     |-> Cardinality(S),
     sum       |-> Total(value, S),
     extrema   |-> Ends({value[v] : v \in S}),
     histogram |-> [b \in 0 .. Bins - 1 |-> Cardinality(InBin(S, value, top, b))],
     center    |-> [d \in Dim |-> Total(Axis(at, d, S), S)]]

LEMMA FeaturesParts ==
    ASSUME NEW S, NEW value, NEW at, NEW top, Featured(S, value, at)
    PROVE  FeaturesOf(S, value, at, top) = Parts(S, value, at, top)
  <1> DEFINE f == FeaturesOf(S, value, at, top)
             sum == MapThenSumSet(LAMBDA v : value[v], S)
             Center(d) == MapThenSumSet(LAMBDA v : at[v][d], S)
             extrema == IF S = {} THEN {}
                        ELSE {Min({value[v] : v \in S}), Max({value[v] : v \in S})}
  <1>1. f = [count |-> Cardinality(S), sum |-> sum, extrema |-> extrema,
             histogram |-> [b \in 0 .. Bins - 1 |-> Cardinality(InBin(S, value, top, b))],
             center |-> [d \in Dim |-> Center(d)]]
    BY DEF FeaturesOf, InBin
  <1>2. sum = Total(value, S)
    BY SumIsTotal
  <1>3. \A d \in Dim : Center(d) = Total(Axis(at, d, S), S)
    BY CenterIsTotal DEF Featured
  <1>4. extrema = Ends({value[v] : v \in S})
    BY DEF Ends
  <1> HIDE DEF f, sum, Center, extrema
  <1> QED BY <1>1, <1>2, <1>3, <1>4 DEF f, Parts

(* Features do not depend on what the voxels are called.                   *)
LEMMA FeaturesMoved ==
    ASSUME NEW S, NEW value, NEW at, NEW top, Featured(S, value, at),
           NEW h, NEW T, Moves(h, S, T), NEW worth, NEW place,
           \A v \in S : worth[h[v]] = value[v],
           \A v \in S : \A d \in Dim : place[h[v]][d] = at[v][d]
    PROVE  /\ Featured(T, worth, place)
           /\ FeaturesOf(T, worth, place, top) = FeaturesOf(S, value, at, top)
  <1>1. Summable(value, S) /\ IsFiniteSet(S)
    BY DEF Featured, Summable
  <1>2. Summable(worth, T) /\ Total(worth, T) = Total(value, S)
    BY <1>1, TotalMoved
  <1>3. ASSUME NEW d \in Dim
        PROVE  /\ Summable(Axis(place, d, T), T)
               /\ Total(Axis(place, d, T), T) = Total(Axis(at, d, S), S)
    <2>1. Summable(Axis(at, d, S), S)
      BY DEF Featured
    <2>2. \A v \in S : Axis(place, d, T)[h[v]] = Axis(at, d, S)[v]
      BY DEF Axis, Moves
    <2> QED BY <2>1, <2>2, TotalMoved
  <1>4. Featured(T, worth, place)
    BY <1>2, <1>3 DEF Featured
  <1>5. Cardinality(T) = Cardinality(S)
    BY <1>1, MovedCardinality
  <1>6. {worth[w] : w \in T} = {value[v] : v \in S}
    BY DEF Moves
  <1>7. ASSUME NEW b
        PROVE  Cardinality(InBin(T, worth, top, b)) = Cardinality(InBin(S, value, top, b))
    <2>1. IsFiniteSet(InBin(S, value, top, b))
      BY <1>1, FS_Subset DEF InBin
    <2>2. Moves(h, InBin(S, value, top, b), InBin(T, worth, top, b))
      BY DEF Moves, InBin
    <2> QED BY <2>1, <2>2, MovedCardinality
  <1>8. FeaturesOf(T, worth, place, top) = Parts(T, worth, place, top)
    BY <1>4, FeaturesParts
  <1>9. FeaturesOf(S, value, at, top) = Parts(S, value, at, top)
    BY FeaturesParts
  <1>10. [b \in 0 .. Bins - 1 |-> Cardinality(InBin(T, worth, top, b))]
            = [b \in 0 .. Bins - 1 |-> Cardinality(InBin(S, value, top, b))]
    BY <1>7
  <1>11. [d \in Dim |-> Total(Axis(place, d, T), T)] = [d \in Dim |-> Total(Axis(at, d, S), S)]
    BY <1>3
  <1>12. Parts(T, worth, place, top) = Parts(S, value, at, top)
    BY <1>2, <1>5, <1>6, <1>10, <1>11 DEF Parts
  <1> QED BY <1>4, <1>8, <1>9, <1>12

LEMMA FeaturesOfNone ==
    ASSUME NEW value, NEW at, NEW top
    PROVE  FeaturesOf({}, value, at, top) = NoFeatures
  <1>1. \A f : Summable(f, {})
    BY FS_EmptySet DEF Summable
  <1>2. \A f, g : Featured({}, f, g)
    BY <1>1 DEF Featured
  <1>3. \A f : Total(f, {}) = 0
    BY <1>1, TotalStep
  <1>4. \A f, t, b : InBin({}, f, t, b) = {}
    BY DEF InBin
  <1>5. ASSUME NEW f, NEW g, NEW t
        PROVE  FeaturesOf({}, f, g, t) =
                  [count     |-> Cardinality({}),
                   sum       |-> 0,
                   extrema   |-> Ends({}),
                   histogram |-> [b \in 0 .. Bins - 1 |-> Cardinality({})],
                   center    |-> [d \in Dim |-> 0]]
    <2>1. FeaturesOf({}, f, g, t) = Parts({}, f, g, t)
      BY <1>2, FeaturesParts
    <2>2. {f[v] : v \in {}} = {}
      OBVIOUS
    <2>3. [b \in 0 .. Bins - 1 |-> Cardinality(InBin({}, f, t, b))]
             = [b \in 0 .. Bins - 1 |-> Cardinality({})]
      BY <1>4
    <2>4. [d \in Dim |-> Total(Axis(g, d, {}), {})] = [d \in Dim |-> 0]
      BY <1>3
    <2> QED BY <1>3, <2>1, <2>2, <2>3, <2>4 DEF Parts
  <1> QED BY <1>5 DEF NoFeatures

(* The combined features of two sets of voxels are those of all of them.   *)
LEMMA FeaturesJoined ==
    ASSUME NEW S, NEW T, NEW value, NEW at, NEW top,
           Featured(S, value, at), Featured(T, value, at), S \cap T = {}
    PROVE  Combined(FeaturesOf(S, value, at, top), FeaturesOf(T, value, at, top))
              = FeaturesOf(S \cup T, value, at, top)
  <1> DEFINE U == S \cup T
             f == FeaturesOf(S, value, at, top)
             g == FeaturesOf(T, value, at, top)
             h == FeaturesOf(U, value, at, top)
             Values(X) == {value[v] : v \in X}
             Bin_(X, b) == InBin(X, value, top, b)
  <1>1. /\ Summable(value, S) /\ IsFiniteSet(S) /\ Summable(value, T) /\ IsFiniteSet(T)
        /\ \A v \in U : value[v] \in Int
    BY DEF Featured, Summable
  <1>2. Summable(value, U) /\ Total(value, U) = Total(value, S) + Total(value, T)
    BY <1>1, TotalUnion
  <1>3. ASSUME NEW d \in Dim
        PROVE  /\ Summable(Axis(at, d, U), U)
               /\ Total(Axis(at, d, U), U) = Total(Axis(at, d, S), S) + Total(Axis(at, d, T), T)
    <2>1. Summable(Axis(at, d, S), S) /\ Summable(Axis(at, d, T), T)
      BY DEF Featured
    <2> DEFINE id == [v \in U |-> v]
    <2>2. Moves(id, S, S) /\ Moves(id, T, T)
      BY DEF Moves
    <2>3. /\ \A v \in S : Axis(at, d, U)[id[v]] = Axis(at, d, S)[v]
          /\ \A v \in T : Axis(at, d, U)[id[v]] = Axis(at, d, T)[v]
      BY DEF Axis
    <2> HIDE DEF id, U
    <2>4. /\ Summable(Axis(at, d, U), S) /\ Total(Axis(at, d, U), S) = Total(Axis(at, d, S), S)
          /\ Summable(Axis(at, d, U), T) /\ Total(Axis(at, d, U), T) = Total(Axis(at, d, T), T)
      BY <2>1, <2>2, <2>3, TotalMoved
    <2>5. Summable(Axis(at, d, U), S \cup T)
          /\ Total(Axis(at, d, U), S \cup T) = Total(Axis(at, d, U), S) + Total(Axis(at, d, U), T)
      BY <2>4, TotalUnion
    <2> QED BY <2>4, <2>5 DEF U
  <1>4. Featured(U, value, at)
    BY <1>2, <1>3 DEF Featured
  <1>5. Cardinality(U) = Cardinality(S) + Cardinality(T)
    <2>1. Cardinality(S \cap T) = 0 /\ Cardinality(S) \in Nat /\ Cardinality(T) \in Nat
      BY <1>1, FS_EmptySet, FS_CardinalityType
    <2>2. Cardinality(U) = Cardinality(S) + Cardinality(T) - Cardinality(S \cap T)
      BY <1>1, FS_Union
    <2> QED BY <2>1, <2>2
  <1>6. Ends(Ends(Values(S)) \cup Ends(Values(T))) = Ends(Values(U))
    <2>1. ASSUME NEW X, X \subseteq U, IsFiniteSet(X)
          PROVE  Values(X) \subseteq Int /\ IsFiniteSet(Values(X))
      <3>1. Values(X) \subseteq Int
        BY <1>1, <2>1
      <3>2. [v \in X |-> value[v]] \in Surjection(X, Values(X))
        BY DEF Surjection
      <3> QED BY <2>1, <3>1, <3>2, FS_Surjection
    <2>2. Values(S) \cup Values(T) = Values(U)
      OBVIOUS
    <2>3. S \subseteq U /\ T \subseteq U
      OBVIOUS
    <2>4. /\ Values(S) \subseteq Int /\ IsFiniteSet(Values(S))
          /\ Values(T) \subseteq Int /\ IsFiniteSet(Values(T))
      <3> HIDE DEF Values, U
      <3> QED BY <1>1, <2>1, <2>3
    <2> HIDE DEF Values, U
    <2> QED BY <2>2, <2>4, EndsJoined
  <1>7. ASSUME NEW b PROVE Cardinality(Bin_(U, b)) = Cardinality(Bin_(S, b)) + Cardinality(Bin_(T, b))
    <2>1. IsFiniteSet(Bin_(S, b)) /\ IsFiniteSet(Bin_(T, b))
      BY <1>1, FS_Subset DEF InBin
    <2>2. Bin_(S, b) \cup Bin_(T, b) = Bin_(U, b) /\ Bin_(S, b) \cap Bin_(T, b) = {}
      BY DEF InBin
    <2> HIDE DEF Bin_, U
    <2>3. /\ Cardinality(Bin_(S, b) \cap Bin_(T, b)) = 0
          /\ Cardinality(Bin_(S, b)) \in Nat /\ Cardinality(Bin_(T, b)) \in Nat
      BY <2>1, <2>2, FS_EmptySet, FS_CardinalityType
    <2>4. Cardinality(Bin_(S, b) \cup Bin_(T, b))
             = Cardinality(Bin_(S, b)) + Cardinality(Bin_(T, b)) - Cardinality(Bin_(S, b) \cap Bin_(T, b))
      BY <2>1, FS_Union
    <2>5. Cardinality(Bin_(S, b) \cup Bin_(T, b)) = Cardinality(Bin_(S, b)) + Cardinality(Bin_(T, b))
      BY <2>3, <2>4
    <2> QED BY <2>2, <2>5, Zenon
  <1>8. /\ f = Parts(S, value, at, top) /\ g = Parts(T, value, at, top)
        /\ h = Parts(U, value, at, top)
    <2>1. f = Parts(S, value, at, top) /\ g = Parts(T, value, at, top)
      BY FeaturesParts
    <2>2. h = Parts(U, value, at, top)
      <3> HIDE DEF U
      <3> QED BY <1>4, FeaturesParts
    <2> QED BY <2>1, <2>2
  <1>9. Combined(f, g) =
           [count     |-> f.count + g.count,
            sum       |-> f.sum + g.sum,
            extrema   |-> Ends(f.extrema \cup g.extrema),
            histogram |-> [b \in 0 .. Bins - 1 |-> f.histogram[b] + g.histogram[b]],
            center    |-> [d \in Dim |-> f.center[d] + g.center[d]]]
    <2> HIDE DEF f, g
    <2> QED BY DEF Combined, Ends, Plus
  <1> HIDE DEF f, g, h, Values, Bin_, U
  <1>10. f.count + g.count = Cardinality(U) /\ f.sum + g.sum = Total(value, U)
    BY <1>2, <1>5, <1>8 DEF Parts
  <1>11. Ends(f.extrema \cup g.extrema) = Ends(Values(U))
    BY <1>6, <1>8 DEF Parts, Values
  <1>12. [b \in 0 .. Bins - 1 |-> f.histogram[b] + g.histogram[b]]
            = [b \in 0 .. Bins - 1 |-> Cardinality(Bin_(U, b))]
    <2>1. \A b \in 0 .. Bins - 1 : f.histogram[b] + g.histogram[b] = Cardinality(Bin_(U, b))
      BY <1>7, <1>8 DEF Parts, Bin_
    <2> QED BY <2>1
  <1>13. [d \in Dim |-> f.center[d] + g.center[d]] = [d \in Dim |-> Total(Axis(at, d, U), U)]
    <2>1. \A d \in Dim : f.center[d] + g.center[d] = Total(Axis(at, d, U), U)
      BY <1>3, <1>8 DEF Parts
    <2> QED BY <2>1
  <1>14. Combined(f, g) = h
    BY <1>8, <1>9, <1>10, <1>11, <1>12, <1>13 DEF Parts, Values, Bin_
  <1> QED BY <1>14 DEF f, g, h, U

------------------------------------------------------------------------------
(* The blocks of a label image.                                            *)

LEMMA TilesDisjoint ==
    ASSUME NEW s, IsShape(s), NEW c \in BlocksInRange(Origin, s), NEW e \in BlocksInRange(Origin, s),
           NEW v, v \in VoxelsOf(TileRoi(c, s)), v \in VoxelsOf(TileRoi(e, s))
    PROVE  c = e
  <1>1. ASSUME NEW f \in BlocksInRange(Origin, s), v \in VoxelsOf(TileRoi(f, s)), NEW d \in Dim
        PROVE  /\ f \in Vectors /\ v[d] \in Int
               /\ BlockShape[d] * f[d] <= v[d] /\ v[d] < BlockShape[d] * (f[d] + 1)
    <2> DEFINE r == TileRoi(f, s)
    <2>1. /\ IsRoi(Dim, r) /\ f \in Vectors
          /\ r.p[d] = BlockShape[d] * f[d]
          /\ r.q[d] = Smaller(BlockShape[d] * (f[d] + 1), s[d])
      BY <1>1, TileFacts
    <2> HIDE DEF r
    <2>2. r.p \in Ints(Dim) /\ r.q \in Ints(Dim)
      BY <2>1 DEF IsRoi, Ints
    <2>3. v \in VoxelsOf(r)
      BY <1>1 DEF r
    <2>4. v[d] \in Int /\ r.p[d] <= v[d] /\ v[d] < r.q[d]
      BY <2>2, <2>3, VoxelMember DEF Ints
    <2> DEFINE b == BlockShape[d] * (f[d] + 1)
    <2>5. b \in Int /\ s[d] \in Int
      BY <2>1, ShapeType DEF Vectors, IsShape
    <2> HIDE DEF b
    <2>6. v[d] < b
      BY <2>1, <2>4, <2>5 DEF Smaller, b
    <2> QED BY <2>1, <2>4, <2>6 DEF b
  <1>2. ASSUME NEW d \in Dim PROVE c[d] = e[d]
    <2>1. /\ v[d] \in Int /\ BlockShape[d] \in Nat \ {0} /\ c[d] \in Int /\ e[d] \in Int
          /\ BlockShape[d] * c[d] <= v[d] /\ v[d] < BlockShape[d] * (c[d] + 1)
          /\ BlockShape[d] * e[d] <= v[d] /\ v[d] < BlockShape[d] * (e[d] + 1)
      BY <1>1, ShapeType DEF Vectors
    <2>2. v[d] \div BlockShape[d] = c[d]
      BY <2>1, DivUnique
    <2>3. v[d] \div BlockShape[d] = e[d]
      BY <2>1, DivUnique
    <2> QED BY <2>2, <2>3
  <1>3. c \in Vectors /\ e \in Vectors
    BY TileFacts
  <1> QED BY <1>2, <1>3 DEF Vectors

LEMMA BlocksDisjoint ==
    ASSUME Tiling, pc # "tile", NEW i \in 1 .. numBlocks, NEW j \in 1 .. numBlocks, i # j
    PROVE  VoxelsOf(block(i)) \cap VoxelsOf(block(j)) = {}
  <1>1. /\ IsShape(Shape) /\ Coord[i] \in BlocksInRange(Origin, Shape)
        /\ Coord[j] \in BlocksInRange(Origin, Shape)
        /\ block(i) = TileRoi(Coord[i], Shape) /\ block(j) = TileRoi(Coord[j], Shape)
    BY TilingState DEF InRange
  <1>2. Coord[i] # Coord[j]
    BY TilingComplete
  <1> QED BY <1>1, <1>2, TilesDisjoint

Image == VoxelsOf(roi_)

LEMMA ImageFacts ==
    ASSUME Tiling
    PROVE  /\ IsFiniteSet(Image) /\ Image \subseteq Ints(Dim)
           /\ \A v \in Image, d \in Dim : 0 <= v[d] /\ v[d] < Shape[d]
           /\ \A i \in 1 .. numBlocks : VoxelsOf(block(i)) \subseteq Image /\ VoxelsOf(block(i)) # {}
  <1>1. roi_ = Region(Shape) /\ IsShape(Shape) /\ Shape \in Ints(Dim)
    BY TilingState DEF IsShape, Ints
  <1>2. \A v : v \in Image <=> v \in Ints(Dim) /\ \A d \in Dim : 0 <= v[d] /\ v[d] < Shape[d]
    BY <1>1, ExtentMember DEF Image
  <1>3. IsFiniteSet(Image)
    <2>1. \A v : v \in Image => v \in Vectors /\ \A d \in Dim : v[d] < Shape[d]
      BY <1>2 DEF Ints, Vectors
    <2>2. /\ IsFiniteSet(Box(Origin, Shape))
          /\ \A v : v \in Box(Origin, Shape) <=> v \in Vectors /\ \A d \in Dim : v[d] < Shape[d]
      BY <1>1, WholeRegion
    <2>3. Image \in SUBSET Box(Origin, Shape)
      BY <2>1, <2>2
    <2> QED BY <2>2, <2>3, FS_Subset
  <1>4. ASSUME NEW i \in 1 .. numBlocks
        PROVE  VoxelsOf(block(i)) \subseteq Image /\ VoxelsOf(block(i)) # {}
    <2> DEFINE r == block(i)
    <2>1. /\ IsRoi(Dim, r) /\ Shape \in [Dim -> Nat \ {0}]
          /\ \A d \in Dim : r.q[d] <= Shape[d]
      BY BlockFacts
    <2> HIDE DEF r
    <2>2. /\ r.p \in Ints(Dim) /\ r.q \in Ints(Dim)
          /\ \A d \in Dim : 0 <= r.p[d] /\ r.p[d] < r.q[d]
      BY <2>1 DEF IsRoi, Ints
    <2>3. \A v : v \in VoxelsOf(r) <=> v \in Ints(Dim) /\ \A d \in Dim : r.p[d] <= v[d] /\ v[d] < r.q[d]
      BY <2>2, VoxelMember
    <2>4. r.p \in VoxelsOf(r)
      BY <2>2, <2>3 DEF Ints
    <2>5. ASSUME NEW v \in VoxelsOf(r) PROVE v \in Image
      <3>1. v \in Ints(Dim)
        BY <2>3
      <3>2. ASSUME NEW d \in Dim PROVE 0 <= v[d] /\ v[d] < Shape[d]
        <4>1. v[d] \in Int /\ r.p[d] \in Int /\ r.q[d] \in Int /\ Shape[d] \in Int
          BY <1>1, <2>2, <3>1 DEF Ints
        <4>2. 0 <= r.p[d] /\ r.p[d] <= v[d] /\ v[d] < r.q[d] /\ r.q[d] <= Shape[d]
          BY <2>1, <2>2, <2>3
        <4> QED BY <4>1, <4>2
      <3> QED BY <1>2, <3>1, <3>2
    <2> QED BY <2>4, <2>5 DEF r
  <1> QED BY <1>2, <1>3, <1>4

(* The blocks before the n-th one's end.                                   *)
Done(n) == UNION {VoxelsOf(block(i)) : i \in 1 .. n}

LEMMA DoneFacts ==
    ASSUME Tiling, pc # "tile"
    PROVE  /\ Done(0) = {} /\ Done(numBlocks) = Image
           /\ \A n \in 1 .. numBlocks : /\ Done(n) = Done(n - 1) \cup VoxelsOf(block(n))
                                        /\ Done(n - 1) \cap VoxelsOf(block(n)) = {}
                                        /\ Done(n - 1) \subseteq Image
  <1>1. Done(0) = {}
    <2>1. 1 .. 0 = {}
      OBVIOUS
    <2> QED BY <2>1 DEF Done
  <1>2. Done(numBlocks) = Image
    <2>1. \A v \in Image : \E i \in 1 .. numBlocks : v \in VoxelsOf(block(i))
      BY BlocksCover DEF Image
    <2>2. \A i \in 1 .. numBlocks : VoxelsOf(block(i)) \subseteq Image
      BY ImageFacts
    <2> QED BY <2>1, <2>2 DEF Done
  <1>3. ASSUME NEW n \in 1 .. numBlocks
        PROVE  /\ Done(n) = Done(n - 1) \cup VoxelsOf(block(n))
               /\ Done(n - 1) \cap VoxelsOf(block(n)) = {}
               /\ Done(n - 1) \subseteq Image
    <2>1. numBlocks \in Nat
      BY TilingState
    <2>2. 1 .. n = (1 .. n - 1) \cup {n} /\ 1 .. n - 1 \subseteq 1 .. numBlocks
          /\ \A i \in 1 .. n - 1 : i # n
      BY <2>1
    <2>3. Done(n) = Done(n - 1) \cup VoxelsOf(block(n))
      BY <2>2 DEF Done
    <2>4. \A i \in 1 .. n - 1 : VoxelsOf(block(i)) \cap VoxelsOf(block(n)) = {}
      BY <2>2, BlocksDisjoint
    <2>5. \A i \in 1 .. n - 1 : VoxelsOf(block(i)) \subseteq Image
      BY <2>2, ImageFacts
    <2> QED BY <2>3, <2>4, <2>5 DEF Done
  <1> QED BY <1>1, <1>2, <1>3

(* The coordinates in a block, of the voxels of the image.                 *)
Offset(r) == [v \in VoxelsOf(r) |-> Subtract(v, r.p)]

LEMMA OffsetMoves ==
    ASSUME NEW r, IsRoi(Dim, r)
    PROVE  /\ Moves(Offset(r), VoxelsOf(r), VoxelsOf(Region(shape(r))))
           /\ \A v \in VoxelsOf(r) : Plus(Offset(r)[v], r.p) = v
  <1>1. r.p \in Ints(Dim) /\ r.q \in Ints(Dim) /\ \A d \in Dim : r.p[d] \in Int /\ r.q[d] \in Int
    BY DEF IsRoi, Ints
  <1>2. shape(r) \in Ints(Dim) /\ \A d \in Dim : shape(r)[d] = r.q[d] - r.p[d]
    BY <1>1 DEF shape, Subtract, Ints
  <1>3. \A v : v \in VoxelsOf(r) <=> v \in Ints(Dim) /\ \A d \in Dim : r.p[d] <= v[d] /\ v[d] < r.q[d]
    BY <1>1, VoxelMember
  <1>4. \A v : v \in VoxelsOf(Region(shape(r)))
                 <=> v \in Ints(Dim) /\ \A d \in Dim : 0 <= v[d] /\ v[d] < r.q[d] - r.p[d]
    BY <1>2, ExtentMember
  <1>5. ASSUME NEW v \in VoxelsOf(r)
        PROVE  /\ Offset(r)[v] = [d \in Dim |-> v[d] - r.p[d]]
               /\ Offset(r)[v] \in VoxelsOf(Region(shape(r)))
               /\ Plus(Offset(r)[v], r.p) = v
    <2>1. v \in Ints(Dim) /\ \A d \in Dim : v[d] \in Int /\ r.p[d] <= v[d] /\ v[d] < r.q[d]
      BY <1>3 DEF Ints
    <2> DEFINE u == [d \in Dim |-> v[d] - r.p[d]]
    <2>2. Offset(r)[v] = u
      BY <2>1 DEF Offset, Subtract, Ints
    <2>3. u \in Ints(Dim) /\ \A d \in Dim : 0 <= u[d] /\ u[d] < r.q[d] - r.p[d]
      BY <1>1, <2>1 DEF Ints
    <2>4. u \in VoxelsOf(Region(shape(r)))
      <3> HIDE DEF u
      <3> QED BY <1>4, <2>3
    <2>5. Plus(u, r.p) = v
      <3>1. Plus(u, r.p) = [d \in Dim |-> (v[d] - r.p[d]) + r.p[d]]
        BY DEF Plus
      <3>2. \A d \in Dim : (v[d] - r.p[d]) + r.p[d] = v[d]
        BY <1>1, <2>1
      <3>3. v = [d \in Dim |-> v[d]]
        BY <2>1 DEF Ints
      <3> QED BY <3>1, <3>2, <3>3
    <2> QED BY <2>2, <2>4, <2>5
  <1>6. ASSUME NEW u \in VoxelsOf(Region(shape(r))) PROVE \E v \in VoxelsOf(r) : Offset(r)[v] = u
    <2> DEFINE v == [d \in Dim |-> u[d] + r.p[d]]
    <2>1. u \in Ints(Dim) /\ \A d \in Dim : u[d] \in Int /\ 0 <= u[d] /\ u[d] < r.q[d] - r.p[d]
      BY <1>4 DEF Ints
    <2>2. v \in Ints(Dim) /\ \A d \in Dim : r.p[d] <= v[d] /\ v[d] < r.q[d]
      BY <1>1, <2>1 DEF Ints
    <2>3. v \in VoxelsOf(r)
      <3> HIDE DEF v
      <3> QED BY <1>3, <2>2
    <2>4. Offset(r)[v] = [d \in Dim |-> v[d] - r.p[d]]
      <3> HIDE DEF v
      <3> QED BY <1>5, <2>3
    <2>5. \A d \in Dim : (u[d] + r.p[d]) - r.p[d] = u[d]
      BY <1>1, <2>1
    <2>6. u = [d \in Dim |-> u[d]]
      BY <2>1 DEF Ints
    <2>7. Offset(r)[v] = u
      BY <2>4, <2>5, <2>6
    <2> HIDE DEF v
    <2> QED BY <2>3, <2>7
  <1>7. ASSUME NEW v \in VoxelsOf(r), NEW w \in VoxelsOf(r), Offset(r)[v] = Offset(r)[w]
        PROVE  v = w
    BY <1>5, <1>7
  <1> DEFINE T == VoxelsOf(Region(shape(r)))
  <1>8. T = {Offset(r)[v] : v \in VoxelsOf(r)}
    <2>1. \A v \in VoxelsOf(r) : Offset(r)[v] \in T
      BY <1>5
    <2>2. \A u \in T : \E v \in VoxelsOf(r) : Offset(r)[v] = u
      BY <1>6
    <2> HIDE DEF T
    <2> QED BY <2>1, <2>2
  <1>9. Moves(Offset(r), VoxelsOf(r), T)
    <2> HIDE DEF T
    <2> QED BY <1>7, <1>8 DEF Moves
  <1> QED BY <1>5, <1>9

------------------------------------------------------------------------------
(* What is read of the image, and its features.                            *)

(* Histograms range from m = 0: no value is negative.                      *)
NotNegative ==
    \A extent \in Extents : \A v \in VoxelsOf(Region(extent)) : Pixel(v) \in Nat

Values == [v \in Image |-> View(v)]
Places == [v \in Image |-> v]
Labelled(S, l) == {v \in S : labels[v] = l /\ l # 0}

Measuring ==
    /\ IsSource(source) /\ DOMAIN source.extent = Dim
    /\ Tiling /\ Shape = sourceShape(source)

LEMMA BlockValues ==
    ASSUME Measuring, NEW i \in 1 .. numBlocks
    PROVE  /\ Moves(Offset(block(i)), VoxelsOf(block(i)), DOMAIN readBlock(source, block(i)))
           /\ \A v \in VoxelsOf(block(i)) :
                 /\ Plus(Offset(block(i))[v], block(i).p) = v
                 /\ readBlock(source, block(i))[Offset(block(i))[v]] = Values[v]
  <1> DEFINE r == block(i)
  <1>1. /\ IsRoi(Dim, r) /\ \A d \in Dim : r.q[d] <= sourceShape(source)[d]
    BY BlockFacts DEF Measuring
  <1>2. VoxelsOf(r) \subseteq Image
    BY ImageFacts DEF Measuring
  <1> HIDE DEF r
  <1>3. Readable(source, r)
    BY <1>1, InsideReadable DEF Measuring
  <1>4. /\ DOMAIN readBlock(source, r) = VoxelsOf(Region(shape(r)))
        /\ \A v \in VoxelsOf(r) :
              readBlock(source, r)[Subtract(v, r.p)] = Pixel(Add(v, source.roi.p))
    BY <1>1, <1>3, BlockRead DEF Measuring
  <1>5. /\ Moves(Offset(r), VoxelsOf(r), VoxelsOf(Region(shape(r))))
        /\ \A v \in VoxelsOf(r) : Plus(Offset(r)[v], r.p) = v
    BY <1>1, OffsetMoves
  <1>6. \A v \in VoxelsOf(r) : readBlock(source, r)[Offset(r)[v]] = Values[v]
    BY <1>2, <1>4 DEF Offset, Values, View
  <1> QED BY <1>4, <1>5, <1>6 DEF r

LEMMA MaximumIs ==
    ASSUME Measuring, NEW i \in 1 .. numBlocks
    PROVE  MaximumOf(i) = Max({Values[v] : v \in VoxelsOf(block(i))})
  <1> DEFINE in == readBlock(source, block(i))
             h == Offset(block(i))
             S == VoxelsOf(block(i))
  <1>1. Moves(h, S, DOMAIN in) /\ \A v \in S : in[h[v]] = Values[v]
    BY BlockValues
  <1>2. MaximumOf(i) = Max({in[u] : u \in DOMAIN in})
    BY DEF MaximumOf
  <1> HIDE DEF in, h, S
  <1>3. {in[u] : u \in DOMAIN in} = {Values[v] : v \in S}
    BY <1>1 DEF Moves
  <1> QED BY <1>2, <1>3 DEF S

LEMMA ImageFeatured ==
    ASSUME Measuring, NotNegative
    PROVE  /\ \A v \in Image : Values[v] \in Nat
           /\ \A S \in SUBSET Image : Featured(S, Values, Places)
  <1>1. /\ source.extent \in [Dim -> Nat \ {0}] /\ source.roi.p \in [Dim -> Nat]
        /\ sourceShape(source) \in [Dim -> Nat \ {0}]
        /\ \A d \in Dim : source.roi.p[d] + sourceShape(source)[d] <= source.extent[d]
    BY SourceFacts DEF Measuring
  <1>2. /\ IsFiniteSet(Image) /\ Image \subseteq Ints(Dim)
        /\ \A v \in Image, d \in Dim : 0 <= v[d] /\ v[d] < sourceShape(source)[d]
    BY ImageFacts DEF Measuring
  <1>3. ASSUME NEW v \in Image PROVE Values[v] \in Nat
    <2> DEFINE w == Add(v, source.roi.p)
    <2>1. w = [d \in Dim |-> v[d] + source.roi.p[d]]
      BY <1>2 DEF Add, Ints
    <2>2. \A d \in Dim : /\ v[d] \in Int /\ source.roi.p[d] \in Nat
                         /\ source.extent[d] \in Int /\ sourceShape(source)[d] \in Int
      BY <1>1, <1>2 DEF Ints
    <2>3. w \in Ints(Dim) /\ \A d \in Dim : 0 <= w[d] /\ w[d] < source.extent[d]
      BY <1>1, <1>2, <2>1, <2>2 DEF Ints
    <2>4. source.extent \in Ints(Dim) /\ source.extent \in Extents
      BY <1>1 DEF Ints, Measuring, IsSource
    <2> HIDE DEF w
    <2>5. w \in VoxelsOf(Region(source.extent))
      BY <2>3, <2>4, ExtentMember
    <2>6. Pixel(w) \in Nat
      BY <2>4, <2>5 DEF NotNegative
    <2> QED BY <2>6 DEF Values, View, w
  <1>4. ASSUME NEW S \in SUBSET Image PROVE Featured(S, Values, Places)
    <2>1. IsFiniteSet(S)
      BY <1>2, FS_Subset
    <2>2. \A v \in S : Values[v] \in Int
      BY <1>3
    <2>3. \A d \in Dim : \A v \in S : Axis(Places, d, S)[v] \in Int
      BY <1>2 DEF Axis, Places, Ints
    <2> QED BY <2>1, <2>2, <2>3 DEF Featured, Summable
  <1> QED BY <1>3, <1>4

(* An accumulator holds the features of its block's part of every region.  *)
LEMMA AccumulatorIs ==
    ASSUME Measuring, NotNegative, NEW i \in 1 .. numBlocks, NEW top
    PROVE  Accumulator(i, top).regions =
              [l \in 0 .. Max({labels[v] : v \in VoxelsOf(block(i))}) |->
                  FeaturesOf(Labelled(VoxelsOf(block(i)), l), Values, Places, top)]
  <1> DEFINE r == block(i)
             S == VoxelsOf(r)
             h == Offset(r)
             in == readBlock(source, r)
             T == DOMAIN in
             lab == [v \in T |-> labels[Plus(v, r.p)]]
             place == [v \in T |-> Plus(v, r.p)]
             Of(l) == {v \in T : lab[v] = l /\ l # 0}
  <1>1. /\ Moves(h, S, T)
        /\ \A v \in S : Plus(h[v], r.p) = v /\ in[h[v]] = Values[v]
    BY BlockValues
  <1>2. Accumulator(i, top).regions =
           [l \in 0 .. Max({lab[v] : v \in T}) |-> FeaturesOf(Of(l), in, place, top)]
    BY DEF Accumulator
  <1>3. S \subseteq Image
    BY ImageFacts DEF Measuring
  <1> HIDE DEF in, h, S, r, T
  <1>4. {lab[v] : v \in T} = {labels[v] : v \in S}
    <2>1. \A v \in S : h[v] \in T /\ lab[h[v]] = labels[v]
      BY <1>1 DEF Moves
    <2>2. \A u \in T : \E v \in S : h[v] = u
      BY <1>1 DEF Moves
    <2> HIDE DEF lab
    <2> QED BY <2>1, <2>2
  <1>5. ASSUME NEW l PROVE FeaturesOf(Of(l), in, place, top)
                              = FeaturesOf(Labelled(S, l), Values, Places, top)
    <2>1. Labelled(S, l) \in SUBSET Image
      BY <1>3 DEF Labelled
    <2>2. Featured(Labelled(S, l), Values, Places)
      BY <2>1, ImageFeatured
    <2>3. Moves(h, Labelled(S, l), Of(l))
      BY <1>1 DEF Moves, Labelled
    <2>4. \A v \in Labelled(S, l) : in[h[v]] = Values[v]
      BY <1>1 DEF Labelled
    <2>5. \A v \in Labelled(S, l) : \A d \in Dim : place[h[v]][d] = Places[v][d]
      BY <1>1, <1>3 DEF Labelled, Moves, Places
    <2> HIDE DEF place, Of
    <2> QED BY <2>2, <2>3, <2>4, <2>5, FeaturesMoved
  <1> HIDE DEF place, lab, Of
  <1>6. Accumulator(i, top).regions =
           [l \in 0 .. Max({labels[v] : v \in S}) |-> FeaturesOf(Labelled(S, l), Values, Places, top)]
    BY <1>2, <1>4, <1>5
  <1> QED BY <1>6 DEF S, r

LEMMA LabelEnds ==
    ASSUME IsFiniteSet(Image), labels \in [Image -> Nat], NEW S \in SUBSET Image, S # {}
    PROVE  LET L == Max({labels[v] : v \in S})
           IN  L \in Nat /\ (\E v \in S : labels[v] = L) /\ \A v \in S : labels[v] <= L
  <1> DEFINE A == {labels[v] : v \in S}
  <1>1. A \subseteq Int /\ A # {}
    OBVIOUS
  <1>2. [v \in S |-> labels[v]] \in Surjection(S, A)
    BY DEF Surjection
  <1>3. IsFiniteSet(S)
    BY FS_Subset
  <1>4. IsFiniteSet(A)
    <2> HIDE DEF A
    <2> QED BY <1>2, <1>3, FS_Surjection
  <1>5. Max(A) \in A /\ \A y \in A : y <= Max(A)
    <2> HIDE DEF A
    <2> QED BY <1>1, <1>4, EndsExist
  <1> DEFINE m == Max(A)
  <1> HIDE DEF m
  <1>6. m \in A /\ \A y \in A : y <= m
    BY <1>5 DEF m
  <1>7. m \in Nat /\ (\E v \in S : labels[v] = m) /\ \A v \in S : labels[v] <= m
    BY <1>6
  <1> QED BY <1>7 DEF m

------------------------------------------------------------------------------
(* The invariant of a RegionFeatures object: its first run finds the       *)
(* largest value M of the blocks done, then has an accumulator with range  *)
(* M for each of them, then the features of all their voxels.  In a later  *)
(* run every block has an accumulator before it is done.                   *)
MaxLabel == Max({labels[v] : v \in Image})

LargestIn(S) == /\ M \in Nat /\ \A v \in S : Values[v] <= M
                /\ M = 0 \/ \E v \in S : Values[v] = M

AccumulatedUpTo(n) ==
    /\ accumulators_ \in Seq({Accumulator(i, M) : i \in 1 .. numBlocks}) /\ Len(accumulators_) = n
    /\ \A i \in 1 .. n : accumulators_[i] = Accumulator(i, M)

MergedUpTo(n) ==
    merged.regions = [l \in 0 .. MaxLabel |-> FeaturesOf(Labelled(Done(n), l), Values, Places, M)]

IsMerged == merged = [range |-> M, regions |-> merged.regions]

NotRun == runs = 0 /\ pc \in {"tile", "tiled"} /\ k = 0 /\ accumulators_ = <<>>

Maximizing ==
    /\ runs = 1 /\ pc = "maximum" /\ k \in 1 .. numBlocks + 1 /\ accumulators_ = <<>>
    /\ NotNegative => LargestIn(Done(k - 1))

Accumulating ==
    /\ runs = 1 /\ pc = "accumulate" /\ k \in 1 .. numBlocks + 1 /\ AccumulatedUpTo(k - 1)
    /\ NotNegative => LargestIn(Image)

Merging ==
    /\ runs = 1 /\ pc = "mergeFeatures" /\ k \in 1 .. numBlocks + 1 /\ AccumulatedUpTo(numBlocks)
    /\ IsMerged
    /\ NotNegative => LargestIn(Image) /\ MergedUpTo(k - 1)

Measured ==
    /\ runs = 1 /\ pc = "done" /\ k = 0 /\ DOMAIN accumulators_ = 1 .. numBlocks
    /\ NotNegative => LargestIn(Image) /\ MergedUpTo(numBlocks)

Repeating ==
    /\ runs \in Nat /\ runs > 1 /\ DOMAIN accumulators_ = 1 .. numBlocks
    /\ \/ pc = "maximum" /\ k \in 1 .. numBlocks + 1
       \/ pc = "accumulate" /\ k = 1
       \/ pc = "failed" /\ k = 0

FeaturesState == filter = "RegionFeatures" /\ Measuring /\ labels \in [Image -> Nat]

FeaturesInv ==
    /\ FeaturesState
    /\ NotRun \/ Maximizing \/ Accumulating \/ Merging \/ Measured \/ Repeating

LEMMA FeaturesStay ==
    ASSUME FeaturesState, pc # "tile", pc' # "tile", UNCHANGED <<blockingVars, filter, source, labels>>
    PROVE  /\ FeaturesState'
           /\ numBlocks' = numBlocks /\ Image' = Image /\ Values' = Values /\ Places' = Places
           /\ MaxLabel' = MaxLabel
           /\ \A n : Done(n)' = Done(n)
           /\ \A S, l : Labelled(S, l)' = Labelled(S, l)
           /\ M' = M => \A i : Accumulator(i, M)' = Accumulator(i, M)
  <1>1. /\ roi_' = roi_ /\ blocks_' = blocks_ /\ source' = source /\ labels' = labels
        /\ filter' = filter
    BY DEF blockingVars
  <1>2. numBlocks' = numBlocks /\ Shape' = Shape /\ Image' = Image
    BY <1>1 DEF numBlocks, Shape, Image
  <1>3. \A i : block(i)' = block(i)
    BY <1>1 DEF block
  <1>4. \A v : View(v)' = View(v)
    BY <1>1 DEF View
  <1>5. Values' = Values /\ Places' = Places /\ MaxLabel' = MaxLabel
    BY <1>1, <1>2, <1>4 DEF Values, Places, MaxLabel
  <1>6. \A n : Done(n)' = Done(n)
    BY <1>3 DEF Done
  <1>7. \A S, l : Labelled(S, l)' = Labelled(S, l)
    BY <1>1 DEF Labelled
  <1>8. M' = M => \A i : Accumulator(i, M)' = Accumulator(i, M)
    BY <1>1, <1>3 DEF Accumulator
  <1>9. Tiling'
    <2>1. Tiling /\ UNCHANGED blockingVars
      BY DEF FeaturesState, Measuring
    <2> QED BY <2>1, TilingStep
  <1>10. FeaturesState'
    BY <1>1, <1>2, <1>9 DEF FeaturesState, Measuring
  <1> QED BY <1>2, <1>5, <1>6, <1>7, <1>8, <1>10

LEMMA MeasuringFacts ==
    ASSUME FeaturesState
    PROVE  /\ numBlocks \in Nat \ {0} /\ IsFiniteSet(Image) /\ Image # {}
           /\ \A i \in 1 .. numBlocks : VoxelsOf(block(i)) \in SUBSET Image /\ VoxelsOf(block(i)) # {}
  <1>1. Tiling
    BY DEF FeaturesState, Measuring
  <1>2. numBlocks \in Nat \ {0}
    BY <1>1, TilingState
  <1>3. /\ IsFiniteSet(Image)
        /\ \A i \in 1 .. numBlocks : VoxelsOf(block(i)) \in SUBSET Image /\ VoxelsOf(block(i)) # {}
    BY <1>1, ImageFacts
  <1>4. 1 \in 1 .. numBlocks
    BY <1>2
  <1> QED BY <1>2, <1>3, <1>4

LEMMA RunKeeps ==
    ASSUME FeaturesInv, Run
    PROVE  FeaturesInv'
  <1>1. /\ k = 0 /\ pc \in {"tiled", "done", "failed"} /\ k' = 1 /\ pc' = "maximum"
        /\ M' = 0 /\ runs' = runs + 1 /\ accumulators_' = accumulators_
        /\ UNCHANGED <<blockingVars, filter, source, labels>>
    BY DEF Run, Idle
  <1>2. pc # "tile" /\ pc' # "tile"
    BY <1>1
  <1>3. FeaturesState /\ Tiling
    BY DEF FeaturesInv, FeaturesState, Measuring
  <1>4. FeaturesState' /\ numBlocks' = numBlocks /\ (\A n : Done(n)' = Done(n))
    BY <1>1, <1>2, <1>3, FeaturesStay
  <1>5. numBlocks \in Nat \ {0} /\ Done(0) = {}
    BY <1>2, <1>3, MeasuringFacts, DoneFacts
  <1>6. CASE NotRun
    <2>1. runs' = 1 /\ accumulators_' = <<>> /\ k' \in 1 .. numBlocks' + 1
      BY <1>1, <1>4, <1>5, <1>6 DEF NotRun
    <2>2. LargestIn(Done(k - 1))'
      <3>1. Done(k - 1)' = {}
        BY <1>1, <1>4, <1>5
      <3> QED BY <1>1, <3>1 DEF LargestIn
    <2> QED BY <1>1, <1>4, <2>1, <2>2 DEF FeaturesInv, Maximizing
  <1>7. CASE Measured
    <2>1. runs' = 2 /\ DOMAIN accumulators_' = 1 .. numBlocks' /\ k' \in 1 .. numBlocks' + 1
      BY <1>1, <1>4, <1>5, <1>7 DEF Measured
    <2> QED BY <1>1, <1>4, <2>1 DEF FeaturesInv, Repeating
  <1>8. CASE Repeating
    <2>1. runs' \in Nat /\ runs' > 1 /\ DOMAIN accumulators_' = 1 .. numBlocks'
          /\ k' \in 1 .. numBlocks' + 1
      BY <1>1, <1>4, <1>5, <1>8 DEF Repeating
    <2> QED BY <1>1, <1>4, <2>1 DEF FeaturesInv, Repeating
  <1> QED BY <1>1, <1>6, <1>7, <1>8 DEF FeaturesInv, Maximizing, Accumulating, Merging

LEMMA FindMaximumKeeps ==
    ASSUME FeaturesInv, FindMaximum
    PROVE  FeaturesInv'
  <1>1. /\ pc = "maximum" /\ pc' = "maximum" /\ k <= numBlocks /\ k' = k + 1
        /\ M' = Larger(M, MaximumOf(k)) /\ runs' = runs /\ accumulators_' = accumulators_
        /\ UNCHANGED <<blockingVars, filter, source, labels>>
    BY DEF FindMaximum, NextBlock
  <1>2. pc # "tile" /\ pc' # "tile"
    BY <1>1
  <1>3. FeaturesState /\ Tiling /\ Measuring
    BY DEF FeaturesInv, FeaturesState, Measuring
  <1>4. FeaturesState' /\ numBlocks' = numBlocks /\ Values' = Values /\ \A n : Done(n)' = Done(n)
    BY <1>1, <1>2, <1>3, FeaturesStay
  <1>5. Maximizing \/ Repeating
    BY <1>1 DEF FeaturesInv, NotRun, Accumulating, Merging, Measured
  <1>6. numBlocks \in Nat /\ k \in 1 .. numBlocks + 1
    BY <1>1, <1>3, <1>5, MeasuringFacts DEF Maximizing, Repeating
  <1>7. k \in 1 .. numBlocks /\ k' \in 1 .. numBlocks' + 1 /\ k' - 1 = k
    BY <1>1, <1>4, <1>6
  <1>8. CASE Maximizing
    <2>1. ASSUME NotNegative PROVE LargestIn(Done(k - 1))'
      <3> DEFINE B == VoxelsOf(block(k))
                 A == {Values[v] : v \in B}
      <3>1. LargestIn(Done(k - 1))
        BY <1>8, <2>1 DEF Maximizing
      <3>2. /\ Done(k) = Done(k - 1) \cup B /\ B \in SUBSET Image /\ B # {} /\ IsFiniteSet(Image)
            /\ Done(k - 1) \subseteq Image
        BY <1>2, <1>3, <1>7, DoneFacts, MeasuringFacts
      <3>3. \A v \in Image : Values[v] \in Nat
        BY <1>3, <2>1, ImageFeatured
      <3>4. MaximumOf(k) = Max(A)
        BY <1>3, <1>7, MaximumIs
      <3> HIDE DEF B
      <3>5. A \subseteq Int /\ A # {} /\ IsFiniteSet(A)
        <4>1. IsFiniteSet(B)
          BY <3>2, FS_Subset
        <4>2. [v \in B |-> Values[v]] \in Surjection(B, A)
          BY DEF Surjection
        <4>3. IsFiniteSet(A)
          <5> HIDE DEF A
          <5> QED BY <4>1, <4>2, FS_Surjection
        <4> QED BY <3>2, <3>3, <4>3
      <3>6. Max(A) \in A /\ \A y \in A : y <= Max(A)
        <4> HIDE DEF A
        <4> QED BY <3>5, EndsExist
      <3> DEFINE m == MaximumOf(k)
      <3> HIDE DEF m
      <3>7. m \in A /\ \A y \in A : y <= m
        BY <3>4, <3>6 DEF m
      <3>8. PICK w \in B : m = Values[w]
        BY <3>7
      <3>9. \A v \in B : Values[v] <= m
        BY <3>7
      <3>10. m \in Nat /\ M \in Nat /\ M' = Larger(M, m)
        BY <1>1, <3>1, <3>2, <3>3, <3>8 DEF LargestIn, m
      <3>11. M' \in Nat /\ M <= M' /\ m <= M' /\ (M' = M \/ M' = m)
        BY <3>10 DEF Larger
      <3>12. \A v \in Done(k) : Values[v] <= M'
        <4>1. \A v \in Done(k - 1) : Values[v] <= M
          BY <3>1 DEF LargestIn
        <4>2. ASSUME NEW v \in Done(k) PROVE Values[v] <= M'
          <5>1. Values[v] \in Nat /\ (Values[v] <= M \/ Values[v] <= m)
            BY <3>2, <3>3, <3>9, <4>1
          <5> QED BY <3>10, <3>11, <5>1
        <4> QED BY <4>2
      <3>13. M' = 0 \/ \E v \in Done(k) : Values[v] = M'
        <4>1. CASE M' = m
          BY <3>2, <3>8, <4>1
        <4>2. CASE M' = M
          BY <3>1, <3>2, <4>2 DEF LargestIn
        <4> QED BY <3>11, <4>1, <4>2
      <3>14. Done(k - 1)' = Done(k)
        <4>1. Done(k - 1)' = Done(k' - 1)
          BY <1>4
        <4> QED BY <1>7, <4>1
      <3> QED BY <1>4, <3>11, <3>12, <3>13, <3>14 DEF LargestIn
    <2> QED BY <1>1, <1>4, <1>7, <1>8, <2>1 DEF FeaturesInv, Maximizing
  <1>9. CASE Repeating
    BY <1>1, <1>4, <1>7, <1>9 DEF FeaturesInv, Repeating
  <1> QED BY <1>5, <1>8, <1>9

LEMMA MaximumFoundKeeps ==
    ASSUME FeaturesInv, MaximumFound
    PROVE  FeaturesInv'
  <1>1. /\ pc = "maximum" /\ pc' = "accumulate" /\ k > numBlocks /\ k' = 1
        /\ M' = M /\ runs' = runs /\ accumulators_' = accumulators_
        /\ UNCHANGED <<blockingVars, filter, source, labels>>
    BY DEF MaximumFound, GoTo, featureVars
  <1>2. pc # "tile" /\ pc' # "tile"
    BY <1>1
  <1>3. FeaturesState /\ Tiling
    BY DEF FeaturesInv, FeaturesState, Measuring
  <1>4. FeaturesState' /\ numBlocks' = numBlocks /\ Values' = Values /\ Image' = Image
    BY <1>1, <1>2, <1>3, FeaturesStay
  <1>5. Maximizing \/ Repeating
    BY <1>1 DEF FeaturesInv, NotRun, Accumulating, Merging, Measured
  <1>6. numBlocks \in Nat \ {0} /\ Done(numBlocks) = Image
    BY <1>2, <1>3, MeasuringFacts, DoneFacts
  <1>7. CASE Maximizing
    <2>1. k - 1 = numBlocks /\ k' \in 1 .. numBlocks' + 1 /\ k' - 1 = 0
      BY <1>1, <1>4, <1>6, <1>7 DEF Maximizing
    <2>2. NotNegative => LargestIn(Image)
      BY <1>6, <1>7, <2>1 DEF Maximizing
    <2>3. (NotNegative => LargestIn(Image))'
      BY <1>1, <1>4, <2>2 DEF LargestIn, NotNegative
    <2>4. AccumulatedUpTo(k - 1)'
      <3>1. accumulators_' = <<>>
        BY <1>1, <1>7 DEF Maximizing
      <3> DEFINE X == {Accumulator(i, M) : i \in 1 .. numBlocks}'
      <3>2. <<>> \in Seq(X) /\ Len(<<>>) = 0 /\ 1 .. 0 = {}
        <4> HIDE DEF X
        <4> QED OBVIOUS
      <3> QED BY <2>1, <3>1, <3>2 DEF AccumulatedUpTo
    <2> QED BY <1>1, <1>4, <1>7, <2>1, <2>3, <2>4 DEF FeaturesInv, Maximizing, Accumulating
  <1>8. CASE Repeating
    BY <1>1, <1>4, <1>8 DEF FeaturesInv, Repeating
  <1> QED BY <1>5, <1>7, <1>8

LEMMA AccumulateKeeps ==
    ASSUME FeaturesInv, Accumulate
    PROVE  FeaturesInv'
  <1>1. /\ pc = "accumulate" /\ k <= numBlocks
        /\ UNCHANGED <<blockingVars, filter, source, labels>> /\ M' = M /\ runs' = runs
    BY DEF Accumulate, Throw, NextBlock, featureVars
  <1>2. \/ k \in DOMAIN accumulators_ /\ pc' = "failed" /\ k' = 0 /\ accumulators_' = accumulators_
        \/ /\ k \notin DOMAIN accumulators_ /\ pc' = "accumulate" /\ k' = k + 1
           /\ accumulators_' = Append(accumulators_, Accumulator(k, M))
    BY <1>1 DEF Accumulate, Throw, NextBlock, featureVars
  <1>3. pc # "tile" /\ pc' # "tile"
    BY <1>1, <1>2
  <1>4. FeaturesState
    BY DEF FeaturesInv
  <1>5. /\ FeaturesState' /\ numBlocks' = numBlocks /\ Values' = Values /\ Image' = Image
        /\ \A i : Accumulator(i, M)' = Accumulator(i, M)
    BY <1>1, <1>3, <1>4, FeaturesStay
  <1>6. numBlocks \in Nat \ {0}
    BY <1>4, MeasuringFacts
  <1>7. Accumulating \/ Repeating
    BY <1>1 DEF FeaturesInv, NotRun, Maximizing, Merging, Measured
  <1>8. CASE Accumulating
    <2> DEFINE X == {Accumulator(i, M) : i \in 1 .. numBlocks}
               a == Accumulator(k, M)
    <2>1. /\ accumulators_ \in Seq(X) /\ Len(accumulators_) = k - 1
          /\ \A i \in 1 .. k - 1 : accumulators_[i] = Accumulator(i, M)
      BY <1>8 DEF Accumulating, AccumulatedUpTo
    <2>2. k \in 1 .. numBlocks /\ k' = k' - 1 + 1
      BY <1>1, <1>2, <1>6, <1>8 DEF Accumulating
    <2>3. a \in X
      BY <2>2
    <2> HIDE DEF X, a
    <2>4. DOMAIN accumulators_ = 1 .. k - 1
      BY <2>1
    <2>5. k \notin DOMAIN accumulators_
      BY <2>2, <2>4
    <2>6. /\ pc' = "accumulate" /\ k' = k + 1 /\ accumulators_' = Append(accumulators_, a)
      BY <1>2, <2>5 DEF a
    <2>7. /\ accumulators_' \in Seq(X) /\ Len(accumulators_') = k
          /\ \A i \in 1 .. k - 1 : accumulators_'[i] = accumulators_[i]
          /\ accumulators_'[k] = a
      BY <2>1, <2>2, <2>3, <2>6
    <2>8. ASSUME NEW i \in 1 .. k PROVE accumulators_'[i] = Accumulator(i, M)
      <3>1. i = k \/ i \in 1 .. k - 1
        BY <2>2
      <3> QED BY <2>1, <2>7, <3>1 DEF a
    <2>9. X' = X
      BY <1>5 DEF X
    <2>10. k' - 1 = k /\ k' \in 1 .. numBlocks' + 1
      BY <1>5, <1>6, <2>2, <2>6
    <2>11. AccumulatedUpTo(k - 1)'
      <3>1. accumulators_' \in Seq(X') /\ Len(accumulators_') = k' - 1
        BY <2>7, <2>9, <2>10
      <3>2. \A i \in 1 .. k' - 1 : accumulators_'[i] = Accumulator(i, M)'
        BY <1>5, <2>8, <2>10
      <3> QED BY <3>1, <3>2 DEF AccumulatedUpTo, X
    <2>12. (NotNegative => LargestIn(Image))'
      BY <1>1, <1>5, <1>8 DEF LargestIn, NotNegative, Accumulating
    <2> QED BY <1>1, <1>5, <1>8, <2>6, <2>10, <2>11, <2>12 DEF FeaturesInv, Accumulating
  <1>9. CASE Repeating
    <2>1. k = 1 /\ DOMAIN accumulators_ = 1 .. numBlocks
      BY <1>1, <1>9 DEF Repeating
    <2>2. k \in DOMAIN accumulators_
      BY <1>6, <2>1
    <2>3. pc' = "failed" /\ k' = 0 /\ accumulators_' = accumulators_
      BY <1>2, <2>2
    <2> QED BY <1>1, <1>5, <1>9, <2>3 DEF FeaturesInv, Repeating
  <1> QED BY <1>7, <1>8, <1>9

(* The regions of the image are those of any of its blocks.                *)
LEMMA RegionsFound ==
    ASSUME FeaturesState, pc # "tile", NotNegative, AccumulatedUpTo(numBlocks)
    PROVE  /\ MaxLabel \in Nat
           /\ Max(UNION {DOMAIN accumulators_[i].regions : i \in 1 .. numBlocks}) = MaxLabel
  <1> DEFINE B(i) == VoxelsOf(block(i))
             L(i) == Max({labels[v] : v \in B(i)})
             all == UNION {DOMAIN accumulators_[i].regions : i \in 1 .. numBlocks}
  <1>1. Measuring /\ Tiling /\ labels \in [Image -> Nat]
    BY DEF FeaturesState, Measuring
  <1>2. /\ IsFiniteSet(Image) /\ Image # {}
        /\ \A i \in 1 .. numBlocks : B(i) \in SUBSET Image /\ B(i) # {}
    BY MeasuringFacts
  <1>3. MaxLabel \in Nat /\ (\E v \in Image : labels[v] = MaxLabel)
        /\ \A v \in Image : labels[v] <= MaxLabel
    <2>1. Image \in SUBSET Image
      OBVIOUS
    <2> QED BY <1>1, <1>2, <2>1, LabelEnds DEF MaxLabel
  <1>4. ASSUME NEW i \in 1 .. numBlocks
        PROVE  /\ L(i) \in Nat /\ (\E v \in B(i) : labels[v] = L(i))
               /\ \A v \in B(i) : labels[v] <= L(i)
    BY <1>1, <1>2, LabelEnds
  <1>5. ASSUME NEW i \in 1 .. numBlocks PROVE DOMAIN accumulators_[i].regions = 0 .. L(i)
    <2>1. accumulators_[i] = Accumulator(i, M)
      BY DEF AccumulatedUpTo
    <2>2. Accumulator(i, M).regions =
             [l \in 0 .. L(i) |-> FeaturesOf(Labelled(B(i), l), Values, Places, M)]
      BY <1>1, AccumulatorIs
    <2> QED BY <2>1, <2>2
  <1> HIDE DEF L
  <1>6. all = UNION {0 .. L(i) : i \in 1 .. numBlocks}
    BY <1>5
  <1>7. MaxLabel \in all
    <2>1. PICK v \in Image : labels[v] = MaxLabel
      BY <1>3
    <2>2. PICK i \in 1 .. numBlocks : v \in B(i)
      BY <1>1, BlocksCover DEF Image
    <2> HIDE DEF B, all
    <2>3. MaxLabel \in 0 .. L(i)
      BY <1>3, <1>4, <2>1, <2>2
    <2> QED BY <1>6, <2>3
  <1>8. all \subseteq Int /\ \A y \in all : y <= MaxLabel
    <2>1. ASSUME NEW i \in 1 .. numBlocks PROVE L(i) <= MaxLabel
      <3>1. PICK v \in B(i) : labels[v] = L(i)
        BY <1>4
      <3>2. v \in Image
        BY <1>2, <3>1
      <3> HIDE DEF B
      <3> QED BY <1>3, <3>1, <3>2
    <2> HIDE DEF all
    <2>2. ASSUME NEW y \in all PROVE y \in Int /\ y <= MaxLabel
      <3>1. PICK i \in 1 .. numBlocks : y \in 0 .. L(i)
        BY <1>6
      <3>2. L(i) \in Nat /\ L(i) <= MaxLabel /\ MaxLabel \in Nat
        BY <1>3, <1>4, <2>1
      <3> QED BY <3>1, <3>2
    <2> QED BY <2>2
  <1> HIDE DEF all
  <1>9. Max(all) = MaxLabel
    BY <1>7, <1>8, MaxUnique
  <1> QED BY <1>3, <1>9 DEF all

LEMMA AccumulatedKeeps ==
    ASSUME FeaturesInv, Accumulated
    PROVE  FeaturesInv'
  <1> DEFINE top == Max(UNION {DOMAIN accumulators_[i].regions : i \in 1 .. numBlocks})
  <1>1. /\ pc = "accumulate" /\ pc' = "mergeFeatures" /\ k > numBlocks /\ k' = 1
        /\ UNCHANGED <<blockingVars, filter, source, labels>> /\ M' = M /\ runs' = runs
        /\ accumulators_' = accumulators_
        /\ merged' = [range |-> M, regions |-> [l \in 0 .. top |-> NoFeatures]]
    BY DEF Accumulated, GoTo
  <1> HIDE DEF top
  <1>2. pc # "tile" /\ pc' # "tile"
    BY <1>1
  <1>3. FeaturesState /\ Tiling
    BY DEF FeaturesInv, FeaturesState, Measuring
  <1>4. /\ FeaturesState' /\ numBlocks' = numBlocks /\ Values' = Values /\ Image' = Image
        /\ Places' = Places /\ MaxLabel' = MaxLabel /\ (\A n : Done(n)' = Done(n))
        /\ (\A S, l : Labelled(S, l)' = Labelled(S, l))
        /\ \A i : Accumulator(i, M)' = Accumulator(i, M)
    BY <1>1, <1>2, <1>3, FeaturesStay
  <1>5. numBlocks \in Nat \ {0}
    BY <1>3, MeasuringFacts
  <1>6. Accumulating
    <2>1. Accumulating \/ Repeating
      BY <1>1 DEF FeaturesInv, NotRun, Maximizing, Merging, Measured
    <2>2. ~Repeating
      BY <1>1, <1>5 DEF Repeating
    <2> QED BY <2>1, <2>2
  <1>7. k - 1 = numBlocks /\ k' - 1 = 0 /\ k' \in 1 .. numBlocks' + 1
    BY <1>1, <1>4, <1>5, <1>6 DEF Accumulating
  <1>8. AccumulatedUpTo(numBlocks) /\ AccumulatedUpTo(numBlocks)'
    <2>1. AccumulatedUpTo(numBlocks)
      BY <1>6, <1>7 DEF Accumulating
    <2> QED BY <1>1, <1>4, <2>1 DEF AccumulatedUpTo
  <1>9. IsMerged'
    BY <1>1 DEF IsMerged
  <1>10. ASSUME NotNegative PROVE LargestIn(Image)' /\ MergedUpTo(k - 1)'
    <2>1. LargestIn(Image)'
      BY <1>1, <1>4, <1>6, <1>10 DEF LargestIn, Accumulating
    <2>2. top = MaxLabel
      BY <1>2, <1>3, <1>8, <1>10, RegionsFound DEF top
    <2>3. \A l : Labelled(Done(0), l) = {}
      <3>1. Done(0) = {}
        BY <1>2, <1>3, DoneFacts
      <3> QED BY <3>1 DEF Labelled
    <2>4. \A l : FeaturesOf(Labelled(Done(0), l), Values, Places, M) = NoFeatures
      BY <2>3, FeaturesOfNone
    <2>5. merged'.regions = [l \in 0 .. MaxLabel |->
                               FeaturesOf(Labelled(Done(0), l), Values, Places, M)]
      BY <1>1, <2>2, <2>4
    <2>6. MergedUpTo(0)'
      <3>1. \A l : Labelled(Done(0), l)' = Labelled(Done(0), l)
        <4>1. Done(0)' = Done(0)
          BY <1>4
        <4> QED BY <1>1, <4>1 DEF Labelled
      <3> QED BY <1>1, <1>4, <2>5, <3>1 DEF MergedUpTo
    <2> QED BY <1>7, <2>1, <2>6
  <1> QED BY <1>1, <1>4, <1>6, <1>7, <1>8, <1>9, <1>10 DEF FeaturesInv, Accumulating, Merging

(* Merging the next accumulator adds its block.                            *)
FeaturesUpTo(n) ==
    [l \in 0 .. MaxLabel |-> FeaturesOf(Labelled(Done(n), l), Values, Places, M)]

Merged(f, other) ==
    [l \in 0 .. MaxLabel |-> IF l \in DOMAIN other THEN Combined(f[l], other[l]) ELSE f[l]]

LEMMA MergedIs ==
    ASSUME FeaturesState, pc # "tile", NotNegative, NEW n \in 1 .. numBlocks
    PROVE  Merged(FeaturesUpTo(n - 1), Accumulator(n, M).regions) = FeaturesUpTo(n)
  <1> DEFINE B == VoxelsOf(block(n))
             L == Max({labels[v] : v \in B})
             F(S, l) == FeaturesOf(Labelled(S, l), Values, Places, M)
             new == FeaturesUpTo(n - 1)
             other == Accumulator(n, M).regions
  <1>1. Measuring /\ Tiling /\ labels \in [Image -> Nat] /\ IsFiniteSet(Image)
    BY MeasuringFacts DEF FeaturesState, Measuring
  <1>2. /\ Done(n) = Done(n - 1) \cup B /\ Done(n - 1) \cap B = {} /\ Done(n - 1) \subseteq Image
        /\ B \in SUBSET Image /\ B # {}
    BY <1>1, DoneFacts, MeasuringFacts
  <1>3. L \in Nat /\ \A v \in B : labels[v] \in Nat /\ labels[v] <= L
    BY <1>1, <1>2, LabelEnds
  <1>4. other = [l \in 0 .. L |-> F(B, l)]
    BY <1>1, AccumulatorIs
  <1> HIDE DEF B, L, new, other
  <1>5. ASSUME NEW l \in 0 .. MaxLabel
        PROVE  (IF l \in DOMAIN other THEN Combined(new[l], other[l]) ELSE new[l]) = F(Done(n), l)
    <2>1. new[l] = F(Done(n - 1), l) /\ l \in Nat
      BY DEF new, FeaturesUpTo
    <2>2. /\ Labelled(Done(n), l) = Labelled(Done(n - 1), l) \cup Labelled(B, l)
          /\ Labelled(Done(n - 1), l) \cap Labelled(B, l) = {}
          /\ Labelled(Done(n - 1), l) \in SUBSET Image /\ Labelled(B, l) \in SUBSET Image
      BY <1>2 DEF Labelled
    <2>3. CASE l \in DOMAIN other
      <3>1. other[l] = F(B, l)
        BY <1>4, <2>3
      <3>2. Featured(Labelled(Done(n - 1), l), Values, Places) /\ Featured(Labelled(B, l), Values, Places)
        BY <1>1, <2>2, ImageFeatured
      <3>3. Combined(F(Done(n - 1), l), F(B, l))
               = FeaturesOf(Labelled(Done(n - 1), l) \cup Labelled(B, l), Values, Places, M)
        BY <2>2, <3>2, FeaturesJoined
      <3> QED BY <2>1, <2>2, <2>3, <3>1, <3>3
    <2>4. CASE l \notin DOMAIN other
      <3>1. ~(l <= L)
        BY <1>3, <1>4, <2>1, <2>4
      <3>2. \A v \in B : labels[v] # l
        BY <1>3, <3>1
      <3>3. Labelled(B, l) = {}
        BY <3>2 DEF Labelled
      <3>4. Labelled(Done(n), l) = Labelled(Done(n - 1), l)
        BY <2>2, <3>3
      <3> QED BY <2>1, <2>4, <3>4
    <2> QED BY <2>3, <2>4
  <1>6. Merged(new, other) = FeaturesUpTo(n)
    BY <1>5 DEF Merged, FeaturesUpTo
  <1> QED BY <1>6 DEF new, other

LEMMA MergeKeeps ==
    ASSUME FeaturesInv, Merge
    PROVE  FeaturesInv'
  <1> DEFINE other == accumulators_[k]
  <1>1. /\ pc = "mergeFeatures" /\ k <= numBlocks
        /\ UNCHANGED <<blockingVars, filter, source, labels>> /\ M' = M /\ runs' = runs
        /\ accumulators_' = accumulators_
    BY DEF Merge, Throw, NextBlock, featureVars
  <1>2. /\ FeaturesState /\ Merging
    BY <1>1 DEF FeaturesInv, NotRun, Maximizing, Accumulating, Measured, Repeating
  <1>3. numBlocks \in Nat \ {0}
    BY <1>2, MeasuringFacts
  <1>4. k \in 1 .. numBlocks
    BY <1>1, <1>2, <1>3 DEF Merging
  <1>5. other = Accumulator(k, M)
    BY <1>2, <1>4 DEF Merging, AccumulatedUpTo
  <1>6. other.range = M
    BY <1>5 DEF Accumulator
  <1>7. merged = [range |-> M, regions |-> merged.regions] /\ merged.range = M
    BY <1>2 DEF Merging, IsMerged
  <1> HIDE DEF other
  <1>8. /\ pc' = pc /\ k' = k + 1
        /\ merged' = [merged EXCEPT !.regions = [l \in DOMAIN @ |->
                        IF l \in DOMAIN other.regions
                        THEN Combined(@[l], other.regions[l]) ELSE @[l]]]
    BY <1>6, <1>7 DEF Merge, NextBlock, other
  <1>9. pc # "tile" /\ pc' # "tile" /\ pc' = "mergeFeatures"
    BY <1>1, <1>8
  <1>10. /\ FeaturesState' /\ numBlocks' = numBlocks /\ Values' = Values /\ Image' = Image
         /\ Places' = Places /\ MaxLabel' = MaxLabel /\ (\A n : Done(n)' = Done(n))
         /\ (\A S, l : Labelled(S, l)' = Labelled(S, l))
         /\ \A i : Accumulator(i, M)' = Accumulator(i, M)
    BY <1>1, <1>2, <1>9, FeaturesStay
  <1>11. k' - 1 = k /\ k' \in 1 .. numBlocks' + 1
    BY <1>3, <1>4, <1>8, <1>10
  <1>12. AccumulatedUpTo(numBlocks)'
    BY <1>1, <1>2, <1>10 DEF AccumulatedUpTo, Merging
  <1> DEFINE old == merged.regions
  <1>13. /\ merged' = [range |-> M, regions |-> merged'.regions]
         /\ merged'.regions = [l \in DOMAIN old |->
                                IF l \in DOMAIN other.regions
                                THEN Combined(old[l], other.regions[l]) ELSE old[l]]
    BY <1>7, <1>8
  <1>14. IsMerged'
    BY <1>1, <1>13 DEF IsMerged
  <1>15. ASSUME NotNegative PROVE LargestIn(Image)' /\ MergedUpTo(k - 1)'
    <2>1. LargestIn(Image) /\ MergedUpTo(k - 1)
      BY <1>2, <1>15 DEF Merging
    <2>2. LargestIn(Image)'
      BY <1>1, <1>10, <2>1 DEF LargestIn
    <2>3. old = [l \in 0 .. MaxLabel |->
                   FeaturesOf(Labelled(Done(k - 1), l), Values, Places, M)]
      BY <2>1 DEF MergedUpTo
    <2>4. DOMAIN old = 0 .. MaxLabel
      BY <2>3
    <2>5. other.regions = Accumulator(k, M).regions
      BY <1>5 DEF other
    <2> HIDE DEF old
    <2>6. merged'.regions = [l \in 0 .. MaxLabel |-> FeaturesOf(Labelled(Done(k), l), Values, Places, M)]
      <3>1. Merged(FeaturesUpTo(k - 1), Accumulator(k, M).regions) = FeaturesUpTo(k)
        BY <1>2, <1>4, <1>9, <1>15, MergedIs
      <3>2. Merged(old, other.regions) = FeaturesUpTo(k)
        BY <2>3, <2>5, <3>1 DEF FeaturesUpTo
      <3>3. merged'.regions = Merged(old, other.regions)
        BY <1>13, <2>4 DEF Merged
      <3> QED BY <3>2, <3>3 DEF FeaturesUpTo
    <2>7. \A l : Labelled(Done(k - 1), l)' = Labelled(Done(k), l)
      <3>1. Done(k - 1)' = Done(k)
        <4>1. Done(k - 1)' = Done(k' - 1)
          BY <1>10
        <4> QED BY <1>11, <4>1
      <3> QED BY <1>1, <3>1 DEF Labelled
    <2>8. MergedUpTo(k - 1)'
      BY <1>1, <1>10, <2>6, <2>7 DEF MergedUpTo
    <2> QED BY <2>2, <2>8
  <1>16. runs' = 1
    BY <1>1, <1>2 DEF Merging
  <1>17. Merging'
    BY <1>9, <1>11, <1>12, <1>14, <1>15, <1>16 DEF Merging
  <1> QED BY <1>10, <1>17 DEF FeaturesInv

LEMMA WriteFeaturesKeeps ==
    ASSUME FeaturesInv, WriteFeatures
    PROVE  FeaturesInv'
  <1>1. /\ pc = "mergeFeatures" /\ k > numBlocks /\ pc' = "done" /\ k' = 0
        /\ UNCHANGED <<blockingVars, filter, source, labels>> /\ M' = M /\ runs' = runs
        /\ accumulators_' = accumulators_ /\ merged' = merged
    BY DEF WriteFeatures, featureVars
  <1>2. FeaturesState /\ Merging
    BY <1>1 DEF FeaturesInv, NotRun, Maximizing, Accumulating, Measured, Repeating
  <1>3. pc # "tile" /\ pc' # "tile"
    BY <1>1
  <1>4. /\ FeaturesState' /\ numBlocks' = numBlocks /\ Values' = Values /\ Image' = Image
        /\ Places' = Places /\ MaxLabel' = MaxLabel /\ (\A n : Done(n)' = Done(n))
    BY <1>1, <1>2, <1>3, FeaturesStay
  <1>5. k - 1 = numBlocks
    BY <1>1, <1>2, MeasuringFacts DEF Merging
  <1>6. DOMAIN accumulators_' = 1 .. numBlocks'
    BY <1>1, <1>2, <1>4, MeasuringFacts DEF Merging, AccumulatedUpTo
  <1>7. ASSUME NotNegative PROVE LargestIn(Image)' /\ MergedUpTo(numBlocks)'
    <2>1. LargestIn(Image) /\ MergedUpTo(numBlocks)
      BY <1>2, <1>5, <1>7 DEF Merging
    <2>2. Done(numBlocks)' = Done(numBlocks)
      BY <1>4
    <2>3. \A l : Labelled(Done(numBlocks), l)' = Labelled(Done(numBlocks), l)
      BY <1>1, <2>2 DEF Labelled
    <2> QED BY <1>1, <1>4, <2>1, <2>3 DEF LargestIn, MergedUpTo
  <1>8. Measured'
    BY <1>1, <1>2, <1>6, <1>7 DEF Measured, Merging
  <1> QED BY <1>4, <1>8 DEF FeaturesInv

(* The constructor's loop.                                                 *)
LEMMA TileFeaturesKeeps ==
    ASSUME FeaturesInv, Tile, UNCHANGED <<filterVars, featureVars>>
    PROVE  FeaturesInv'
  <1>1. UNCHANGED <<roi_, filter, source, labels, k, runs, accumulators_>>
    BY DEF Tile, Carry, Advance, Constructed, blockingVars, filterVars, featureVars
  <1>2. pc = "tile" /\ pc' \in {"tile", "tiled"}
    BY DEF Tile, Carry, Advance, Constructed
  <1>3. FeaturesState /\ NotRun
    BY <1>2 DEF FeaturesInv, Maximizing, Accumulating, Merging, Measured, Repeating
  <1>4. Tiling'
    BY <1>3, TilingStep DEF FeaturesState, Measuring
  <1>5. FeaturesState'
    BY <1>1, <1>3, <1>4 DEF FeaturesState, Measuring, Image, Shape
  <1>6. NotRun'
    BY <1>1, <1>2, <1>3 DEF NotRun
  <1> QED BY <1>5, <1>6 DEF FeaturesInv

LEMMA FeaturesUnchanged ==
    ASSUME FeaturesInv, UNCHANGED allVars
    PROVE  FeaturesInv'
  <1>1. /\ UNCHANGED <<blockingVars, pc, filter, source, labels, k, runs>>
        /\ UNCHANGED <<M, accumulators_, merged>>
    BY DEF allVars, vars, filterVars, featureVars
  <1>2. CASE pc = "tile"
    <2>1. FeaturesState /\ NotRun
      BY <1>2 DEF FeaturesInv, Maximizing, Accumulating, Merging, Measured, Repeating
    <2>2. Tiling'
      <3>1. Tiling
        BY <2>1 DEF FeaturesState, Measuring
      <3> QED BY <1>1, <3>1 DEF Tiling, blockingVars, Shape, InRange, Coord
    <2>3. FeaturesState'
      BY <1>1, <2>1, <2>2 DEF FeaturesState, Measuring, Image, Shape, blockingVars
    <2>4. NotRun'
      BY <1>1, <2>1 DEF NotRun
    <2> QED BY <2>3, <2>4 DEF FeaturesInv
  <1>3. CASE pc # "tile"
    <2>1. FeaturesState /\ pc' # "tile"
      BY <1>1, <1>3 DEF FeaturesInv
    <2>2. /\ FeaturesState' /\ numBlocks' = numBlocks /\ Values' = Values /\ Image' = Image
          /\ Places' = Places /\ MaxLabel' = MaxLabel /\ (\A n : Done(n)' = Done(n))
          /\ \A i : Accumulator(i, M)' = Accumulator(i, M)
      BY <1>1, <1>3, <2>1, FeaturesStay
    <2>3. Done(k - 1)' = Done(k - 1) /\ Done(numBlocks)' = Done(numBlocks)
      BY <1>1, <2>2
    <2>4. /\ (\A l : Labelled(Done(k - 1), l)' = Labelled(Done(k - 1), l))
          /\ \A l : Labelled(Done(numBlocks), l)' = Labelled(Done(numBlocks), l)
      BY <1>1, <2>3 DEF Labelled
    <2>5. /\ LargestIn(Done(k - 1))' = LargestIn(Done(k - 1)) /\ LargestIn(Image)' = LargestIn(Image)
          /\ IsMerged' = IsMerged
      BY <1>1, <2>2, <2>3 DEF LargestIn, IsMerged
    <2>6. MergedUpTo(k - 1)' = MergedUpTo(k - 1) /\ MergedUpTo(numBlocks)' = MergedUpTo(numBlocks)
      BY <1>1, <2>2, <2>4 DEF MergedUpTo
    <2>7. /\ AccumulatedUpTo(k - 1)' = AccumulatedUpTo(k - 1)
          /\ AccumulatedUpTo(numBlocks)' = AccumulatedUpTo(numBlocks)
      BY <1>1, <2>2 DEF AccumulatedUpTo
    <2>8. /\ NotRun => NotRun'
          /\ Maximizing => Maximizing'
          /\ Accumulating => Accumulating'
          /\ Merging => Merging'
          /\ Measured => Measured'
          /\ Repeating => Repeating'
      <3>1. NotRun => NotRun'
        BY <1>1 DEF NotRun
      <3>2. Maximizing => Maximizing'
        BY <1>1, <2>2, <2>5 DEF Maximizing
      <3>3. Accumulating => Accumulating'
        BY <1>1, <2>2, <2>5, <2>7 DEF Accumulating
      <3>4. Merging => Merging'
        BY <1>1, <2>2, <2>5, <2>6, <2>7 DEF Merging
      <3>5. Measured => Measured'
        BY <1>1, <2>2, <2>5, <2>6 DEF Measured
      <3>6. Repeating => Repeating'
        BY <1>1, <2>2 DEF Repeating
      <3> QED BY <3>1, <3>2, <3>3, <3>4, <3>5, <3>6
    <2> QED BY <2>2, <2>8 DEF FeaturesInv
  <1> QED BY <1>2, <1>3

LEMMA FeaturesStep ==
    ASSUME FeaturesInv, [AllNext]_allVars
    PROVE  FeaturesInv'
  <1>1. filter = "RegionFeatures" /\ pc \notin {"run", "cubes"} /\ (k = 1 => pc # "tiled")
    BY DEF FeaturesInv, FeaturesState, NotRun, Maximizing, Accumulating, Merging, Measured, Repeating
  <1>2. CASE Next /\ UNCHANGED featureVars
    <2>1. Tile /\ UNCHANGED filterVars
      BY <1>1, <1>2 DEF Next, SetRoi, TakeNewSink, Filters, Threshold, Resample, SelectChannel,
             ChannelBlocked, ThresholdBlock, SelectBlock, ResampleBlock, NextBlockOf, Finish,
             ReadCubes, ReadCube, CubesRead
    <2> QED BY <1>2, <2>1, TileFeaturesKeeps
  <1>3. CASE UNCHANGED allVars
    BY <1>3, FeaturesUnchanged
  <1> QED BY <1>2, <1>3, RunKeeps, FindMaximumKeeps, MaximumFoundKeeps, AccumulateKeeps,
         AccumulatedKeeps, MergeKeeps, WriteFeaturesKeeps DEF AllNext

LEMMA FeaturesStarts ==
    ASSUME FeaturesInit
    PROVE  FeaturesInv
  <1>1. PICK extent \in {e \in Extents : DOMAIN e = Dim} :
           /\ source \in {[extent |-> extent, roi |-> r] : r \in RoisOf(extent)}
           /\ labels \in LabelImages(sourceShape(source))
           /\ filter = "RegionFeatures"
           /\ Construct([p |-> Origin, q |-> sourceShape(source)], Origin)
           /\ k = 0 /\ runs = 0 /\ accumulators_ = <<>>
    BY DEF FeaturesInit
  <1>2. PICK r \in RoisOf(extent) : source = [extent |-> extent, roi |-> r]
    BY <1>1
  <1>3. IsSource(source) /\ DOMAIN source.extent = Dim
    BY <1>1, <1>2 DEF IsSource
  <1>4. sourceShape(source) \in [Dim -> Nat \ {0}]
    BY <1>3, SourceFacts
  <1>5. IsShape(sourceShape(source)) /\ Shape = sourceShape(source) /\ pc = "tile"
    BY <1>1, <1>4 DEF IsShape, Construct, Shape
  <1>6. Tiling
    BY <1>1, <1>5, TilingStarts
  <1>7. labels \in [VoxelsOf(Region(sourceShape(source))) -> Nat]
    BY <1>1, <1>2, FeaturesAssumption
  <1>8. Image = VoxelsOf(Region(sourceShape(source)))
    BY <1>5, <1>6, TilingState DEF Image
  <1>9. FeaturesState /\ NotRun
    BY <1>1, <1>3, <1>5, <1>6, <1>7, <1>8 DEF FeaturesState, Measuring, NotRun
  <1> QED BY <1>9 DEF FeaturesInv

LEMMA FeaturesAre ==
    ASSUME FeaturesInv
    PROVE  OneRun /\ (NotNegative => FeaturesExact)
  <1>1. OneRun
    BY DEF OneRun, FeaturesInv, NotRun, Maximizing, Accumulating, Merging, Measured, Repeating
  <1>2. ASSUME NotNegative, pc = "done"
        PROVE  merged.regions = [l \in 0 .. MaxLabel |->
                  FeaturesOf(Labelled(Image, l), Values, Places, Max({Values[v] : v \in Image}))]
    <2>1. FeaturesState /\ Measured
      BY <1>2 DEF FeaturesInv, NotRun, Maximizing, Accumulating, Merging, Repeating
    <2>2. LargestIn(Image) /\ MergedUpTo(numBlocks)
      BY <1>2, <2>1 DEF Measured
    <2>3. Done(numBlocks) = Image
      BY <1>2, <2>1, DoneFacts DEF FeaturesState, Measuring
    <2>4. Image # {} /\ \A v \in Image : Values[v] \in Nat
      BY <1>2, <2>1, MeasuringFacts, ImageFeatured DEF FeaturesState
    <2>5. \E v \in Image : Values[v] = M
      BY <2>2, <2>4 DEF LargestIn
    <2>6. Max({Values[v] : v \in Image}) = M
      <3> DEFINE A == {Values[v] : v \in Image}
      <3>1. A \subseteq Int /\ M \in A /\ \A y \in A : y <= M
        BY <2>2, <2>4, <2>5 DEF LargestIn
      <3> HIDE DEF A
      <3>2. Max(A) = M
        BY <3>1, MaxUnique
      <3> QED BY <3>2 DEF A
    <2> QED BY <2>2, <2>3, <2>6 DEF MergedUpTo
  <1>3. ASSUME NotNegative PROVE FeaturesExact
    BY <1>2, <1>3 DEF FeaturesExact, MaxLabel, Image, Values, Places, Labelled
  <1> QED BY <1>1, <1>3

------------------------------------------------------------------------------
(* The invariant of whatever object there is.                              *)
IInv == runs \in 0 .. MaxRuns /\ (FilterInv \/ CubesInv \/ FeaturesInv)

LEMMA Invariance == AllSpec => []IInv
  <1>1. ASSUME AllInit PROVE IInv
    <2>1. runs = 0
      BY <1>1 DEF AllInit, Init, FilterInit, CubeInit, FeaturesInit
    <2>2. 0 \in 0 .. MaxRuns
      BY FilterAssumption
    <2>3. CubeInit => CubesInv
      BY DEF CubeInit, CubesInv, NotBlocked
    <2> QED BY <1>1, <2>1, <2>2, <2>3, FilterStarts, FeaturesStarts DEF AllInit, Init, IInv
  <1>2. ASSUME IInv, [AllNext]_allVars PROVE IInv'
    <2>1. runs' = runs \/ (runs' = runs + 1 /\ runs < MaxRuns)
      <3>1. CASE UNCHANGED allVars
        BY <3>1 DEF allVars, vars, filterVars
      <3>2. CASE Next
        <4>1. Tile /\ UNCHANGED filterVars => runs' = runs
          BY DEF filterVars
        <4>2. SetRoi \/ TakeNewSink => runs' = runs
          BY DEF SetRoi, TakeNewSink
        <4>3. Threshold \/ Resample \/ SelectChannel \/ ReadCubes
                 => runs' = runs + 1 /\ runs < MaxRuns
          BY DEF Threshold, Resample, SelectChannel, ReadCubes, Idle
        <4>4. ChannelBlocked \/ Finish \/ CubesRead => runs' = runs
          BY DEF ChannelBlocked, Finish, CubesRead
        <4>5. ThresholdBlock \/ SelectBlock => runs' = runs
          BY DEF ThresholdBlock, SelectBlock, Process, Throw
        <4>6. ResampleBlock => runs' = runs
          BY DEF ResampleBlock, Process, Throw
        <4>7. ReadCube => runs' = runs
          BY DEF ReadCube, Throw, filterVars
        <4> QED BY <3>2, <4>1, <4>2, <4>3, <4>4, <4>5, <4>6, <4>7 DEF Next
      <3>3. CASE Run
        BY <3>3 DEF Run, Idle
      <3>4. FindMaximum \/ MaximumFound \/ Accumulate \/ Accumulated \/ Merge \/ WriteFeatures
               => runs' = runs
        BY DEF FindMaximum, MaximumFound, Accumulate, Accumulated, Merge, WriteFeatures,
               NextBlock, GoTo, Throw
      <3> QED BY <1>2, <3>1, <3>2, <3>3, <3>4 DEF AllNext
    <2>2. runs' \in 0 .. MaxRuns
      BY <1>2, <2>1, FilterAssumption DEF IInv
    <2> QED BY <1>2, <2>2, FilterStep, CubesStep, FeaturesStep DEF IInv
  <1> QED BY <1>1, <1>2, PTL DEF AllSpec

------------------------------------------------------------------------------
(* The shape of the state.                                                 *)

(* A dataset has the extent that can be read off its voxels.               *)
LEMMA ExtentOfVoxels ==
    ASSUME NEW s, IsShape(s)
    PROVE  s = [d \in Dim |-> 1 + Max({v[d] : v \in VoxelsOf(Region(s))})]
  <1> DEFINE last == [d \in Dim |-> s[d] - 1]
  <1>1. s \in Ints(Dim) /\ \A d \in Dim : s[d] \in Nat \ {0}
    BY DEF IsShape, Ints
  <1>2. \A v : v \in VoxelsOf(Region(s)) <=> v \in Ints(Dim) /\ \A d \in Dim : 0 <= v[d] /\ v[d] < s[d]
    BY <1>1, ExtentMember
  <1>3. last \in VoxelsOf(Region(s))
    <2>1. last \in Ints(Dim) /\ \A d \in Dim : 0 <= last[d] /\ last[d] < s[d]
      BY <1>1 DEF Ints
    <2> HIDE DEF last
    <2> QED BY <1>2, <2>1
  <1>4. ASSUME NEW d \in Dim PROVE 1 + Max({v[d] : v \in VoxelsOf(Region(s))}) = s[d]
    <2> DEFINE A == {v[d] : v \in VoxelsOf(Region(s))}
               m == s[d] - 1
    <2>1. m \in A
      BY <1>3
    <2>2. \A v \in VoxelsOf(Region(s)) : v[d] \in Int /\ v[d] <= m
      <3> TAKE v \in VoxelsOf(Region(s))
      <3>1. v[d] \in Int /\ v[d] < s[d] /\ s[d] \in Int
        BY <1>1, <1>2 DEF Ints
      <3> QED BY <3>1
    <2>3. A \subseteq Int /\ \A y \in A : y <= m
      BY <2>2
    <2> HIDE DEF A, m
    <2>4. Max(A) = m
      BY <2>1, <2>3, MaxUnique
    <2> QED BY <1>1, <2>4 DEF A, m
  <1> HIDE DEF last
  <1>5. s = [d \in Dim |-> s[d]]
    BY <1>1 DEF Ints
  <1> QED BY <1>4, <1>5

(* Type correctness: a run has a filter of its class, a next block and a   *)
(* sink that knows the result's shape, a source selects a region of its    *)
(* dataset, and the dataset that a sink writes has all of its voxels.      *)
THEOREM TypeCorrect == AllSpec => []TypeOK
  <1>1. ASSUME IInv PROVE TypeOK
    <2>1. runs \in 0 .. MaxRuns
      BY <1>1 DEF IInv
    <2>2. ASSUME pc = "run"
          PROVE  /\ k \in 1 .. numBlocks + 1 /\ sink.shape \in [Dim -> Nat \ {0}]
                 /\ k > 1 => sink.fileCreated
      <3>1. FilterInv /\ Processing
        BY <1>1, <2>2 DEF IInv, FilterInv, CubesInv, FeaturesInv, Waiting, Selecting,
               NotRun, Maximizing, Accumulating, Merging, Measured, Repeating
      <3> QED BY <3>1 DEF Processing, IsShape
    <2>3. ASSUME pc = "cubes" PROVE k \in 1 .. Cardinality(cubes(args)) + 1
      <3>1. CubesInv
        BY <1>1, <2>3 DEF IInv, FilterInv, FeaturesInv, Waiting, Selecting, Processing,
               NotRun, Maximizing, Accumulating, Merging, Measured, Repeating
      <3> QED BY <2>3, <3>1 DEF CubesInv, CubeRead
    <2>4. ASSUME filter \in Filters
          PROVE  /\ source.roi \in RoisOf(source.extent)
                 /\ sink.fileCreated => DOMAIN dataset = VoxelsOf(Region([d \in Dim |->
                       1 + Max({v[d] : v \in DOMAIN dataset})]))
      <3>1. FilterInv
        <4>1. ~CubesInv /\ ~FeaturesInv
          BY <2>4 DEF CubesInv, FeaturesInv, FeaturesState, Filters
        <4> QED BY <1>1, <4>1 DEF IInv
      <3>2. ASSUME sink.fileCreated
            PROVE  DOMAIN dataset = VoxelsOf(Region([d \in Dim |->
                       1 + Max({v[d] : v \in DOMAIN dataset})]))
        <4>1. PICK s : IsShape(s) /\ DOMAIN dataset = VoxelsOf(Region(s))
          BY <3>1, <3>2 DEF FilterInv, IsSink
        <4>2. s = [d \in Dim |-> 1 + Max({v[d] : v \in DOMAIN dataset})]
          BY <4>1, ExtentOfVoxels
        <4> QED BY <4>1, <4>2
      <3> QED BY <3>1, <3>2 DEF FilterInv, IsSource
    <2> QED BY <2>1, <2>2, <2>3, <2>4 DEF TypeOK
  <1> QED BY <1>1, Invariance, PTL

------------------------------------------------------------------------------
(* The results.                                                            *)

(* All blocks are processed when a run is complete.                        *)
LEMMA AllProcessed ==
    ASSUME IInv, NEW class \in Filters, Completed(class)
    PROVE  /\ Tiling /\ pc = "run" /\ filter = class /\ ArgsFor(class, source, args, Shape)
           /\ \A i \in 1 .. numBlocks : Processed(i)
  <1>1. pc = "run" /\ filter = class /\ k > numBlocks
    BY DEF Completed
  <1>2. FilterInv /\ Processing /\ Tiling
    BY <1>1 DEF IInv, FilterInv, CubesInv, FeaturesInv, FeaturesState, Filters, Waiting, Selecting
  <1>3. k - 1 = numBlocks
    BY <1>1, <1>2, TilingState DEF Processing
  <1> QED BY <1>1, <1>2, <1>3 DEF Processing

(* A completed run of Thresholding::run or ChannelSelector::run has put    *)
(* every voxel of the selected region, whichever block it lies in, through *)
(* the threshold of this run or taken it from the selected channel.        *)
THEOREM FiltersAreExact == AllSpec => []FilterExact
  <1>1. ASSUME IInv PROVE FilterExact
    <2>1. ASSUME Completed("Thresholding"), NEW v \in VoxelsOf(roi_)
          PROVE  dataset[v] = IF View(v) > args.threshold THEN args.ifHigher ELSE args.ifLower
      <3>1. /\ Tiling /\ pc # "tile" /\ filter = "Thresholding"
            /\ \A i \in 1 .. numBlocks : Processed(i)
        BY <1>1, <2>1, AllProcessed DEF Filters
      <3>2. PICK i \in 1 .. numBlocks : v \in VoxelsOf(block(i))
        BY <3>1, BlocksCover
      <3>3. RightFor(filter, source, args, roi_, v, dataset[v])
        BY <3>1, <3>2 DEF Processed, TargetFor
      <3> QED BY <3>1, <3>3 DEF RightFor, View
    <2>2. ASSUME Completed("ChannelSelector"), NEW v \in VoxelsOf(roi_)
          PROVE  dataset[v] = View(WithAxis(v, args.dim, args.channel))
      <3>1. /\ Tiling /\ pc # "tile" /\ filter = "ChannelSelector"
            /\ \A i \in 1 .. numBlocks : Processed(i)
        BY <1>1, <2>2, AllProcessed DEF Filters
      <3>2. PICK i \in 1 .. numBlocks : v \in VoxelsOf(block(i))
        BY <3>1, BlocksCover
      <3>3. RightFor(filter, source, args, roi_, v, dataset[v])
        BY <3>1, <3>2 DEF Processed, TargetFor
      <3> QED BY <3>1, <3>3 DEF RightFor, View
    <2> QED BY <2>1, <2>2 DEF FilterExact
  <1> QED BY <1>1, Invariance, PTL

(* A completed ResampleImage::run by 1 / s has put at every voxel v a      *)
(* source voxel less than s before s * v in each dimension, and the one at *)
(* s * v where the block shape is a multiple of s, however the corners of  *)
(* the blocks and their shapes are rounded.                                *)
THEOREM ResampledIsNear == AllSpec => []ResampleNear
  <1>1. ASSUME IInv PROVE ResampleNear
    <2> DEFINE s == stride(args)
               Near(v) == {w \in VoxelsOf(roi_) :
                              \A d \in Dim : /\ s * v[d] - w[d] \in 0 .. s - 1
                                             /\ BlockShape[d] % s = 0 => w[d] = s * v[d]}
    <2>1. ASSUME Completed("ResampleImage"), args.num = 1,
                 NEW v \in VoxelsOf(Region(Scaled(roi_.q, args)))
          PROVE  dataset[v] \in {View(w) : w \in Near(v)}
      <3>1. /\ Tiling /\ pc # "tile" /\ filter = "ResampleImage" /\ IsFactor(args)
            /\ \A i \in 1 .. numBlocks : Processed(i)
        BY <1>1, <2>1, AllProcessed DEF Filters, ArgsFor
      <3>2. PICK i \in 1 .. numBlocks : v \in VoxelsOf(ResampledRoi(block(i), args))
        BY <2>1, <3>1, ResampledCover DEF Shape
      <3>3. RightFor(filter, source, args, roi_, v, dataset[v])
        BY <3>1, <3>2 DEF Processed, TargetFor
      <3>4. PICK w \in VoxelsOf(roi_) :
               /\ \A d \in Dim : NearAxis(s, v[d], w[d], BlockShape[d] % s = 0)
               /\ dataset[v] = Pixel(Add(w, source.roi.p))
        BY <2>1, <3>1, <3>3 DEF RightFor
      <3>5. w \in Near(v)
        BY <3>4 DEF NearAxis
      <3>6. dataset[v] = View(w)
        BY <3>4 DEF View
      <3> HIDE DEF Near
      <3> QED BY <3>5, <3>6
    <2> QED BY <2>1 DEF ResampleNear
  <1> QED BY <1>1, Invariance, PTL

(* No run of a filter fails but for another region of the source, a sink   *)
(* that has written a result of another shape, or a factor that the block  *)
(* shape does not fit.                                                     *)
THEOREM FailuresAreExplained == AllSpec => []FailureExplained
  <1>1. IInv => FailureExplained
    BY DEF IInv, FilterInv, CubesInv, FeaturesInv, FeaturesState, FailureExplained, Filters
  <1> QED BY <1>1, Invariance, PTL

(* Of data in which every stored voxel has a value of its own, and none    *)
(* that of an unwritten one, SourceKnossos::readBlock reads exactly those  *)
(* regions right that in every dimension start with a cube and end before  *)
(* its last voxel; its copies leave the block for no such region, and only *)
(* a cube without a file makes it fail.                                    *)
THEOREM KnossosReads == ASSUME PixelsDiffer PROVE AllSpec => []KnossosExact
  <1>1. ASSUME IInv PROVE KnossosExact
    <2>1. filter # "SourceKnossos" => KnossosExact
      BY DEF KnossosExact
    <2>2. filter = "SourceKnossos" => CubesInv
      BY <1>1 DEF IInv, FilterInv, FeaturesInv, FeaturesState, Filters
    <2> QED BY <2>1, <2>2, CubesKnossos
  <1> QED BY <1>1, Invariance, PTL

(* The first RegionFeatures::run never fails, and no later one completes:  *)
(* nothing clears accumulators_.                                           *)
THEOREM FeaturesRunOnce == AllSpec => []OneRun
  <1>1. ASSUME IInv PROVE OneRun
    <2>1. filter # "RegionFeatures" => OneRun
      BY DEF OneRun
    <2>2. filter = "RegionFeatures" => FeaturesInv
      BY <1>1 DEF IInv, FilterInv, CubesInv, Filters
    <2> QED BY <2>1, <2>2, FeaturesAre
  <1> QED BY <1>1, Invariance, PTL

(* The features that RegionFeatures::run writes are those of one pass over *)
(* the image, for every region however it is cut into blocks, and every    *)
(* value: count, sum, extrema, histogram over the range of the whole image *)
(* and center.  Values must not be negative: histograms begin at 0.        *)
THEOREM FeaturesAreExact == ASSUME NotNegative PROVE AllSpec => []FeaturesExact
  <1>1. ASSUME IInv PROVE FeaturesExact
    <2>1. filter # "RegionFeatures" => FeaturesExact
      BY DEF FeaturesExact
    <2>2. filter = "RegionFeatures" => FeaturesInv
      BY <1>1 DEF IInv, FilterInv, CubesInv, Filters
    <2> QED BY <2>1, <2>2, FeaturesAre
  <1> QED BY <1>1, Invariance, PTL
=============================================================================
