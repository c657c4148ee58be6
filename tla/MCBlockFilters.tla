--------------------------- MODULE MCBlockFilters ---------------------------
(* Images of up to 24 voxels in blocks of 2 x 3, images of three          *)
(* dimensions to select a channel from, and cubes of 3 x 3 voxels.           *)
EXTENDS RegionFeatures

Vec(a, b)       == [d \in 0 .. 1 |-> IF d = 0 THEN a ELSE b]
Vec3(a, b, c)   == [d \in 0 .. 2 |-> IF d = 0 THEN a ELSE IF d = 1 THEN b ELSE c]

MCBlockShape == Vec(2, 3)
MCBoundary   == Vec(5, 6)
MCExtents    == {Vec(5, 4), Vec(4, 6), Vec(2, 7), Vec(1, 3), Vec3(3, 2, 4), Vec3(2, 5, 1)}
MCRois       == {[p |-> Vec(1, 0), q |-> Vec(4, 4)], [p |-> Vec(1, 2), q |-> Vec(6, 6)],
                 [p |-> Vec3(1, 0, 1), q |-> Vec3(3, 2, 5)],
                 [p |-> Vec3(0, 1, 0), q |-> Vec3(2, 2, 4)]}
MCFactors    == {[num |-> 1, den |-> d] : d \in 1 .. 3} \cup {[num |-> 2, den |-> d] : d \in {1, 3}}
MCCubeRois   == {r \in [p : {Vec(a, b) : a, b \in 0 .. 4}, q : {Vec(a, b) : a, b \in 1 .. 7}] :
                    \A d \in Dim : r.p[d] < r.q[d]}

(* A voxel of its own value for every coordinate below 8.                    *)
Scan(v) == 8 - v[0] + 8 * v[1] + (IF 2 \in DOMAIN v THEN 64 * v[2] ELSE 0)

(* Labels 0, 1 and 3 in stripes, rows of five that repeat.                   *)
Stripes(s) == {[v \in VoxelsOf(Region(s)) |-> row[(v[0] + turn * v[1]) % 5]] :
                  row \in [0 .. 4 -> {0, 1, 3}], turn \in 0 .. 2}
==============================================================================
