--------------------------------- MODULE Roi ---------------------------------
(***************************************************************************)
(* Regions of interest [p, q) of any number of dimensions                  *)
(* (include/bw/roi.h): a record of two functions on the dimensions, which  *)
(* are numbered from 0.                                                    *)
(***************************************************************************)
EXTENDS Integers

Smaller(m, n) == IF m < n THEN m ELSE n
Larger(m, n)  == IF m > n THEN m ELSE n

Add(u, v)      == [d \in DOMAIN u |-> u[d] + v[d]]
Subtract(u, v) == [d \in DOMAIN u |-> u[d] - v[d]]

(* The region that Roi() constructs, in the dimensions of r.               *)
EmptyRoi(dims) == [p |-> [d \in dims |-> 0], q |-> [d \in dims |-> 0]]

shape(r)     == Subtract(r.q, r.p)
shift(r, by) == [p |-> Add(r.p, by), q |-> Add(r.q, by)]

(* p.intersect(q, out) for a fresh out: the tests of a dimension follow    *)
(* its assignments, and the dimensions after the first one that fails are  *)
(* left as they were.                                                      *)
intersect(r, s) ==
    LET low(d)  == Larger(r.p[d], s.p[d])
        high(d) == Smaller(r.q[d], s.q[d])
        fails(d) == \/ low(d) >= r.q[d] \/ low(d) >= s.q[d]
                    \/ high(d) < r.p[d] \/ high(d) < s.p[d]
        Written(d) == ~ \E e \in DOMAIN r.p : e < d /\ fails(e)
    IN  [meets |-> ~ \E d \in DOMAIN r.p : fails(d),
         out   |-> [p |-> [d \in DOMAIN r.p |-> IF Written(d) THEN low(d) ELSE 0],
                    q |-> [d \in DOMAIN r.p |-> IF Written(d) THEN high(d) ELSE 0]]]

(* A vector with coordinate c put in as dimension dim, and without it.     *)
WithAxis(v, dim, c) ==
    [d \in DOMAIN v \cup {dim} \cup {e + 1 : e \in DOMAIN v} |->
        IF d < dim THEN v[d] ELSE IF d = dim THEN c ELSE v[d - 1]]

WithoutAxis(v, dim) ==
    [d \in {e \in DOMAIN v : e + 1 \in DOMAIN v} |->
        IF d < dim THEN v[d] ELSE v[d + 1]]

insertAxisBefore(r, dim, from, to) ==
    [p |-> WithAxis(r.p, dim, from), q |-> WithAxis(r.q, dim, to)]
==============================================================================
