------------------------ MODULE BlockGeometryProofs ------------------------
(***************************************************************************)
(* How regions, blocks and voxels fit together, for every number of        *)
(* dimensions and every block shape.                                       *)
(***************************************************************************)
EXTENDS BlockGeometry, FiniteSetTheorems, Sequences, TLAPS

IntVectors == [Dim -> Int]

(* A region [p, q) of the array: it starts at or after the origin and has  *)
(* at least one voxel.                                                     *)
IsRegion(p, q) ==
    /\ p \in Vectors /\ q \in Vectors
    /\ \A d \in Dim : p[d] < q[d]

------------------------------------------------------------------------------
(* Integer division.                                                       *)

LEMMA DivMod ==
    ASSUME NEW x \in Int, NEW b \in Nat \ {0}
    PROVE  /\ x \div b \in Int /\ x % b \in 0 .. b - 1
           /\ x = b * (x \div b) + (x % b)
  BY SMT

LEMMA DivUnique ==
    ASSUME NEW x \in Int, NEW b \in Nat \ {0}, NEW k \in Int,
           b * k <= x, x < b * (k + 1)
    PROVE  x \div b = k /\ x % b = x - b * k
  BY SMT

LEMMA MulMono ==
    ASSUME NEW b \in Nat \ {0}, NEW j \in Int, NEW k \in Int
    PROVE  /\ b * (k + 1) = b * k + b /\ b * j \in Int
           /\ j <= k => b * j <= b * k
           /\ b * j < b * k => j < k
  BY SMT

------------------------------------------------------------------------------
(* A set of integers between two bounds has a least and a greatest member: *)
(* the intervals that end at its members are finite, so that one of them   *)
(* contains no other.                                                      *)
LEMMA LeastMember ==
    ASSUME NEW a \in Int, NEW b \in Int, NEW S, S \subseteq a .. b, S # {}
    PROVE  \E m \in S : \A k \in S : m <= k
  <1> DEFINE upTo == {a .. d : d \in S}
  <1>1. IsWellFoundedOn(StrictSubsetOrdering(a .. b), FiniteSubsetsOf(a .. b))
    BY FS_StrictSubsetOrderingWellFounded
  <1>2. upTo \subseteq FiniteSubsetsOf(a .. b) /\ upTo # {}
    <2>1. \A d \in a .. b : a .. d \subseteq a .. b /\ d \in Int
      OBVIOUS
    <2>2. \A d \in Int : IsFiniteSet(a .. d)
      BY FS_Interval
    <2> QED BY <2>1, <2>2 DEF FiniteSubsetsOf
  <1>3. PICK least \in upTo : \A r \in upTo : <<r, least>> \notin StrictSubsetOrdering(a .. b)
    <2> HIDE DEF upTo
    <2> QED BY <1>1, <1>2, WFMin
  <1>4. PICK m \in S : least = a .. m
    BY <1>3
  <1>5. ASSUME NEW k \in S, k < m PROVE FALSE
    <2>1. a .. k \in upTo /\ <<a .. k, a .. m>> \notin StrictSubsetOrdering(a .. b)
      BY <1>3, <1>4
    <2>2. m \in a .. m /\ m \notin a .. k /\ a .. k \subseteq a .. m /\ a .. m \subseteq a .. b
      BY <1>5
    <2> QED BY <2>1, <2>2 DEF StrictSubsetOrdering
  <1> QED BY <1>5

LEMMA GreatestMember ==
    ASSUME NEW a \in Int, NEW b \in Int, NEW S, S \subseteq a .. b, S # {}
    PROVE  \E m \in S : \A k \in S : k <= m
  <1> DEFINE T == {-k : k \in S}
  <1>1. T \subseteq -b .. -a /\ T # {} /\ -a \in Int /\ -b \in Int
    OBVIOUS
  <1>2. PICK n \in T : \A k \in T : n <= k
    <2> HIDE DEF T
    <2> QED BY <1>1, LeastMember
  <1>3. PICK m \in S : n = -m
    BY <1>2
  <1>4. ASSUME NEW k \in S PROVE k <= m
    <2>1. -m <= -k
      BY <1>2, <1>3
    <2>2. k \in Int /\ m \in Int
      OBVIOUS
    <2> QED BY <2>1, <2>2
  <1> QED BY <1>4

------------------------------------------------------------------------------
(* Induction and recursion.  Both are stated with sets, so that the facts  *)
(* to be proved are those of the members of Good.                          *)

LEMMA NatSetInduction ==
    ASSUME NEW Good, 0 \in Good, \A n \in Nat : n # 0 /\ n - 1 \in Good => n \in Good
    PROVE  Nat \subseteq Good
  <1> SUFFICES ASSUME NEW b \in Nat, b \notin Good PROVE FALSE
    OBVIOUS
  <1> DEFINE low == 0
             Bad == {n \in low .. b : n \notin Good}
  <1>1. low \in Int /\ b \in Int /\ Bad \subseteq low .. b /\ b \in Bad
    OBVIOUS
  <1>2. PICK m \in Bad : \A n \in Bad : m <= n
    <2>1. Bad # {}
      BY <1>1
    <2> HIDE DEF Bad, low
    <2> QED BY <1>1, <2>1, LeastMember
  <1>3. m \in Nat /\ m # 0 /\ m - 1 \in low .. b /\ ~(m <= m - 1)
    BY <1>2
  <1> QED BY <1>2, <1>3

(* A set, without the element that a fold takes first.                     *)
Rest(s) == s \ {CHOOSE e \in s : TRUE}

LEMMA SubsetInduction ==
    ASSUME NEW S, IsFiniteSet(S), NEW Good, {} \in Good,
           \A s \in SUBSET S : s # {} /\ Rest(s) \in Good => s \in Good
    PROVE  SUBSET S \subseteq Good
  <1> DEFINE Bad == (SUBSET S) \ Good
  <1> SUFFICES ASSUME Bad # {} PROVE FALSE
    OBVIOUS
  <1>1. IsWellFoundedOn(StrictSubsetOrdering(S), SUBSET S)
    BY FS_StrictSubsetOrderingWellFounded, FS_FiniteSubsetsOfFinite
  <1>2. PICK s \in Bad : \A r \in Bad : <<r, s>> \notin StrictSubsetOrdering(S)
    <2>1. Bad \subseteq SUBSET S
      OBVIOUS
    <2> HIDE DEF Bad
    <2> QED BY <1>1, <2>1, WFMin
  <1>3. s # {} /\ Rest(s) \subseteq s /\ Rest(s) # s
    BY <1>2 DEF Rest
  <1> QED BY <1>2, <1>3 DEF StrictSubsetOrdering

(* The steps of pred lead to root from everywhere in D.                    *)
Inductive(D, root, pred) ==
    \A Good : root \in Good /\ (\A s \in D : s # root /\ pred[s] \in Good => s \in Good)
              => D \subseteq Good

(* f has the value base at root, and is computed by op from a step on.     *)
Follows(f, D, root, pred, base, op) ==
    f[root] = base /\ \A s \in D : s # root => f[s] = op[<<s, f[pred[s]]>>]

(* Then a function is defined by its value at root and its values after a  *)
(* step: the least relation that contains both is one.                     *)
LEMMA RecursionExists ==
    ASSUME NEW D, NEW root \in D, NEW pred \in [D -> D], NEW T, NEW base \in T,
           NEW op \in [D \X T -> T], Inductive(D, root, pred)
    PROVE  \E f \in [D -> T] : Follows(f, D, root, pred, base, op)
  <1> DEFINE Holds(X) == /\ <<root, base>> \in X
                         /\ \A s \in D, t \in T : s # root /\ <<pred[s], t>> \in X =>
                               <<s, op[<<s, t>>]>> \in X
             Least == {e \in D \X T : \A X \in SUBSET (D \X T) : Holds(X) => e \in X}
             Values(s) == {t \in T : <<s, t>> \in Least}
             f == [s \in D |-> CHOOSE t \in T : <<s, t>> \in Least]
             Good == {s \in D : \E t \in T : Values(s) = {t}}
  <1>1. \A s \in D, t \in T : pred[s] \in D /\ <<s, t>> \in D \X T /\ op[<<s, t>>] \in T
    OBVIOUS
  <1>2. Holds(Least)
    <2>1. <<root, base>> \in Least
      BY <1>1
    <2>2. ASSUME NEW s \in D, NEW t \in T, s # root, <<pred[s], t>> \in Least
          PROVE  <<s, op[<<s, t>>]>> \in Least
      <3>1. <<s, op[<<s, t>>]>> \in D \X T
        BY <1>1
      <3>2. ASSUME NEW X \in SUBSET (D \X T), Holds(X) PROVE <<s, op[<<s, t>>]>> \in X
        BY <2>2, <3>2
      <3> QED BY <3>1, <3>2
    <2> QED BY <2>1, <2>2
  <1>3. ASSUME NEW e \in Least, Holds(Least \ {e}) PROVE FALSE
    <2>1. Least \ {e} \in SUBSET (D \X T)
      OBVIOUS
    <2>2. e \in Least \ {e}
      BY <1>3, <2>1
    <2> QED BY <2>2
  <1>4. Values(root) = {base}
    <2>1. base \in Values(root)
      BY <1>2
    <2>2. ASSUME NEW t \in Values(root), t # base PROVE FALSE
      <3> DEFINE X == Least \ {<<root, t>>}
      <3>1. <<root, base>> \in X
        BY <1>2, <2>2
      <3>2. ASSUME NEW s \in D, NEW u \in T, s # root, <<pred[s], u>> \in X
            PROVE  <<s, op[<<s, u>>]>> \in X
        BY <1>2, <3>2
      <3>3. Holds(X) /\ <<root, t>> \in Least
        BY <3>1, <3>2
      <3> QED BY <1>3, <3>3
    <2> QED BY <2>1, <2>2
  <1>5. ASSUME NEW s \in D, s # root, NEW t \in T, Values(pred[s]) = {t}
        PROVE  Values(s) = {op[<<s, t>>]}
    <2>1. op[<<s, t>>] \in Values(s)
      BY <1>1, <1>2, <1>5
    <2>2. ASSUME NEW u \in Values(s), u # op[<<s, t>>] PROVE FALSE
      <3> DEFINE X == Least \ {<<s, u>>}
      <3>1. <<root, base>> \in X
        BY <1>2, <1>5
      <3>2. ASSUME NEW r \in D, NEW w \in T, r # root, <<pred[r], w>> \in X
            PROVE  <<r, op[<<r, w>>]>> \in X
        <4>1. <<r, op[<<r, w>>]>> \in Least
          BY <1>2, <3>2
        <4>2. r = s => w = t
          <5>1. <<pred[r], w>> \in Least /\ w \in Values(pred[r])
            BY <3>2
          <5> QED BY <1>5, <5>1
        <4> QED BY <2>2, <4>1, <4>2
      <3>3. Holds(X) /\ <<s, u>> \in Least
        BY <3>1, <3>2
      <3> QED BY <1>3, <3>3
    <2> HIDE DEF Least
    <2> QED BY <2>1, <2>2
  <1>6. D \subseteq Good
    <2>1. root \in Good
      BY <1>4
    <2>2. ASSUME NEW s \in D, s # root, pred[s] \in Good PROVE s \in Good
      <3>1. PICK t \in T : Values(pred[s]) = {t}
        BY <2>2
      <3>2. Values(s) = {op[<<s, t>>]} /\ op[<<s, t>>] \in T
        BY <1>1, <1>5, <2>2, <3>1
      <3> QED BY <3>2
    <2> HIDE DEF Good
    <2> QED BY <2>1, <2>2 DEF Inductive
  <1>7. \A s \in D : f[s] \in T /\ Values(s) = {f[s]}
    <2> SUFFICES ASSUME NEW s \in D PROVE f[s] \in T /\ Values(s) = {f[s]}
      OBVIOUS
    <2>1. PICK t \in T : Values(s) = {t}
      BY <1>6
    <2>2. \A u \in T : <<s, u>> \in Least <=> u = t
      BY <2>1
    <2> HIDE DEF Least
    <2>3. f[s] = t
      BY <2>2
    <2> QED BY <2>1, <2>3
  <1>8. f \in [D -> T] /\ f[root] = base
    <2>1. f \in [D -> T]
      BY <1>7
    <2> HIDE DEF f, Values
    <2> QED BY <1>4, <1>7, <2>1
  <1>9. ASSUME NEW s \in D, s # root PROVE f[s] = op[<<s, f[pred[s]]>>]
    <2> HIDE DEF f, Values
    <2>1. Values(pred[s]) = {f[pred[s]]} /\ f[pred[s]] \in T
      BY <1>1, <1>7
    <2>2. Values(s) = {f[s]} /\ Values(s) = {op[<<s, f[pred[s]]>>]}
      BY <1>5, <1>7, <1>9, <2>1
    <2> QED BY <2>2
  <1> HIDE DEF f
  <1> QED BY <1>8, <1>9 DEF Follows

(* The two recursions in use: over the natural numbers, and over the       *)
(* subsets of a finite set as in a fold.                                   *)
LEMMA NatRecursion ==
    ASSUME NEW T, NEW base \in T, NEW op \in [Nat \X T -> T]
    PROVE  \E f \in [Nat -> T] :
              f[0] = base /\ \A n \in Nat : n # 0 => f[n] = op[<<n, f[n - 1]>>]
  <1> DEFINE pred == [n \in Nat |-> IF n = 0 THEN 0 ELSE n - 1]
             root == 0
  <1>1. pred \in [Nat -> Nat] /\ root \in Nat
    OBVIOUS
  <1>2. Inductive(Nat, root, pred)
    <2>1. ASSUME NEW Good, root \in Good,
                 \A n \in Nat : n # root /\ pred[n] \in Good => n \in Good
          PROVE  Nat \subseteq Good
      BY <2>1, NatSetInduction
    <2> HIDE DEF pred, root
    <2> QED BY <2>1 DEF Inductive
  <1>3. \A n \in Nat : n # 0 => pred[n] = n - 1
    OBVIOUS
  <1> HIDE DEF pred
  <1>4. \E f \in [Nat -> T] : Follows(f, Nat, root, pred, base, op)
    <2> HIDE DEF root
    <2> QED BY <1>1, <1>2, RecursionExists
  <1> QED BY <1>3, <1>4 DEF Follows

(* A fold over the elements of S is such a function of the subsets of S.   *)
FoldExists(S, T, base, step) ==
    \E f \in [SUBSET S -> T] :
        /\ f[{}] = base
        /\ \A s \in SUBSET S :
              s # {} => f[s] = step[<<CHOOSE e \in s : TRUE, f[Rest(s)]>>]

LEMMA SubsetRecursion ==
    ASSUME NEW S, IsFiniteSet(S), NEW T, NEW base \in T, NEW step \in [S \X T -> T]
    PROVE  FoldExists(S, T, base, step)
  <1> DEFINE pred == [s \in SUBSET S |-> Rest(s)]
             root == {}
             D    == SUBSET S
             Step(st) == IF st[1] = {} THEN base ELSE step[<<CHOOSE e \in st[1] : TRUE, st[2]>>]
             op   == [st \in D \X T |-> Step(st)]
  <1>1. pred \in [D -> D] /\ root \in D /\ \A s \in D : pred[s] = Rest(s)
    BY DEF Rest
  <1>2. Inductive(D, root, pred)
    <2>1. ASSUME NEW Good, root \in Good,
                 \A s \in D : s # root /\ pred[s] \in Good => s \in Good
          PROVE  D \subseteq Good
      BY <1>1, <2>1, SubsetInduction
    <2> HIDE DEF pred, root
    <2> QED BY <2>1 DEF Inductive
  <1>3. op \in [D \X T -> T]
    <2>1. ASSUME NEW st \in D \X T PROVE Step(st) \in T
      <3>1. st[1] # {} => <<CHOOSE e \in st[1] : TRUE, st[2]>> \in S \X T
        OBVIOUS
      <3>2. \A et \in S \X T : step[et] \in T
        OBVIOUS
      <3> QED BY <3>1, <3>2
    <2> HIDE DEF D, Step
    <2> QED BY <2>1
  <1>4. ASSUME NEW s \in D, s # {}, NEW t \in T
        PROVE  op[<<s, t>>] = step[<<CHOOSE e \in s : TRUE, t>>]
    <2>1. op[<<s, t>>] = Step(<<s, t>>)
      <3> HIDE DEF D, Step
      <3> QED OBVIOUS
    <2> QED BY <1>4, <2>1
  <1> HIDE DEF pred, D, op, Step
  <1>5. PICK f \in [D -> T] : Follows(f, D, root, pred, base, op)
    <2> HIDE DEF root
    <2> QED BY <1>1, <1>2, <1>3, RecursionExists
  <1>6. f[{}] = base
    BY <1>5 DEF Follows
  <1>7. ASSUME NEW s \in D, s # {}
        PROVE  f[s] = step[<<CHOOSE e \in s : TRUE, f[Rest(s)]>>]
    <2>1. Rest(s) \in D /\ pred[s] = Rest(s)
      BY <1>1 DEF Rest, D
    <2>2. f[s] = op[<<s, f[Rest(s)]>>] /\ f[Rest(s)] \in T
      BY <1>5, <1>7, <2>1 DEF Follows
    <2> QED BY <1>4, <1>7, <2>2
  <1> QED BY <1>5, <1>6, <1>7 DEF D, FoldExists

------------------------------------------------------------------------------
(* The scan order.                                                         *)

(* Two different vectors differ in a first dimension.                      *)
LEMMA BeforeTotal ==
    ASSUME NEW u \in Vectors, NEW v \in Vectors
    PROVE  u = v \/ Before(u, v) \/ Before(v, u)
  <1> DEFINE differ == {d \in Dim : u[d] # v[d]}
  <1>1. differ = {} => u = v
    BY DEF Vectors
  <1>2. ASSUME differ # {} PROVE Before(u, v) \/ Before(v, u)
    <2>1. PICK d \in differ : \A e \in differ : d <= e
      <3>1. differ \subseteq Dim
        OBVIOUS
      <3> DEFINE last == N - 1
      <3>2. 0 \in Int /\ last \in Int /\ differ \subseteq 0 .. last
        BY <3>1, GeometryAssumption DEF Dim
      <3> HIDE DEF differ, last
      <3> QED BY <1>2, <3>2, LeastMember
    <2>2. d \in Dim /\ u[d] # v[d] /\ u[d] \in Nat /\ v[d] \in Nat
      BY <2>1 DEF Vectors
    <2>3. \A e \in 0 .. d - 1 : e \in Dim /\ ~(d <= e)
      BY <2>2, GeometryAssumption DEF Dim
    <2>4. \A e \in 0 .. d - 1 : u[e] = v[e]
      BY <2>1, <2>3
    <2> QED BY <2>2, <2>4 DEF Before
  <1> QED BY <1>1, <1>2

LEMMA BeforeOrders ==
    ASSUME NEW u \in Vectors, NEW v \in Vectors
    PROVE  /\ ~Before(u, u)
           /\ ~(Before(u, v) /\ Before(v, u))
           /\ \A w \in Vectors : Before(u, v) /\ Before(v, w) => Before(u, w)
  <1>1. \A d \in Dim : u[d] \in Nat /\ v[d] \in Nat
    BY DEF Vectors
  <1>2. \A d, e \in Dim : d < e => d \in 0 .. e - 1
    BY GeometryAssumption DEF Dim
  <1>3. \A d, e \in Dim : d < e \/ d = e \/ e < d
    BY GeometryAssumption DEF Dim
  <1>4. ~Before(u, u)
    BY <1>1 DEF Before
  <1>5. ASSUME Before(u, v), Before(v, u) PROVE FALSE
    <2>1. PICK d \in Dim : u[d] < v[d] /\ \A e \in 0 .. d - 1 : u[e] = v[e]
      BY <1>5 DEF Before
    <2>2. PICK e \in Dim : v[e] < u[e] /\ \A k \in 0 .. e - 1 : v[k] = u[k]
      BY <1>5 DEF Before
    <2> QED BY <1>1, <1>2, <1>3, <2>1, <2>2
  <1>6. ASSUME NEW w \in Vectors, Before(u, v), Before(v, w) PROVE Before(u, w)
    <2>1. PICK d \in Dim : u[d] < v[d] /\ \A e \in 0 .. d - 1 : u[e] = v[e]
      BY <1>6 DEF Before
    <2>2. PICK e \in Dim : v[e] < w[e] /\ \A k \in 0 .. e - 1 : v[k] = w[k]
      BY <1>6 DEF Before
    <2>3. \A k \in Dim : w[k] \in Nat
      BY DEF Vectors
    <2>4. CASE d < e
      <3>1. v[d] = w[d] /\ \A k \in 0 .. d - 1 : k \in 0 .. e - 1
        BY <1>2, <2>2, <2>4, GeometryAssumption DEF Dim
      <3>2. u[d] < w[d] /\ \A k \in 0 .. d - 1 : u[k] = w[k]
        BY <2>1, <2>2, <3>1
      <3> QED BY <3>2 DEF Before
    <2>5. CASE d = e
      <3>1. u[d] < w[d]
        BY <1>1, <2>1, <2>2, <2>3, <2>5
      <3>2. \A k \in 0 .. d - 1 : u[k] = w[k]
        BY <2>1, <2>2, <2>5
      <3> QED BY <3>1, <3>2 DEF Before
    <2>6. CASE e < d
      <3>1. u[e] = v[e] /\ \A k \in 0 .. e - 1 : k \in 0 .. d - 1
        BY <1>2, <2>1, <2>6, GeometryAssumption DEF Dim
      <3>2. u[e] < w[e] /\ \A k \in 0 .. e - 1 : u[k] = w[k]
        BY <2>1, <2>2, <3>1
      <3> QED BY <3>2 DEF Before
    <2> QED BY <1>3, <2>4, <2>5, <2>6
  <1> QED BY <1>4, <1>5, <1>6

(* Any set of blocks has a first one: among the blocks that agree with all *)
(* the others up to some dimension or are before them, take one for which  *)
(* that dimension is greatest.                                             *)
LEMMA FirstInOrder ==
    ASSUME NEW S, S \subseteq Vectors, S # {}
    PROVE  \E c \in S : \A e \in S \ {c} : Before(c, e)
  <1> DEFINE Agree(c, e, k) == \A d \in 0 .. k - 1 : c[d] = e[d]
             First(c, k)    == \A e \in S : Agree(c, e, k) \/ Before(c, e)
             K              == {k \in 0 .. N : \E c \in S : First(c, k)}
  <1>1. N \in Nat /\ Dim = 0 .. N - 1 /\ \A c \in S, d \in Dim : c[d] \in Nat
    BY GeometryAssumption DEF Dim, Vectors
  <1>2. 0 \in K
    <2>1. \A c, e : Agree(c, e, 0)
      OBVIOUS
    <2> QED BY <1>1, <2>1
  <1>3. PICK m \in K : \A k \in K : k <= m
    <2> DEFINE low == 0
    <2>1. K \subseteq low .. N
      OBVIOUS
    <2>2. low \in Int /\ N \in Int /\ K # {}
      <3> HIDE DEF K
      <3> QED BY <1>1, <1>2
    <2> HIDE DEF K, low
    <2> QED BY <2>1, <2>2, GreatestMember
  <1>4. PICK c \in S : First(c, m)
    BY <1>3
  <1>5. m = N
    <2> SUFFICES ASSUME m < N PROVE FALSE
      BY <1>1, <1>3
    <2>1. m \in Dim /\ m \in Nat /\ m + 1 \in 0 .. N /\ m + 1 > m
      BY <1>1, <1>3
    <2> DEFINE T == {e[m] : e \in {f \in S : Agree(c, f, m)}} \cap 0 .. c[m]
    <2>2. PICK b \in S : /\ Agree(c, b, m)
                         /\ \A e \in S : Agree(c, e, m) => b[m] <= e[m]
      <3>1. Agree(c, c, m) /\ c[m] \in Nat
        BY <1>1, <2>1
      <3> DEFINE low  == 0
                 high == c[m]
      <3>2. low \in Int /\ high \in Int /\ T \subseteq low .. high /\ T # {}
        BY <3>1
      <3>3. PICK l \in T : \A k \in T : l <= k
        <4> HIDE DEF T, low, high
        <4> QED BY <3>2, LeastMember
      <3>4. PICK b \in S : Agree(c, b, m) /\ b[m] = l
        BY <3>3
      <3>5. ASSUME NEW e \in S, Agree(c, e, m) PROVE b[m] <= e[m]
        <4>1. e[m] \in Nat /\ l <= c[m] /\ l \in Nat
          BY <1>1, <2>1, <3>3
        <4>2. e[m] <= c[m] => e[m] \in T
          BY <3>1, <3>5, <4>1
        <4> HIDE DEF T, Agree
        <4> QED BY <3>1, <3>3, <3>4, <4>1, <4>2
      <3> QED BY <3>4, <3>5
    <2>3. ASSUME NEW e \in S PROVE Agree(b, e, m + 1) \/ Before(b, e)
      <3>1. CASE Agree(c, e, m)
        <4>1. Agree(b, e, m) /\ b[m] <= e[m] /\ b[m] \in Nat /\ e[m] \in Nat
          BY <1>1, <2>1, <2>2, <3>1
        <4>2. CASE b[m] = e[m]
          <5>1. \A d \in 0 .. m + 1 - 1 : d = m \/ d \in 0 .. m - 1
            BY <2>1
          <5> QED BY <4>1, <4>2, <5>1
        <4>3. CASE b[m] < e[m]
          BY <2>1, <4>1, <4>3 DEF Before
        <4> QED BY <4>1, <4>2, <4>3
      <3>2. CASE ~Agree(c, e, m)
        <4>1. PICK d \in Dim : c[d] < e[d] /\ \A k \in 0 .. d - 1 : c[k] = e[k]
          BY <1>4, <3>2 DEF Before
        <4>2. d < m
          <5> SUFFICES ASSUME ~(d < m) PROVE FALSE
            OBVIOUS
          <5>1. \A k \in 0 .. m - 1 : k \in 0 .. d - 1
            BY <1>1, <2>1
          <5> QED BY <3>2, <4>1, <5>1
        <4>3. d \in 0 .. m - 1 /\ \A k \in 0 .. d - 1 : k \in 0 .. m - 1
          BY <1>1, <2>1, <4>2
        <4>4. b[d] < e[d] /\ \A k \in 0 .. d - 1 : b[k] = e[k]
          BY <2>2, <4>1, <4>3
        <4> QED BY <4>4 DEF Before
      <3> QED BY <3>1, <3>2
    <2>4. m + 1 \in K
      <3> HIDE DEF Agree
      <3> QED BY <2>1, <2>3
    <2> QED BY <1>3, <2>1, <2>4
  <1>6. ASSUME NEW e \in S \ {c} PROVE Before(c, e)
    <2>1. Agree(c, e, N) => c = e
      BY <1>1 DEF Vectors
    <2> QED BY <1>4, <1>5, <1>6, <2>1
  <1> QED BY <1>6

------------------------------------------------------------------------------
LEMMA BoxMember ==
    ASSUME NEW p \in IntVectors, NEW q \in IntVectors, NEW v
    PROVE  v \in Box(p, q) <=> v \in IntVectors /\ InRoi(v, p, q)
  <1>1. Coordinates(p, q) \subseteq Int
    BY DEF Coordinates, IntVectors
  <1>2. ASSUME v \in IntVectors, InRoi(v, p, q) PROVE v \in [Dim -> Coordinates(p, q)]
    <2>1. ASSUME NEW d \in Dim PROVE v[d] \in Coordinates(p, q)
      <3>1. v[d] \in p[d] .. q[d] - 1
        BY <1>2 DEF InRoi, IntVectors
      <3> QED BY <3>1 DEF Coordinates
    <2> QED BY <1>2, <2>1 DEF IntVectors
  <1> QED BY <1>1, <1>2 DEF Box, IntVectors

LEMMA FiniteBox ==
    ASSUME NEW p \in IntVectors, NEW q \in IntVectors
    PROVE  IsFiniteSet(Box(p, q))
  <1> DEFINE intervals == {p[d] .. q[d] - 1 : d \in Dim}
             C == Coordinates(p, q)
             box == Box(p, q)
             graph == [v \in box |-> {<<d, v[d]>> : d \in Dim}]
  <1>1. IsFiniteSet(Dim)
    BY FS_Interval, GeometryAssumption DEF Dim
  <1>2. IsFiniteSet(C)
    <2>1. [d \in Dim |-> p[d] .. q[d] - 1] \in Surjection(Dim, intervals)
      BY DEF Surjection
    <2>2. IsFiniteSet(intervals)
      BY <1>1, <2>1, FS_Surjection
    <2>3. \A i \in intervals : IsFiniteSet(i)
      BY FS_Interval DEF IntVectors
    <2>4. IsFiniteSet(UNION intervals)
      BY <2>2, <2>3, FS_UNION
    <2> QED BY <2>4 DEF Coordinates
  <1>3. IsFiniteSet(SUBSET (Dim \X C))
    BY <1>1, <1>2, FS_Product, FS_SUBSET
  <1>4. graph \in Injection(box, SUBSET (Dim \X C))
    <2>1. \A v \in box : v \in [Dim -> C]
      BY DEF Box
    <2> HIDE DEF box, C
    <2>2. graph \in [box -> SUBSET (Dim \X C)]
      BY <2>1
    <2>3. ASSUME NEW v \in box, NEW w \in box, graph[v] = graph[w] PROVE v = w
      <3>1. ASSUME NEW d \in Dim PROVE v[d] = w[d]
        <4>1. <<d, v[d]>> \in graph[w]
          BY <2>3
        <4> QED BY <4>1
      <3> QED BY <2>1, <3>1
    <2> QED BY <2>2, <2>3 DEF Injection, IsInjective
  <1> QED BY <1>3, <1>4, FS_Injection

LEMMA ShapeType ==
    /\ Origin \in Vectors /\ BlockShape \in Vectors
    /\ Vectors \subseteq IntVectors
    /\ \A d \in Dim : BlockShape[d] \in Nat \ {0} /\ Origin[d] = 0
  BY GeometryAssumption DEF Origin, Vectors, IntVectors

LEMMA CellMember ==
    ASSUME NEW c
    PROVE  c \in Cell <=> /\ c \in Vectors
                          /\ \A d \in Dim : c[d] < BlockShape[d]
  <1>1. c \in Cell <=> c \in IntVectors /\ InRoi(c, Origin, BlockShape)
    BY BoxMember, ShapeType DEF Cell
  <1>2. ASSUME c \in IntVectors, InRoi(c, Origin, BlockShape) PROVE c \in Vectors
    BY <1>2, ShapeType DEF IntVectors, Vectors, InRoi
  <1> QED BY <1>1, <1>2, ShapeType DEF InRoi, Vectors, IntVectors

------------------------------------------------------------------------------
(* Voxels correspond one to one to a block and a cell of it.               *)

LEMMA QuotientNat ==
    ASSUME NEW a \in Nat, NEW b \in Nat \ {0}
    PROVE  Quotient(a, b) = a \div b /\ a \div b \in Nat
  <1>1. a \div b \in Int /\ a = b * (a \div b) + (a % b) /\ a % b \in 0 .. b - 1
    BY DivMod
  <1>2. a \div b >= 0
    BY <1>1, MulMono, SMT
  <1> QED BY <1>1, <1>2 DEF Quotient

LEMMA QuotientSplits ==
    ASSUME NEW x \in Nat, NEW b \in Nat \ {0}
    PROVE  /\ Quotient(x, b) \in Nat
           /\ x % b \in Nat /\ x % b < b
           /\ b * Quotient(x, b) + (x % b) = x
  <1>1. Quotient(x, b) = x \div b /\ x \div b \in Nat
    BY QuotientNat
  <1>2. x % b \in 0 .. b - 1 /\ x = b * (x \div b) + (x % b)
    BY SMT
  <1> QED BY <1>1, <1>2

LEMMA QuotientUnique ==
    ASSUME NEW b \in Nat \ {0}, NEW k \in Nat, NEW r \in Nat, r < b
    PROVE  /\ b * k + r \in Nat
           /\ Quotient(b * k + r, b) = k
           /\ (b * k + r) % b = r
  <1> DEFINE x == b * k + r
  <1>1. b * k \in Nat /\ b * (k + 1) = b * k + b
    BY SMT
  <1>2. x \in Nat /\ b * k <= x /\ x < b * (k + 1) /\ x - b * k = r
    BY <1>1
  <1> HIDE DEF x
  <1>3. x \div b = k /\ x % b = x - b * k
    BY <1>2, DivUnique
  <1>4. Quotient(x, b) = k /\ x % b = r
    BY <1>2, <1>3, QuotientNat
  <1> QED BY <1>2, <1>4 DEF x

LEMMA BlockOfVoxel ==
    ASSUME NEW v \in Vectors
    PROVE  /\ blockGivenCoordinateP(v) \in Vectors
           /\ pBlock(v) \in Cell
           /\ Voxel(blockGivenCoordinateP(v), pBlock(v)) = v
  <1>1. ASSUME NEW d \in Dim
        PROVE  /\ Quotient(v[d], BlockShape[d]) \in Nat
               /\ v[d] % BlockShape[d] \in Nat /\ v[d] % BlockShape[d] < BlockShape[d]
               /\ BlockShape[d] * Quotient(v[d], BlockShape[d])
                     + (v[d] % BlockShape[d]) = v[d]
    <2>1. v[d] \in Nat /\ BlockShape[d] \in Nat \ {0}
      BY ShapeType DEF Vectors
    <2> DEFINE x == v[d]
               b == BlockShape[d]
    <2> HIDE DEF x, b
    <2>2. /\ Quotient(x, b) \in Nat
          /\ x % b \in Nat /\ x % b < b
          /\ b * Quotient(x, b) + (x % b) = x
      BY <2>1, QuotientSplits DEF x, b
    <2> QED BY <2>2 DEF x, b
  <1>2. pBlock(v) \in Cell
    BY <1>1, CellMember, ShapeType DEF pBlock, Vectors
  <1>3. Voxel(blockGivenCoordinateP(v), pBlock(v)) = v
    BY <1>1 DEF Voxel, Plus, blockBounds, blockGivenCoordinateP, pBlock, Vectors
  <1> QED BY <1>1, <1>2, <1>3 DEF blockGivenCoordinateP, Vectors

LEMMA VoxelOfCell ==
    ASSUME NEW c \in Vectors, NEW cell \in Cell
    PROVE  /\ Voxel(c, cell) \in Vectors
           /\ blockGivenCoordinateP(Voxel(c, cell)) = c
           /\ pBlock(Voxel(c, cell)) = cell
  <1>1. ASSUME NEW d \in Dim
        PROVE  LET x == BlockShape[d] * c[d] + cell[d]
               IN  x \in Nat /\ Quotient(x, BlockShape[d]) = c[d]
                             /\ x % BlockShape[d] = cell[d]
    <2>1. /\ BlockShape[d] \in Nat \ {0} /\ c[d] \in Nat
          /\ cell[d] \in Nat /\ cell[d] < BlockShape[d]
      BY ShapeType, CellMember DEF Vectors
    <2> QED BY <2>1, QuotientUnique
  <1>2. Voxel(c, cell) = [d \in Dim |-> BlockShape[d] * c[d] + cell[d]]
    BY DEF Voxel, Plus, blockBounds
  <1>3. cell \in Vectors
    BY CellMember
  <1> QED
    BY <1>1, <1>2, <1>3 DEF blockGivenCoordinateP, pBlock, Vectors

------------------------------------------------------------------------------
(* One dimension of compute(): b, c, p and q are the entries of blockShape_, *)
(* *it_, r.p and r.q.                                                      *)

LEMMA RangeInOneDimension ==
    ASSUME NEW b \in Nat \ {0}, NEW p \in Nat, NEW q \in Nat, p < q, NEW c \in Int
    PROVE  /\ Quotient(p, b) <= c /\ c < Quotient(q - 1, b) + 1
                 <=> b * c < q /\ p < b * (c + 1)
           /\ Quotient(p, b) <= c => c \in Nat
  <1>1. q - 1 \in Nat
    OBVIOUS
  <1>2. /\ Quotient(p, b) = p \div b /\ p \div b \in Nat
        /\ Quotient(q - 1, b) = (q - 1) \div b /\ (q - 1) \div b \in Nat
    BY <1>1, QuotientNat
  <1>3. /\ p = b * (p \div b) + (p % b) /\ p % b \in 0 .. b - 1
        /\ q - 1 = b * ((q - 1) \div b) + ((q - 1) % b) /\ (q - 1) % b \in 0 .. b - 1
    BY <1>1, DivMod
  <1>4. p \div b <= c <=> p < b * (c + 1)
    <2>1. p \div b <= c => b * (p \div b) <= b * c
      BY <1>2, MulMono
    <2>2. b * (p \div b) < b * (c + 1) => p \div b < c + 1
      BY <1>2, MulMono
    <2>3. b * (c + 1) = b * c + b /\ b * c \in Int /\ b * (p \div b) \in Int
      BY <1>2, MulMono
    <2> QED BY <1>2, <1>3, <2>1, <2>2, <2>3
  <1>5. c <= (q - 1) \div b <=> b * c < q
    <2>1. c <= (q - 1) \div b => b * c <= b * ((q - 1) \div b)
      BY <1>2, MulMono
    <2>2. b * c < b * ((q - 1) \div b + 1) => c < (q - 1) \div b + 1
      BY <1>2, MulMono
    <2>3. /\ b * ((q - 1) \div b + 1) = b * ((q - 1) \div b) + b
          /\ b * c \in Int /\ b * ((q - 1) \div b) \in Int
      BY <1>2, MulMono
    <2> QED BY <1>2, <1>3, <2>1, <2>2, <2>3
  <1> QED BY <1>2, <1>4, <1>5

LowerIn(b, c, p) == IF b * c <= p /\ p < b * (c + 1) THEN p % b ELSE 0
UpperIn(b, c, q) == IF q > b * c /\ q < b * (c + 1) THEN q % b ELSE b
From(b, c, p) ==
    LET d == c - Quotient(p, b)
    IN  (IF d >= 1 THEN b - (p % b) ELSE 0) + (IF d >= 2 THEN (d - 1) * b ELSE 0)

LEMMA RoisInOneDimension ==
    ASSUME NEW b \in Nat \ {0}, NEW p \in Nat, NEW q \in Nat, NEW c \in Nat,
           b * c < q, p < b * (c + 1)
    PROVE  /\ LowerIn(b, c, p) = IF b * c <= p THEN p - b * c ELSE 0
           /\ UpperIn(b, c, q) = IF q < b * (c + 1) THEN q - b * c ELSE b
           /\ LowerIn(b, c, p) \in Nat /\ UpperIn(b, c, q) \in Nat
           /\ From(b, c, p) \in Nat
           /\ p + From(b, c, p) = b * c + LowerIn(b, c, p)
  <1> DEFINE first  == b * c
             last   == b * (c + 1)
             k      == Quotient(p, b)
  <1>1. first \in Nat /\ last = first + b
    BY SMT
  <1>2. /\ k \in Nat /\ b * k \in Nat
        /\ p % b \in Nat /\ p % b < b
        /\ b * k + (p % b) = p
    <2>1. k \in Nat /\ p % b \in Nat /\ p % b < b /\ b * k + (p % b) = p
      BY QuotientSplits
    <2> HIDE DEF k
    <2>2. b * k \in Nat
      BY <2>1, SMT
    <2> QED BY <2>1, <2>2
  <1>3. ASSUME first <= p PROVE p % b = p - first /\ k = c
    <2>1. p \div b = c /\ p % b = p - b * c
      BY <1>3, SMT
    <2> QED BY <2>1, QuotientNat
  <1>4. ASSUME q < last PROVE q % b = q - first
    <2>1. q \div b = c /\ q % b = q - b * c
      BY <1>4, SMT
    <2> QED BY <2>1
  <1>5. ASSUME first > p PROVE c - k >= 1 /\ b * (c - k) = first - b * k
    <2> HIDE DEF k
    <2>1. k < c
      BY <1>2, <1>5, MulMono
    <2>2. b * (c - k) = first - b * k
      BY <1>2, SMT
    <2> QED BY <1>2, <2>1, <2>2
  <1>6. ASSUME first > p PROVE (c - k - 1) * b = first - b * k - b
    <2> HIDE DEF k
    <2> QED BY <1>2, SMT
  <1> HIDE DEF first, last, k
  <1>7. CASE first <= p
    BY <1>1, <1>2, <1>3, <1>4, <1>7 DEF first, last, k, LowerIn, UpperIn, From
  <1>8. CASE first > p
    BY <1>1, <1>2, <1>4, <1>5, <1>6, <1>8 DEF first, last, k, LowerIn, UpperIn, From
  <1> QED BY <1>1, <1>7, <1>8

------------------------------------------------------------------------------
(* The blocks of an iteration, and the regions computed for each.          *)

LEMMA VisitedBlocks ==
    ASSUME NEW p, NEW q, IsRegion(p, q), NEW c
    PROVE  c \in BlocksInRange(p, q) <=>
               /\ c \in Vectors
               /\ \A d \in Dim : /\ BlockShape[d] * c[d] < q[d]
                                 /\ p[d] < BlockShape[d] * (c[d] + 1)
  <1>1. ASSUME NEW d \in Dim
        PROVE  /\ BlockShape[d] \in Nat \ {0}
               /\ p[d] \in Nat /\ q[d] \in Nat /\ p[d] < q[d] /\ q[d] - 1 \in Nat
               /\ Quotient(p[d], BlockShape[d]) \in Nat
               /\ Quotient(q[d] - 1, BlockShape[d]) \in Nat
    <2>1. /\ BlockShape[d] \in Nat \ {0}
          /\ p[d] \in Nat /\ q[d] \in Nat /\ p[d] < q[d] /\ q[d] - 1 \in Nat
      BY ShapeType DEF IsRegion, Vectors
    <2>2. \A a \in Nat, b \in Nat \ {0} : Quotient(a, b) \in Nat
      BY QuotientSplits
    <2> QED BY <2>1, <2>2
  <1>2. /\ blockGivenCoordinateP(p) \in IntVectors
        /\ blockGivenCoordinateQ(q) \in IntVectors
    BY <1>1 DEF blockGivenCoordinateP, blockGivenCoordinateQ, IntVectors
  <1>3. c \in BlocksInRange(p, q) <=>
            /\ c \in IntVectors
            /\ \A d \in Dim : /\ Quotient(p[d], BlockShape[d]) <= c[d]
                              /\ c[d] < Quotient(q[d] - 1, BlockShape[d]) + 1
    BY <1>2, BoxMember
       DEF BlocksInRange, InRoi, blockGivenCoordinateP, blockGivenCoordinateQ
  <1>4. ASSUME c \in IntVectors, NEW d \in Dim
        PROVE  /\ /\ Quotient(p[d], BlockShape[d]) <= c[d]
                  /\ c[d] < Quotient(q[d] - 1, BlockShape[d]) + 1
                  <=> /\ BlockShape[d] * c[d] < q[d]
                      /\ p[d] < BlockShape[d] * (c[d] + 1)
               /\ Quotient(p[d], BlockShape[d]) <= c[d] => c[d] \in Nat
    <2>1. c[d] \in Int
      BY <1>4 DEF IntVectors
    <2> QED BY <1>1, <2>1, RangeInOneDimension
  <1>5. Vectors \subseteq IntVectors
    BY ShapeType
  <1> QED BY <1>3, <1>4, <1>5 DEF IntVectors, Vectors

LEMMA ComputedRois ==
    ASSUME NEW p, NEW q, IsRegion(p, q), NEW c \in BlocksInRange(p, q)
    PROVE  LET w == WithinBlock(c, p, q)
               r == ReadRoi(c, p, q)
               b == blockBounds(c)
           IN  /\ c \in Vectors /\ b.p \in Vectors /\ b.q = Plus(b.p, BlockShape)
               /\ w.p \in Vectors /\ w.q \in Vectors
               /\ w.p = [d \in Dim |-> IF b.p[d] <= p[d] THEN p[d] - b.p[d] ELSE 0]
               /\ w.q = [d \in Dim |-> IF q[d] < b.q[d] THEN q[d] - b.p[d]
                                                        ELSE BlockShape[d]]
               /\ r.p \in Vectors /\ r.q = Plus(r.p, Minus(w.q, w.p))
               /\ Plus(p, r.p) = Voxel(c, w.p)
  <1> DEFINE w == WithinBlock(c, p, q)
             r == ReadRoi(c, p, q)
             b == blockBounds(c)
  <1>1. c \in Vectors /\ \A d \in Dim : /\ BlockShape[d] * c[d] < q[d]
                                        /\ p[d] < BlockShape[d] * (c[d] + 1)
    BY VisitedBlocks
  <1>2. ASSUME NEW d \in Dim
        PROVE  /\ b.p[d] \in Nat /\ b.q[d] = b.p[d] + BlockShape[d]
               /\ w.p[d] = IF b.p[d] <= p[d] THEN p[d] - b.p[d] ELSE 0
               /\ w.q[d] = IF q[d] < b.q[d] THEN q[d] - b.p[d] ELSE BlockShape[d]
               /\ w.p[d] \in Nat /\ w.q[d] \in Nat
               /\ r.p[d] \in Nat /\ p[d] + r.p[d] = b.p[d] + w.p[d]
    <2>1. /\ BlockShape[d] \in Nat \ {0} /\ p[d] \in Nat /\ q[d] \in Nat
          /\ c[d] \in Nat /\ BlockShape[d] * c[d] < q[d]
          /\ p[d] < BlockShape[d] * (c[d] + 1)
      BY <1>1, ShapeType DEF IsRegion, Vectors
    <2>2. b.p[d] = BlockShape[d] * c[d] /\ b.q[d] = BlockShape[d] * (c[d] + 1)
      BY DEF blockBounds
    <2>3. b.p[d] \in Nat /\ b.q[d] = b.p[d] + BlockShape[d]
      <3>1. \A m \in Nat \ {0}, n \in Nat : m * n \in Nat /\ m * (n + 1) = m * n + m
        BY SMT
      <3> QED BY <2>1, <2>2, <3>1
    <2>4. /\ w.p[d] = LowerIn(BlockShape[d], c[d], p[d])
          /\ w.q[d] = UpperIn(BlockShape[d], c[d], q[d])
          /\ r.p[d] = From(BlockShape[d], c[d], p[d])
      BY DEF WithinBlock, ReadRoi, blockBounds, blockGivenCoordinateP,
             LowerIn, UpperIn, From
    <2>5. /\ w.p[d] = IF b.p[d] <= p[d] THEN p[d] - b.p[d] ELSE 0
          /\ w.q[d] = IF q[d] < b.q[d] THEN q[d] - b.p[d] ELSE BlockShape[d]
          /\ w.p[d] \in Nat /\ w.q[d] \in Nat
          /\ r.p[d] \in Nat /\ p[d] + r.p[d] = b.p[d] + w.p[d]
      <3> DEFINE s == BlockShape[d]
                 k == c[d]
                 m == p[d]
                 n == q[d]
      <3> HIDE DEF w, r, b, s, k, m, n
      <3>1. /\ LowerIn(s, k, m) = IF s * k <= m THEN m - s * k ELSE 0
            /\ UpperIn(s, k, n) = IF n < s * (k + 1) THEN n - s * k ELSE s
            /\ LowerIn(s, k, m) \in Nat /\ UpperIn(s, k, n) \in Nat
            /\ From(s, k, m) \in Nat
            /\ m + From(s, k, m) = s * k + LowerIn(s, k, m)
        BY <2>1, RoisInOneDimension DEF s, k, m, n
      <3> QED BY <2>2, <2>4, <3>1 DEF s, k, m, n
    <2> QED BY <2>3, <2>5
  <1>3. /\ b.p = [d \in Dim |-> b.p[d]] /\ b.q = [d \in Dim |-> b.q[d]]
        /\ w.p = [d \in Dim |-> w.p[d]] /\ w.q = [d \in Dim |-> w.q[d]]
        /\ r.p = [d \in Dim |-> r.p[d]] /\ r.q = Plus(r.p, Minus(w.q, w.p))
    BY DEF blockBounds, WithinBlock, ReadRoi
  <1> HIDE DEF w, r, b
  <1>4. /\ b.p \in Vectors /\ w.p \in Vectors /\ w.q \in Vectors /\ r.p \in Vectors
    BY <1>2, <1>3 DEF Vectors
  <1>5. b.q = Plus(b.p, BlockShape)
    BY <1>2, <1>3 DEF Plus
  <1>6. Plus(p, r.p) = Plus(b.p, w.p)
    BY <1>2 DEF Plus
  <1>7. /\ w.p = [d \in Dim |-> IF b.p[d] <= p[d] THEN p[d] - b.p[d] ELSE 0]
        /\ w.q = [d \in Dim |-> IF q[d] < b.q[d] THEN q[d] - b.p[d] ELSE BlockShape[d]]
    BY <1>2, <1>3
  <1> QED BY <1>1, <1>3, <1>4, <1>5, <1>6, <1>7 DEF w, r, b, Voxel

(* withinBlock and read have the same shape.                               *)
LEMMA SameShape ==
    ASSUME NEW p, NEW q, IsRegion(p, q), NEW c \in BlocksInRange(p, q)
    PROVE  LET w == WithinBlock(c, p, q)
               r == ReadRoi(c, p, q)
           IN  Minus(r.q, r.p) = Minus(w.q, w.p)
  <1> DEFINE w == WithinBlock(c, p, q)
             r == ReadRoi(c, p, q)
             b == blockBounds(c)
  <1>1. /\ c \in Vectors /\ b.p \in Vectors /\ b.q = Plus(b.p, BlockShape)
        /\ w.p \in Vectors /\ w.q \in Vectors
        /\ w.p = [d \in Dim |-> IF b.p[d] <= p[d] THEN p[d] - b.p[d] ELSE 0]
        /\ w.q = [d \in Dim |-> IF q[d] < b.q[d] THEN q[d] - b.p[d] ELSE BlockShape[d]]
        /\ r.p \in Vectors /\ r.q = Plus(r.p, Minus(w.q, w.p))
        /\ Plus(p, r.p) = Voxel(c, w.p)
    BY ComputedRois
  <1> HIDE DEF w, r, b
  <1>2. \A d \in Dim : r.q[d] - r.p[d] = w.q[d] - w.p[d]
    BY <1>1 DEF Plus, Minus, Vectors
  <1> QED BY <1>2 DEF Minus, w, r

(* compute(): a cell of a visited block lies within withinBlock iff the    *)
(* voxel it stands for lies in the region, and the entry of the caller's   *)
(* array paired with it is the one of that voxel.                          *)
THEOREM VisitExact ==
    ASSUME NEW p, NEW q, IsRegion(p, q), NEW c \in BlocksInRange(p, q), NEW cell \in Cell
    PROVE  LET w == WithinBlock(c, p, q)
               r == ReadRoi(c, p, q)
           IN  /\ InRoi(cell, w.p, w.q) <=> InRoi(Voxel(c, cell), p, q)
               /\ InRoi(cell, w.p, w.q) =>
                     /\ Minus(cell, w.p) \in Box(Origin, Minus(r.q, r.p))
                     /\ Plus(r.p, Minus(cell, w.p)) = Minus(Voxel(c, cell), p)
  <1> DEFINE w == WithinBlock(c, p, q)
             r == ReadRoi(c, p, q)
             b == blockBounds(c)
  <1>1. /\ c \in Vectors /\ b.p \in Vectors /\ b.q = Plus(b.p, BlockShape)
        /\ w.p \in Vectors /\ w.q \in Vectors
        /\ w.p = [d \in Dim |-> IF b.p[d] <= p[d] THEN p[d] - b.p[d] ELSE 0]
        /\ w.q = [d \in Dim |-> IF q[d] < b.q[d] THEN q[d] - b.p[d] ELSE BlockShape[d]]
        /\ r.p \in Vectors /\ r.q = Plus(r.p, Minus(w.q, w.p))
        /\ Plus(p, r.p) = Voxel(c, w.p)
    BY ComputedRois
  <1>2. Voxel(c, cell) = Plus(b.p, cell) /\ Voxel(c, w.p) = Plus(b.p, w.p)
    BY DEF Voxel
  <1> HIDE DEF w, r, b
  <1>3. ASSUME NEW d \in Dim
        PROVE  /\ w.p[d] <= cell[d] /\ cell[d] < w.q[d] <=>
                     p[d] <= Voxel(c, cell)[d] /\ Voxel(c, cell)[d] < q[d]
               /\ r.p[d] + (cell[d] - w.p[d]) = Voxel(c, cell)[d] - p[d]
               /\ r.q[d] - r.p[d] = w.q[d] - w.p[d]
               /\ w.p[d] \in Nat /\ w.q[d] \in Nat /\ cell[d] \in Nat /\ r.p[d] \in Nat
    <2>1. /\ BlockShape[d] \in Nat /\ p[d] \in Nat /\ q[d] \in Nat
          /\ cell[d] \in Nat /\ cell[d] < BlockShape[d]
      BY CellMember, ShapeType DEF IsRegion, Vectors
    <2>2. /\ b.p[d] \in Nat /\ b.q[d] = b.p[d] + BlockShape[d]
          /\ w.p[d] = IF b.p[d] <= p[d] THEN p[d] - b.p[d] ELSE 0
          /\ w.q[d] = IF q[d] < b.q[d] THEN q[d] - b.p[d] ELSE BlockShape[d]
          /\ w.p[d] \in Nat /\ w.q[d] \in Nat /\ r.p[d] \in Nat
          /\ r.q[d] = r.p[d] + (w.q[d] - w.p[d])
      BY <1>1 DEF Plus, Minus, Vectors
    <2>3. p[d] + r.p[d] = b.p[d] + w.p[d] /\ Voxel(c, cell)[d] = b.p[d] + cell[d]
      <3>1. Plus(p, r.p)[d] = Plus(b.p, w.p)[d]
        BY <1>1, <1>2
      <3> QED BY <1>2, <3>1 DEF Plus
    <2> QED BY <2>1, <2>2, <2>3
  <1>4. InRoi(cell, w.p, w.q) <=> InRoi(Voxel(c, cell), p, q)
    BY <1>3 DEF InRoi
  <1>5. Plus(r.p, Minus(cell, w.p)) = Minus(Voxel(c, cell), p)
    BY <1>3 DEF Plus, Minus
  <1>6. ASSUME InRoi(cell, w.p, w.q)
        PROVE  Minus(cell, w.p) \in Box(Origin, Minus(r.q, r.p))
    <2>1. /\ Minus(cell, w.p) \in IntVectors /\ Minus(r.q, r.p) \in IntVectors
          /\ Origin \in IntVectors
      <3>1. r.q = Plus(r.p, Minus(w.q, w.p))
        BY <1>1
      <3> QED BY <1>3, <3>1 DEF Minus, Plus, IntVectors, Origin
    <2>2. InRoi(Minus(cell, w.p), Origin, Minus(r.q, r.p))
      BY <1>3, <1>6 DEF InRoi, Minus, Origin
    <2> QED BY <2>1, <2>2, BoxMember
  <1> QED BY <1>4, <1>5, <1>6 DEF w, r

(* The blocks visited are those that hold a voxel of the region: no voxel  *)
(* is left out, and no block is touched for nothing.                       *)
THEOREM VisitComplete ==
    ASSUME NEW p, NEW q, IsRegion(p, q)
    PROVE  /\ \A v \in Vectors :
                 InRoi(v, p, q) => blockGivenCoordinateP(v) \in BlocksInRange(p, q)
           /\ \A c \in BlocksInRange(p, q) :
                 \E cell \in Cell : InRoi(Voxel(c, cell), p, q)
  <1>1. ASSUME NEW v \in Vectors, InRoi(v, p, q)
        PROVE  blockGivenCoordinateP(v) \in BlocksInRange(p, q)
    <2> DEFINE c == blockGivenCoordinateP(v)
               cell == pBlock(v)
    <2>1. c \in Vectors /\ cell \in Cell /\ Voxel(c, cell) = v
      BY BlockOfVoxel
    <2> HIDE DEF c, cell
    <2>2. ASSUME NEW d \in Dim
          PROVE  BlockShape[d] * c[d] < q[d] /\ p[d] < BlockShape[d] * (c[d] + 1)
      <3>1. /\ BlockShape[d] \in Nat \ {0} /\ c[d] \in Nat
            /\ cell[d] \in Nat /\ cell[d] < BlockShape[d]
            /\ p[d] \in Nat /\ q[d] \in Nat /\ p[d] <= v[d] /\ v[d] < q[d]
        BY <1>1, <2>1, CellMember, ShapeType DEF IsRegion, Vectors, InRoi
      <3>2. v[d] = BlockShape[d] * c[d] + cell[d]
        BY <2>1 DEF Voxel, Plus, blockBounds
      <3>3. /\ BlockShape[d] * c[d] \in Int
            /\ BlockShape[d] * (c[d] + 1) = BlockShape[d] * c[d] + BlockShape[d]
        BY <3>1, SMT
      <3> QED BY <3>1, <3>2, <3>3
    <2> QED BY <2>1, <2>2, VisitedBlocks DEF c
  <1>2. ASSUME NEW c \in BlocksInRange(p, q)
        PROVE  \E cell \in Cell : InRoi(Voxel(c, cell), p, q)
    <2> DEFINE w == WithinBlock(c, p, q)
               r == ReadRoi(c, p, q)
               b == blockBounds(c)
    <2>1. /\ c \in Vectors /\ b.p \in Vectors /\ b.q = Plus(b.p, BlockShape)
          /\ w.p \in Vectors /\ w.q \in Vectors
          /\ w.p = [d \in Dim |-> IF b.p[d] <= p[d] THEN p[d] - b.p[d] ELSE 0]
          /\ w.q = [d \in Dim |-> IF q[d] < b.q[d] THEN q[d] - b.p[d] ELSE BlockShape[d]]
          /\ r.p \in Vectors /\ r.q = Plus(r.p, Minus(w.q, w.p))
          /\ Plus(p, r.p) = Voxel(c, w.p)
      BY ComputedRois
    <2>2. \A d \in Dim : b.p[d] < q[d] /\ p[d] < b.q[d]
      BY VisitedBlocks DEF blockBounds
    <2>3. Voxel(c, w.p) = Plus(b.p, w.p)
      BY DEF Voxel
    <2> HIDE DEF w, r, b
    <2>4. ASSUME NEW d \in Dim
          PROVE  /\ w.p[d] < BlockShape[d]
                 /\ p[d] <= Voxel(c, w.p)[d] /\ Voxel(c, w.p)[d] < q[d]
      <3>1. /\ BlockShape[d] \in Nat \ {0} /\ p[d] \in Nat /\ q[d] \in Nat /\ p[d] < q[d]
            /\ b.p[d] \in Nat /\ b.q[d] = b.p[d] + BlockShape[d]
            /\ w.p[d] = IF b.p[d] <= p[d] THEN p[d] - b.p[d] ELSE 0
            /\ Voxel(c, w.p)[d] = b.p[d] + w.p[d]
        BY <2>1, <2>3, ShapeType DEF IsRegion, Vectors, Plus
      <3> QED BY <2>2, <3>1
    <2>5. w.p \in Cell
      BY <2>1, <2>4, CellMember
    <2>6. InRoi(Voxel(c, w.p), p, q)
      BY <2>4 DEF InRoi
    <2> QED BY <2>5, <2>6
  <1> QED BY <1>1, <1>2

(* The way back, as readSubarray goes it: entry v of the caller's array    *)
(* lies in the read region of a visited block iff its voxel is in that     *)
(* block, and then it is paired with the cell of that voxel.               *)
THEOREM ReadExact ==
    ASSUME NEW p, NEW q, IsRegion(p, q), NEW c \in BlocksInRange(p, q),
           NEW v \in Box(Origin, Minus(q, p))
    PROVE  LET w    == WithinBlock(c, p, q)
               r    == ReadRoi(c, p, q)
               cell == Plus(w.p, Minus(v, r.p))
           IN  /\ Plus(p, v) \in Vectors /\ InRoi(Plus(p, v), p, q)
               /\ InRoi(v, r.p, r.q) <=> blockGivenCoordinateP(Plus(p, v)) = c
               /\ InRoi(v, r.p, r.q) =>
                     /\ Minus(v, r.p) \in Box(Origin, Minus(w.q, w.p))
                     /\ cell \in Cell /\ cell = pBlock(Plus(p, v))
  <1> DEFINE w    == WithinBlock(c, p, q)
             r    == ReadRoi(c, p, q)
             b    == blockBounds(c)
             u    == Plus(p, v)
             cell == Plus(w.p, Minus(v, r.p))
  <1>1. /\ c \in Vectors /\ b.p \in Vectors /\ b.q = Plus(b.p, BlockShape)
        /\ w.p \in Vectors /\ w.q \in Vectors
        /\ w.p = [d \in Dim |-> IF b.p[d] <= p[d] THEN p[d] - b.p[d] ELSE 0]
        /\ w.q = [d \in Dim |-> IF q[d] < b.q[d] THEN q[d] - b.p[d] ELSE BlockShape[d]]
        /\ r.p \in Vectors /\ r.q = Plus(r.p, Minus(w.q, w.p))
        /\ Plus(p, r.p) = Voxel(c, w.p)
    BY ComputedRois
  <1>2. /\ Minus(q, p) \in IntVectors /\ Origin \in IntVectors
        /\ p \in Vectors /\ q \in Vectors
    BY ShapeType DEF IsRegion, Minus, Vectors, IntVectors
  <1>3. v \in IntVectors /\ InRoi(v, Origin, Minus(q, p))
    BY <1>2, BoxMember
  <1>4. ASSUME NEW d \in Dim
        PROVE  /\ v[d] \in Nat /\ p[d] \in Nat /\ q[d] \in Nat
               /\ p[d] <= p[d] + v[d] /\ p[d] + v[d] < q[d]
    BY <1>2, <1>3, ShapeType DEF InRoi, Minus, Vectors, IntVectors
  <1>5. u \in Vectors /\ InRoi(u, p, q)
    BY <1>4 DEF u, Plus, InRoi, Vectors
  <1>6. Voxel(c, w.p) = Plus(b.p, w.p) /\ Voxel(c, cell) = Plus(b.p, cell)
    BY DEF Voxel
  <1>7. ASSUME blockGivenCoordinateP(u) = c
        PROVE  InRoi(v, r.p, r.q)
    <2>1. /\ pBlock(u) \in Cell /\ Voxel(c, pBlock(u)) = u
      BY <1>5, <1>7, BlockOfVoxel
    <2>2. /\ InRoi(pBlock(u), w.p, w.q)
          /\ Plus(r.p, Minus(pBlock(u), w.p)) = Minus(u, p)
      BY <1>5, <2>1, VisitExact
    <2> DEFINE x == pBlock(u)
    <2>3. x \in Vectors
      BY <2>1, CellMember
    <2> HIDE DEF x, w, r, u
    <2>4. ASSUME NEW d \in Dim PROVE r.p[d] <= v[d] /\ v[d] < r.q[d]
      <3>1. /\ w.p[d] <= x[d] /\ x[d] < w.q[d]
            /\ r.p[d] + (x[d] - w.p[d]) = u[d] - p[d]
        <4>1. Plus(r.p, Minus(x, w.p))[d] = Minus(u, p)[d]
          BY <2>2 DEF x
        <4> QED BY <2>2, <4>1 DEF InRoi, Plus, Minus, x
      <3>2. /\ u[d] = p[d] + v[d] /\ r.q[d] = r.p[d] + (w.q[d] - w.p[d])
        BY <1>1 DEF u, Plus, Minus
      <3>3. /\ w.p[d] \in Nat /\ w.q[d] \in Nat /\ r.p[d] \in Nat /\ x[d] \in Nat
            /\ v[d] \in Nat /\ p[d] \in Nat
        BY <1>1, <1>4, <2>3 DEF Vectors
      <3> QED BY <3>1, <3>2, <3>3
    <2> QED BY <2>4 DEF InRoi
  <1>8. ASSUME InRoi(v, r.p, r.q)
        PROVE  /\ Minus(v, r.p) \in Box(Origin, Minus(w.q, w.p))
               /\ cell \in Cell /\ Voxel(c, cell) = u
    <2>0. cell = [d \in Dim |-> w.p[d] + (v[d] - r.p[d])]
      BY DEF Plus, Minus
    <2> HIDE DEF w, r, b, u, cell
    <2>1. ASSUME NEW d \in Dim
          PROVE  /\ v[d] - r.p[d] \in Nat /\ v[d] - r.p[d] < w.q[d] - w.p[d]
                 /\ cell[d] \in Nat /\ cell[d] < BlockShape[d]
                 /\ b.p[d] + cell[d] = p[d] + v[d]
                 /\ w.q[d] - w.p[d] \in Int
      <3>1. /\ r.p[d] <= v[d] /\ v[d] < r.p[d] + (w.q[d] - w.p[d])
        BY <1>1, <1>8 DEF InRoi, Plus, Minus
      <3>2. p[d] + r.p[d] = b.p[d] + w.p[d]
        <4>1. Plus(p, r.p)[d] = Plus(b.p, w.p)[d]
          BY <1>1, <1>6
        <4> QED BY <4>1 DEF Plus
      <3>3. /\ w.p[d] \in Nat /\ w.q[d] \in Nat /\ r.p[d] \in Nat /\ b.p[d] \in Nat
            /\ v[d] \in Nat /\ p[d] \in Nat /\ q[d] \in Nat /\ BlockShape[d] \in Nat
            /\ b.q[d] = b.p[d] + BlockShape[d]
        BY <1>1, <1>4, ShapeType DEF Vectors, Plus
      <3>4. w.q[d] <= BlockShape[d]
        <4>1. w.q[d] = IF q[d] < b.q[d] THEN q[d] - b.p[d] ELSE BlockShape[d]
          BY <1>1
        <4> QED BY <3>3, <4>1
      <3>5. cell[d] = w.p[d] + (v[d] - r.p[d])
        BY <2>0
      <3> QED BY <3>1, <3>2, <3>3, <3>4, <3>5
    <2>2. cell \in Vectors
      BY <2>0, <2>1 DEF Vectors
    <2>3. Voxel(c, cell) = u
      BY <1>6, <2>1 DEF Plus, u
    <2>4. Minus(v, r.p) \in IntVectors /\ Minus(w.q, w.p) \in IntVectors
      BY <2>1 DEF Minus, IntVectors
    <2>5. InRoi(Minus(v, r.p), Origin, Minus(w.q, w.p))
      BY <2>1, ShapeType DEF InRoi, Minus
    <2> QED BY <1>2, <2>1, <2>2, <2>3, <2>4, <2>5, BoxMember, CellMember
  <1>9. ASSUME InRoi(v, r.p, r.q)
        PROVE  blockGivenCoordinateP(u) = c /\ pBlock(u) = cell
    <2>1. cell \in Cell /\ Voxel(c, cell) = u
      BY <1>8, <1>9
    <2> HIDE DEF cell, u
    <2> QED BY <1>1, <2>1, VoxelOfCell
  <1> QED BY <1>5, <1>7, <1>8, <1>9 DEF w, r, u, cell

------------------------------------------------------------------------------
(* Lists of vectors in scan order.                                         *)

Entries(list)   == {list[i] : i \in DOMAIN list}
Ascending(list) == \A i, j \in DOMAIN list : i < j => Before(list[i], list[j])

(* A finite set of vectors can be listed in scan order.                    *)
LEMMA CanBeListed ==
    ASSUME NEW S, IsFiniteSet(S), S \subseteq Vectors
    PROVE  \E s \in [1 .. Cardinality(S) -> S] : Ascending(s)
  <1> DEFINE HasList(T) == \E s \in [1 .. Cardinality(T) -> T] : Ascending(s)
             Good == {n \in Nat : \A T \in SUBSET S : Cardinality(T) = n => HasList(T)}
  <1>1. \A T \in SUBSET S : IsFiniteSet(T) /\ Cardinality(T) \in Nat
    BY FS_Subset, FS_CardinalityType
  <1>2. ASSUME NEW T \in SUBSET S, Cardinality(T) = 0 PROVE HasList(T)
    <2>1. T = {}
      BY <1>1, <1>2, FS_EmptySet
    <2>2. [i \in 1 .. 0 |-> i] \in [1 .. Cardinality(T) -> T] /\ Ascending([i \in 1 .. 0 |-> i])
      BY <1>2, <2>1 DEF Ascending
    <2> QED BY <2>2
  <1>3. ASSUME NEW n \in Nat, n # 0, n - 1 \in Good, NEW T \in SUBSET S, Cardinality(T) = n
        PROVE  HasList(T)
    <2>1. T # {}
      BY <1>3, FS_EmptySet
    <2>2. PICK c \in T : \A e \in T \ {c} : Before(c, e)
      BY <2>1, FirstInOrder
    <2>3. Cardinality(T \ {c}) = n - 1
      BY <1>1, <1>3, FS_RemoveElement
    <2>4. PICK s \in [1 .. n - 1 -> T \ {c}] : Ascending(s)
      <3>1. HasList(T \ {c})
        BY <1>3, <2>3
      <3> QED BY <2>3, <3>1
    <2> DEFINE t == [i \in 1 .. n |-> IF i = 1 THEN c ELSE s[i - 1]]
    <2>5. \A i \in 1 .. n : i # 1 => i - 1 \in 1 .. n - 1
      BY <1>3
    <2>6. t \in [1 .. n -> T]
      BY <2>5
    <2>7. ASSUME NEW i \in 1 .. n, NEW j \in 1 .. n, i < j PROVE Before(t[i], t[j])
      <3>1. j # 1 /\ j - 1 \in 1 .. n - 1 /\ t[j] = s[j - 1] /\ s[j - 1] \in T \ {c}
        BY <2>5, <2>7
      <3>2. CASE i = 1
        BY <2>2, <3>1, <3>2
      <3>3. CASE i # 1
        <4>1. i - 1 \in 1 .. n - 1 /\ t[i] = s[i - 1] /\ i - 1 < j - 1
          BY <2>5, <2>7, <3>3
        <4> QED BY <2>4, <3>1, <4>1 DEF Ascending
      <3> QED BY <3>2, <3>3
    <2>8. Ascending(t)
      BY <2>7 DEF Ascending
    <2> HIDE DEF t
    <2> QED BY <1>3, <2>6, <2>8
  <1>4. 0 \in Good
    BY <1>2
  <1>5. \A n \in Nat : n # 0 /\ n - 1 \in Good => n \in Good
    BY <1>3
  <1>6. Nat \subseteq Good
    <2> HIDE DEF Good
    <2> QED BY <1>4, <1>5, NatSetInduction
  <1> QED BY <1>1, <1>6

------------------------------------------------------------------------------
(* The odometer loop, that RwIterator and Blocking both run: x counts      *)
(* through the blocks of a region, its last dimension fastest.  newest is  *)
(* the block listed last; up to dimension dim the odometer still stands    *)
(* there, in the dimensions behind it newest has reached the end of the    *)
(* range and the odometer has been reset.                                  *)
Odometer(p, q, x, dim, list) ==
    LET newest == list[Len(list)]
        low    == blockGivenCoordinateP(p)
        high   == blockGivenCoordinateQ(q)
    IN  /\ list \in Seq(BlocksInRange(p, q)) /\ list # <<>> /\ Ascending(list)
        /\ x \in BlocksInRange(p, q) /\ dim \in -1 .. N - 1
        /\ \A e \in Dim : e <= dim => x[e] = newest[e]
        /\ \A e \in Dim : e > dim => x[e] = low[e] /\ newest[e] = high[e] - 1
        /\ \A c \in BlocksInRange(p, q) :
              c = newest \/ Before(c, newest) => c \in Entries(list)

(* A block is in range iff its coordinates are.                            *)
LEMMA RangeMember ==
    ASSUME NEW p, NEW q, IsRegion(p, q)
    PROVE  LET low == blockGivenCoordinateP(p)
               high == blockGivenCoordinateQ(q)
           IN  /\ BlocksInRange(p, q) \subseteq Vectors
               /\ low \in Vectors /\ high \in Vectors /\ low \in BlocksInRange(p, q)
               /\ \A c \in Vectors :
                     c \in BlocksInRange(p, q) <=>
                         \A d \in Dim : low[d] <= c[d] /\ c[d] <= high[d] - 1
  <1> DEFINE low == blockGivenCoordinateP(p)
             high == blockGivenCoordinateQ(q)
  <1>1. ASSUME NEW d \in Dim
        PROVE  /\ Quotient(p[d], BlockShape[d]) \in Nat
               /\ Quotient(q[d] - 1, BlockShape[d]) + 1 \in Nat
    <2>1. p[d] \in Nat /\ q[d] - 1 \in Nat /\ BlockShape[d] \in Nat \ {0}
      BY ShapeType DEF IsRegion, Vectors
    <2>2. \A a \in Nat, b \in Nat \ {0} : Quotient(a, b) \in Nat
      BY QuotientSplits
    <2> QED BY <2>1, <2>2
  <1>2. low \in Vectors /\ high \in Vectors
    BY <1>1 DEF blockGivenCoordinateP, blockGivenCoordinateQ, Vectors
  <1>3. \A c : c \in BlocksInRange(p, q) <=> c \in IntVectors /\ InRoi(c, low, high)
    BY <1>2, BoxMember, ShapeType DEF BlocksInRange
  <1>4. BlocksInRange(p, q) \subseteq Vectors
    BY VisitedBlocks
  <1>5. ASSUME NEW c \in Vectors
        PROVE  c \in BlocksInRange(p, q) <=>
                   \A d \in Dim : low[d] <= c[d] /\ c[d] <= high[d] - 1
    <2> HIDE DEF low, high
    <2>1. \A d \in Dim : c[d] \in Int /\ high[d] \in Int
      BY <1>2 DEF Vectors
    <2>2. \A d \in Dim : c[d] < high[d] <=> c[d] <= high[d] - 1
      BY <2>1
    <2> QED BY <1>3, <2>2, ShapeType DEF InRoi
  <1>6. low \in BlocksInRange(p, q)
    <2>1. p \in Vectors /\ InRoi(p, p, q)
      BY DEF IsRegion, InRoi, Vectors
    <2> QED BY <2>1, VisitComplete
  <1> QED BY <1>2, <1>4, <1>5, <1>6

LEMMA OdometerStarts ==
    ASSUME NEW p, NEW q, IsRegion(p, q)
    PROVE  Odometer(p, q, blockGivenCoordinateP(p), N - 1, <<blockGivenCoordinateP(p)>>)
  <1> DEFINE low == blockGivenCoordinateP(p)
             range == BlocksInRange(p, q)
  <1>1. low \in range /\ low \in Vectors /\ range \subseteq Vectors
    BY RangeMember
  <1>2. \A c \in range : ~Before(c, low)
    <2>1. \A c \in range : \A d \in Dim : low[d] <= c[d] /\ c[d] \in Nat /\ low[d] \in Nat
      BY <1>1, RangeMember DEF Vectors
    <2> HIDE DEF low, range
    <2> QED BY <2>1 DEF Before
  <1> HIDE DEF low, range
  <1>3. /\ <<low>> \in Seq(range) /\ <<low>> # <<>> /\ Len(<<low>>) = 1
        /\ <<low>>[1] = low /\ DOMAIN <<low>> = {1}
    BY <1>1
  <1>4. Ascending(<<low>>) /\ Entries(<<low>>) = {low}
    BY <1>3 DEF Ascending, Entries
  <1>5. N - 1 \in -1 .. N - 1 /\ \A e \in Dim : e <= N - 1 /\ ~(e > N - 1)
    BY GeometryAssumption DEF Dim
  <1> QED BY <1>1, <1>2, <1>3, <1>4, <1>5 DEF Odometer, low, range

LEMMA OdometerState ==
    ASSUME NEW p, NEW q, IsRegion(p, q), NEW x, NEW dim, NEW list, Odometer(p, q, x, dim, list)
    PROVE  /\ Len(list) \in Nat \ {0} /\ DOMAIN list = 1 .. Len(list)
           /\ list[Len(list)] \in BlocksInRange(p, q)
           /\ \A i \in 1 .. Len(list) : list[i] \in BlocksInRange(p, q)
           /\ x \in Vectors /\ list[Len(list)] \in Vectors
           /\ dim \in Dim \/ dim = -1
  <1>1. list \in Seq(BlocksInRange(p, q)) /\ list # <<>> /\ x \in BlocksInRange(p, q)
    BY DEF Odometer
  <1>2. Len(list) \in Nat \ {0} /\ DOMAIN list = 1 .. Len(list)
    BY <1>1
  <1>3. \A i \in 1 .. Len(list) : list[i] \in BlocksInRange(p, q)
    BY <1>1, <1>2
  <1>4. dim \in Dim \/ dim = -1
    BY GeometryAssumption DEF Odometer, Dim
  <1> QED BY <1>1, <1>2, <1>3, <1>4, RangeMember

LEMMA OdometerCarries ==
    ASSUME NEW p, NEW q, IsRegion(p, q), NEW x, NEW dim, NEW list, Odometer(p, q, x, dim, list),
           dim >= 0, x[dim] >= blockGivenCoordinateQ(q)[dim] - 1
    PROVE  Odometer(p, q, [x EXCEPT ![dim] = blockGivenCoordinateP(p)[dim]], dim - 1, list)
  <1> DEFINE low == blockGivenCoordinateP(p)
             high == blockGivenCoordinateQ(q)
             range == BlocksInRange(p, q)
             newest == list[Len(list)]
             y == [x EXCEPT ![dim] = low[dim]]
  <1>1. dim \in Dim /\ dim - 1 \in -1 .. N - 1
    BY GeometryAssumption DEF Odometer, Dim
  <1>2. x \in Vectors /\ low \in Vectors /\ high \in Vectors /\ newest \in range
    BY OdometerState, RangeMember
  <1>3. /\ range \subseteq Vectors
        /\ \A c \in Vectors : c \in range <=> \A d \in Dim : low[d] <= c[d] /\ c[d] <= high[d] - 1
        /\ low \in range
    BY RangeMember
  <1>4. /\ x \in range
        /\ \A e \in Dim : e <= dim => x[e] = newest[e]
        /\ \A e \in Dim : e > dim => x[e] = low[e] /\ newest[e] = high[e] - 1
        /\ x[dim] >= high[dim] - 1
    BY DEF Odometer
  <1> HIDE DEF low, high, range, newest
  <1>5. y \in Vectors /\ y[dim] = low[dim] /\ \A e \in Dim : e # dim => y[e] = x[e]
    BY <1>1, <1>2 DEF Vectors
  <1>6. y \in range
    <2>1. \A d \in Dim : /\ low[d] <= x[d] /\ x[d] <= high[d] - 1
                         /\ low[d] <= low[d] /\ low[d] <= high[d] - 1
      BY <1>2, <1>3, <1>4
    <2> QED BY <1>3, <1>5, <2>1
  <1>7. \A e \in Dim : e <= dim - 1 => y[e] = newest[e]
    <2>1. \A e \in Dim : e <= dim - 1 => e <= dim /\ e # dim
      BY <1>1 DEF Dim
    <2> QED BY <1>4, <1>5, <2>1
  <1>8. \A e \in Dim : e > dim - 1 => y[e] = low[e] /\ newest[e] = high[e] - 1
    <2>1. \A e \in Dim : e > dim - 1 => e = dim \/ (e > dim /\ e # dim)
      BY <1>1 DEF Dim
    <2>2. newest[dim] = high[dim] - 1
      <3>1. dim <= dim
        BY <1>1 DEF Dim
      <3>2. newest[dim] = x[dim] /\ x[dim] <= high[dim] - 1
        BY <1>1, <1>2, <1>3, <1>4, <3>1
      <3>3. x[dim] \in Int /\ high[dim] \in Int
        BY <1>1, <1>2 DEF Vectors
      <3> QED BY <1>4, <3>2, <3>3
    <2> QED BY <1>4, <1>5, <2>1, <2>2
  <1> QED BY <1>1, <1>6, <1>7, <1>8 DEF Odometer, low, high, range, newest

LEMMA OdometerAdvances ==
    ASSUME NEW p, NEW q, IsRegion(p, q), NEW x, NEW dim, NEW list, Odometer(p, q, x, dim, list),
           dim >= 0, x[dim] < blockGivenCoordinateQ(q)[dim] - 1
    PROVE  LET y == [x EXCEPT ![dim] = @ + 1]
           IN  Odometer(p, q, y, N - 1, Append(list, y))
  <1> DEFINE low == blockGivenCoordinateP(p)
             high == blockGivenCoordinateQ(q)
             range == BlocksInRange(p, q)
             n == Len(list)
             newest == list[n]
             y == [x EXCEPT ![dim] = @ + 1]
             longer == Append(list, y)
  <1>1. dim \in Dim /\ N - 1 \in -1 .. N - 1
    BY GeometryAssumption DEF Odometer, Dim
  <1>2. /\ x \in Vectors /\ low \in Vectors /\ high \in Vectors
        /\ newest \in range /\ newest \in Vectors
        /\ n \in Nat \ {0} /\ DOMAIN list = 1 .. n /\ \A i \in 1 .. n : list[i] \in range
    BY OdometerState, RangeMember
  <1>3. /\ range \subseteq Vectors
        /\ \A c \in Vectors : c \in range <=> \A d \in Dim : low[d] <= c[d] /\ c[d] <= high[d] - 1
    BY RangeMember
  <1>4. /\ x \in range /\ list \in Seq(range) /\ Ascending(list)
        /\ \A e \in Dim : e <= dim => x[e] = newest[e]
        /\ \A e \in Dim : e > dim => x[e] = low[e] /\ newest[e] = high[e] - 1
        /\ \A c \in range : c = newest \/ Before(c, newest) => c \in Entries(list)
        /\ x[dim] < high[dim] - 1
    BY DEF Odometer
  <1> HIDE DEF low, high, range, newest, n, longer
  <1>5. y \in Vectors /\ y[dim] = x[dim] + 1 /\ \A e \in Dim : e # dim => y[e] = x[e]
    BY <1>1, <1>2 DEF Vectors
  <1> HIDE DEF y
  <1>6. y \in range
    <2>1. \A d \in Dim : low[d] <= x[d] /\ x[d] <= high[d] - 1
      BY <1>2, <1>3, <1>4
    <2>2. \A d \in Dim : x[d] \in Nat /\ low[d] \in Nat /\ high[d] \in Nat
      BY <1>2 DEF Vectors
    <2>3. \A d \in Dim : low[d] <= y[d] /\ y[d] <= high[d] - 1
      BY <1>1, <1>4, <1>5, <2>1, <2>2
    <2> QED BY <1>3, <1>5, <2>3
  <1>7. /\ \A e \in Dim : e < dim => y[e] = newest[e]
        /\ y[dim] = newest[dim] + 1
        /\ \A e \in Dim : e > dim => y[e] = low[e] /\ newest[e] = high[e] - 1
    <2>1. \A e \in Dim : /\ e < dim => e <= dim /\ e # dim
                         /\ e > dim => e # dim
                         /\ dim <= dim
      BY <1>1 DEF Dim
    <2>2. \A e \in Dim : e < dim => y[e] = newest[e]
      BY <1>4, <1>5, <2>1
    <2>3. y[dim] = newest[dim] + 1
      BY <1>1, <1>4, <1>5, <2>1
    <2>4. \A e \in Dim : e > dim => y[e] = low[e] /\ newest[e] = high[e] - 1
      BY <1>4, <1>5, <2>1
    <2> QED BY <2>2, <2>3, <2>4
  <1>8. Before(newest, y)
    <2>1. \A e \in 0 .. dim - 1 : e \in Dim /\ e < dim
      BY <1>1, GeometryAssumption DEF Dim
    <2>2. newest[dim] < y[dim]
      BY <1>1, <1>2, <1>7 DEF Vectors
    <2> QED BY <1>1, <1>7, <2>1, <2>2 DEF Before
  <1>9. /\ longer \in Seq(range) /\ Len(longer) = n + 1 /\ longer # <<>>
        /\ DOMAIN longer = 1 .. n + 1 /\ longer[n + 1] = y
        /\ \A i \in 1 .. n : longer[i] = list[i]
    BY <1>2, <1>4, <1>6 DEF n, longer
  <1>10. Entries(longer) = Entries(list) \cup {y}
    <2>1. 1 .. n + 1 = 1 .. n \cup {n + 1}
      BY <1>2
    <2>2. Entries(longer) = {longer[i] : i \in 1 .. n \cup {n + 1}}
      BY <1>9, <2>1 DEF Entries
    <2> QED BY <1>2, <1>9, <2>2 DEF Entries
  <1>11. Ascending(longer)
    <2>1. ASSUME NEW i \in 1 .. n PROVE Before(list[i], y)
      <3>1. i = n \/ (i < n /\ n \in 1 .. n)
        BY <1>2
      <3>2. list[i] = newest \/ Before(list[i], newest)
        BY <1>2, <1>4, <3>1 DEF Ascending, newest
      <3>3. list[i] \in Vectors
        BY <1>2, <1>3
      <3> QED BY <1>2, <1>5, <1>8, <3>2, <3>3, BeforeOrders
    <2>2. ASSUME NEW i \in 1 .. n + 1, NEW j \in 1 .. n + 1, i < j
          PROVE  Before(longer[i], longer[j])
      <3>1. i \in 1 .. n /\ (j = n + 1 \/ j \in 1 .. n)
        BY <1>2, <2>2
      <3>2. CASE j = n + 1
        BY <1>9, <2>1, <3>1, <3>2
      <3>3. CASE j \in 1 .. n
        BY <1>2, <1>4, <1>9, <2>2, <3>1, <3>3 DEF Ascending
      <3> QED BY <3>1, <3>2, <3>3
    <2> QED BY <1>9, <2>2 DEF Ascending
  <1>12. ASSUME NEW c \in range, c = y \/ Before(c, y) PROVE c \in Entries(longer)
    <2>1. CASE c = y
      BY <1>10, <2>1
    <2>2. CASE Before(c, y)
      <3>1. c \in Vectors
        BY <1>3
      <3>2. ~Before(newest, c)
        <4> SUFFICES ASSUME Before(newest, c) PROVE FALSE
          OBVIOUS
        <4>1. PICK d \in Dim : newest[d] < c[d] /\ \A e \in 0 .. d - 1 : newest[e] = c[e]
          BY DEF Before
        <4>2. PICK k \in Dim : c[k] < y[k] /\ \A e \in 0 .. k - 1 : c[e] = y[e]
          BY <2>2 DEF Before
        <4>3. \A e \in Dim : /\ low[e] <= c[e] /\ c[e] <= high[e] - 1
                             /\ c[e] \in Nat /\ newest[e] \in Nat /\ y[e] \in Nat
                             /\ low[e] \in Nat /\ high[e] \in Nat
          BY <1>2, <1>3, <1>5, <3>1 DEF Vectors
        <4>4. d \in Int /\ k \in Int /\ dim \in Int
          BY <1>1, GeometryAssumption DEF Dim
        <4>5. ~(d > dim) /\ ~(k > dim)
          BY <1>7, <4>1, <4>2, <4>3
        <4>6. /\ d < k => c[d] = y[d]
              /\ k < d => newest[k] = c[k]
          BY <4>1, <4>2, GeometryAssumption DEF Dim
        <4>7. CASE d < k
          BY <1>7, <4>1, <4>3, <4>4, <4>5, <4>6, <4>7
        <4>8. CASE k < d
          BY <1>7, <4>2, <4>3, <4>4, <4>5, <4>6, <4>8
        <4>9. CASE d = k
          BY <1>7, <4>1, <4>2, <4>3, <4>4, <4>5, <4>9
        <4> QED BY <4>4, <4>7, <4>8, <4>9
      <3>3. c = newest \/ Before(c, newest)
        BY <1>2, <3>1, <3>2, BeforeTotal
      <3> QED BY <1>4, <1>10, <3>3
    <2> QED BY <1>12, <2>1, <2>2
  <1>13. \A e \in Dim : ~(e > N - 1)
    BY GeometryAssumption DEF Dim
  <1> QED BY <1>1, <1>6, <1>9, <1>11, <1>12, <1>13 DEF Odometer, low, high, range, n, longer, y

(* When the odometer has run out, every block in range is listed.          *)
LEMMA OdometerEnds ==
    ASSUME NEW p, NEW q, IsRegion(p, q), NEW x, NEW dim, NEW list, Odometer(p, q, x, dim, list),
           dim < 0
    PROVE  Entries(list) = BlocksInRange(p, q)
  <1> DEFINE high == blockGivenCoordinateQ(q)
             range == BlocksInRange(p, q)
             newest == list[Len(list)]
  <1>1. /\ newest \in range /\ DOMAIN list = 1 .. Len(list)
        /\ \A i \in 1 .. Len(list) : list[i] \in range
    BY OdometerState
  <1>2. \A e \in Dim : newest[e] = high[e] - 1
    <2>1. \A e \in Dim : e > dim
      BY GeometryAssumption DEF Odometer, Dim
    <2> QED BY <2>1 DEF Odometer
  <1>3. ASSUME NEW c \in range PROVE c \in Entries(list)
    <2>1. c \in Vectors /\ newest \in Vectors /\ high \in Vectors
      BY <1>1, RangeMember
    <2>2. \A e \in Dim : /\ c[e] <= newest[e] /\ c[e] \in Nat /\ newest[e] \in Nat
      BY <1>2, <2>1, RangeMember DEF Vectors
    <2> HIDE DEF newest
    <2>3. ~Before(newest, c)
      BY <2>2 DEF Before
    <2>4. c = newest \/ Before(c, newest)
      BY <2>1, <2>3, BeforeTotal
    <2> QED BY <2>4 DEF Odometer, newest
  <1> QED BY <1>1, <1>3 DEF Entries

------------------------------------------------------------------------------
(* The region of an image: all blocks of a tiling start at the origin.     *)
IsShape(s) == s \in [Dim -> Nat \ {0}]

LEMMA WholeRegion ==
    ASSUME NEW s, IsShape(s)
    PROVE  /\ IsRegion(Origin, s) /\ s \in Vectors /\ s \in IntVectors /\ Origin \in IntVectors
           /\ Box(Origin, s) \subseteq Vectors /\ IsFiniteSet(Box(Origin, s))
           /\ \A v : v \in Box(Origin, s) <=> v \in Vectors /\ \A d \in Dim : v[d] < s[d]
           /\ blockGivenCoordinateP(Origin) = Origin
  <1>1. s \in Vectors /\ Origin \in Vectors /\ Vectors \subseteq IntVectors
    BY ShapeType DEF IsShape, Vectors
  <1>2. IsRegion(Origin, s)
    BY <1>1, ShapeType DEF IsShape, IsRegion
  <1>3. ASSUME NEW v
        PROVE  v \in Box(Origin, s) <=> v \in Vectors /\ \A d \in Dim : v[d] < s[d]
    <2>1. v \in Box(Origin, s) <=> v \in IntVectors /\ InRoi(v, Origin, s)
      BY <1>1, BoxMember
    <2>2. v \in IntVectors /\ InRoi(v, Origin, s) => v \in Vectors
      BY ShapeType DEF InRoi, IntVectors, Vectors
    <2>3. v \in Vectors => \A d \in Dim : 0 <= v[d]
      BY DEF Vectors
    <2> QED BY <1>1, <2>1, <2>2, <2>3, ShapeType DEF InRoi
  <1>4. blockGivenCoordinateP(Origin) = Origin
    <2>1. \A d \in Dim : Quotient(0, BlockShape[d]) = 0
      <3>1. ASSUME NEW b \in Nat \ {0} PROVE Quotient(0, b) = 0
        <4>1. b * 0 + 0 = 0
          OBVIOUS
        <4>2. Quotient(b * 0 + 0, b) = 0
          BY QuotientUnique
        <4> QED BY <4>1, <4>2
      <3> QED BY <3>1, ShapeType
    <2> QED BY <2>1, ShapeType DEF blockGivenCoordinateP, Origin
  <1>5. IsFiniteSet(Box(Origin, s))
    BY <1>1, FiniteBox
  <1> QED BY <1>1, <1>2, <1>3, <1>4, <1>5

=============================================================================
