----------------------- MODULE ConnectedComponentsProofs -----------------------
(***************************************************************************)
(* Blockwise labeling is labeling of the whole image, for any number of    *)
(* dimensions, any block shape, any image and any number of blocks.        *)
(***************************************************************************)
EXTENDS ConnectedComponents, BlockGeometryProofs

------------------------------------------------------------------------------
(* Adjacency.                                                              *)

LEMMA AdjacentSymmetric ==
    ASSUME NEW u \in IntVectors, NEW v \in IntVectors, Adjacent(u, v)
    PROVE  Adjacent(v, u)
  <1>1. PICK d \in Dim : u[d] - v[d] \in {-1, 1} /\ \A e \in Dim \ {d} : u[e] = v[e]
    BY DEF Adjacent
  <1>2. u[d] \in Int /\ v[d] \in Int
    BY DEF IntVectors
  <1>3. v[d] - u[d] \in {-1, 1}
    BY <1>1, <1>2
  <1> QED BY <1>1, <1>3 DEF Adjacent

Linked(in, v, w) == in[w] = in[v] /\ Adjacent(v, w)

LEMMA LinkedSymmetric ==
    ASSUME NEW in, DOMAIN in \subseteq IntVectors, NEW v \in DOMAIN in, NEW w \in DOMAIN in
    PROVE  Linked(in, v, w) => Linked(in, w, v)
  BY AdjacentSymmetric DEF Linked

------------------------------------------------------------------------------
(* What Objects computes: a partition of the voxels that are not           *)
(* background into sets that are closed under links and connected.         *)

Foreground(in) == {v \in DOMAIN in : in[v] # 0}

Connected(in, o) ==
    \A P \in SUBSET o :
        P # {} /\ (\A v \in P, w \in o : Linked(in, v, w) => w \in P) => P = o

AreObjects(in, s, objects) ==
    /\ objects \subseteq SUBSET s /\ {} \notin objects /\ UNION objects = s
    /\ \A o, other \in objects : o # other => o \cap other = {}
    /\ \A o \in objects : \A v \in o, w \in s : Linked(in, v, w) => w \in o
    /\ \A o \in objects : Connected(in, o)

(* One step of the fold, and the function that the fold applies.           *)
Touching(in, v, objects) == {o \in objects : \E w \in o : in[w] = in[v] /\ Adjacent(v, w)}

Joined(in, v, objects) ==
    (objects \ Touching(in, v, objects)) \cup {{v} \cup UNION Touching(in, v, objects)}

JoinIter(in) ==
    CHOOSE f : f = [s \in SUBSET Foreground(in) |->
                       IF s = {} THEN {}
                       ELSE LET v == CHOOSE e \in s : TRUE
                            IN  Joined(in, v, f[s \ {v}])]

LEMMA ObjectsIter ==
    ASSUME NEW in
    PROVE  Objects(in) = JoinIter(in)[Foreground(in)]
  BY DEF Objects, FoldSet, MapThenFoldSet, JoinIter, Joined, Touching, Foreground

LEMMA JoinIterStep ==
    ASSUME NEW in, IsFiniteSet(Foreground(in))
    PROVE  /\ JoinIter(in)[{}] = {}
           /\ \A s \in SUBSET Foreground(in) :
                 s # {} => JoinIter(in)[s] = Joined(in, CHOOSE e \in s : TRUE,
                                                    JoinIter(in)[Rest(s)])
  <1> DEFINE F == Foreground(in)
             T == SUBSET SUBSET F
             step == [vo \in F \X T |-> Joined(in, vo[1], vo[2])]
             Steps(f) == [s \in SUBSET F |->
                             IF s = {} THEN {}
                             ELSE LET v == CHOOSE e \in s : TRUE
                                  IN  Joined(in, v, f[s \ {v}])]
  <1>1. step \in [F \X T -> T]
    <2>1. ASSUME NEW v \in F, NEW objects \in T PROVE Joined(in, v, objects) \in T
      BY DEF Joined, Touching
    <2> HIDE DEF T, F
    <2> QED BY <2>1
  <1>2. {} \in T /\ IsFiniteSet(F)
    OBVIOUS
  <1>3. \A v \in F, objects \in T : step[<<v, objects>>] = Joined(in, v, objects)
    <2> HIDE DEF T, F
    <2> QED OBVIOUS
  <1> HIDE DEF step, T
  <1>4. FoldExists(F, T, {}, step)
    <2> HIDE DEF F
    <2> QED BY <1>1, <1>2, SubsetRecursion
  <1>5. PICK f : f = Steps(f)
    <2>1. PICK f \in [SUBSET F -> T] :
             /\ f[{}] = {}
             /\ \A s \in SUBSET F : s # {} => f[s] = step[<<CHOOSE e \in s : TRUE, f[Rest(s)]>>]
      <3> HIDE DEF F
      <3> QED BY <1>4 DEF FoldExists
    <2>2. ASSUME NEW s \in SUBSET F, s # {}
          PROVE  f[s] = Joined(in, CHOOSE e \in s : TRUE, f[Rest(s)])
      <3>1. f[Rest(s)] \in T /\ (CHOOSE e \in s : TRUE) \in F
        BY <2>2 DEF Rest
      <3> HIDE DEF F
      <3> QED BY <1>3, <2>1, <2>2, <3>1
    <2>3. \A s \in SUBSET F : f[s] = Steps(f)[s]
      BY <2>1, <2>2 DEF Rest
    <2> HIDE DEF F
    <2>4. f = Steps(f)
      BY <2>1, <2>3
    <2> HIDE DEF Steps
    <2> QED BY <2>4
  <1>6. JoinIter(in) = Steps(JoinIter(in))
    <2>1. JoinIter(in) = CHOOSE g : g = Steps(g)
      BY DEF JoinIter
    <2> HIDE DEF Steps
    <2> QED BY <1>5, <2>1
  <1> QED BY <1>6 DEF Rest

LEMMA ObjectsPartition ==
    ASSUME NEW in, DOMAIN in \subseteq IntVectors, IsFiniteSet(Foreground(in))
    PROVE  AreObjects(in, Foreground(in), Objects(in))
  <1> DEFINE F == Foreground(in)
             Good == {s \in SUBSET F : AreObjects(in, s, JoinIter(in)[s])}
  <1>1. {} \in Good
    BY JoinIterStep DEF AreObjects
  <1>2. ASSUME NEW s \in SUBSET F, s # {}, Rest(s) \in Good PROVE s \in Good
    <2> DEFINE v == CHOOSE e \in s : TRUE
               r == Rest(s)
               old == JoinIter(in)[r]
               touching == Touching(in, v, old)
               new == {v} \cup UNION touching
               now == JoinIter(in)[s]
    <2>1. v \in s /\ s = r \cup {v} /\ v \notin r /\ s \subseteq DOMAIN in /\ r \subseteq s
      BY <1>2 DEF Rest, Foreground
    <2>2. now = (old \ touching) \cup {new}
      BY <1>2, JoinIterStep DEF Joined
    <2>3. /\ old \subseteq SUBSET r /\ {} \notin old /\ UNION old = r
          /\ \A o, other \in old : o # other => o \cap other = {}
          /\ \A o \in old : \A u \in o, w \in r : Linked(in, u, w) => w \in o
          /\ \A o \in old : Connected(in, o)
      BY <1>2 DEF AreObjects
    <2>4. /\ touching \subseteq old
          /\ \A o \in old : o \in touching <=> \E w \in o : Linked(in, v, w)
      BY DEF Touching, Linked
    <2> HIDE DEF v, r, old, touching, now
    <2>5. now \subseteq SUBSET s /\ {} \notin now /\ UNION now = s
      <3>1. new \subseteq s /\ new # {}
        BY <2>1, <2>3, <2>4
      <3>2. now \subseteq SUBSET s /\ {} \notin now
        BY <2>1, <2>2, <2>3, <3>1
      <3>3. ASSUME NEW w \in s PROVE \E o \in now : w \in o
        <4>1. CASE w \in r
          <5>1. PICK o \in old : w \in o
            BY <2>3, <4>1
          <5>2. CASE o \in touching
            BY <2>2, <5>1, <5>2
          <5>3. CASE o \notin touching
            BY <2>2, <5>1, <5>3
          <5> QED BY <5>2, <5>3
        <4>2. CASE w = v
          BY <2>2, <4>2
        <4> QED BY <2>1, <4>1, <4>2
      <3> HIDE DEF new
      <3> QED BY <3>2, <3>3
    <2>6. ASSUME NEW o \in now, NEW other \in now, o # other PROVE o \cap other = {}
      <3>1. \A one \in old \ touching : one \cap new = {}
        BY <2>1, <2>3, <2>4
      <3> HIDE DEF new
      <3> QED BY <2>2, <2>3, <2>6, <3>1
    <2>7. ASSUME NEW o \in now, NEW u \in o, NEW w \in s, Linked(in, u, w) PROVE w \in o
      <3>0. u \in s /\ Linked(in, w, u)
        BY <2>1, <2>5, <2>7, LinkedSymmetric
      <3>1. CASE o \in old \ touching
        BY <2>1, <2>3, <2>4, <2>7, <3>0, <3>1
      <3>2. CASE o = new
        <4>1. CASE w = v
          BY <3>2, <4>1
        <4>2. CASE w # v /\ u = v
          <5>1. PICK one \in old : w \in one
            BY <2>1, <2>3, <4>2
          <5> QED BY <2>4, <2>7, <3>2, <4>2, <5>1
        <4>3. CASE w # v /\ u # v
          BY <2>1, <2>3, <2>4, <2>7, <3>2, <4>3
        <4> QED BY <4>1, <4>2, <4>3
      <3> HIDE DEF new
      <3> QED BY <2>2, <3>1, <3>2
    <2>8. ASSUME NEW o \in now PROVE Connected(in, o)
      <3>1. CASE o \in old
        BY <2>3, <3>1
      <3>2. CASE o = new
        <4> SUFFICES ASSUME NEW P \in SUBSET new, P # {},
                            \A u \in P, w \in new : Linked(in, u, w) => w \in P
                     PROVE  P = new
          BY <3>2 DEF Connected
        <4>1. ASSUME NEW one \in touching, P \cap one # {} PROVE one \subseteq P
          <5>1. P \cap one \in SUBSET one
            OBVIOUS
          <5>2. \A u \in P \cap one, w \in one : Linked(in, u, w) => w \in P \cap one
            BY <4>1
          <5>3. Connected(in, one)
            BY <2>3, <2>4
          <5>4. P \cap one = one
            BY <4>1, <5>1, <5>2, <5>3 DEF Connected
          <5> QED BY <5>4
        <4>2. v \in P
          <5> SUFFICES ASSUME v \notin P PROVE FALSE
            OBVIOUS
          <5>1. PICK one \in touching : P \cap one # {}
            OBVIOUS
          <5>2. PICK w \in one : Linked(in, v, w)
            BY <2>4, <5>1
          <5>3. w \in P
            BY <4>1, <5>1, <5>2
          <5>4. w \in DOMAIN in /\ v \in DOMAIN in
            BY <2>1, <2>3, <2>4, <5>2
          <5>5. Linked(in, w, v)
            BY <5>2, <5>4, LinkedSymmetric
          <5> QED BY <5>3, <5>5
        <4>3. ASSUME NEW one \in touching PROVE one \subseteq P
          <5>1. PICK w \in one : Linked(in, v, w)
            BY <2>4
          <5>2. w \in P
            BY <4>2, <5>1
          <5> QED BY <4>1, <5>2
        <4> QED BY <4>2, <4>3
      <3> HIDE DEF new
      <3> QED BY <2>2, <3>1, <3>2
    <2>9. AreObjects(in, s, now)
      BY <2>5, <2>6, <2>7, <2>8 DEF AreObjects
    <2> QED BY <2>9 DEF now
  <1>3. SUBSET F \subseteq Good
    <2> HIDE DEF Good
    <2> QED BY <1>1, <1>2, SubsetInduction
  <1>4. F \in Good
    BY <1>3
  <1> QED BY <1>4, ObjectsIter

------------------------------------------------------------------------------
(* What compute labels: 0 is the background's, and two voxels have equal   *)
(* labels iff they are in one object.                                      *)

ObjectOf(in, v) == IF in[v] = 0 THEN {} ELSE CHOOSE o \in Objects(in) : v \in o

LEMMA ObjectOfMember ==
    ASSUME NEW in, DOMAIN in \subseteq IntVectors, IsFiniteSet(Foreground(in))
    PROVE  /\ \A v \in Foreground(in) : ObjectOf(in, v) \in Objects(in) /\ v \in ObjectOf(in, v)
           /\ \A o \in Objects(in) : o # {} /\ o \subseteq Foreground(in)
           /\ \A o \in Objects(in) : \A v \in o : ObjectOf(in, v) = o
           /\ \A v \in DOMAIN in : in[v] = 0 <=> ObjectOf(in, v) = {}
           /\ \A v, w \in Foreground(in) : Linked(in, v, w) => ObjectOf(in, v) = ObjectOf(in, w)
  <1>1. /\ Objects(in) \subseteq SUBSET Foreground(in) /\ {} \notin Objects(in)
        /\ UNION Objects(in) = Foreground(in)
        /\ \A o, other \in Objects(in) : o # other => o \cap other = {}
        /\ \A o \in Objects(in) : \A v \in o, w \in Foreground(in) : Linked(in, v, w) => w \in o
    BY ObjectsPartition DEF AreObjects
  <1>2. \A v \in Foreground(in) : in[v] # 0
    BY DEF Foreground
  <1>3. ASSUME NEW v \in Foreground(in)
        PROVE  ObjectOf(in, v) \in Objects(in) /\ v \in ObjectOf(in, v)
    <2>1. \E o \in Objects(in) : v \in o
      BY <1>1
    <2> QED BY <1>2, <2>1 DEF ObjectOf
  <1>4. ASSUME NEW o \in Objects(in), NEW v \in o PROVE ObjectOf(in, v) = o
    <2>1. v \in Foreground(in)
      BY <1>1
    <2> QED BY <1>1, <1>3, <2>1
  <1>5. ASSUME NEW v \in DOMAIN in PROVE in[v] = 0 <=> ObjectOf(in, v) = {}
    <2>1. in[v] = 0 => ObjectOf(in, v) = {}
      BY DEF ObjectOf
    <2>2. in[v] # 0 => v \in Foreground(in)
      BY DEF Foreground
    <2> QED BY <1>3, <2>1, <2>2
  <1>6. ASSUME NEW v \in Foreground(in), NEW w \in Foreground(in), Linked(in, v, w)
        PROVE  ObjectOf(in, v) = ObjectOf(in, w)
    BY <1>1, <1>3, <1>4, <1>6
  <1>7. \A o \in Objects(in) : o # {} /\ o \subseteq Foreground(in)
    BY <1>1
  <1> QED BY <1>3, <1>4, <1>5, <1>6, <1>7

FirstOf(o)    == CHOOSE v \in o : \A w \in o \ {v} : Before(v, w)
Firsts(in)    == {FirstOf(o) : o \in Objects(in)}
NotAfter(in, o) == {v \in Firsts(in) : ~Before(FirstOf(o), v)}

LEMMA ComputeUnfolds ==
    ASSUME NEW in
    PROVE  compute(in) = [v \in DOMAIN in |->
                             IF in[v] = 0 THEN 0
                             ELSE Cardinality(NotAfter(in, CHOOSE o \in Objects(in) : v \in o))]
  BY DEF compute, FirstOf, Firsts, NotAfter

LEMMA NumbersDiffer ==
    ASSUME NEW in, DOMAIN in \subseteq Vectors, IsFiniteSet(Foreground(in))
    PROVE  /\ IsFiniteSet(Firsts(in))
           /\ \A o \in Objects(in) : /\ Cardinality(NotAfter(in, o)) \in Nat \ {0}
                                    /\ Cardinality(NotAfter(in, o)) <= Cardinality(Firsts(in))
           /\ \A o, other \in Objects(in) :
                 Cardinality(NotAfter(in, o)) = Cardinality(NotAfter(in, other)) => o = other
  <1>1. /\ \A o \in Objects(in) : o # {} /\ o \subseteq Foreground(in)
        /\ \A o \in Objects(in) : \A v \in o : ObjectOf(in, v) = o
        /\ Foreground(in) \subseteq Vectors
    BY ObjectOfMember, ShapeType DEF Foreground
  <1>2. ASSUME NEW o \in Objects(in)
        PROVE  FirstOf(o) \in o
    <2>1. \E v \in o : \A w \in o \ {v} : Before(v, w)
      BY <1>1, FirstInOrder
    <2> QED BY <2>1 DEF FirstOf
  <1>3. Firsts(in) \subseteq Foreground(in) /\ Firsts(in) \subseteq Vectors
    BY <1>1, <1>2 DEF Firsts
  <1>4. IsFiniteSet(Firsts(in)) /\ Cardinality(Firsts(in)) \in Nat
    BY <1>3, FS_Subset, FS_CardinalityType
  <1>5. ASSUME NEW o \in Objects(in)
        PROVE  /\ IsFiniteSet(NotAfter(in, o)) /\ Cardinality(NotAfter(in, o)) \in Nat \ {0}
               /\ Cardinality(NotAfter(in, o)) <= Cardinality(Firsts(in))
               /\ FirstOf(o) \in NotAfter(in, o)
    <2>1. NotAfter(in, o) \in SUBSET Firsts(in)
      BY DEF NotAfter
    <2>2. FirstOf(o) \in NotAfter(in, o)
      BY <1>2, <1>3, BeforeOrders DEF NotAfter, Firsts
    <2>3. IsFiniteSet(NotAfter(in, o)) /\ Cardinality(NotAfter(in, o)) <= Cardinality(Firsts(in))
      BY <1>4, <2>1, FS_Subset
    <2>4. Cardinality(NotAfter(in, o)) \in Nat /\ Cardinality(NotAfter(in, o)) # 0
      BY <2>2, <2>3, FS_CardinalityType, FS_EmptySet
    <2> QED BY <2>2, <2>3, <2>4
  <1>6. ASSUME NEW o \in Objects(in), NEW other \in Objects(in), Before(FirstOf(o), FirstOf(other))
        PROVE  Cardinality(NotAfter(in, o)) # Cardinality(NotAfter(in, other))
    <2>1. FirstOf(o) \in Vectors /\ FirstOf(other) \in Vectors
      BY <1>3 DEF Firsts
    <2>2. NotAfter(in, o) \subseteq NotAfter(in, other)
      <3> SUFFICES ASSUME NEW v \in Firsts(in), ~Before(FirstOf(o), v), Before(FirstOf(other), v)
                   PROVE  FALSE
        BY DEF NotAfter
      <3> QED BY <1>3, <1>6, <2>1, BeforeOrders
    <2>3. FirstOf(other) \notin NotAfter(in, o) /\ FirstOf(other) \in NotAfter(in, other)
      BY <1>5, <1>6 DEF NotAfter
    <2> QED BY <1>5, <2>2, <2>3, FS_Subset
  <1>7. ASSUME NEW o \in Objects(in), NEW other \in Objects(in), o # other
        PROVE  Cardinality(NotAfter(in, o)) # Cardinality(NotAfter(in, other))
    <2>1. FirstOf(o) # FirstOf(other)
      BY <1>1, <1>2, <1>7
    <2>2. FirstOf(o) \in Vectors /\ FirstOf(other) \in Vectors
      BY <1>3 DEF Firsts
    <2>3. Before(FirstOf(o), FirstOf(other)) \/ Before(FirstOf(other), FirstOf(o))
      BY <2>1, <2>2, BeforeTotal
    <2> QED BY <1>6, <2>3
  <1> QED BY <1>4, <1>5, <1>7

LEMMA ComputeExact ==
    ASSUME NEW in, DOMAIN in \subseteq Vectors, IsFiniteSet(DOMAIN in)
    PROVE  /\ \E m \in Nat : compute(in) \in [DOMAIN in -> 0 .. m]
           /\ \A v \in DOMAIN in : compute(in)[v] = 0 <=> in[v] = 0
           /\ \A v, w \in DOMAIN in :
                 compute(in)[v] = compute(in)[w] <=> ObjectOf(in, v) = ObjectOf(in, w)
  <1>1. IsFiniteSet(Foreground(in)) /\ DOMAIN in \subseteq IntVectors
    BY FS_Subset, ShapeType DEF Foreground
  <1> DEFINE Label(v) == IF in[v] = 0 THEN 0 ELSE Cardinality(NotAfter(in, ObjectOf(in, v)))
  <1>2. DOMAIN compute(in) = DOMAIN in /\ compute(in) = [v \in DOMAIN in |-> Label(v)]
    BY ComputeUnfolds DEF ObjectOf
  <1>3. ASSUME NEW v \in DOMAIN in
        PROVE  /\ Label(v) = 0 <=> in[v] = 0
               /\ Label(v) \in 0 .. Cardinality(Firsts(in))
               /\ in[v] # 0 => ObjectOf(in, v) \in Objects(in)
               /\ in[v] = 0 <=> ObjectOf(in, v) = {}
    <2>1. in[v] # 0 => ObjectOf(in, v) \in Objects(in)
      BY <1>1, ObjectOfMember DEF Foreground
    <2>2. Cardinality(Firsts(in)) \in Nat
      BY <1>1, NumbersDiffer, FS_CardinalityType
    <2>3. CASE in[v] = 0
      BY <1>1, <2>2, <2>3, ObjectOfMember
    <2>4. CASE in[v] # 0
      <3>1. /\ Cardinality(NotAfter(in, ObjectOf(in, v))) \in Nat \ {0}
            /\ Cardinality(NotAfter(in, ObjectOf(in, v))) <= Cardinality(Firsts(in))
        BY <1>1, <2>1, <2>4, NumbersDiffer
      <3>2. ObjectOf(in, v) # {}
        BY <1>1, <2>4, ObjectOfMember
      <3> QED BY <2>1, <2>2, <2>4, <3>1, <3>2
    <2> QED BY <2>3, <2>4
  <1>4. ASSUME NEW v \in DOMAIN in, NEW w \in DOMAIN in
        PROVE  Label(v) = Label(w) <=> ObjectOf(in, v) = ObjectOf(in, w)
    <2>1. CASE in[v] = 0 \/ in[w] = 0
      BY <1>3, <2>1
    <2>2. CASE in[v] # 0 /\ in[w] # 0
      <3>1. ObjectOf(in, v) \in Objects(in) /\ ObjectOf(in, w) \in Objects(in)
        BY <1>3, <2>2
      <3> QED BY <1>1, <2>2, <3>1, NumbersDiffer
    <2> QED BY <2>1, <2>2
  <1> HIDE DEF Label
  <1>5. Cardinality(Firsts(in)) \in Nat
    BY <1>1, NumbersDiffer, FS_CardinalityType
  <1>6. compute(in) \in [DOMAIN in -> 0 .. Cardinality(Firsts(in))]
    BY <1>2, <1>3
  <1> QED BY <1>2, <1>3, <1>4, <1>5, <1>6

------------------------------------------------------------------------------
(* The union-find array, as a partition of the ids.                        *)

Partition(u, X) ==
    /\ u \subseteq SUBSET X /\ {} \notin u /\ UNION u = X
    /\ \A s, t \in u : s # t => s \cap t = {}

Together(u, a, b) == \E s \in u : a \in s /\ b \in s

Coarser(w, u) == \A a, b : Together(u, a, b) => Together(w, a, b)

(* uses relates an id to what it stands for; ids that are united stand for *)
(* the same.                                                               *)
Sound(u, uses) == \A s \in u : \A a, b \in uses : a[1] \in s /\ b[1] \in s => a[2] = b[2]

LEMMA UnionExact ==
    ASSUME NEW u, NEW X, Partition(u, X), NEW a \in X, NEW b \in X
    PROVE  /\ Partition(makeUnion(u, a, b), X)
           /\ Together(makeUnion(u, a, b), a, b)
           /\ Coarser(makeUnion(u, a, b), u)
  <1> DEFINE united == {s \in u : a \in s \/ b \in s}
             one == UNION united
             w == makeUnion(u, a, b)
  <1>1. w = (u \ united) \cup {one}
    BY DEF makeUnion
  <1>2. /\ u \subseteq SUBSET X /\ {} \notin u /\ UNION u = X
        /\ \A s, t \in u : s # t => s \cap t = {}
    BY DEF Partition
  <1> HIDE DEF w
  <1>3. a \in one /\ b \in one /\ one \subseteq X
    BY <1>2
  <1>4. \A s \in u \ united : s \cap one = {}
    BY <1>2
  <1>5. \A s \in united : s \subseteq one
    OBVIOUS
  <1>6. united \subseteq u
    OBVIOUS
  <1> HIDE DEF one, united
  <1>7. UNION w = X
    <2>1. ASSUME NEW e \in X PROVE \E s \in w : e \in s
      <3>1. PICK s \in u : e \in s
        BY <1>2
      <3>2. CASE s \in united
        BY <1>1, <1>5, <3>1, <3>2
      <3>3. CASE s \notin united
        BY <1>1, <3>1, <3>3
      <3> QED BY <3>2, <3>3
    <2> QED BY <1>1, <1>2, <1>3, <2>1
  <1>8. Partition(w, X)
    <2>1. \A s, t \in w : s # t => s \cap t = {}
      BY <1>1, <1>2, <1>4
    <2>2. w \subseteq SUBSET X /\ {} \notin w
      BY <1>1, <1>2, <1>3
    <2> QED BY <1>7, <2>1, <2>2 DEF Partition
  <1>9. Coarser(w, u)
    <2>1. ASSUME NEW s \in u PROVE \E t \in w : s \subseteq t
      BY <1>1, <1>5
    <2> QED BY <2>1 DEF Coarser, Together
  <1>10. Together(w, a, b)
    BY <1>1, <1>3 DEF Together
  <1> QED BY <1>8, <1>9, <1>10 DEF w

LEMMA UnionSound ==
    ASSUME NEW u, NEW uses, Sound(u, uses), NEW a, NEW b, NEW o,
           <<a, o>> \in uses, <<b, o>> \in uses
    PROVE  Sound(makeUnion(u, a, b), uses)
  <1> DEFINE united == {s \in u : a \in s \/ b \in s}
  <1>1. makeUnion(u, a, b) = (u \ united) \cup {UNION united}
    BY DEF makeUnion
  <1>2. ASSUME NEW s \in united, NEW e \in uses, e[1] \in s PROVE e[2] = o
    <2>1. <<a, o>>[1] = a /\ <<a, o>>[2] = o /\ <<b, o>>[1] = b /\ <<b, o>>[2] = o
      OBVIOUS
    <2>2. CASE a \in s
      BY <1>2, <2>1, <2>2 DEF Sound
    <2>3. CASE b \in s
      BY <1>2, <2>1, <2>3 DEF Sound
    <2> QED BY <2>2, <2>3
  <1>3. \A e \in uses : e[1] \in UNION united => e[2] = o
    BY <1>2
  <1> HIDE DEF united
  <1> QED BY <1>1, <1>3 DEF Sound

------------------------------------------------------------------------------
(* Merging two blocks unites the two ids of each voxel that they share.    *)

Shared(i, j) == Voxels(intersect(block(i), block(j)).out)

MergeIter(u, i, j) ==
    CHOOSE f : f = [s \in SUBSET Shared(i, j) |->
                       IF s = {} THEN u
                       ELSE LET v == CHOOSE e \in s : TRUE
                            IN  makeUnion(f[s \ {v}], Id(i, v), Id(j, v))]

LEMMA BlockMergeIter ==
    ASSUME NEW u, NEW i, NEW j
    PROVE  blockMerge(u, i, j) = IF intersect(block(i), block(j)).meets
                                 THEN MergeIter(u, i, j)[Shared(i, j)] ELSE u
  BY DEF blockMerge, FoldSet, MapThenFoldSet, MergeIter, Id, Shared

LEMMA MergeIterStep ==
    ASSUME NEW X, NEW u, Partition(u, X), NEW i, NEW j, IsFiniteSet(Shared(i, j))
    PROVE  /\ MergeIter(u, i, j)[{}] = u
           /\ \A s \in SUBSET Shared(i, j) :
                 s # {} => LET v == CHOOSE e \in s : TRUE
                           IN  MergeIter(u, i, j)[s] =
                                   makeUnion(MergeIter(u, i, j)[Rest(s)], Id(i, v), Id(j, v))
  <1> DEFINE S == Shared(i, j)
             T == SUBSET SUBSET X
             Unite(v, w) == makeUnion(w, Id(i, v), Id(j, v))
             step == [vo \in S \X T |-> Unite(vo[1], vo[2])]
             Steps(f) == [s \in SUBSET S |->
                             IF s = {} THEN u
                             ELSE LET v == CHOOSE e \in s : TRUE
                                  IN  Unite(v, f[s \ {v}])]
  <1>1. ASSUME NEW v \in S, NEW w \in T PROVE Unite(v, w) \in T
    BY DEF makeUnion
  <1>2. u \in T /\ IsFiniteSet(S)
    BY DEF Partition
  <1> HIDE DEF T, S, Unite
  <1>3. step \in [S \X T -> T]
    BY <1>1
  <1>4. \A v \in S, w \in T : step[<<v, w>>] = Unite(v, w)
    OBVIOUS
  <1> HIDE DEF step
  <1>5. FoldExists(S, T, u, step)
    BY <1>2, <1>3, SubsetRecursion
  <1>6. PICK f : f = Steps(f)
    <2>1. PICK f \in [SUBSET S -> T] :
             /\ f[{}] = u
             /\ \A s \in SUBSET S : s # {} => f[s] = step[<<CHOOSE e \in s : TRUE, f[Rest(s)]>>]
      BY <1>5 DEF FoldExists
    <2>2. ASSUME NEW s \in SUBSET S, s # {}
          PROVE  f[s] = Unite(CHOOSE e \in s : TRUE, f[Rest(s)])
      <3>1. f[Rest(s)] \in T /\ (CHOOSE e \in s : TRUE) \in S
        BY <2>2 DEF Rest
      <3> QED BY <1>4, <2>1, <2>2, <3>1
    <2>3. \A s \in SUBSET S : f[s] = Steps(f)[s]
      BY <2>1, <2>2 DEF Rest
    <2>4. f = Steps(f)
      BY <2>1, <2>3
    <2> HIDE DEF Steps
    <2> QED BY <2>4
  <1>7. MergeIter(u, i, j) = Steps(MergeIter(u, i, j))
    <2>1. MergeIter(u, i, j) = CHOOSE g : g = Steps(g)
      BY DEF MergeIter, S, Unite
    <2> HIDE DEF Steps
    <2> QED BY <1>6, <2>1
  <1>8. /\ MergeIter(u, i, j)[{}] = u
        /\ \A s \in SUBSET S :
              s # {} => LET v == CHOOSE e \in s : TRUE
                        IN  MergeIter(u, i, j)[s] = Unite(v, MergeIter(u, i, j)[Rest(s)])
    BY <1>7 DEF Rest
  <1> QED BY <1>8 DEF S, Unite

LEMMA BlockMergeExact ==
    ASSUME NEW X, NEW u, Partition(u, X), NEW i, NEW j, IsFiniteSet(Shared(i, j)),
           \A v \in Shared(i, j) : Id(i, v) \in X /\ Id(j, v) \in X,
           NEW uses, Sound(u, uses),
           \A v \in Shared(i, j) : \E o : <<Id(i, v), o>> \in uses /\ <<Id(j, v), o>> \in uses
    PROVE  /\ Partition(blockMerge(u, i, j), X)
           /\ Sound(blockMerge(u, i, j), uses)
           /\ Coarser(blockMerge(u, i, j), u)
           /\ intersect(block(i), block(j)).meets =>
                 \A v \in Shared(i, j) : Together(blockMerge(u, i, j), Id(i, v), Id(j, v))
  <1> DEFINE S == Shared(i, j)
             iter == MergeIter(u, i, j)
             Merged(s, w) == /\ Partition(w, X) /\ Sound(w, uses) /\ Coarser(w, u)
                              /\ \A v \in s : Together(w, Id(i, v), Id(j, v))
             Good == {s \in SUBSET S : Merged(s, iter[s])}
  <1>1. iter[{}] = u
    BY MergeIterStep
  <1>2. Coarser(u, u)
    BY DEF Coarser
  <1>3. {} \in Good
    <2> HIDE DEF iter
    <2> QED BY <1>1, <1>2
  <1>4. ASSUME NEW s \in SUBSET S, s # {}, Rest(s) \in Good PROVE s \in Good
    <2> DEFINE v == CHOOSE e \in s : TRUE
               w == iter[Rest(s)]
               n == iter[s]
    <2>1. v \in s /\ v \in S /\ s = Rest(s) \cup {v}
      BY <1>4 DEF Rest
    <2>2. n = makeUnion(w, Id(i, v), Id(j, v))
      BY <1>4, MergeIterStep
    <2>3. Merged(Rest(s), w)
      BY <1>4
    <2> HIDE DEF v, w, n, iter
    <2>4. Id(i, v) \in X /\ Id(j, v) \in X
      BY <2>1
    <2>5. Partition(n, X) /\ Together(n, Id(i, v), Id(j, v)) /\ Coarser(n, w)
      BY <2>2, <2>3, <2>4, UnionExact
    <2>6. Sound(n, uses)
      <3>1. PICK o : <<Id(i, v), o>> \in uses /\ <<Id(j, v), o>> \in uses
        BY <2>1
      <3> QED BY <2>2, <2>3, <3>1, UnionSound
    <2>7. Coarser(n, u)
      BY <2>3, <2>5 DEF Coarser
    <2>8. \A e \in s : Together(n, Id(i, e), Id(j, e))
      BY <2>1, <2>3, <2>5 DEF Coarser
    <2> QED BY <2>5, <2>6, <2>7, <2>8 DEF n
  <1>5. SUBSET S \subseteq Good
    <2> HIDE DEF Good
    <2> QED BY <1>3, <1>4, SubsetInduction
  <1>6. Merged(S, iter[S])
    BY <1>5
  <1>7. CASE intersect(block(i), block(j)).meets
    BY <1>6, <1>7, BlockMergeIter
  <1>8. CASE ~intersect(block(i), block(j)).meets
    BY <1>2, <1>8, BlockMergeIter
  <1> QED BY <1>7, <1>8

------------------------------------------------------------------------------
(* The ranks that makeContiguous gives the ids: equal for united ids only. *)

Roots(u)    == {Min(s) : s \in u}
Root(u, id) == Min(CHOOSE s \in u : id \in s)
Below(u, r) == {e \in Roots(u) : e < r}
Ranks(u)    == [id \in UNION u |-> Cardinality(Below(u, Root(u, id)))]

LEMMA RanksExact ==
    ASSUME NEW m \in Nat, NEW u, Partition(u, 0 .. m)
    PROVE  /\ Ranks(u) \in [0 .. m -> Nat]
           /\ \A a, b \in 0 .. m : Ranks(u)[a] = Ranks(u)[b] <=> Together(u, a, b)
  <1> DEFINE X == 0 .. m
  <1>1. /\ u \subseteq SUBSET X /\ {} \notin u /\ UNION u = X
        /\ \A s, t \in u : s # t => s \cap t = {}
    BY DEF Partition
  <1>2. ASSUME NEW s \in u PROVE Min(s) \in s
    <2>1. 0 \in Int /\ m \in Int
      OBVIOUS
    <2> HIDE DEF X
    <2>2. s \subseteq X /\ s # {}
      BY <1>1
    <2>3. \E l \in s : \A e \in s : l <= e
      BY <2>1, <2>2, LeastMember DEF X
    <2> QED BY <2>3 DEF Min
  <1>3. /\ IsFiniteSet(Roots(u)) /\ Roots(u) \subseteq X
    <2>1. Roots(u) \subseteq X
      BY <1>1, <1>2 DEF Roots
    <2>2. IsFiniteSet(X)
      BY FS_Interval
    <2> QED BY <2>1, <2>2, FS_Subset
  <1>4. ASSUME NEW r
        PROVE  IsFiniteSet(Below(u, r)) /\ Cardinality(Below(u, r)) \in Nat
    <2>1. Below(u, r) \in SUBSET Roots(u)
      BY DEF Below
    <2> QED BY <1>3, <2>1, FS_Subset, FS_CardinalityType
  <1>5. ASSUME NEW r \in Roots(u), NEW t \in Roots(u), r < t
        PROVE  Cardinality(Below(u, r)) # Cardinality(Below(u, t))
    <2>1. r \in Int /\ t \in Int /\ \A e \in Roots(u) : e \in Int
      BY <1>3
    <2>2. \A e \in Int : e < r => e < t
      BY <1>5, <2>1
    <2>3. Below(u, r) \subseteq Below(u, t)
      BY <2>1, <2>2 DEF Below
    <2>4. r \in Below(u, t) /\ r \notin Below(u, r)
      BY <1>5, <2>1 DEF Below
    <2> QED BY <1>4, <2>3, <2>4, FS_Subset
  <1>6. ASSUME NEW a \in X
        PROVE  /\ Root(u, a) \in Roots(u)
               /\ \E s \in u : a \in s /\ Root(u, a) = Min(s)
    <2>1. \E s \in u : a \in s
      BY <1>1
    <2> QED BY <2>1 DEF Root, Roots
  <1>7. ASSUME NEW a \in X, NEW b \in X
        PROVE  Root(u, a) = Root(u, b) <=> Together(u, a, b)
    <2>1. PICK s \in u : a \in s /\ Root(u, a) = Min(s)
      BY <1>6
    <2>2. PICK t \in u : b \in t /\ Root(u, b) = Min(t)
      BY <1>6
    <2>3. Min(s) = Min(t) => s = t
      BY <1>1, <1>2
    <2>4. \A e \in u : (a \in e => e = s) /\ (b \in e => e = t)
      BY <1>1, <2>1, <2>2
    <2> QED BY <2>1, <2>2, <2>3, <2>4 DEF Together
  <1>8. ASSUME NEW a \in X, NEW b \in X
        PROVE  Ranks(u)[a] = Ranks(u)[b] <=> Root(u, a) = Root(u, b)
    <2>1. Root(u, a) \in Int /\ Root(u, b) \in Int
      BY <1>3, <1>6
    <2>2. Root(u, a) = Root(u, b) \/ Root(u, a) < Root(u, b) \/ Root(u, b) < Root(u, a)
      BY <2>1
    <2>3. /\ Ranks(u)[a] = Cardinality(Below(u, Root(u, a)))
          /\ Ranks(u)[b] = Cardinality(Below(u, Root(u, b)))
      BY <1>1 DEF Ranks
    <2> QED BY <1>5, <1>6, <2>2, <2>3
  <1>9. Ranks(u) \in [X -> Nat]
    BY <1>1, <1>4 DEF Ranks
  <1> QED BY <1>7, <1>8, <1>9

------------------------------------------------------------------------------
(* AreAdjacent adds up squares.                                            *)

SumIter(diff) ==
    CHOOSE f : f = [s \in SUBSET Dim |->
                       IF s = {} THEN 0
                       ELSE LET d == CHOOSE e \in s : TRUE
                            IN  diff[d] * diff[d] + f[s \ {d}]]

LEMMA AdjacentIter ==
    ASSUME NEW i, NEW j
    PROVE  AreAdjacent(i, j) <=> SumIter(Minus(blocks_[i].first, blocks_[j].first))[Dim] = 1
  BY DEF AreAdjacent, squaredNorm, MapThenSumSet, MapThenFoldSet, SumIter

LEMMA SumOfOne ==
    ASSUME NEW diff \in IntVectors, NEW m \in Dim, diff[m] \in {-1, 1},
           \A e \in Dim \ {m} : diff[e] = 0
    PROVE  SumIter(diff)[Dim] = 1
  <1> DEFINE Sum(d, t) == diff[d] * diff[d] + t
             step == [dt \in Dim \X Int |-> Sum(dt[1], dt[2])]
             Steps(f) == [s \in SUBSET Dim |->
                             IF s = {} THEN 0
                             ELSE LET d == CHOOSE e \in s : TRUE
                                  IN  Sum(d, f[s \ {d}])]
             Good == {s \in SUBSET Dim : SumIter(diff)[s] = IF m \in s THEN 1 ELSE 0}
  <1>1. ASSUME NEW d \in Dim, NEW t \in Int
        PROVE  Sum(d, t) \in Int /\ Sum(d, t) = IF d = m THEN 1 + t ELSE t
    <2>1. CASE d = m
      <3>1. diff[d] = 1 \/ diff[d] = -1
        BY <2>1
      <3> QED BY <2>1, <3>1
    <2>2. CASE d # m
      BY <2>2
    <2> QED BY <2>1, <2>2
  <1> HIDE DEF Sum
  <1>2. IsFiniteSet(Dim) /\ 0 \in Int
    BY FS_Interval, GeometryAssumption DEF Dim
  <1>3. step \in [Dim \X Int -> Int]
    BY <1>1
  <1>4. \A d \in Dim, t \in Int : step[<<d, t>>] = Sum(d, t)
    OBVIOUS
  <1> HIDE DEF step
  <1>5. FoldExists(Dim, Int, 0, step)
    BY <1>2, <1>3, SubsetRecursion
  <1>6. PICK f : f = Steps(f)
    <2>1. PICK f \in [SUBSET Dim -> Int] :
             /\ f[{}] = 0
             /\ \A s \in SUBSET Dim : s # {} => f[s] = step[<<CHOOSE e \in s : TRUE, f[Rest(s)]>>]
      BY <1>5 DEF FoldExists
    <2>2. ASSUME NEW s \in SUBSET Dim, s # {}
          PROVE  f[s] = Sum(CHOOSE e \in s : TRUE, f[Rest(s)])
      <3>1. f[Rest(s)] \in Int /\ (CHOOSE e \in s : TRUE) \in Dim
        BY <2>2 DEF Rest
      <3> QED BY <1>4, <2>1, <2>2, <3>1
    <2>3. \A s \in SUBSET Dim : f[s] = Steps(f)[s]
      BY <2>1, <2>2 DEF Rest
    <2>4. f = Steps(f)
      BY <2>1, <2>3
    <2> HIDE DEF Steps
    <2> QED BY <2>4
  <1>7. SumIter(diff) = Steps(SumIter(diff))
    <2>1. SumIter(diff) = CHOOSE g : g = Steps(g)
      BY DEF SumIter, Sum
    <2> HIDE DEF Steps
    <2> QED BY <1>6, <2>1
  <1>8. {} \in Good
    BY <1>7
  <1>9. ASSUME NEW s \in SUBSET Dim, s # {}, Rest(s) \in Good PROVE s \in Good
    <2> DEFINE d == CHOOSE e \in s : TRUE
    <2>1. d \in s /\ d \in Dim /\ s = Rest(s) \cup {d} /\ d \notin Rest(s)
      BY <1>9 DEF Rest
    <2>2. SumIter(diff)[s] = Sum(d, SumIter(diff)[Rest(s)])
      BY <1>7, <1>9 DEF Rest
    <2>3. SumIter(diff)[Rest(s)] = IF m \in Rest(s) THEN 1 ELSE 0
      BY <1>9
    <2> HIDE DEF d
    <2> QED BY <1>1, <2>1, <2>2, <2>3
  <1>10. SUBSET Dim \subseteq Good
    <2> HIDE DEF Good
    <2> QED BY <1>2, <1>8, <1>9, SubsetInduction
  <1> QED BY <1>10

LEMMA NeighboursAdjacent ==
    ASSUME NEW i, NEW j, blocks_[i].first \in Vectors, blocks_[j].first \in Vectors,
           Adjacent(blocks_[i].first, blocks_[j].first)
    PROVE  AreAdjacent(i, j)
  <1> DEFINE c == blocks_[i].first
             e == blocks_[j].first
  <1>1. PICK m \in Dim : c[m] - e[m] \in {-1, 1} /\ \A d \in Dim \ {m} : c[d] = e[d]
    BY DEF Adjacent
  <1>2. \A d \in Dim : c[d] \in Int /\ e[d] \in Int
    BY DEF Vectors
  <1> HIDE DEF c, e
  <1>3. /\ Minus(c, e) \in IntVectors /\ Minus(c, e)[m] \in {-1, 1}
        /\ \A d \in Dim \ {m} : Minus(c, e)[d] = 0
    BY <1>1, <1>2 DEF Minus, IntVectors
  <1> QED BY <1>3, SumOfOne, AdjacentIter DEF c, e

------------------------------------------------------------------------------
(* The voxels of a block: in one dimension, those from its lower edge up   *)
(* to and with the first one of its successor.                             *)

Covers(b, c, n) == b * c <= n /\ n <= b * (c + 1)

LEMMA CoversExact ==
    ASSUME NEW b \in Nat \ {0}, NEW n \in Nat
    PROVE  /\ Quotient(n, b) \in Nat
           /\ Covers(b, Quotient(n, b), n) /\ Covers(b, Quotient(n, b), n + 1)
           /\ \A c, e \in Nat : Covers(b, c, n) /\ Covers(b, e, n) => c - e \in {-1, 0, 1}
           /\ \A c \in Nat : b * c <= n /\ n < b * (c + 1) <=> c = Quotient(n, b)
  <1> DEFINE quot == Quotient(n, b)
  <1>1. quot \in Nat /\ n % b \in Nat /\ n % b < b /\ b * quot + (n % b) = n
    BY QuotientSplits
  <1>2. b * (quot + 1) = b * quot + b /\ b * quot \in Int
    BY <1>1, MulMono
  <1> DEFINE low == b * quot
  <1>3. low <= n /\ n < b * (quot + 1) /\ n + 1 <= b * (quot + 1) /\ low <= n + 1 /\ b * (quot + 1) \in Int
    <2> HIDE DEF low, quot
    <2>1. low \in Int /\ low + (n % b) = n /\ b * (quot + 1) = low + b
      BY <1>1, <1>2 DEF low
    <2> QED BY <1>1, <2>1
  <1>4. Covers(b, quot, n) /\ Covers(b, quot, n + 1)
    <2> HIDE DEF quot
    <2> QED BY <1>1, <1>2, <1>3 DEF Covers
  <1>5. ASSUME NEW c \in Nat, NEW e \in Nat, b * c <= n, n <= b * (e + 1)
        PROVE  c <= e + 1
    <2>1. b * c \in Int /\ b * (e + 1) \in Int /\ b * (e + 2) \in Int
      BY MulMono
    <2>2. b * (e + 2) = b * (e + 1) + b
      <3>1. e + 1 \in Int /\ (e + 1) + 1 = e + 2
        OBVIOUS
      <3>2. b * ((e + 1) + 1) = b * (e + 1) + b
        BY <3>1, MulMono
      <3> QED BY <3>1, <3>2
    <2>3. b * c < b * (e + 2)
      <3> DEFINE lo == b * c
                 hi == b * (e + 1)
      <3> HIDE DEF lo, hi
      <3>1. lo \in Int /\ hi \in Int /\ lo <= n /\ n <= hi
        BY <1>5, <2>1 DEF lo, hi
      <3>2. lo < hi + b
        BY <3>1
      <3> QED BY <2>2, <3>2 DEF lo, hi
    <2>4. e + 2 \in Int /\ c \in Int
      OBVIOUS
    <2>5. c < e + 2
      BY <2>3, <2>4, MulMono
    <2> QED BY <2>4, <2>5
  <1>6. ASSUME NEW c \in Nat, NEW e \in Nat, Covers(b, c, n), Covers(b, e, n)
        PROVE  c - e \in {-1, 0, 1}
    <2>1. c <= e + 1 /\ e <= c + 1
      BY <1>5, <1>6 DEF Covers
    <2> QED BY <2>1
  <1>7. ASSUME NEW c \in Nat
        PROVE  b * c <= n /\ n < b * (c + 1) <=> c = quot
    <2>1. b * c <= n /\ n < b * (c + 1) => c = quot
      BY QuotientNat, DivUnique
    <2> HIDE DEF quot
    <2> QED BY <1>3, <2>1
  <1> HIDE DEF quot
  <1> QED BY <1>1, <1>4, <1>6, <1>7 DEF quot

(* The region of the block at c of a tiling of [Origin, s).                *)
TileRoi(c, s) == BlockRoi(c, [p |-> Origin, q |-> s], [d \in Dim |-> 1])

LEMMA TileVoxels ==
    ASSUME NEW s, IsShape(s), NEW c \in BlocksInRange(Origin, s)
    PROVE  LET r == TileRoi(c, s)
           IN  /\ r.p \in Vectors /\ r.q \in Vectors /\ c \in Vectors
               /\ \A d \in Dim : r.p[d] < r.q[d]
               /\ \A v : v \in Voxels(r) <=> /\ v \in Box(Origin, s)
                                             /\ \A d \in Dim : Covers(BlockShape[d], c[d], v[d])
  <1> DEFINE r == TileRoi(c, s)
  <1>1. /\ c \in Vectors /\ s \in Vectors
        /\ \A d \in Dim : BlockShape[d] * c[d] < s[d]
    BY WholeRegion, VisitedBlocks
  <1>2. ASSUME NEW d \in Dim
        PROVE  /\ r.p[d] = BlockShape[d] * c[d]
               /\ r.q[d] = Smaller(BlockShape[d] * (c[d] + 1) + 1, s[d])
               /\ r.p[d] \in Nat /\ r.q[d] \in Nat /\ r.p[d] < r.q[d]
               /\ \A n \in Nat : r.p[d] <= n /\ n < r.q[d]
                                   <=> n < s[d] /\ Covers(BlockShape[d], c[d], n)
    <2>1. /\ r.p[d] = BlockShape[d] * c[d]
          /\ r.q[d] = Smaller(BlockShape[d] * (c[d] + 1) + 1, s[d])
      BY DEF TileRoi, BlockRoi, blockBounds
    <2>2. BlockShape[d] \in Nat \ {0} /\ c[d] \in Nat /\ s[d] \in Nat
      BY <1>1, ShapeType DEF Vectors
    <2> DEFINE low == BlockShape[d] * c[d]
               high == BlockShape[d] * (c[d] + 1)
    <2>3. low \in Nat /\ high = low + BlockShape[d] /\ low < s[d]
      <3>1. low \in Int /\ high = low + BlockShape[d]
        BY <2>2, MulMono
      <3>2. low >= 0
        BY <2>2, SMT
      <3> QED BY <1>1, <3>1, <3>2
    <2>4. \A n \in Nat : Covers(BlockShape[d], c[d], n) <=> low <= n /\ n <= high
      BY DEF Covers
    <2>5. r.p[d] = low /\ r.q[d] = Smaller(high + 1, s[d])
      BY <2>1
    <2> HIDE DEF low, high, r
    <2>6. r.q[d] = IF high + 1 < s[d] THEN high + 1 ELSE s[d]
      BY <2>5 DEF Smaller
    <2>7. /\ r.p[d] \in Nat /\ r.q[d] \in Nat /\ r.p[d] < r.q[d]
          /\ \A n \in Nat : r.p[d] <= n /\ n < r.q[d] <=> n < s[d] /\ low <= n /\ n <= high
      BY <2>2, <2>3, <2>5, <2>6
    <2> QED BY <2>1, <2>4, <2>7
  <1>3. r.p \in Vectors /\ r.q \in Vectors
    <2>1. r.p = [d \in Dim |-> r.p[d]] /\ r.q = [d \in Dim |-> r.q[d]]
      BY DEF TileRoi, BlockRoi, blockBounds
    <2> HIDE DEF r
    <2> QED BY <1>2, <2>1 DEF Vectors
  <1>4. ASSUME NEW v
        PROVE  v \in Voxels(r) <=> /\ v \in Box(Origin, s)
                                   /\ \A d \in Dim : Covers(BlockShape[d], c[d], v[d])
    <2> HIDE DEF r
    <2>1. v \in Voxels(r) <=> v \in IntVectors /\ InRoi(v, r.p, r.q)
      BY <1>3, BoxMember, ShapeType DEF Voxels
    <2>2. v \in IntVectors /\ InRoi(v, r.p, r.q) => v \in Vectors
      BY <1>3 DEF InRoi, IntVectors, Vectors
    <2>3. ASSUME v \in Vectors
          PROVE  InRoi(v, r.p, r.q) <=> \A d \in Dim : /\ v[d] < s[d]
                                                      /\ Covers(BlockShape[d], c[d], v[d])
      <3>1. \A d \in Dim : v[d] \in Nat
        BY <2>3 DEF Vectors
      <3> QED BY <1>2, <3>1 DEF InRoi
    <2>4. v \in Box(Origin, s) <=> v \in Vectors /\ \A d \in Dim : v[d] < s[d]
      BY WholeRegion
    <2> QED BY <2>1, <2>2, <2>3, <2>4, ShapeType
  <1> QED BY <1>1, <1>2, <1>3, <1>4

LEMMA IntersectExact ==
    ASSUME NEW r, NEW s, r.p \in IntVectors, r.q \in IntVectors, s.p \in IntVectors,
           s.q \in IntVectors
    PROVE  /\ Voxels(intersect(r, s).out) = Voxels(r) \cap Voxels(s)
           /\ Voxels(r) \cap Voxels(s) # {} => intersect(r, s).meets
  <1> DEFINE low(d)  == Larger(r.p[d], s.p[d])
             high(d) == Smaller(r.q[d], s.q[d])
             fails(d) == \/ low(d) >= r.q[d] \/ low(d) >= s.q[d]
                         \/ high(d) < r.p[d] \/ high(d) < s.p[d]
             Written(d) == ~ \E e \in Dim : e < d /\ fails(e)
             both == intersect(r, s)
  <1>1. /\ both.meets <=> ~ \E d \in Dim : fails(d)
        /\ both.out.p = [d \in Dim |-> IF Written(d) THEN low(d) ELSE 0]
        /\ both.out.q = [d \in Dim |-> IF Written(d) THEN high(d) ELSE 0]
    BY DEF intersect, IntVectors
  <1>2. ASSUME NEW d \in Dim
        PROVE  /\ low(d) \in Int /\ high(d) \in Int
               /\ fails(d) => high(d) <= low(d)
               /\ \A n \in Int : low(d) <= n /\ n < high(d)
                     <=> r.p[d] <= n /\ n < r.q[d] /\ s.p[d] <= n /\ n < s.q[d]
    <2>1. r.p[d] \in Int /\ r.q[d] \in Int /\ s.p[d] \in Int /\ s.q[d] \in Int
      BY DEF IntVectors
    <2> QED BY <2>1 DEF Larger, Smaller
  <1> HIDE DEF low, high, fails
  <1>3. both.out.p \in IntVectors /\ both.out.q \in IntVectors
    <2> HIDE DEF both, Written
    <2> QED BY <1>1, <1>2 DEF IntVectors
  <1>4. \A v : v \in Voxels(r) \cap Voxels(s) <=>
                  v \in IntVectors /\ InRoi(v, r.p, r.q) /\ InRoi(v, s.p, s.q)
    BY BoxMember DEF Voxels
  <1>5. \A v : v \in Voxels(both.out) <=> v \in IntVectors /\ InRoi(v, both.out.p, both.out.q)
    <2> HIDE DEF both
    <2> QED BY <1>3, BoxMember DEF Voxels
  <1>6. ASSUME NEW v \in Voxels(r) \cap Voxels(s) PROVE both.meets
    <2>1. \A d \in Dim : low(d) <= v[d] /\ v[d] < high(d) /\ v[d] \in Int
      BY <1>2, <1>4 DEF InRoi, IntVectors
    <2>2. \A d \in Dim : ~fails(d)
      BY <1>2, <2>1
    <2> QED BY <1>1, <2>2
  <1>7. CASE \E d \in Dim : fails(d)
    <2> DEFINE failing == {d \in Dim : fails(d)}
    <2>1. 0 \in Int /\ N - 1 \in Int /\ failing \subseteq 0 .. N - 1 /\ failing # {}
      BY <1>7, GeometryAssumption DEF Dim
    <2>2. PICK e \in failing : \A d \in failing : e <= d
      <3> HIDE DEF failing
      <3> QED BY <2>1, LeastMember
    <2>3. e \in Dim /\ fails(e) /\ Written(e)
      <3>1. \A d \in Dim : d \in Int
        BY GeometryAssumption DEF Dim
      <3> QED BY <2>2, <3>1
    <2>4. both.out.p[e] = low(e) /\ both.out.q[e] = high(e)
      <3> HIDE DEF Written, both
      <3> QED BY <1>1, <2>3
    <2>5. Voxels(both.out) = {}
      <3> SUFFICES ASSUME NEW v \in Voxels(both.out) PROVE FALSE
        OBVIOUS
      <3>1. low(e) <= v[e] /\ v[e] < high(e) /\ v[e] \in Int
        BY <1>5, <2>3, <2>4 DEF InRoi, IntVectors
      <3> QED BY <1>2, <2>3, <3>1
    <2> HIDE DEF both
    <2>6. Voxels(r) \cap Voxels(s) = {}
      BY <1>1, <1>6, <1>7
    <2> QED BY <2>5, <2>6 DEF both
  <1>8. CASE ~ \E d \in Dim : fails(d)
    <2>1. \A d \in Dim : both.out.p[d] = low(d) /\ both.out.q[d] = high(d)
      <3>1. \A d \in Dim : Written(d)
        BY <1>8
      <3> HIDE DEF Written, both
      <3> QED BY <1>1, <3>1
    <2> HIDE DEF both
    <2>2. \A v \in IntVectors : InRoi(v, both.out.p, both.out.q)
                                   <=> InRoi(v, r.p, r.q) /\ InRoi(v, s.p, s.q)
      <3>1. \A v \in IntVectors : \A d \in Dim : v[d] \in Int
        BY DEF IntVectors
      <3> QED BY <1>2, <2>1, <3>1 DEF InRoi
    <2>3. Voxels(both.out) = Voxels(r) \cap Voxels(s)
      BY <1>4, <1>5, <2>2
    <2> QED BY <1>1, <1>8, <2>3 DEF both
  <1> QED BY <1>7, <1>8

(* Two adjacent voxels lie in the block of the lower one of them.          *)
LEMMA CommonBlock ==
    ASSUME NEW s, IsShape(s), NEW v \in Box(Origin, s), NEW w \in Box(Origin, s), Adjacent(v, w)
    PROVE  \E c \in BlocksInRange(Origin, s) :
              v \in Voxels(TileRoi(c, s)) /\ w \in Voxels(TileRoi(c, s))
  <1>1. v \in Vectors /\ w \in Vectors
    BY WholeRegion
  <1>2. ASSUME NEW a \in Box(Origin, s), NEW b \in Box(Origin, s), NEW d \in Dim,
               b[d] = a[d] + 1, \A e \in Dim \ {d} : a[e] = b[e]
        PROVE  \E c \in BlocksInRange(Origin, s) :
                  a \in Voxels(TileRoi(c, s)) /\ b \in Voxels(TileRoi(c, s))
    <2> DEFINE c == blockGivenCoordinateP(a)
    <2>1. a \in Vectors /\ InRoi(a, Origin, s)
      BY WholeRegion, BoxMember
    <2>2. c \in BlocksInRange(Origin, s)
      BY <2>1, WholeRegion, VisitComplete
    <2>3. ASSUME NEW e \in Dim
          PROVE  Covers(BlockShape[e], c[e], a[e]) /\ Covers(BlockShape[e], c[e], b[e])
      <3>1. a[e] \in Nat /\ BlockShape[e] \in Nat \ {0} /\ c[e] = Quotient(a[e], BlockShape[e])
        BY <2>1, ShapeType DEF Vectors, blockGivenCoordinateP
      <3>2. b[e] = a[e] \/ b[e] = a[e] + 1
        BY <1>2
      <3>3. Covers(BlockShape[e], c[e], a[e]) /\ Covers(BlockShape[e], c[e], a[e] + 1)
        BY <3>1, CoversExact
      <3> QED BY <3>2, <3>3
    <2> QED BY <2>2, <2>3, TileVoxels
  <1>3. PICK d \in Dim : v[d] - w[d] \in {-1, 1} /\ \A e \in Dim \ {d} : v[e] = w[e]
    BY DEF Adjacent
  <1>4. v[d] \in Nat /\ w[d] \in Nat
    BY <1>1 DEF Vectors
  <1>5. w[d] = v[d] + 1 \/ v[d] = w[d] + 1
    BY <1>3, <1>4
  <1> QED BY <1>2, <1>3, <1>5

------------------------------------------------------------------------------
(* What the labels of a block say about the image.                         *)

LEMMA BlockLabels ==
    ASSUME NEW s, IsShape(s), image \in [Box(Origin, s) -> Value],
           NEW c \in BlocksInRange(Origin, s)
    PROVE  LET r == TileRoi(c, s)
               labels == compute(readBlock(r))
           IN  /\ \E m \in Nat : labels \in [Box(Origin, shape(r)) -> 0 .. m]
               /\ \A v \in Voxels(r) : Relative(v, r) \in Box(Origin, shape(r))
               /\ \A v, w \in Voxels(r) :
                     Linked(image, v, w) => labels[Relative(v, r)] = labels[Relative(w, r)]
               /\ \A v, w \in Voxels(r) :
                     labels[Relative(v, r)] = labels[Relative(w, r)]
                         => ObjectOf(image, v) = ObjectOf(image, w)
               /\ Box(Origin, shape(r)) # {}
  <1> DEFINE r == TileRoi(c, s)
             in == readBlock(r)
             D == Box(Origin, shape(r))
  <1>1. /\ r.p \in Vectors /\ r.q \in Vectors /\ \A d \in Dim : r.p[d] < r.q[d]
        /\ Voxels(r) \subseteq Box(Origin, s)
        /\ r.p \in IntVectors /\ r.q \in IntVectors
    BY TileVoxels, ShapeType
  <1>2. in = [v \in D |-> image[Plus(v, r.p)]]
    BY DEF readBlock
  <1>3. \A v : v \in Voxels(r) <=> v \in IntVectors /\ InRoi(v, r.p, r.q)
    BY <1>1, BoxMember DEF Voxels
  <1> HIDE DEF r, in
  <1>4. shape(r) \in Vectors /\ \A d \in Dim : shape(r)[d] = r.q[d] - r.p[d]
    <2>1. \A d \in Dim : r.q[d] \in Nat /\ r.p[d] \in Nat
      BY <1>1 DEF Vectors
    <2>2. \A d \in Dim : r.q[d] - r.p[d] \in Nat
      BY <1>1, <2>1
    <2>3. shape(r) = [d \in Dim |-> r.q[d] - r.p[d]]
      BY <1>1 DEF shape, Subtract, Vectors
    <2> QED BY <2>2, <2>3 DEF Vectors
  <1>5. \A v : v \in D <=> v \in Vectors /\ \A d \in Dim : v[d] < r.q[d] - r.p[d]
    <2>1. \A v : v \in D <=> v \in IntVectors /\ InRoi(v, Origin, shape(r))
      BY <1>4, BoxMember, ShapeType
    <2>2. \A v : v \in IntVectors /\ InRoi(v, Origin, shape(r)) => v \in Vectors
      BY ShapeType DEF InRoi, IntVectors, Vectors
    <2>3. \A v \in Vectors : \A d \in Dim : 0 <= v[d]
      BY DEF Vectors
    <2> HIDE DEF D
    <2> QED BY <1>4, <2>1, <2>2, <2>3, ShapeType DEF InRoi
  <1> HIDE DEF D
  <1>6. ASSUME NEW v \in Voxels(r)
        PROVE  Relative(v, r) \in D /\ Plus(Relative(v, r), r.p) = v
    <2>1. /\ v \in IntVectors
          /\ \A d \in Dim : /\ r.p[d] <= v[d] /\ v[d] < r.q[d]
                            /\ r.p[d] \in Nat /\ r.q[d] \in Nat /\ v[d] \in Int
      BY <1>1, <1>3 DEF InRoi, IntVectors, Vectors
    <2>2. \A d \in Dim : /\ v[d] - r.p[d] \in Nat /\ v[d] - r.p[d] < r.q[d] - r.p[d]
                         /\ (v[d] - r.p[d]) + r.p[d] = v[d]
      BY <2>1
    <2>3. Relative(v, r) = [d \in Dim |-> v[d] - r.p[d]]
      BY DEF Relative, Minus
    <2>4. Relative(v, r) \in D
      BY <1>5, <2>2, <2>3 DEF Vectors
    <2>5. v = [d \in Dim |-> v[d]]
      BY <2>1 DEF IntVectors
    <2> QED BY <2>2, <2>3, <2>4, <2>5 DEF Plus
  <1>7. ASSUME NEW u \in D
        PROVE  Plus(u, r.p) \in Voxels(r) /\ Relative(Plus(u, r.p), r) = u
    <2>1. /\ u \in Vectors
          /\ \A d \in Dim : /\ u[d] < r.q[d] - r.p[d] /\ u[d] \in Nat
                            /\ r.p[d] \in Nat /\ r.q[d] \in Nat
      BY <1>1, <1>5 DEF Vectors
    <2>2. \A d \in Dim : /\ u[d] + r.p[d] \in Int /\ (u[d] + r.p[d]) - r.p[d] = u[d]
                         /\ r.p[d] <= u[d] + r.p[d] /\ u[d] + r.p[d] < r.q[d]
      BY <2>1
    <2>3. Plus(u, r.p) = [d \in Dim |-> u[d] + r.p[d]]
      BY DEF Plus
    <2>4. Plus(u, r.p) \in Voxels(r)
      BY <1>3, <2>2, <2>3 DEF InRoi, IntVectors
    <2>5. u = [d \in Dim |-> u[d]]
      BY <2>1 DEF Vectors
    <2> QED BY <2>2, <2>3, <2>4, <2>5 DEF Relative, Minus
  <1>8. /\ DOMAIN in = D /\ D \subseteq Vectors /\ IsFiniteSet(D)
        /\ \A v \in Voxels(r) : in[Relative(v, r)] = image[v]
    <2>1. IsFiniteSet(D)
      BY <1>4, FiniteBox, ShapeType DEF D
    <2> QED BY <1>2, <1>5, <1>6, <2>1
  <1>9. ASSUME NEW v \in Voxels(r), NEW w \in Voxels(r)
        PROVE  Linked(in, Relative(v, r), Relative(w, r)) <=> Linked(image, v, w)
    <2>1. \A d \in Dim : v[d] \in Int /\ w[d] \in Int /\ r.p[d] \in Int
      BY <1>1, <1>3 DEF IntVectors
    <2>2. \A d \in Dim : /\ (v[d] - r.p[d]) - (w[d] - r.p[d]) = v[d] - w[d]
                         /\ v[d] - r.p[d] = w[d] - r.p[d] <=> v[d] = w[d]
      BY <2>1
    <2>3. Adjacent(Relative(v, r), Relative(w, r)) <=> Adjacent(v, w)
      BY <2>2 DEF Adjacent, Relative, Minus
    <2> QED BY <1>8, <2>3 DEF Linked
  <1>10. /\ \E m \in Nat : compute(in) \in [D -> 0 .. m]
         /\ \A v, w \in D :
               compute(in)[v] = compute(in)[w] <=> ObjectOf(in, v) = ObjectOf(in, w)
    BY <1>8, ComputeExact
  <1>11. /\ IsFiniteSet(Foreground(in)) /\ DOMAIN in \subseteq IntVectors
         /\ IsFiniteSet(Foreground(image)) /\ DOMAIN image \subseteq IntVectors
         /\ DOMAIN image = Box(Origin, s)
    BY <1>8, WholeRegion, FS_Subset, ShapeType DEF Foreground
  <1>12. ASSUME NEW v \in Voxels(r), NEW w \in Voxels(r), Linked(image, v, w)
         PROVE  compute(in)[Relative(v, r)] = compute(in)[Relative(w, r)]
    <2> DEFINE a == Relative(v, r)
               b == Relative(w, r)
    <2>1. a \in D /\ b \in D /\ in[a] = image[v] /\ in[b] = image[w] /\ Linked(in, a, b)
      BY <1>6, <1>8, <1>9, <1>12
    <2> HIDE DEF a, b
    <2>2. in[a] = in[b]
      BY <2>1 DEF Linked
    <2>3. CASE in[a] = 0
      BY <1>10, <2>1, <2>2, <2>3 DEF ObjectOf, a, b
    <2>4. CASE in[a] # 0
      <3>1. a \in Foreground(in) /\ b \in Foreground(in)
        BY <1>8, <2>1, <2>2, <2>4 DEF Foreground
      <3> QED BY <1>10, <1>11, <2>1, <3>1, ObjectOfMember DEF a, b
    <2> QED BY <2>3, <2>4 DEF a, b
  <1>13. ASSUME NEW v \in Voxels(r), NEW w \in Voxels(r),
                compute(in)[Relative(v, r)] = compute(in)[Relative(w, r)]
         PROVE  ObjectOf(image, v) = ObjectOf(image, w)
    <2> DEFINE a == Relative(v, r)
               b == Relative(w, r)
               o == ObjectOf(in, a)
               P == {u \in o : ObjectOf(image, Plus(u, r.p)) = ObjectOf(image, v)}
    <2>1. /\ a \in D /\ b \in D /\ in[a] = image[v] /\ in[b] = image[w]
          /\ Plus(a, r.p) = v /\ Plus(b, r.p) = w
      BY <1>6, <1>8
    <2>2. ObjectOf(in, b) = o
      BY <1>10, <1>13, <2>1
    <2>3. v \in DOMAIN image /\ w \in DOMAIN image
      BY <1>1, <1>11
    <2> HIDE DEF a, b, o
    <2>4. CASE in[a] = 0
      <3>1. in[b] = 0
        BY <1>8, <1>11, <2>1, <2>2, <2>4, ObjectOfMember DEF o
      <3> QED BY <2>1, <2>4, <3>1 DEF ObjectOf
    <2>5. CASE in[a] # 0
      <3>1. in[b] # 0
        BY <1>8, <1>11, <2>1, <2>2, <2>5, ObjectOfMember DEF o
      <3>2. a \in Foreground(in) /\ b \in Foreground(in)
        BY <1>8, <2>1, <2>5, <3>1 DEF Foreground
      <3>3. o \in Objects(in) /\ a \in o /\ b \in o /\ o \subseteq Foreground(in)
        BY <1>11, <2>2, <3>2, ObjectOfMember DEF o
      <3>4. Connected(in, o)
        BY <1>11, <3>3, ObjectsPartition DEF AreObjects
      <3>5. P \in SUBSET o /\ a \in P
        BY <2>1, <3>3
      <3>6. ASSUME NEW e \in P, NEW f \in o, Linked(in, e, f) PROVE f \in P
        <4> DEFINE x1 == Plus(e, r.p)
                   y1 == Plus(f, r.p)
        <4>1. e \in D /\ f \in D /\ e \in Foreground(in) /\ f \in Foreground(in)
          BY <1>8, <3>3 DEF Foreground
        <4>2. /\ x1 \in Voxels(r) /\ y1 \in Voxels(r)
              /\ Relative(x1, r) = e /\ Relative(y1, r) = f
          BY <1>7, <4>1
        <4>3. Linked(image, x1, y1) /\ image[x1] = in[e] /\ image[y1] = in[f]
          BY <1>8, <1>9, <3>6, <4>2
        <4> HIDE DEF x1, y1
        <4>4. x1 \in Foreground(image) /\ y1 \in Foreground(image)
          BY <1>1, <1>11, <4>1, <4>2, <4>3 DEF Foreground
        <4>5. ObjectOf(image, x1) = ObjectOf(image, y1)
          BY <1>11, <4>3, <4>4, ObjectOfMember
        <4> QED BY <4>5 DEF x1, y1
      <3>7. P = o
        <4> HIDE DEF P
        <4> QED BY <3>4, <3>5, <3>6 DEF Connected
      <3> QED BY <2>1, <3>3, <3>7
    <2> QED BY <2>4, <2>5
  <1>14. D # {}
    <2>1. Origin \in D
      <3>1. \A d \in Dim : 0 < r.q[d] - r.p[d]
        <4>1. \A d \in Dim : r.q[d] \in Nat /\ r.p[d] \in Nat
          BY <1>1 DEF Vectors
        <4> QED BY <1>1, <4>1
      <3> QED BY <1>5, <3>1, ShapeType
    <2> QED BY <2>1
  <1> QED BY <1>6, <1>10, <1>12, <1>13, <1>14 DEF r, in, D

(* The blocks that hold a voxel are connected by steps between neighbours: *)
(* a set of blocks that is closed under these steps has them all.  Blocks  *)
(* that touch in an edge or a corner only are reached one dimension after  *)
(* the other.                                                              *)
LEMMA CornerPath ==
    ASSUME NEW s, IsShape(s), NEW v, NEW R, R \subseteq BlocksInRange(Origin, s),
           NEW first \in R, v \in Voxels(TileRoi(first, s)),
           \A a \in R : \A b \in BlocksInRange(Origin, s) :
               Adjacent(a, b) /\ v \in Voxels(TileRoi(a, s)) /\ v \in Voxels(TileRoi(b, s))
                   => b \in R,
           NEW last \in BlocksInRange(Origin, s), v \in Voxels(TileRoi(last, s))
    PROVE  last \in R
  <1> DEFINE range == BlocksInRange(Origin, s)
             H(m) == [d \in Dim |-> IF d < m THEN last[d] ELSE first[d]]
             Good == {m \in Nat : m <= N => H(m) \in R}
  <1>1. /\ first \in Vectors /\ last \in Vectors /\ first \in range /\ last \in range
        /\ \A c \in range : \A u : u \in Voxels(TileRoi(c, s)) <=>
              u \in Box(Origin, s) /\ \A d \in Dim : Covers(BlockShape[d], c[d], u[d])
        /\ \A u \in Box(Origin, s) : u \in Vectors
    BY TileVoxels, WholeRegion
  <1>2. \A d \in Dim : /\ Covers(BlockShape[d], first[d], v[d])
                       /\ Covers(BlockShape[d], last[d], v[d])
                       /\ first[d] \in Nat /\ last[d] \in Nat /\ v[d] \in Nat
                       /\ BlockShape[d] \in Nat \ {0}
    <2>1. v \in Vectors
      BY <1>1
    <2> QED BY <1>1, <2>1, ShapeType DEF Vectors
  <1>3. ASSUME NEW m \in Nat
        PROVE  H(m) \in range /\ v \in Voxels(TileRoi(H(m), s))
    <2>1. H(m) \in Vectors
      BY <1>1 DEF Vectors
    <2>2. \A d \in Dim : H(m)[d] = first[d] \/ H(m)[d] = last[d]
      OBVIOUS
    <2>3. \A c \in Vectors : c \in range <=>
             \A d \in Dim : /\ blockGivenCoordinateP(Origin)[d] <= c[d]
                            /\ c[d] <= blockGivenCoordinateQ(s)[d] - 1
      BY WholeRegion, RangeMember
    <2> HIDE DEF H, range
    <2>4. H(m) \in range
      BY <1>1, <2>1, <2>2, <2>3
    <2>5. \A d \in Dim : Covers(BlockShape[d], H(m)[d], v[d])
      BY <1>2, <2>2
    <2>6. v \in Box(Origin, s)
      BY <1>1
    <2> QED BY <1>1, <2>4, <2>5, <2>6
  <1>4. 0 \in Good
    <2>1. H(0) = first
      <3>1. \A d \in Dim : ~(d < 0)
        BY GeometryAssumption DEF Dim
      <3> QED BY <1>1, <3>1 DEF Vectors
    <2> QED BY <2>1
  <1>5. ASSUME NEW n \in Nat, n # 0, n - 1 \in Good PROVE n \in Good
    <2> SUFFICES ASSUME n <= N PROVE H(n) \in R
      OBVIOUS
    <2> DEFINE m == n - 1
    <2>1. m \in Nat /\ m \in Dim /\ m + 1 = n
      BY <1>5, GeometryAssumption DEF Dim
    <2>2. H(m) \in R
      <3>1. m <= N
        BY <2>1, GeometryAssumption DEF Dim
      <3> HIDE DEF H, m
      <3>2. m \in Good
        BY <1>5 DEF m
      <3> QED BY <3>1, <3>2
    <2>3. /\ \A d \in Dim \ {m} : H(m)[d] = H(n)[d]
          /\ H(m)[m] = first[m] /\ H(n)[m] = last[m]
      <3>1. \A d \in Dim : d # m => (d < m <=> d < n)
        BY <2>1, GeometryAssumption DEF Dim
      <3>2. ~(m < m) /\ m < n
        BY <2>1
      <3> HIDE DEF m
      <3> QED BY <2>1, <3>1, <3>2
    <2>4. first[m] - last[m] \in {-1, 0, 1}
      BY <1>2, <2>1, CoversExact
    <2>5. H(n) \in range /\ v \in Voxels(TileRoi(H(n), s)) /\ v \in Voxels(TileRoi(H(m), s))
      BY <1>3, <2>1
    <2>6. CASE first[m] - last[m] = 0
      <3>1. first[m] = last[m]
        BY <1>2, <2>1, <2>6
      <3>2. \A d \in Dim : H(m)[d] = H(n)[d]
        BY <2>3, <3>1
      <3>3. H(m) = H(n)
        BY <3>2
      <3> QED BY <2>2, <3>3
    <2>7. CASE first[m] - last[m] # 0
      <3>1. Adjacent(H(m), H(n))
        <4> HIDE DEF H, m
        <4> QED BY <2>1, <2>3, <2>4, <2>7 DEF Adjacent
      <3> HIDE DEF H
      <3> QED BY <2>2, <2>5, <3>1
    <2> QED BY <2>6, <2>7
  <1>6. Nat \subseteq Good
    <2> HIDE DEF Good
    <2> QED BY <1>4, <1>5, NatSetInduction
  <1>7. N \in Nat /\ N <= N
    BY GeometryAssumption
  <1>8. H(N) \in R
    BY <1>6, <1>7
  <1>9. H(N) = last
    <2>1. \A d \in Dim : d < N
      BY GeometryAssumption DEF Dim
    <2> QED BY <1>1, <2>1 DEF Vectors
  <1> QED BY <1>8, <1>9

------------------------------------------------------------------------------
(* The invariant.  Labels(i) are the block's own labels, Ident(i, v) the   *)
(* id of voxel v in block i and Final(i) the labels after relabeling;      *)
(* these do not depend on how far the loops are.                           *)

Shape   == roi_.q
InRange == BlocksInRange(Origin, Shape)
Coord   == [i \in DOMAIN blocks_ |-> blocks_[i].first]

Tiling ==
    /\ Shape \in Shapes /\ roi_ = [p |-> Origin, q |-> Shape] /\ overlap_ = [d \in Dim |-> 1]
    /\ blocks_ \in Seq({Pair(c, roi_, overlap_) : c \in InRange}) /\ blocks_ # <<>>
    /\ IF pc = "tile" THEN Odometer(Origin, Shape, x, dim, Coord)
       ELSE Ascending(Coord) /\ Entries(Coord) = InRange

Labels(i)   == compute(readBlock(block(i)))
Ident(i, v) == Labels(i)[Relative(v, block(i))] + offsets[i]
Final(i)    == [v \in DOMAIN Labels(i) |-> rank[Labels(i)[v] + offsets[i]]]
LabelArrays == UNION {[Box(Origin, shape(block(i))) -> Nat] : i \in 1 .. numBlocks}

Ids  == 0 .. offsets[numBlocks + 1]
Uses == UNION {{<<Ident(i, v), ObjectOf(image, v)>> : v \in Voxels(block(i))} :
                   i \in 1 .. numBlocks}

(* The ids of a block end before those of its successors begin.            *)
OffsetsApart ==
    \A i \in 1 .. Len(offsets) - 1 : \A l \in Range(Labels(i)) :
        \A j \in i + 1 .. Len(offsets) : offsets[i] + l < offsets[j]

Labelling ==
    /\ image \in [Box(Origin, Shape) -> Value]
    /\ ccBlocks_ \in Seq(LabelArrays) /\ offsets \in Seq(Nat)
    /\ Len(offsets) = Len(ccBlocks_) + 1 /\ Len(ccBlocks_) <= numBlocks
    /\ OffsetsApart

United(i, j) ==
    \A v \in Voxels(block(i)) \cap Voxels(block(j)) : Together(ufd, Ident(i, v), Ident(j, v))

Merging ==
    /\ Len(ccBlocks_) = numBlocks /\ Partition(ufd, Ids) /\ Sound(ufd, Uses)

Merged ==
    /\ Merging /\ rank = Ranks(ufd)
    /\ \A i, j \in 1 .. numBlocks : United(i, j)

Written(v) == \E i \in 1 .. numBlocks :
                  v \in Voxels(block(i)) /\ dataset[v] = rank[Ident(i, v)]

IInv ==
    /\ Tiling /\ Labelling /\ k \in Nat \ {0}
    /\ \/ /\ pc = "tile" /\ k = 1 /\ ccBlocks_ = <<>>
       \/ /\ pc = "tiled" /\ k <= numBlocks + 1 /\ Len(ccBlocks_) = k - 1
          /\ \A i \in 1 .. k - 1 : ccBlocks_[i] = Labels(i)
       \/ /\ pc = "merge" /\ Merging
          /\ \A i \in 1 .. numBlocks : ccBlocks_[i] = Labels(i)
          /\ \A a \in adjBlocks : Position(a) < k => United(a[1], a[2])
       \/ /\ pc = "relabel" /\ Merged /\ k <= numBlocks + 1
          /\ \A i \in 1 .. numBlocks : ccBlocks_[i] = IF i < k THEN Final(i) ELSE Labels(i)
       \/ /\ pc \in {"write", "done"} /\ Merged /\ k <= numBlocks + 1
          /\ pc = "done" => k = numBlocks + 1
          /\ \A i \in 1 .. numBlocks : ccBlocks_[i] = Final(i)
          /\ dataset \in [Voxels(roi_) -> Nat]
          /\ \A v \in Voxels(roi_) :
                (\E i \in 1 .. k - 1 : v \in Voxels(block(i))) => Written(v)

------------------------------------------------------------------------------
(* The tiling.                                                             *)

LEMMA TilingState ==
    ASSUME Tiling
    PROVE  /\ IsShape(Shape) /\ IsRegion(Origin, Shape) /\ Voxels(roi_) = Box(Origin, Shape)
           /\ numBlocks \in Nat \ {0} /\ Coord \in Seq(InRange) /\ Len(Coord) = numBlocks
           /\ DOMAIN blocks_ = 1 .. numBlocks /\ DOMAIN Coord = 1 .. numBlocks
           /\ \A i \in 1 .. numBlocks : /\ Coord[i] \in InRange
                                        /\ blocks_[i] = Pair(Coord[i], roi_, overlap_)
                                        /\ block(i) = TileRoi(Coord[i], Shape)
  <1> DEFINE pairs == {Pair(c, roi_, overlap_) : c \in InRange}
  <1>1. /\ Shape \in Shapes /\ roi_ = [p |-> Origin, q |-> Shape]
        /\ overlap_ = [d \in Dim |-> 1] /\ blocks_ \in Seq(pairs) /\ blocks_ # <<>>
    BY DEF Tiling
  <1>2. IsShape(Shape)
    BY <1>1, ImageAssumption DEF IsShape
  <1>3. IsRegion(Origin, Shape)
    BY <1>2, WholeRegion
  <1>4. numBlocks \in Nat \ {0} /\ DOMAIN blocks_ = 1 .. numBlocks
    <2> HIDE DEF pairs
    <2> QED BY <1>1 DEF numBlocks
  <1>5. Voxels(roi_) = Box(Origin, Shape)
    BY <1>1 DEF Voxels
  <1>6. ASSUME NEW i \in 1 .. numBlocks
        PROVE  /\ Coord[i] \in InRange
               /\ blocks_[i] = Pair(Coord[i], roi_, overlap_)
               /\ block(i) = TileRoi(Coord[i], Shape)
    <2>1. blocks_[i] \in pairs
      <3> HIDE DEF pairs
      <3> QED BY <1>1, <1>4
    <2>2. PICK c \in InRange : blocks_[i] = Pair(c, roi_, overlap_)
      BY <2>1
    <2>3. Coord[i] = c
      BY <1>4, <2>2 DEF Coord, Pair
    <2>4. block(i) = BlockRoi(c, roi_, overlap_)
      BY <2>2 DEF block, Pair
    <2> QED BY <1>1, <2>2, <2>3, <2>4 DEF TileRoi
  <1>7. Coord \in Seq(InRange) /\ Len(Coord) = numBlocks /\ DOMAIN Coord = 1 .. numBlocks
    <2>1. Coord = [i \in 1 .. numBlocks |-> Coord[i]]
      BY <1>4 DEF Coord
    <2>2. \A i \in 1 .. numBlocks : Coord[i] \in InRange
      BY <1>6
    <2> HIDE DEF pairs
    <2> QED BY <1>4, <2>1, <2>2
  <1> QED BY <1>2, <1>3, <1>4, <1>5, <1>6, <1>7

(* Each block of the region is listed, and once.                           *)
LEMMA TilingComplete ==
    ASSUME Tiling, pc # "tile"
    PROVE  /\ \A c \in InRange : \E i \in 1 .. numBlocks : Coord[i] = c
           /\ \A i, j \in 1 .. numBlocks : Coord[i] = Coord[j] => i = j
  <1>1. Ascending(Coord) /\ Entries(Coord) = InRange
    BY DEF Tiling
  <1>2. /\ DOMAIN Coord = 1 .. numBlocks /\ numBlocks \in Nat
        /\ \A i \in 1 .. numBlocks : Coord[i] \in InRange
        /\ InRange \subseteq Vectors
    BY TilingState, RangeMember DEF InRange
  <1>3. \A c \in InRange : \E i \in 1 .. numBlocks : Coord[i] = c
    BY <1>1, <1>2 DEF Entries
  <1>4. \A i, j \in 1 .. numBlocks : i < j => Coord[i] # Coord[j]
    BY <1>1, <1>2, BeforeOrders DEF Ascending
  <1>5. \A i, j \in 1 .. numBlocks : i = j \/ i < j \/ j < i
    BY <1>2
  <1> QED BY <1>3, <1>4, <1>5

LEMMA TilingStarts ==
    ASSUME Init
    PROVE  Tiling
  <1>1. PICK s \in Shapes : Construct([p |-> Origin, q |-> s], [d \in Dim |-> 1])
    BY DEF Init
  <1>2. /\ roi_ = [p |-> Origin, q |-> s] /\ Shape = s /\ overlap_ = [d \in Dim |-> 1]
        /\ x = Origin /\ dim = N - 1 /\ blocks_ = <<Pair(Origin, roi_, overlap_)>> /\ pc = "tile"
    BY <1>1 DEF Construct, Shape
  <1>3. IsShape(Shape)
    BY <1>2, ImageAssumption DEF IsShape
  <1>4. IsRegion(Origin, Shape) /\ blockGivenCoordinateP(Origin) = Origin
    BY <1>3, WholeRegion
  <1>5. Origin \in InRange
    BY <1>4, RangeMember DEF InRange
  <1>6. Coord = <<Origin>>
    BY <1>2 DEF Coord, Pair
  <1>7. Odometer(Origin, Shape, x, dim, Coord)
    BY <1>2, <1>4, <1>6, OdometerStarts
  <1> QED BY <1>2, <1>5, <1>7 DEF Tiling

LEMMA TilingStep ==
    ASSUME Tiling, Tile \/ (pc # "tile" /\ pc' # "tile" /\ UNCHANGED blockingVars)
    PROVE  Tiling'
  <1> DEFINE pairs == {Pair(c, roi_, overlap_) : c \in InRange}
  <1>1. /\ Shape \in Shapes /\ roi_ = [p |-> Origin, q |-> Shape]
        /\ overlap_ = [d \in Dim |-> 1] /\ blocks_ \in Seq(pairs) /\ blocks_ # <<>>
        /\ IsRegion(Origin, Shape)
    BY TilingState DEF Tiling
  <1>2. roi_' = roi_ /\ overlap_' = overlap_
    BY DEF Tile, Carry, Advance, Constructed, blockingVars
  <1>3. Shape' = Shape /\ InRange' = InRange /\ pairs' = pairs
    BY <1>2 DEF Shape, InRange
  <1>4. blockP = blockGivenCoordinateP(Origin) /\ blockQ = blockGivenCoordinateQ(Shape)
    BY <1>1 DEF blockP, blockQ
  <1>5. CASE pc # "tile" /\ pc' # "tile" /\ UNCHANGED blockingVars
    <2>1. blocks_' = blocks_ /\ Coord' = Coord
      BY <1>5 DEF blockingVars, Coord
    <2> QED BY <1>1, <1>2, <1>3, <1>5, <2>1 DEF Tiling
  <1>6. CASE Carry
    <2>1. /\ pc = "tile" /\ pc' = "tile" /\ blocks_' = blocks_ /\ Coord' = Coord
          /\ dim >= 0 /\ x[dim] >= blockQ[dim] - 1
          /\ x' = [x EXCEPT ![dim] = blockP[dim]] /\ dim' = dim - 1
      BY <1>6 DEF Carry, Coord
    <2>2. Odometer(Origin, Shape, x, dim, Coord)
      BY <2>1 DEF Tiling
    <2>3. Odometer(Origin, Shape, x', dim', Coord)
      BY <1>1, <1>4, <2>1, <2>2, OdometerCarries
    <2> QED BY <1>1, <1>2, <1>3, <2>1, <2>3 DEF Tiling
  <1>7. CASE Advance
    <2> DEFINE y == [x EXCEPT ![dim] = @ + 1]
    <2>1. /\ pc = "tile" /\ pc' = "tile" /\ dim >= 0 /\ x[dim] < blockQ[dim] - 1
          /\ x' = y /\ dim' = N - 1 /\ blocks_' = Append(blocks_, Pair(y, roi_, overlap_))
      BY <1>7 DEF Advance
    <2>2. Odometer(Origin, Shape, x, dim, Coord)
      BY <2>1 DEF Tiling
    <2>3. Odometer(Origin, Shape, y, N - 1, Append(Coord, y))
      BY <1>1, <1>4, <2>1, <2>2, OdometerAdvances
    <2>4. y \in InRange
      BY <2>3 DEF Odometer, InRange
    <2> HIDE DEF y
    <2>5. Pair(y, roi_, overlap_) \in pairs /\ Pair(y, roi_, overlap_).first = y
      BY <2>4 DEF Pair
    <2> HIDE DEF pairs
    <2>6. blocks_' \in Seq(pairs) /\ blocks_' # <<>>
      BY <1>1, <2>1, <2>5
    <2>7. Coord' = Append(Coord, y)
      <3>1. /\ DOMAIN blocks_ = 1 .. numBlocks /\ DOMAIN Coord = 1 .. numBlocks
            /\ Len(Coord) = numBlocks /\ numBlocks = Len(blocks_) /\ numBlocks \in Nat
            /\ Coord \in Seq(InRange)
        BY TilingState DEF numBlocks
      <3>2. /\ DOMAIN blocks_' = 1 .. numBlocks + 1
            /\ \A i \in 1 .. numBlocks : blocks_'[i] = blocks_[i]
            /\ blocks_'[numBlocks + 1] = Pair(y, roi_, overlap_)
        BY <1>1, <2>1, <2>5, <3>1
      <3>3. /\ DOMAIN Append(Coord, y) = 1 .. numBlocks + 1
            /\ \A i \in 1 .. numBlocks : Append(Coord, y)[i] = Coord[i]
            /\ Append(Coord, y)[numBlocks + 1] = y
        BY <2>4, <3>1
      <3>4. Append(Coord, y) = [i \in 1 .. numBlocks + 1 |-> Append(Coord, y)[i]]
        <4>1. Append(Coord, y) \in Seq(InRange) /\ Len(Append(Coord, y)) = numBlocks + 1
          BY <2>4, <3>1
        <4>2. \A l \in Seq(InRange) : l = [i \in 1 .. Len(l) |-> l[i]]
          OBVIOUS
        <4> QED BY <4>1, <4>2
      <3>5. Coord' = [i \in 1 .. numBlocks + 1 |-> blocks_'[i].first]
        BY <3>2 DEF Coord
      <3>6. \A i \in 1 .. numBlocks + 1 : blocks_'[i].first = Append(Coord, y)[i]
        <4>1. \A i \in 1 .. numBlocks : Coord[i] = blocks_[i].first
          BY <3>1 DEF Coord
        <4>2. \A i \in 1 .. numBlocks + 1 : i \in 1 .. numBlocks \/ i = numBlocks + 1
          BY <3>1
        <4> QED BY <2>5, <3>2, <3>3, <4>1, <4>2
      <3> QED BY <3>4, <3>5, <3>6
    <2>8. Odometer(Origin, Shape, x', dim', Coord')
      BY <2>1, <2>3, <2>7
    <2> QED BY <1>1, <1>2, <1>3, <2>1, <2>6, <2>8 DEF Tiling, pairs
  <1>8. CASE Constructed
    <2>1. pc = "tile" /\ pc' = "tiled" /\ dim < 0 /\ blocks_' = blocks_ /\ Coord' = Coord
      BY <1>8 DEF Constructed, blockingVars, Coord
    <2>2. Odometer(Origin, Shape, x, dim, Coord)
      BY <2>1 DEF Tiling
    <2>3. Entries(Coord) = InRange
      BY <1>1, <2>1, <2>2, OdometerEnds DEF InRange
    <2>4. Ascending(Coord)
      BY <2>2 DEF Odometer
    <2> QED BY <1>1, <1>2, <1>3, <2>1, <2>3, <2>4 DEF Tiling
  <1> QED BY <1>5, <1>6, <1>7, <1>8 DEF Tile

------------------------------------------------------------------------------
(* The blocks and their ids.                                               *)

LEMMA BlockFacts ==
    ASSUME Tiling, image \in [Box(Origin, Shape) -> Value], NEW i \in 1 .. numBlocks
    PROVE  /\ \E m \in Nat : Labels(i) \in [Box(Origin, shape(block(i))) -> 0 .. m]
           /\ DOMAIN Labels(i) = Box(Origin, shape(block(i))) /\ Box(Origin, shape(block(i))) # {}
           /\ Voxels(block(i)) \subseteq Box(Origin, Shape) /\ IsFiniteSet(Voxels(block(i)))
           /\ block(i).p \in IntVectors /\ block(i).q \in IntVectors
           /\ \A v \in Voxels(block(i)) : Relative(v, block(i)) \in DOMAIN Labels(i)
           /\ \A v, w \in Voxels(block(i)) :
                 Linked(image, v, w) =>
                     Labels(i)[Relative(v, block(i))] = Labels(i)[Relative(w, block(i))]
           /\ \A v, w \in Voxels(block(i)) :
                 Labels(i)[Relative(v, block(i))] = Labels(i)[Relative(w, block(i))]
                     => ObjectOf(image, v) = ObjectOf(image, w)
  <1> DEFINE c == Coord[i]
             r == TileRoi(c, Shape)
             labels == compute(readBlock(r))
  <1>1. IsShape(Shape) /\ c \in BlocksInRange(Origin, Shape) /\ block(i) = r
    BY TilingState DEF InRange
  <1>2. Labels(i) = labels
    BY <1>1 DEF Labels
  <1> HIDE DEF c
  <1>3. /\ \E m \in Nat : labels \in [Box(Origin, shape(r)) -> 0 .. m]
        /\ \A v \in Voxels(r) : Relative(v, r) \in Box(Origin, shape(r))
        /\ \A v, w \in Voxels(r) :
              Linked(image, v, w) => labels[Relative(v, r)] = labels[Relative(w, r)]
        /\ \A v, w \in Voxels(r) :
              labels[Relative(v, r)] = labels[Relative(w, r)]
                  => ObjectOf(image, v) = ObjectOf(image, w)
        /\ Box(Origin, shape(r)) # {}
    BY <1>1, BlockLabels
  <1>4. r.p \in Vectors /\ r.q \in Vectors /\ Voxels(r) \subseteq Box(Origin, Shape)
    BY <1>1, TileVoxels
  <1> HIDE DEF r, labels
  <1>5. IsFiniteSet(Voxels(r)) /\ r.p \in IntVectors /\ r.q \in IntVectors
    BY <1>4, ShapeType, FiniteBox DEF Voxels
  <1>6. DOMAIN labels = Box(Origin, shape(r))
    BY <1>3
  <1> QED BY <1>1, <1>2, <1>3, <1>4, <1>5, <1>6

(* The ids of different blocks are different.                              *)
LEMMA IdsApart ==
    ASSUME Tiling, Labelling, Len(ccBlocks_) = numBlocks
    PROVE  /\ offsets[numBlocks + 1] \in Nat
           /\ \A i \in 1 .. numBlocks : \A u \in DOMAIN Labels(i) : Labels(i)[u] + offsets[i] \in Ids
           /\ \A i \in 1 .. numBlocks : \A v \in Voxels(block(i)) : Ident(i, v) \in Ids
           /\ \A i, j \in 1 .. numBlocks : \A v \in Voxels(block(i)), w \in Voxels(block(j)) :
                 Ident(i, v) = Ident(j, w) => i = j
  <1>1. /\ image \in [Box(Origin, Shape) -> Value] /\ offsets \in Seq(Nat)
        /\ Len(offsets) = numBlocks + 1 /\ numBlocks \in Nat \ {0}
    BY TilingState DEF Labelling
  <1>2. \A i \in 1 .. numBlocks + 1 : offsets[i] \in Nat
    BY <1>1
  <1>3. ASSUME NEW i \in 1 .. numBlocks, NEW u \in DOMAIN Labels(i)
        PROVE  /\ Labels(i)[u] \in Nat
               /\ \A j \in i + 1 .. numBlocks + 1 : offsets[i] + Labels(i)[u] < offsets[j]
    <2>1. Labels(i)[u] \in Range(Labels(i))
      BY DEF Range
    <2>2. i \in 1 .. Len(offsets) - 1 /\ Len(offsets) = numBlocks + 1
      BY <1>1
    <2>3. \A j \in i + 1 .. Len(offsets) : offsets[i] + Labels(i)[u] < offsets[j]
      BY <2>1, <2>2 DEF Labelling, OffsetsApart
    <2>4. Labels(i)[u] \in Nat
      BY <1>1, BlockFacts
    <2> QED BY <2>2, <2>3, <2>4
  <1>4. ASSUME NEW i \in 1 .. numBlocks, NEW u \in DOMAIN Labels(i)
        PROVE  Labels(i)[u] + offsets[i] \in Ids
    <2>1. numBlocks + 1 \in i + 1 .. numBlocks + 1 /\ i \in 1 .. numBlocks + 1
      BY <1>1
    <2>2. offsets[i] + Labels(i)[u] < offsets[numBlocks + 1] /\ Labels(i)[u] \in Nat
      BY <1>3, <2>1
    <2>3. offsets[i] \in Nat /\ offsets[numBlocks + 1] \in Nat
      BY <1>1, <1>2, <2>1
    <2> QED BY <2>2, <2>3 DEF Ids
  <1>5. ASSUME NEW i \in 1 .. numBlocks, NEW v \in Voxels(block(i))
        PROVE  Relative(v, block(i)) \in DOMAIN Labels(i)
    BY <1>1, BlockFacts
  <1>6. ASSUME NEW i \in 1 .. numBlocks, NEW j \in 1 .. numBlocks, i < j,
               NEW v \in Voxels(block(i)), NEW w \in Voxels(block(j))
        PROVE  Ident(i, v) # Ident(j, w)
    <2> DEFINE a == Labels(i)[Relative(v, block(i))]
               e == Labels(j)[Relative(w, block(j))]
    <2>1. j \in i + 1 .. numBlocks + 1 /\ i \in 1 .. numBlocks + 1 /\ j \in 1 .. numBlocks + 1
      BY <1>1, <1>6
    <2>2. offsets[i] + a < offsets[j] /\ a \in Nat /\ e \in Nat
      BY <1>3, <1>5, <2>1
    <2> HIDE DEF a, e
    <2>3. a + offsets[i] # e + offsets[j]
      BY <1>2, <2>1, <2>2
    <2> QED BY <2>3 DEF Ident, a, e
  <1>7. \A i, j \in 1 .. numBlocks : i = j \/ i < j \/ j < i
    OBVIOUS
  <1>8. \A i, j \in 1 .. numBlocks : \A v \in Voxels(block(i)), w \in Voxels(block(j)) :
                 Ident(i, v) = Ident(j, w) => i = j
    BY <1>6, <1>7
  <1>9. \A i \in 1 .. numBlocks : \A v \in Voxels(block(i)) : Ident(i, v) \in Ids
    BY <1>4, <1>5 DEF Ident
  <1> QED BY <1>1, <1>2, <1>4, <1>8, <1>9

LEMMA GreatestLabel ==
    ASSUME NEW m \in Nat, NEW S, S \subseteq 0 .. m, S # {}
    PROVE  Max(S) \in S /\ \A n \in S : n <= Max(S)
  <1>1. \E g \in S : \A n \in S : n <= g
    <2>1. 0 \in Int /\ m \in Int
      OBVIOUS
    <2> QED BY <2>1, GreatestMember
  <1>2. \A n \in S : n \in Int
    OBVIOUS
  <1>3. \E g \in S : \A n \in S : g >= n
    BY <1>1, <1>2
  <1>4. Max(S) \in S /\ \A n \in S : Max(S) >= n
    BY <1>3 DEF Max
  <1> QED BY <1>2, <1>4

LEMMA TogetherTransitive ==
    ASSUME NEW u, NEW X, Partition(u, X)
    PROVE  /\ \A a \in X : Together(u, a, a)
           /\ \A a, b : Together(u, a, b) => Together(u, b, a)
           /\ \A a, b, c : Together(u, a, b) /\ Together(u, b, c) => Together(u, a, c)
  <1>1. UNION u = X /\ \A s, t \in u : s # t => s \cap t = {}
    BY DEF Partition
  <1> QED BY <1>1 DEF Together

------------------------------------------------------------------------------
(* The list of adjacent pairs.                                             *)

LEMMA PositionExact ==
    ASSUME numBlocks \in Nat
    PROVE  /\ Cardinality(adjBlocks) \in Nat
           /\ \A a \in adjBlocks : Position(a) \in 1 .. Cardinality(adjBlocks)
           /\ \A a, b \in adjBlocks : Position(a) = Position(b) => a = b
  <1> DEFINE prior(a) == {b \in adjBlocks : Earlier(b, a)}
  <1>1. IsFiniteSet(adjBlocks)
    <2> DEFINE pairs == (1 .. numBlocks) \X (1 .. numBlocks)
    <2>1. IsFiniteSet(1 .. numBlocks)
      BY FS_Interval
    <2>2. IsFiniteSet(pairs)
      BY <2>1, FS_Product
    <2>3. adjBlocks \in SUBSET pairs
      BY DEF adjBlocks
    <2> HIDE DEF pairs
    <2> QED BY <2>2, <2>3, FS_Subset
  <1>2. \A a \in adjBlocks : a[1] \in Int /\ a[2] \in Int /\ a = <<a[1], a[2]>>
    BY DEF adjBlocks
  <1>3. ASSUME NEW a \in adjBlocks
        PROVE  /\ IsFiniteSet(prior(a)) /\ Cardinality(prior(a)) \in Nat
               /\ Cardinality(prior(a)) < Cardinality(adjBlocks) /\ Cardinality(adjBlocks) \in Nat
    <2>1. prior(a) \in SUBSET adjBlocks /\ ~Earlier(a, a)
      BY <1>2 DEF Earlier
    <2> HIDE DEF prior
    <2>2. /\ IsFiniteSet(prior(a)) /\ Cardinality(prior(a)) <= Cardinality(adjBlocks)
          /\ Cardinality(prior(a)) = Cardinality(adjBlocks) => prior(a) = adjBlocks
      BY <1>1, <2>1, FS_Subset
    <2>3. prior(a) # adjBlocks
      BY <2>1 DEF prior
    <2>4. Cardinality(prior(a)) \in Nat /\ Cardinality(adjBlocks) \in Nat
      BY <1>1, <2>2, FS_CardinalityType
    <2> QED BY <2>2, <2>3, <2>4
  <1>4. ASSUME NEW a \in adjBlocks, NEW b \in adjBlocks, Earlier(a, b)
        PROVE  Cardinality(prior(a)) < Cardinality(prior(b))
    <2>1. \A c \in adjBlocks : Earlier(c, a) => Earlier(c, b)
      BY <1>2, <1>4 DEF Earlier
    <2>2. prior(a) \in SUBSET prior(b) /\ a \in prior(b) /\ a \notin prior(a)
      BY <1>2, <1>4, <2>1 DEF Earlier
    <2>3. /\ IsFiniteSet(prior(b)) /\ Cardinality(prior(a)) \in Nat
          /\ Cardinality(prior(b)) \in Nat
      BY <1>3
    <2> HIDE DEF prior
    <2>4. /\ Cardinality(prior(a)) <= Cardinality(prior(b))
          /\ Cardinality(prior(b)) = Cardinality(prior(a)) => prior(b) = prior(a)
      BY <2>2, <2>3, FS_Subset
    <2> QED BY <2>2, <2>3, <2>4
  <1>5. \A a, b \in adjBlocks : a = b \/ Earlier(a, b) \/ Earlier(b, a)
    BY <1>2 DEF Earlier
  <1>6. \A a \in adjBlocks : Position(a) = 1 + Cardinality(prior(a))
    BY DEF Position
  <1> HIDE DEF prior
  <1>7. \A a \in adjBlocks : Position(a) \in 1 .. Cardinality(adjBlocks)
    BY <1>3, <1>6
  <1>8. Cardinality(adjBlocks) \in Nat
    BY <1>1, FS_CardinalityType
  <1>9. ASSUME NEW a \in adjBlocks, NEW b \in adjBlocks, Position(a) = Position(b) PROVE a = b
    <2>1. /\ Cardinality(prior(a)) \in Nat /\ Cardinality(prior(b)) \in Nat
          /\ 1 + Cardinality(prior(a)) = 1 + Cardinality(prior(b))
      BY <1>3, <1>6, <1>9
    <2>2. ~Earlier(a, b) /\ ~Earlier(b, a)
      BY <1>4, <2>1
    <2> QED BY <1>5, <2>2
  <1> QED BY <1>7, <1>8, <1>9

------------------------------------------------------------------------------
(* Merging.                                                                *)

LEMMA SharedExact ==
    ASSUME Tiling, image \in [Box(Origin, Shape) -> Value],
           NEW i \in 1 .. numBlocks, NEW j \in 1 .. numBlocks
    PROVE  /\ Shared(i, j) = Voxels(block(i)) \cap Voxels(block(j))
           /\ Shared(i, j) # {} => intersect(block(i), block(j)).meets
           /\ IsFiniteSet(Shared(i, j))
  <1>1. /\ block(i).p \in IntVectors /\ block(i).q \in IntVectors
        /\ block(j).p \in IntVectors /\ block(j).q \in IntVectors
        /\ IsFiniteSet(Voxels(block(i)))
    BY BlockFacts
  <1>2. /\ Shared(i, j) = Voxels(block(i)) \cap Voxels(block(j))
        /\ Shared(i, j) # {} => intersect(block(i), block(j)).meets
    BY <1>1, IntersectExact DEF Shared
  <1>3. Shared(i, j) \in SUBSET Voxels(block(i))
    BY <1>2
  <1>4. IsFiniteSet(Shared(i, j))
    BY <1>1, <1>3, FS_Subset
  <1> QED BY <1>2, <1>4

(* The ids before the first union.                                         *)
LEMMA SingletonsSound ==
    ASSUME Tiling, Labelling, Len(ccBlocks_) = numBlocks
    PROVE  Partition({{id} : id \in Ids}, Ids) /\ Sound({{id} : id \in Ids}, Uses)
  <1>1. Partition({{id} : id \in Ids}, Ids)
    BY DEF Partition
  <1>2. ASSUME NEW a \in Uses, NEW b \in Uses, a[1] = b[1] PROVE a[2] = b[2]
    <2>1. PICK i \in 1 .. numBlocks : \E v \in Voxels(block(i)) : a = <<Ident(i, v), ObjectOf(image, v)>>
      BY DEF Uses
    <2>2. PICK v \in Voxels(block(i)) : a = <<Ident(i, v), ObjectOf(image, v)>>
      BY <2>1
    <2>3. PICK j \in 1 .. numBlocks : \E w \in Voxels(block(j)) : b = <<Ident(j, w), ObjectOf(image, w)>>
      BY DEF Uses
    <2>4. PICK w \in Voxels(block(j)) : b = <<Ident(j, w), ObjectOf(image, w)>>
      BY <2>3
    <2>5. Ident(i, v) = Ident(j, w) /\ a[2] = ObjectOf(image, v) /\ b[2] = ObjectOf(image, w)
      BY <1>2, <2>2, <2>4
    <2>6. i = j
      BY <2>5, IdsApart
    <2>7. /\ image \in [Box(Origin, Shape) -> Value] /\ offsets \in Seq(Nat)
          /\ Len(offsets) = numBlocks + 1
      BY DEF Labelling
    <2> DEFINE l == Labels(i)[Relative(v, block(i))]
               m == Labels(i)[Relative(w, block(i))]
    <2>8. l \in Nat /\ m \in Nat /\ offsets[i] \in Nat
      <3>1. i \in 1 .. numBlocks + 1
        BY TilingState
      <3>2. offsets[i] \in Nat
        BY <2>7, <3>1
      <3>3. l \in Nat /\ m \in Nat
        BY <2>6, <2>7, BlockFacts
      <3> QED BY <3>2, <3>3
    <2>9. l + offsets[i] = m + offsets[i]
      BY <2>5, <2>6 DEF Ident
    <2> HIDE DEF l, m
    <2>10. l = m
      BY <2>8, <2>9
    <2> QED BY <2>5, <2>6, <2>7, <2>10, BlockFacts DEF l, m
  <1>3. Sound({{id} : id \in Ids}, Uses)
    BY <1>2 DEF Sound
  <1> QED BY <1>1, <1>3

(* One iteration of the merging loop.                                      *)
LEMMA MergeExact ==
    ASSUME Tiling, Labelling, Merging, \A i \in 1 .. numBlocks : ccBlocks_[i] = Labels(i),
           NEW i \in 1 .. numBlocks, NEW j \in 1 .. numBlocks
    PROVE  LET w == blockMerge(ufd, i, j)
           IN  /\ Partition(w, Ids) /\ Sound(w, Uses) /\ Coarser(w, ufd)
               /\ \A v \in Voxels(block(i)) \cap Voxels(block(j)) :
                     Together(w, Ident(i, v), Ident(j, v))
  <1>1. /\ Partition(ufd, Ids) /\ Sound(ufd, Uses) /\ Len(ccBlocks_) = numBlocks
        /\ image \in [Box(Origin, Shape) -> Value]
    BY DEF Merging, Labelling
  <1>2. /\ Shared(i, j) = Voxels(block(i)) \cap Voxels(block(j))
        /\ Shared(i, j) # {} => intersect(block(i), block(j)).meets
        /\ IsFiniteSet(Shared(i, j))
    BY <1>1, SharedExact
  <1>3. \A v : Id(i, v) = Ident(i, v) /\ Id(j, v) = Ident(j, v)
    BY DEF Id, Ident
  <1>4. \A v \in Shared(i, j) : Id(i, v) \in Ids /\ Id(j, v) \in Ids
    BY <1>1, <1>2, <1>3, IdsApart
  <1>5. \A v \in Shared(i, j) : \E o : <<Id(i, v), o>> \in Uses /\ <<Id(j, v), o>> \in Uses
    <2>1. ASSUME NEW v \in Shared(i, j)
          PROVE  /\ <<Id(i, v), ObjectOf(image, v)>> \in Uses
                 /\ <<Id(j, v), ObjectOf(image, v)>> \in Uses
      <3>1. v \in Voxels(block(i)) /\ v \in Voxels(block(j))
        BY <1>2
      <3> QED BY <1>3, <3>1 DEF Uses
    <2> QED BY <2>1
  <1>6. /\ Partition(blockMerge(ufd, i, j), Ids)
        /\ Sound(blockMerge(ufd, i, j), Uses)
        /\ Coarser(blockMerge(ufd, i, j), ufd)
        /\ intersect(block(i), block(j)).meets =>
              \A v \in Shared(i, j) : Together(blockMerge(ufd, i, j), Id(i, v), Id(j, v))
    BY <1>1, <1>2, <1>4, <1>5, BlockMergeExact
  <1> QED BY <1>2, <1>3, <1>6

(* When every adjacent pair is merged, all blocks agree on every voxel     *)
(* they share: two blocks that hold it are linked by merged pairs.         *)
LEMMA AllUnited ==
    ASSUME Tiling, pc # "tile", Labelling, Merging,
           \A a \in adjBlocks : United(a[1], a[2]),
           NEW i \in 1 .. numBlocks, NEW j \in 1 .. numBlocks
    PROVE  United(i, j)
  <1> SUFFICES ASSUME NEW v \in Voxels(block(i)) \cap Voxels(block(j))
               PROVE  Together(ufd, Ident(i, v), Ident(j, v))
    BY DEF United
  <1> DEFINE R == {Coord[m] : m \in {n \in 1 .. numBlocks :
                        v \in Voxels(block(n)) /\ Together(ufd, Ident(i, v), Ident(n, v))}}
  <1>1. /\ Partition(ufd, Ids) /\ Len(ccBlocks_) = numBlocks
        /\ IsShape(Shape) /\ IsRegion(Origin, Shape) /\ InRange = BlocksInRange(Origin, Shape)
        /\ \A n \in 1 .. numBlocks : /\ Coord[n] \in InRange /\ block(n) = TileRoi(Coord[n], Shape)
                                     /\ Coord[n] = blocks_[n].first
        /\ numBlocks \in Nat
    BY TilingState DEF Merging, InRange, Coord
  <1>2. Coord[i] \in R
    <2>1. Ident(i, v) \in Ids
      BY <1>1, IdsApart
    <2>2. Together(ufd, Ident(i, v), Ident(i, v))
      BY <1>1, <2>1, TogetherTransitive
    <2> QED BY <2>2
  <1>3. R \subseteq BlocksInRange(Origin, Shape)
    BY <1>1
  <1>4. InRange \subseteq Vectors /\ InRange \subseteq IntVectors
    BY <1>1, RangeMember, ShapeType
  <1>5. ASSUME NEW a \in R, NEW b \in BlocksInRange(Origin, Shape), Adjacent(a, b),
               v \in Voxels(TileRoi(a, Shape)), v \in Voxels(TileRoi(b, Shape))
        PROVE  b \in R
    <2>1. PICK m \in 1 .. numBlocks : /\ a = Coord[m] /\ v \in Voxels(block(m))
                                      /\ Together(ufd, Ident(i, v), Ident(m, v))
      BY <1>5
    <2>2. PICK n \in 1 .. numBlocks : Coord[n] = b
      BY <1>1, <1>5, TilingComplete
    <2>3. v \in Voxels(block(n))
      BY <1>1, <1>5, <2>2
    <2>4. a \in Vectors /\ b \in Vectors /\ a \in IntVectors /\ b \in IntVectors
      BY <1>1, <1>4, <1>5, <2>1
    <2>5. AreAdjacent(m, n) /\ AreAdjacent(n, m)
      <3>1. Adjacent(b, a)
        BY <1>5, <2>4, AdjacentSymmetric
      <3>2. blocks_[m].first = a /\ blocks_[n].first = b
        BY <1>1, <2>1, <2>2
      <3>3. AreAdjacent(m, n)
        BY <1>5, <2>4, <3>2, NeighboursAdjacent
      <3>4. AreAdjacent(n, m)
        BY <2>4, <3>1, <3>2, NeighboursAdjacent
      <3> QED BY <3>3, <3>4
    <2>6. m # n
      <3>1. PICK d \in Dim : a[d] - b[d] \in {-1, 1}
        BY <1>5 DEF Adjacent
      <3>2. a[d] \in Int /\ b[d] \in Int
        BY <2>4 DEF IntVectors
      <3>3. a # b
        BY <3>1, <3>2
      <3> QED BY <2>1, <2>2, <3>3
    <2>7. Together(ufd, Ident(m, v), Ident(n, v))
      <3>1. CASE m < n
        <4>1. <<m, n>> \in adjBlocks
          BY <2>5, <3>1 DEF adjBlocks
        <4>2. United(m, n)
          BY <4>1
        <4> QED BY <2>1, <2>3, <4>2 DEF United
      <3>2. CASE n < m
        <4>1. <<n, m>> \in adjBlocks
          BY <2>5, <3>2 DEF adjBlocks
        <4>2. United(n, m)
          BY <4>1
        <4>3. Together(ufd, Ident(n, v), Ident(m, v))
          BY <2>1, <2>3, <4>2 DEF United
        <4> QED BY <1>1, <4>3, TogetherTransitive
      <3> QED BY <2>6, <3>1, <3>2
    <2>8. Together(ufd, Ident(i, v), Ident(n, v))
      BY <1>1, <2>1, <2>7, TogetherTransitive
    <2> QED BY <2>2, <2>3, <2>8
  <1> HIDE DEF R
  <1>6. Coord[j] \in R
    <2>1. /\ v \in Voxels(TileRoi(Coord[i], Shape)) /\ v \in Voxels(TileRoi(Coord[j], Shape))
          /\ Coord[j] \in BlocksInRange(Origin, Shape)
      BY <1>1
    <2> QED BY <1>1, <1>2, <1>3, <1>5, <2>1, CornerPath
  <1>7. PICK m \in 1 .. numBlocks : Coord[m] = Coord[j] /\ Together(ufd, Ident(i, v), Ident(m, v))
    BY <1>6 DEF R
  <1>8. m = j
    BY <1>7, TilingComplete
  <1> QED BY <1>7, <1>8

------------------------------------------------------------------------------
(* The invariant is inductive.                                             *)

LEMMA SameBlocks ==
    ASSUME UNCHANGED blockingVars, image' = image
    PROVE  /\ numBlocks' = numBlocks /\ Shape' = Shape /\ Voxels(roi_)' = Voxels(roi_)
           /\ \A i : block(i)' = block(i) /\ Labels(i)' = Labels(i)
           /\ LabelArrays' = LabelArrays
           /\ adjBlocks' = adjBlocks /\ \A a : Position(a)' = Position(a)
  <1>1. roi_' = roi_ /\ blocks_' = blocks_
    BY DEF blockingVars
  <1>2. numBlocks' = numBlocks /\ Shape' = Shape /\ Voxels(roi_)' = Voxels(roi_)
    BY <1>1 DEF numBlocks, Shape
  <1>3. \A i : block(i)' = block(i)
    BY <1>1 DEF block
  <1>4. \A i : Labels(i)' = Labels(i)
    BY <1>3 DEF Labels, readBlock
  <1>5. LabelArrays' = LabelArrays
    BY <1>2, <1>3 DEF LabelArrays
  <1>6. \A i, j : AreAdjacent(i, j)' = AreAdjacent(i, j)
    BY <1>1 DEF AreAdjacent
  <1>7. adjBlocks' = adjBlocks
    BY <1>2, <1>6 DEF adjBlocks
  <1>8. \A a : Position(a)' = Position(a)
    BY <1>7 DEF Position
  <1> QED BY <1>2, <1>3, <1>4, <1>5, <1>7, <1>8

LEMMA SameIds ==
    ASSUME UNCHANGED blockingVars, image' = image, offsets' = offsets
    PROVE  /\ \A i, v : Ident(i, v)' = Ident(i, v)
           /\ Ids' = Ids /\ Uses' = Uses /\ OffsetsApart' = OffsetsApart
  <1>1. /\ numBlocks' = numBlocks
        /\ \A i : block(i)' = block(i) /\ Labels(i)' = Labels(i)
    BY SameBlocks
  <1>2. \A i, v : Ident(i, v)' = Ident(i, v)
    BY <1>1 DEF Ident
  <1>3. Ids' = Ids /\ OffsetsApart' = OffsetsApart
    BY <1>1 DEF Ids, OffsetsApart
  <1>4. Uses' = Uses
    BY <1>1, <1>2 DEF Uses
  <1> QED BY <1>2, <1>3, <1>4

LEMMA IInvStarts ==
    ASSUME Init
    PROVE  IInv
  <1>1. Tiling
    BY TilingStarts
  <1>2. /\ pc = "tile" /\ k = 1 /\ ccBlocks_ = <<>> /\ offsets = <<0>>
        /\ image \in [Box(Origin, Shape) -> Value]
    BY DEF Init, Construct, Shape
  <1>3. numBlocks \in Nat
    BY <1>1, TilingState
  <1>4. Labelling
    <2>1. Len(offsets) = 1 /\ offsets \in Seq(Nat) /\ Len(ccBlocks_) = 0
          /\ ccBlocks_ \in Seq(LabelArrays)
      BY <1>2
    <2> QED BY <1>2, <1>3, <2>1 DEF Labelling, OffsetsApart
  <1> QED BY <1>1, <1>2, <1>4 DEF IInv

LEMMA TileKeeps ==
    ASSUME IInv, Tile, UNCHANGED ccVars
    PROVE  IInv'
  <1>1. pc = "tile" /\ pc' \in {"tile", "tiled"}
    BY DEF Tile, Carry, Advance, Constructed
  <1>2. /\ Tiling /\ Labelling /\ k = 1 /\ ccBlocks_ = <<>>
    BY <1>1 DEF IInv
  <1>3. /\ image' = image /\ ccBlocks_' = ccBlocks_ /\ offsets' = offsets /\ k' = k
    BY DEF ccVars
  <1>4. Tiling'
    BY <1>2, TilingStep
  <1>5. numBlocks' \in Nat \ {0}
    <2> DEFINE pairs == {Pair(c, roi_, overlap_) : c \in InRange}'
    <2>1. blocks_' \in Seq(pairs) /\ blocks_' # <<>>
      BY <1>4 DEF Tiling
    <2> HIDE DEF pairs
    <2> QED BY <2>1 DEF numBlocks
  <1>6. Shape' = Shape
    BY DEF Tile, Carry, Advance, Constructed, blockingVars, Shape
  <1>7. Labelling'
    <2>1. /\ image \in [Box(Origin, Shape) -> Value] /\ offsets \in Seq(Nat)
          /\ Len(offsets) = Len(ccBlocks_) + 1
      BY <1>2 DEF Labelling
    <2>2. Len(ccBlocks_) = 0 /\ ccBlocks_ \in Seq(LabelArrays') /\ Len(offsets) = 1
      BY <1>2, <2>1
    <2>3. OffsetsApart'
      BY <1>3, <2>2 DEF OffsetsApart
    <2> QED BY <1>3, <1>5, <1>6, <2>1, <2>2, <2>3 DEF Labelling
  <1>8. k' = 1 /\ ccBlocks_' = <<>> /\ Len(ccBlocks_') = k' - 1
    BY <1>2, <1>3
  <1>9. k' \in Nat \ {0} /\ k' <= numBlocks' + 1 /\ 1 .. k' - 1 = {}
    <2>1. 1 .. 1 - 1 = {} /\ 1 \in Nat \ {0}
      OBVIOUS
    <2>2. 1 <= numBlocks' + 1
      <3>1. \A n \in Nat \ {0} : 1 <= n + 1
        OBVIOUS
      <3> QED BY <1>5, <3>1
    <2> QED BY <1>8, <2>1, <2>2
  <1> QED BY <1>1, <1>4, <1>7, <1>8, <1>9 DEF IInv

LEMMA LabelBlockKeeps ==
    ASSUME IInv, LabelBlock
    PROVE  IInv'
  <1>1. /\ pc = "tiled" /\ k <= numBlocks /\ pc' = pc /\ image' = image /\ k' = k + 1
        /\ UNCHANGED blockingVars
        /\ ccBlocks_' = Append(ccBlocks_, Labels(k))
        /\ offsets' = Append(offsets, offsets[k] + Max(Range(Labels(k))) + 1)
    BY DEF LabelBlock, Labels
  <1>2. /\ Tiling /\ Labelling /\ k \in Nat \ {0} /\ Len(ccBlocks_) = k - 1
        /\ \A i \in 1 .. k - 1 : ccBlocks_[i] = Labels(i)
    BY <1>1 DEF IInv
  <1>3. /\ image \in [Box(Origin, Shape) -> Value]
        /\ ccBlocks_ \in Seq(LabelArrays) /\ offsets \in Seq(Nat)
        /\ Len(offsets) = k /\ OffsetsApart
    BY <1>2 DEF Labelling
  <1>4. numBlocks \in Nat /\ k \in 1 .. numBlocks
    BY <1>1, <1>2, TilingState
  <1>5. Tiling'
    BY <1>1, <1>2, TilingStep
  <1>6. /\ numBlocks' = numBlocks /\ Shape' = Shape /\ LabelArrays' = LabelArrays
        /\ \A i : Labels(i)' = Labels(i)
    BY <1>1, SameBlocks
  <1> DEFINE S == Range(Labels(k))
             g == Max(S)
  <1>7. g \in Nat /\ \A l \in S : l \in Nat /\ l <= g
    <2>1. PICK m \in Nat : Labels(k) \in [Box(Origin, shape(block(k))) -> 0 .. m]
      BY <1>2, <1>3, <1>4, BlockFacts
    <2>2. Box(Origin, shape(block(k))) # {}
      BY <1>2, <1>3, <1>4, BlockFacts
    <2>3. S \subseteq 0 .. m /\ S # {}
      BY <2>1, <2>2 DEF Range
    <2> HIDE DEF S
    <2>4. g \in S /\ \A l \in S : l <= g
      BY <2>3, GreatestLabel
    <2>5. \A l \in 0 .. m : l \in Nat
      OBVIOUS
    <2> HIDE DEF g
    <2> QED BY <2>3, <2>4, <2>5
  <1>8. Labels(k) \in LabelArrays
    <2>1. PICK m \in Nat : Labels(k) \in [Box(Origin, shape(block(k))) -> 0 .. m]
      BY <1>2, <1>3, <1>4, BlockFacts
    <2>2. Labels(k) \in [Box(Origin, shape(block(k))) -> Nat]
      BY <2>1
    <2> QED BY <1>4, <2>2 DEF LabelArrays
  <1> HIDE DEF g
  <1> DEFINE next == offsets[k] + g + 1
  <1>9. /\ \A i \in 1 .. k : offsets[i] \in Nat
        /\ next \in Nat /\ offsets' = Append(offsets, next)
    <2>1. \A i \in 1 .. k : offsets[i] \in Nat
      BY <1>3
    <2>2. k \in 1 .. k
      BY <1>2
    <2> QED BY <1>1, <1>7, <2>1, <2>2 DEF g
  <1> HIDE DEF next
  <1>10. /\ offsets' \in Seq(Nat) /\ Len(offsets') = k + 1
         /\ \A i \in 1 .. k : offsets'[i] = offsets[i]
         /\ offsets'[k + 1] = next
    BY <1>2, <1>3, <1>9
  <1>11. /\ ccBlocks_' \in Seq(LabelArrays) /\ Len(ccBlocks_') = k
         /\ \A i \in 1 .. k - 1 : ccBlocks_'[i] = ccBlocks_[i]
         /\ ccBlocks_'[k] = Labels(k)
    BY <1>1, <1>2, <1>3, <1>8
  <1>12. OffsetsApart'
    <2> SUFFICES ASSUME NEW i \in 1 .. k, NEW l \in Range(Labels(i)), NEW j \in i + 1 .. k + 1
                 PROVE  offsets'[i] + l < offsets'[j]
      <3>1. Len(offsets') - 1 = k
        BY <1>2, <1>10
      <3> QED BY <1>6, <1>10, <3>1 DEF OffsetsApart
    <2>1. l \in Nat
      <3>1. i \in 1 .. numBlocks
        BY <1>4
      <3>2. PICK m \in Nat : Labels(i) \in [Box(Origin, shape(block(i))) -> 0 .. m]
        BY <1>2, <1>3, <3>1, BlockFacts
      <3> QED BY <3>2 DEF Range
    <2>2. \A m \in i + 1 .. k : offsets[i] + l < offsets[m]
      <3>1. CASE i \in 1 .. Len(offsets) - 1
        BY <1>3, <3>1 DEF OffsetsApart
      <3>2. CASE i = k
        BY <1>2, <3>2
      <3> QED BY <1>2, <1>3, <3>1, <3>2
    <2>3. offsets[i] + l <= offsets[k] + g
      <3>1. CASE i = k
        BY <1>7, <1>9, <2>1, <3>1
      <3>2. CASE i < k
        <4>1. k \in i + 1 .. k /\ k \in 1 .. k
          BY <1>2, <3>2
        <4>2. offsets[i] + l < offsets[k]
          BY <2>2, <4>1
        <4> QED BY <1>7, <1>9, <2>1, <4>1, <4>2
      <3> QED BY <1>2, <3>1, <3>2
    <2>4. CASE j = k + 1
      <3>1. offsets[i] \in Nat /\ offsets[k] \in Nat
        BY <1>2, <1>9
      <3>2. offsets[i] + l < next
        BY <1>7, <2>1, <2>3, <3>1 DEF next
      <3> QED BY <1>10, <2>4, <3>2
    <2>5. CASE j \in 1 .. k
      <3>1. j \in i + 1 .. k
        BY <2>5
      <3>2. offsets[i] + l < offsets[j]
        BY <2>2, <3>1
      <3> QED BY <1>10, <2>5, <3>2
    <2> QED BY <1>2, <2>4, <2>5
  <1>13. Labelling'
    BY <1>1, <1>3, <1>4, <1>6, <1>10, <1>11, <1>12 DEF Labelling
  <1>14. \A i \in 1 .. k : ccBlocks_'[i] = Labels(i)
    <2>1. \A i \in 1 .. k : i \in 1 .. k - 1 \/ i = k
      BY <1>2
    <2> QED BY <1>2, <1>11, <2>1
  <1>15. k' - 1 = k /\ k' \in Nat \ {0} /\ k' <= numBlocks + 1
    BY <1>1, <1>2, <1>4
  <1> QED BY <1>1, <1>5, <1>6, <1>11, <1>13, <1>14, <1>15 DEF IInv

(* What the loops after the labelling leave alone.                         *)
LEMMA LoopKeeps ==
    ASSUME Tiling, Labelling, pc # "tile", pc' # "tile",
           UNCHANGED <<blockingVars, image, offsets>>,
           \/ ccBlocks_' = ccBlocks_
           \/ ccBlocks_' \in Seq(LabelArrays) /\ Len(ccBlocks_') = Len(ccBlocks_)
    PROVE  Tiling' /\ Labelling'
  <1>1. UNCHANGED blockingVars /\ image' = image /\ offsets' = offsets
    OBVIOUS
  <1>2. Tiling'
    BY <1>1, TilingStep
  <1>3. /\ numBlocks' = numBlocks /\ Shape' = Shape /\ LabelArrays' = LabelArrays
        /\ OffsetsApart' = OffsetsApart
    BY <1>1, SameBlocks, SameIds
  <1>4. /\ image \in [Box(Origin, Shape) -> Value]
        /\ ccBlocks_ \in Seq(LabelArrays) /\ offsets \in Seq(Nat)
        /\ Len(offsets) = Len(ccBlocks_) + 1 /\ Len(ccBlocks_) <= numBlocks
        /\ OffsetsApart
    BY DEF Labelling
  <1>5. ccBlocks_' \in Seq(LabelArrays) /\ Len(ccBlocks_') = Len(ccBlocks_)
    BY <1>4
  <1>6. Labelling'
    BY <1>1, <1>3, <1>4, <1>5 DEF Labelling
  <1> QED BY <1>2, <1>6

LEMMA StartMergeKeeps ==
    ASSUME IInv, StartMerge
    PROVE  IInv'
  <1>1. /\ pc = "tiled" /\ pc' = "merge" /\ k > numBlocks /\ k' = 1
        /\ ufd' = {{id} : id \in Ids}
        /\ ccBlocks_' = ccBlocks_ /\ UNCHANGED <<blockingVars, image, offsets>>
    BY DEF StartMerge, Ids
  <1>2. /\ Tiling /\ Labelling /\ k \in Nat \ {0} /\ k <= numBlocks + 1 /\ Len(ccBlocks_) = k - 1
        /\ \A i \in 1 .. k - 1 : ccBlocks_[i] = Labels(i)
    BY <1>1 DEF IInv
  <1>3. numBlocks \in Nat
    BY <1>2, TilingState
  <1>4. k - 1 = numBlocks
    BY <1>1, <1>2, <1>3
  <1>5. Tiling' /\ Labelling'
    BY <1>1, <1>2, LoopKeeps
  <1>6. /\ numBlocks' = numBlocks /\ adjBlocks' = adjBlocks /\ Ids' = Ids /\ Uses' = Uses
        /\ \A i : Labels(i)' = Labels(i)
        /\ \A a : Position(a)' = Position(a)
    BY <1>1, SameBlocks, SameIds
  <1>7. Merging'
    <2>1. Partition(ufd', Ids) /\ Sound(ufd', Uses)
      BY <1>1, <1>2, <1>4, SingletonsSound
    <2> QED BY <1>1, <1>2, <1>4, <1>6, <2>1 DEF Merging
  <1>8. \A a \in adjBlocks : ~(Position(a) < 1)
    BY <1>3, PositionExact
  <1> QED BY <1>1, <1>2, <1>4, <1>5, <1>6, <1>7, <1>8 DEF IInv

LEMMA MergeBlocksKeeps ==
    ASSUME IInv, MergeBlocks
    PROVE  IInv'
  <1>1. /\ pc = "merge" /\ pc' = pc /\ k' = k + 1
        /\ ccBlocks_' = ccBlocks_ /\ UNCHANGED <<blockingVars, image, offsets>>
    BY DEF MergeBlocks
  <1>2. PICK e \in adjBlocks : Position(e) = k /\ ufd' = blockMerge(ufd, e[1], e[2])
    BY DEF MergeBlocks
  <1>3. /\ Tiling /\ Labelling /\ Merging /\ k \in Nat \ {0}
        /\ \A i \in 1 .. numBlocks : ccBlocks_[i] = Labels(i)
        /\ \A a \in adjBlocks : Position(a) < k => United(a[1], a[2])
    BY <1>1 DEF IInv
  <1>4. Tiling' /\ Labelling'
    BY <1>1, <1>3, LoopKeeps
  <1>5. /\ numBlocks' = numBlocks /\ adjBlocks' = adjBlocks /\ Ids' = Ids /\ Uses' = Uses
        /\ \A i : Labels(i)' = Labels(i) /\ block(i)' = block(i)
        /\ \A i, v : Ident(i, v)' = Ident(i, v)
        /\ \A a : Position(a)' = Position(a)
    BY <1>1, SameBlocks, SameIds
  <1>6. e[1] \in 1 .. numBlocks /\ e[2] \in 1 .. numBlocks
    BY DEF adjBlocks
  <1>7. /\ Partition(ufd', Ids) /\ Sound(ufd', Uses) /\ Coarser(ufd', ufd)
        /\ \A v \in Voxels(block(e[1])) \cap Voxels(block(e[2])) :
              Together(ufd', Ident(e[1], v), Ident(e[2], v))
    BY <1>2, <1>3, <1>6, MergeExact
  <1>8. Merging'
    BY <1>1, <1>3, <1>5, <1>7 DEF Merging
  <1>9. ASSUME NEW a \in adjBlocks, Position(a) < k + 1 PROVE United(a[1], a[2])'
    <2>1. \A v \in Voxels(block(a[1])) \cap Voxels(block(a[2])) :
              Together(ufd', Ident(a[1], v), Ident(a[2], v))
      <3>1. CASE Position(a) < k
        <4>1. United(a[1], a[2])
          BY <1>3, <3>1
        <4> QED BY <1>7, <4>1 DEF United, Coarser
      <3>2. CASE Position(a) = k
        <4>1. a = e
          BY <1>2, <1>3, <3>2, TilingState, PositionExact
        <4> QED BY <1>7, <4>1
      <3>3. Position(a) \in Int
        BY <1>3, TilingState, PositionExact
      <3> QED BY <1>3, <1>9, <3>1, <3>2, <3>3
    <2> QED BY <1>5, <2>1 DEF United
  <1>10. k' \in Nat \ {0}
    BY <1>1, <1>3
  <1>11. \A a \in adjBlocks' : Position(a)' < k' => United(a[1], a[2])'
    BY <1>1, <1>5, <1>9
  <1>12. \A i \in 1 .. numBlocks' : ccBlocks_'[i] = Labels(i)'
    BY <1>1, <1>3, <1>5
  <1> QED BY <1>1, <1>4, <1>8, <1>10, <1>11, <1>12 DEF IInv

LEMMA makeContiguousKeeps ==
    ASSUME IInv, makeContiguous
    PROVE  IInv'
  <1>1. /\ pc = "merge" /\ pc' = "relabel" /\ k > Cardinality(adjBlocks) /\ k' = 1 /\ ufd' = ufd
        /\ ccBlocks_' = ccBlocks_ /\ UNCHANGED <<blockingVars, image, offsets>>
    BY DEF makeContiguous
  <1>2. rank' = Ranks(ufd)
    BY DEF makeContiguous, Ranks, Below, Roots, Root
  <1>3. /\ Tiling /\ Labelling /\ Merging /\ k \in Nat \ {0}
        /\ \A i \in 1 .. numBlocks : ccBlocks_[i] = Labels(i)
        /\ \A a \in adjBlocks : Position(a) < k => United(a[1], a[2])
        /\ numBlocks \in Nat
    BY <1>1, TilingState DEF IInv
  <1>4. Tiling' /\ Labelling'
    BY <1>1, <1>3, LoopKeeps
  <1>5. /\ numBlocks' = numBlocks /\ Ids' = Ids /\ Uses' = Uses
        /\ \A i : Labels(i)' = Labels(i) /\ block(i)' = block(i)
        /\ \A i, v : Ident(i, v)' = Ident(i, v)
    BY <1>1, SameBlocks, SameIds
  <1>6. \A a \in adjBlocks : United(a[1], a[2])
    <2>1. \A a \in adjBlocks : Position(a) \in 1 .. Cardinality(adjBlocks)
      BY <1>3, PositionExact
    <2>2. Cardinality(adjBlocks) \in Nat
      BY <1>3, PositionExact
    <2>3. \A a \in adjBlocks : Position(a) < k
      BY <1>1, <1>3, <2>1, <2>2
    <2> QED BY <1>3, <2>3
  <1>7. \A i, j \in 1 .. numBlocks : United(i, j)
    BY <1>1, <1>3, <1>6, AllUnited
  <1>8. Merged'
    <2>1. Merging'
      BY <1>1, <1>3, <1>5 DEF Merging
    <2>2. \A i, j \in 1 .. numBlocks : United(i, j)'
      BY <1>1, <1>5, <1>7 DEF United
    <2> QED BY <1>1, <1>2, <1>5, <2>1, <2>2 DEF Merged
  <1>9. k' \in Nat \ {0} /\ k' <= numBlocks' + 1 /\ \A i \in 1 .. numBlocks : ~(i < k')
    BY <1>1, <1>3, <1>5
  <1>10. \A i \in 1 .. numBlocks' : ccBlocks_'[i] = IF i < k' THEN Final(i)' ELSE Labels(i)'
    BY <1>1, <1>3, <1>5, <1>9
  <1> QED BY <1>1, <1>4, <1>8, <1>9, <1>10 DEF IInv

(* The labels of a block after relabeling.                                 *)
LEMMA FinalLabels ==
    ASSUME Tiling, Labelling, Merged, NEW i \in 1 .. numBlocks
    PROVE  /\ Final(i) \in LabelArrays
           /\ Final(i) \in [Box(Origin, shape(block(i))) -> Nat]
           /\ \A v \in Voxels(block(i)) :
                 /\ Final(i)[Relative(v, block(i))] = rank[Ident(i, v)]
                 /\ rank[Ident(i, v)] \in Nat
  <1>1. /\ Len(ccBlocks_) = numBlocks /\ Partition(ufd, Ids) /\ rank = Ranks(ufd)
        /\ image \in [Box(Origin, Shape) -> Value]
    BY DEF Merged, Merging, Labelling
  <1>2. /\ DOMAIN Labels(i) = Box(Origin, shape(block(i)))
        /\ \A v \in Voxels(block(i)) : Relative(v, block(i)) \in DOMAIN Labels(i)
    BY <1>1, BlockFacts
  <1>3. \A u \in DOMAIN Labels(i) : Labels(i)[u] + offsets[i] \in Ids
    BY <1>1, IdsApart
  <1>4. \A id \in Ids : rank[id] \in Nat
    <2> DEFINE m == offsets[numBlocks + 1]
    <2>1. m \in Nat
      BY <1>1, IdsApart
    <2>2. Partition(ufd, 0 .. m)
      BY <1>1 DEF Ids
    <2> HIDE DEF m
    <2>3. Ranks(ufd) \in [0 .. m -> Nat]
      BY <2>1, <2>2, RanksExact
    <2> QED BY <1>1, <2>3 DEF Ids, m
  <1>5. Final(i) \in [Box(Origin, shape(block(i))) -> Nat]
    BY <1>2, <1>3, <1>4 DEF Final
  <1>6. Final(i) \in LabelArrays
    BY <1>5 DEF LabelArrays
  <1>7. ASSUME NEW v \in Voxels(block(i))
        PROVE  Final(i)[Relative(v, block(i))] = rank[Ident(i, v)] /\ rank[Ident(i, v)] \in Nat
    <2>1. Final(i)[Relative(v, block(i))] = rank[Ident(i, v)]
      BY <1>2 DEF Final, Ident
    <2>2. Ident(i, v) \in Ids
      BY <1>2, <1>3 DEF Ident
    <2> QED BY <1>4, <2>1, <2>2
  <1> QED BY <1>5, <1>6, <1>7

LEMMA SameRanks ==
    ASSUME Merged, UNCHANGED <<blockingVars, image, offsets, ufd, rank>>,
           Len(ccBlocks_') = Len(ccBlocks_)
    PROVE  Merged' /\ \A i : Final(i)' = Final(i)
  <1>1. UNCHANGED blockingVars /\ image' = image /\ offsets' = offsets /\ ufd' = ufd /\ rank' = rank
    OBVIOUS
  <1>2. /\ numBlocks' = numBlocks /\ Ids' = Ids /\ Uses' = Uses
        /\ \A i : Labels(i)' = Labels(i) /\ block(i)' = block(i)
        /\ \A i, v : Ident(i, v)' = Ident(i, v)
    BY <1>1, SameBlocks, SameIds
  <1>3. \A i, j : United(i, j)' = United(i, j)
    BY <1>1, <1>2 DEF United
  <1>4. Merged'
    BY <1>1, <1>2, <1>3 DEF Merged, Merging
  <1>5. \A i : Final(i)' = Final(i)
    BY <1>1, <1>2 DEF Final
  <1> QED BY <1>4, <1>5

LEMMA RelabelBlockKeeps ==
    ASSUME IInv, RelabelBlock
    PROVE  IInv'
  <1>1. /\ pc = "relabel" /\ pc' = pc /\ k <= numBlocks /\ k' = k + 1
        /\ UNCHANGED <<blockingVars, image, offsets, ufd, rank>>
        /\ ccBlocks_' = [ccBlocks_ EXCEPT ![k] = [v \in DOMAIN @ |-> rank[@[v] + offsets[k]]]]
    BY DEF RelabelBlock
  <1>2. /\ Tiling /\ Labelling /\ Merged /\ k \in Nat \ {0}
        /\ \A i \in 1 .. numBlocks : ccBlocks_[i] = IF i < k THEN Final(i) ELSE Labels(i)
        /\ numBlocks \in Nat
    BY <1>1, TilingState DEF IInv
  <1>3. k \in 1 .. numBlocks /\ ccBlocks_[k] = Labels(k)
    BY <1>1, <1>2
  <1>4. ccBlocks_' = [ccBlocks_ EXCEPT ![k] = Final(k)]
    BY <1>1, <1>3 DEF Final
  <1>5. ccBlocks_ \in Seq(LabelArrays) /\ Len(ccBlocks_) = numBlocks
    BY <1>2 DEF Labelling, Merged, Merging
  <1>6. Final(k) \in LabelArrays
    BY <1>2, <1>3, FinalLabels
  <1>7. /\ ccBlocks_' \in Seq(LabelArrays) /\ Len(ccBlocks_') = Len(ccBlocks_)
        /\ \A i \in 1 .. numBlocks : ccBlocks_'[i] = IF i = k THEN Final(k) ELSE ccBlocks_[i]
    BY <1>2, <1>3, <1>4, <1>5, <1>6
  <1>8. Tiling' /\ Labelling'
    BY <1>1, <1>2, <1>7, LoopKeeps
  <1>9. /\ numBlocks' = numBlocks /\ \A i : Labels(i)' = Labels(i)
    BY <1>1, SameBlocks
  <1>10. Merged' /\ \A i : Final(i)' = Final(i)
    BY <1>1, <1>2, <1>7, SameRanks
  <1>11. \A i \in 1 .. numBlocks : ccBlocks_'[i] = IF i < k + 1 THEN Final(i) ELSE Labels(i)
    <2>1. \A i \in 1 .. numBlocks : i < k + 1 <=> i < k \/ i = k
      BY <1>2
    <2> QED BY <1>2, <1>7, <2>1
  <1>12. k' \in Nat \ {0} /\ k' <= numBlocks + 1
    BY <1>1, <1>2
  <1>13. \A i \in 1 .. numBlocks' : ccBlocks_'[i] = IF i < k' THEN Final(i)' ELSE Labels(i)'
    BY <1>1, <1>9, <1>10, <1>11
  <1> QED BY <1>1, <1>8, <1>9, <1>10, <1>12, <1>13 DEF IInv

LEMMA StartWriteKeeps ==
    ASSUME IInv, StartWrite
    PROVE  IInv'
  <1>1. /\ pc = "relabel" /\ pc' = "write" /\ k > numBlocks /\ k' = 1
        /\ UNCHANGED <<blockingVars, image, offsets, ufd, rank>> /\ ccBlocks_' = ccBlocks_
        /\ dataset' = [v \in Voxels(roi_) |-> 0]
    BY DEF StartWrite
  <1>2. /\ Tiling /\ Labelling /\ Merged /\ k \in Nat \ {0}
        /\ \A i \in 1 .. numBlocks : ccBlocks_[i] = IF i < k THEN Final(i) ELSE Labels(i)
        /\ numBlocks \in Nat
    BY <1>1, TilingState DEF IInv
  <1>3. Tiling' /\ Labelling'
    BY <1>1, <1>2, LoopKeeps
  <1>4. numBlocks' = numBlocks /\ Voxels(roi_)' = Voxels(roi_)
    BY <1>1, SameBlocks
  <1>5. Merged' /\ \A i : Final(i)' = Final(i)
    BY <1>1, <1>2, SameRanks
  <1>6. \A i \in 1 .. numBlocks : ccBlocks_[i] = Final(i)
    <2>1. \A i \in 1 .. numBlocks : i < k
      BY <1>1, <1>2
    <2> QED BY <1>2, <2>1
  <1>7. \A i \in 1 .. numBlocks' : ccBlocks_'[i] = Final(i)'
    BY <1>1, <1>4, <1>5, <1>6
  <1>8. dataset' \in [Voxels(roi_)' -> Nat]
    BY <1>1, <1>4
  <1>9. k' \in Nat \ {0} /\ k' <= numBlocks' + 1 /\ 1 .. k' - 1 = {}
    BY <1>1, <1>2, <1>4
  <1> QED BY <1>1, <1>3, <1>5, <1>7, <1>8, <1>9 DEF IInv

LEMMA WriteBlockKeeps ==
    ASSUME IInv, WriteBlock
    PROVE  IInv'
  <1>1. /\ pc = "write" /\ pc' = pc /\ k <= numBlocks /\ k' = k + 1
        /\ UNCHANGED <<blockingVars, image, offsets, ufd, rank>> /\ ccBlocks_' = ccBlocks_
        /\ dataset' = [v \in DOMAIN dataset |->
                           IF InRoi(v, block(k).p, block(k).q)
                           THEN ccBlocks_[k][Relative(v, block(k))] ELSE dataset[v]]
    BY DEF WriteBlock
  <1>2. /\ Tiling /\ Labelling /\ Merged /\ k \in Nat \ {0}
        /\ \A i \in 1 .. numBlocks : ccBlocks_[i] = Final(i)
        /\ dataset \in [Voxels(roi_) -> Nat]
        /\ \A v \in Voxels(roi_) :
              (\E i \in 1 .. k - 1 : v \in Voxels(block(i))) => Written(v)
        /\ numBlocks \in Nat
        /\ Voxels(roi_) = Box(Origin, Shape)
        /\ image \in [Box(Origin, Shape) -> Value]
    BY <1>1, TilingState DEF IInv, Labelling
  <1>3. Tiling' /\ Labelling'
    BY <1>1, <1>2, LoopKeeps
  <1>4. /\ numBlocks' = numBlocks /\ Voxels(roi_)' = Voxels(roi_)
        /\ \A i : block(i)' = block(i)
        /\ \A i, v : Ident(i, v)' = Ident(i, v)
    BY <1>1, SameBlocks, SameIds
  <1>5. Merged' /\ \A i : Final(i)' = Final(i)
    BY <1>1, <1>2, SameRanks
  <1>6. k \in 1 .. numBlocks
    BY <1>1, <1>2
  <1>7. \A v \in Voxels(roi_) : InRoi(v, block(k).p, block(k).q) <=> v \in Voxels(block(k))
    <2>1. block(k).p \in IntVectors /\ block(k).q \in IntVectors
      BY <1>2, <1>6, BlockFacts
    <2>2. IsShape(Shape)
      BY <1>2, TilingState
    <2>3. Voxels(roi_) \subseteq IntVectors
      BY <1>2, <2>2, WholeRegion, ShapeType
    <2>4. \A v : v \in Voxels(block(k)) <=> v \in IntVectors /\ InRoi(v, block(k).p, block(k).q)
      BY <2>1, BoxMember DEF Voxels
    <2> QED BY <2>3, <2>4
  <1>8. \A v \in Voxels(roi_) :
           dataset'[v] = IF v \in Voxels(block(k)) THEN rank[Ident(k, v)] ELSE dataset[v]
    <2>1. ASSUME NEW v \in Voxels(block(k))
          PROVE  ccBlocks_[k][Relative(v, block(k))] = rank[Ident(k, v)]
      BY <1>2, <1>6, FinalLabels
    <2>2. DOMAIN dataset = Voxels(roi_)
      BY <1>2
    <2> QED BY <1>1, <1>7, <2>1, <2>2
  <1>9. dataset' \in [Voxels(roi_) -> Nat]
    <2>1. DOMAIN dataset = Voxels(roi_) /\ \A v \in Voxels(roi_) : dataset[v] \in Nat
      BY <1>2
    <2>2. \A v \in Voxels(block(k)) : rank[Ident(k, v)] \in Nat
      BY <1>2, <1>6, FinalLabels
    <2>3. \A v \in Voxels(roi_) : dataset'[v] \in Nat
      BY <1>8, <2>1, <2>2
    <2>4. dataset' = [v \in Voxels(roi_) |-> dataset'[v]]
      BY <1>1, <2>1
    <2> QED BY <2>3, <2>4
  <1>10. ASSUME NEW v \in Voxels(roi_), NEW i \in 1 .. k, v \in Voxels(block(i))
         PROVE  \E j \in 1 .. numBlocks : v \in Voxels(block(j)) /\ dataset'[v] = rank[Ident(j, v)]
    <2>1. CASE v \in Voxels(block(k))
      BY <1>6, <1>8, <2>1
    <2>2. CASE v \notin Voxels(block(k))
      <3>1. i \in 1 .. k - 1
        BY <1>2, <1>10, <2>2
      <3>2. Written(v)
        BY <1>2, <1>10, <3>1
      <3>3. dataset'[v] = dataset[v]
        BY <1>8, <2>2
      <3> QED BY <3>2, <3>3 DEF Written
    <2> QED BY <2>1, <2>2
  <1>11. \A v \in Voxels(roi_)' :
            (\E i \in 1 .. k' - 1 : v \in Voxels(block(i))') => Written(v)'
    <2>1. k' - 1 = k
      BY <1>1, <1>2
    <2>2. \A v \in Voxels(roi_) :
             Written(v)' <=> \E j \in 1 .. numBlocks : /\ v \in Voxels(block(j))
                                                       /\ dataset'[v] = rank[Ident(j, v)]
      BY <1>1, <1>4 DEF Written
    <2> QED BY <1>4, <1>10, <2>1, <2>2
  <1>12. k' \in Nat \ {0} /\ k' <= numBlocks' + 1
    BY <1>1, <1>2, <1>4
  <1>13. \A i \in 1 .. numBlocks' : ccBlocks_'[i] = Final(i)'
    BY <1>1, <1>2, <1>4, <1>5
  <1> QED BY <1>1, <1>3, <1>4, <1>5, <1>9, <1>11, <1>12, <1>13 DEF IInv

LEMMA CloseKeeps ==
    ASSUME IInv, Close
    PROVE  IInv'
  <1>1. /\ pc = "write" /\ pc' = "done" /\ k > numBlocks /\ k' = k
        /\ UNCHANGED <<blockingVars, image, offsets, ufd, rank>>
        /\ ccBlocks_' = ccBlocks_ /\ dataset' = dataset
    BY DEF Close, ccVars
  <1>2. /\ Tiling /\ Labelling /\ Merged /\ k \in Nat \ {0} /\ k <= numBlocks + 1
        /\ \A i \in 1 .. numBlocks : ccBlocks_[i] = Final(i)
        /\ dataset \in [Voxels(roi_) -> Nat]
        /\ \A v \in Voxels(roi_) :
              (\E i \in 1 .. k - 1 : v \in Voxels(block(i))) => Written(v)
        /\ numBlocks \in Nat
    BY <1>1, TilingState DEF IInv
  <1>3. Tiling' /\ Labelling'
    BY <1>1, <1>2, LoopKeeps
  <1>4. /\ numBlocks' = numBlocks /\ Voxels(roi_)' = Voxels(roi_)
        /\ \A i : block(i)' = block(i)
        /\ \A i, v : Ident(i, v)' = Ident(i, v)
    BY <1>1, SameBlocks, SameIds
  <1>5. Merged' /\ \A i : Final(i)' = Final(i)
    BY <1>1, <1>2, SameRanks
  <1>6. \A v : Written(v)' = Written(v)
    BY <1>1, <1>4 DEF Written
  <1>7. k' = numBlocks' + 1 /\ k' <= numBlocks' + 1
    BY <1>1, <1>2, <1>4
  <1>8. \A i \in 1 .. numBlocks' : ccBlocks_'[i] = Final(i)'
    BY <1>1, <1>2, <1>4, <1>5
  <1>9. \A v \in Voxels(roi_)' :
           (\E i \in 1 .. k' - 1 : v \in Voxels(block(i))') => Written(v)'
    BY <1>1, <1>2, <1>4, <1>6
  <1> QED BY <1>1, <1>2, <1>3, <1>4, <1>5, <1>7, <1>8, <1>9 DEF IInv

LEMMA StutterKeeps ==
    ASSUME IInv, UNCHANGED vars
    PROVE  IInv'
  <1>1. UNCHANGED blockingVars /\ UNCHANGED ccVars /\ pc' = pc
    BY DEF vars
  <1>2. /\ image' = image /\ ccBlocks_' = ccBlocks_ /\ offsets' = offsets /\ ufd' = ufd
        /\ rank' = rank /\ k' = k /\ dataset' = dataset
    BY <1>1 DEF ccVars
  <1>3. /\ x' = x /\ dim' = dim /\ roi_' = roi_ /\ overlap_' = overlap_ /\ blocks_' = blocks_
    BY <1>1 DEF blockingVars
  <1>4. /\ numBlocks' = numBlocks /\ Voxels(roi_)' = Voxels(roi_) /\ Shape' = Shape
        /\ LabelArrays' = LabelArrays /\ adjBlocks' = adjBlocks
        /\ \A i : block(i)' = block(i) /\ Labels(i)' = Labels(i)
        /\ \A i, v : Ident(i, v)' = Ident(i, v)
        /\ \A a : Position(a)' = Position(a)
        /\ Ids' = Ids /\ Uses' = Uses /\ OffsetsApart' = OffsetsApart
    BY <1>1, <1>2, SameBlocks, SameIds
  <1>5. Coord' = Coord /\ InRange' = InRange
    BY <1>3 DEF Coord, InRange, Shape
  <1>6. /\ \A v : Written(v)' = Written(v)
        /\ \A i, j : United(i, j)' = United(i, j)
        /\ \A i : Final(i)' = Final(i)
    BY <1>2, <1>4 DEF Written, United, Final
  <1>7. Tiling' = Tiling
    BY <1>1, <1>3, <1>4, <1>5 DEF Tiling
  <1>8. Labelling' = Labelling
    BY <1>2, <1>4 DEF Labelling
  <1>9. Merging' = Merging /\ Merged' = Merged
    BY <1>2, <1>4, <1>6 DEF Merging, Merged
  <1> QED BY <1>1, <1>2, <1>4, <1>6, <1>7, <1>8, <1>9 DEF IInv

LEMMA Invariance ==
    Spec => []IInv
  <1>1. Init => IInv
    BY IInvStarts
  <1>2. IInv /\ [Next]_vars => IInv'
    <2> SUFFICES ASSUME IInv, [Next]_vars PROVE IInv'
      OBVIOUS
    <2>1. CASE Tile /\ UNCHANGED ccVars
      BY <2>1, TileKeeps
    <2>2. CASE LabelBlock
      BY <2>2, LabelBlockKeeps
    <2>3. CASE StartMerge
      BY <2>3, StartMergeKeeps
    <2>4. CASE MergeBlocks
      BY <2>4, MergeBlocksKeeps
    <2>5. CASE makeContiguous
      BY <2>5, makeContiguousKeeps
    <2>6. CASE RelabelBlock
      BY <2>6, RelabelBlockKeeps
    <2>7. CASE StartWrite
      BY <2>7, StartWriteKeeps
    <2>8. CASE WriteBlock
      BY <2>8, WriteBlockKeeps
    <2>9. CASE Close
      BY <2>9, CloseKeeps
    <2>10. CASE UNCHANGED vars
      BY <2>10, StutterKeeps
    <2> QED BY <2>1, <2>2, <2>3, <2>4, <2>5, <2>6, <2>7, <2>8, <2>9, <2>10 DEF Next
  <1> QED BY <1>1, <1>2, PTL DEF Spec

------------------------------------------------------------------------------
(* What the invariant says.                                                *)

(* Shape of the state: one label array per labelled block, of its shape,   *)
(* and a label for every id, throughout the constructor and writeResult.   *)
THEOREM TypeCorrect ==
    Spec => []TypeOK
  <1>1. IInv => TypeOK
    <2> SUFFICES ASSUME IInv PROVE TypeOK
      OBVIOUS
    <2>1. Tiling /\ Labelling
      BY DEF IInv
    <2>2. /\ image \in [Voxels(roi_) -> Value] /\ offsets \in Seq(Nat)
          /\ Len(offsets) = Len(ccBlocks_) + 1 /\ numBlocks \in Nat \ {0}
          /\ ccBlocks_ \in Seq(LabelArrays)
      BY <2>1, TilingState DEF Labelling
    <2>3. pc \in {"tile", "tiled", "merge", "relabel", "write", "done"}
      BY DEF IInv
    <2>4. \A i \in 1 .. numBlocks : Labels(i) \in [Box(Origin, shape(block(i))) -> Nat]
      <3>1. ASSUME NEW i \in 1 .. numBlocks
            PROVE  Labels(i) \in [Box(Origin, shape(block(i))) -> Nat]
        <4>1. PICK m \in Nat : Labels(i) \in [Box(Origin, shape(block(i))) -> 0 .. m]
          BY <2>1, BlockFacts DEF Labelling
        <4> QED BY <4>1
      <3> QED BY <3>1
    <2>5. pc \in {"relabel", "write", "done"} => Merged
      BY DEF IInv
    <2>6. pc \in {"merge", "relabel", "write", "done"} => Merging
      BY <2>5 DEF IInv, Merged
    <2>7. \A i \in DOMAIN ccBlocks_ : ccBlocks_[i] \in [Box(Origin, shape(block(i))) -> Nat]
      <3>1. Len(ccBlocks_) \in Nat /\ DOMAIN ccBlocks_ = 1 .. Len(ccBlocks_)
        BY <2>2
      <3>2. Len(ccBlocks_) <= numBlocks
        BY <2>1 DEF Labelling
      <3>3. \A i \in DOMAIN ccBlocks_ : i \in 1 .. numBlocks
        BY <2>2, <3>1, <3>2
      <3>4. ASSUME NEW i \in DOMAIN ccBlocks_
            PROVE  ccBlocks_[i] = Labels(i) \/ (Merged /\ ccBlocks_[i] = Final(i))
        <4>1. i \in 1 .. numBlocks
          BY <3>3
        <4>2. CASE pc = "tile"
          <5>1. ccBlocks_ = <<>>
            BY <4>2 DEF IInv
          <5> QED BY <5>1
        <4>3. CASE pc = "tiled"
          <5>1. Len(ccBlocks_) = k - 1 /\ \A j \in 1 .. k - 1 : ccBlocks_[j] = Labels(j)
            BY <4>3 DEF IInv
          <5> QED BY <3>1, <5>1
        <4>4. CASE pc = "merge"
          BY <4>1, <4>4 DEF IInv
        <4>5. CASE pc = "relabel"
          <5>1. ccBlocks_[i] = IF i < k THEN Final(i) ELSE Labels(i)
            BY <4>1, <4>5 DEF IInv
          <5> QED BY <2>5, <4>5, <5>1
        <4>6. CASE pc \in {"write", "done"}
          <5>1. ccBlocks_[i] = Final(i)
            BY <4>1, <4>6 DEF IInv
          <5> QED BY <2>5, <4>6, <5>1
        <4> QED BY <2>3, <4>2, <4>3, <4>4, <4>5, <4>6
      <3>5. ASSUME NEW i \in DOMAIN ccBlocks_
            PROVE  ccBlocks_[i] \in [Box(Origin, shape(block(i))) -> Nat]
        <4>1. i \in 1 .. numBlocks
          BY <3>3
        <4>2. Merged => Final(i) \in [Box(Origin, shape(block(i))) -> Nat]
          BY <2>1, <4>1, FinalLabels
        <4> QED BY <2>4, <3>4, <4>1, <4>2
      <3> QED BY <3>5
    <2>8. Merging => UNION ufd = 0 .. offsets[numBlocks + 1]
      BY DEF Merging, Partition, Ids
    <2>9. Merged => rank \in [UNION ufd -> Nat]
      <3> SUFFICES ASSUME Merged PROVE rank \in [UNION ufd -> Nat]
        OBVIOUS
      <3> DEFINE m == offsets[numBlocks + 1]
      <3>1. rank = Ranks(ufd) /\ Partition(ufd, 0 .. m) /\ Len(ccBlocks_) = numBlocks
        BY DEF Merged, Merging, Ids
      <3>2. m \in Nat
        BY <2>1, <3>1, IdsApart
      <3>3. UNION ufd = 0 .. m
        BY <3>1 DEF Partition
      <3> HIDE DEF m
      <3>4. Ranks(ufd) \in [0 .. m -> Nat]
        BY <3>1, <3>2, RanksExact
      <3> QED BY <3>1, <3>3, <3>4
    <2>10. pc \in {"write", "done"} => dataset \in [Voxels(roi_) -> Nat]
      BY DEF IInv
    <2> QED BY <2>2, <2>3, <2>5, <2>6, <2>7, <2>8, <2>9, <2>10 DEF TypeOK
  <1> QED BY <1>1, Invariance, PTL

(* A voxel lies in the block of its coordinate.                            *)
LEMMA OwnBlock ==
    ASSUME NEW s, IsShape(s), NEW v \in Box(Origin, s)
    PROVE  LET c == blockGivenCoordinateP(v)
           IN  c \in BlocksInRange(Origin, s) /\ v \in Voxels(TileRoi(c, s))
  <1> DEFINE c == blockGivenCoordinateP(v)
  <1>1. v \in Vectors /\ InRoi(v, Origin, s)
    BY WholeRegion, BoxMember
  <1>2. c \in BlocksInRange(Origin, s)
    BY <1>1, WholeRegion, VisitComplete
  <1>3. ASSUME NEW d \in Dim PROVE Covers(BlockShape[d], c[d], v[d])
    <2>1. v[d] \in Nat /\ BlockShape[d] \in Nat \ {0} /\ c[d] = Quotient(v[d], BlockShape[d])
      BY <1>1, ShapeType DEF Vectors, blockGivenCoordinateP
    <2> QED BY <2>1, CoversExact
  <1> QED BY <1>2, <1>3, TileVoxels

LEMMA InBlock ==
    ASSUME Tiling, pc # "tile"
    PROVE  /\ \A v \in Box(Origin, Shape) : \E i \in 1 .. numBlocks : v \in Voxels(block(i))
           /\ \A v, w \in Box(Origin, Shape) : Adjacent(v, w) =>
                 \E i \in 1 .. numBlocks : v \in Voxels(block(i)) /\ w \in Voxels(block(i))
  <1>1. /\ IsShape(Shape) /\ InRange = BlocksInRange(Origin, Shape)
        /\ \A i \in 1 .. numBlocks : block(i) = TileRoi(Coord[i], Shape)
    BY TilingState DEF InRange
  <1>2. ASSUME NEW v \in Box(Origin, Shape)
        PROVE  \E i \in 1 .. numBlocks : v \in Voxels(block(i))
    <2>1. PICK c \in InRange : v \in Voxels(TileRoi(c, Shape))
      BY <1>1, OwnBlock
    <2>2. PICK i \in 1 .. numBlocks : Coord[i] = c
      BY TilingComplete
    <2> QED BY <1>1, <2>1, <2>2
  <1>3. ASSUME NEW v \in Box(Origin, Shape), NEW w \in Box(Origin, Shape), Adjacent(v, w)
        PROVE  \E i \in 1 .. numBlocks : v \in Voxels(block(i)) /\ w \in Voxels(block(i))
    <2>1. PICK c \in InRange : v \in Voxels(TileRoi(c, Shape)) /\ w \in Voxels(TileRoi(c, Shape))
      BY <1>1, <1>3, CommonBlock
    <2>2. PICK i \in 1 .. numBlocks : Coord[i] = c
      BY TilingComplete
    <2> QED BY <1>1, <2>1, <2>2
  <1> QED BY <1>2, <1>3

(* The constructor of Blocking tiles its region: without the overlap the   *)
(* blocks partition it, none reaches out of it, and adjacent voxels lie in *)
(* a common block.                                                         *)
THEOREM TilingIsExact ==
    Spec => []TilingExact
  <1>1. IInv => TilingExact
    <2> SUFFICES ASSUME IInv, pc # "tile"
                 PROVE  /\ \A i \in 1 .. numBlocks : Voxels(block(i)) \subseteq Voxels(roi_)
                        /\ \A v \in Voxels(roi_) :
                              Cardinality({i \in 1 .. numBlocks : Core(i, v)}) = 1
                        /\ \A v, w \in Voxels(roi_) :
                              Adjacent(v, w) =>
                                  \E i \in 1 .. numBlocks : {v, w} \subseteq Voxels(block(i))
      BY DEF TilingExact
    <2>1. Tiling /\ image \in [Box(Origin, Shape) -> Value]
      BY DEF IInv, Labelling
    <2>2. /\ Voxels(roi_) = Box(Origin, Shape) /\ IsShape(Shape)
          /\ InRange = BlocksInRange(Origin, Shape) /\ IsRegion(Origin, Shape)
          /\ \A i \in 1 .. numBlocks : Coord[i] = blocks_[i].first /\ Coord[i] \in InRange
      BY <2>1, TilingState DEF Coord, InRange
    <2>3. \A i \in 1 .. numBlocks : Voxels(block(i)) \subseteq Voxels(roi_)
      BY <2>1, <2>2, BlockFacts
    <2>4. ASSUME NEW v \in Voxels(roi_)
          PROVE  Cardinality({i \in 1 .. numBlocks : Core(i, v)}) = 1
      <3> DEFINE c == blockGivenCoordinateP(v)
      <3>1. v \in Vectors /\ c \in InRange /\ InRange \subseteq Vectors
        BY <2>2, WholeRegion, OwnBlock, RangeMember
      <3>2. PICK j \in 1 .. numBlocks : Coord[j] = c
        BY <2>1, <3>1, TilingComplete
      <3>3. ASSUME NEW i \in 1 .. numBlocks PROVE Core(i, v) <=> Coord[i] = c
        <4>1. Core(i, v) <=> \A d \in Dim : /\ BlockShape[d] * Coord[i][d] <= v[d]
                                            /\ v[d] < BlockShape[d] * (Coord[i][d] + 1)
          BY <2>2 DEF Core, blockBounds, InRoi
        <4>2. Coord[i] \in Vectors /\ c \in Vectors
          BY <2>2, <3>1
        <4>3. \A d \in Dim : /\ Coord[i][d] \in Nat /\ v[d] \in Nat /\ BlockShape[d] \in Nat \ {0}
                             /\ c[d] = Quotient(v[d], BlockShape[d])
          BY <3>1, <4>2, ShapeType DEF Vectors, blockGivenCoordinateP
        <4>4. ASSUME NEW d \in Dim
              PROVE  Coord[i][d] = c[d] <=> /\ BlockShape[d] * Coord[i][d] <= v[d]
                                            /\ v[d] < BlockShape[d] * (Coord[i][d] + 1)
          <5> DEFINE e == Coord[i][d]
          <5>1. e \in Nat /\ v[d] \in Nat /\ BlockShape[d] \in Nat \ {0}
                /\ c[d] = Quotient(v[d], BlockShape[d])
            BY <4>3
          <5> HIDE DEF e, c
          <5>2. BlockShape[d] * e <= v[d] /\ v[d] < BlockShape[d] * (e + 1) <=> e = c[d]
            BY <5>1, CoversExact
          <5> QED BY <5>2 DEF e
        <4>5. (\A d \in Dim : Coord[i][d] = c[d]) <=> Coord[i] = c
          BY <4>2 DEF Vectors
        <4> QED BY <4>1, <4>4, <4>5
      <3>4. {i \in 1 .. numBlocks : Core(i, v)} = {j}
        BY <2>1, <3>2, <3>3, TilingComplete
      <3> QED BY <3>4, FS_Singleton
    <2>5. ASSUME NEW v \in Voxels(roi_), NEW w \in Voxels(roi_), Adjacent(v, w)
          PROVE  \E i \in 1 .. numBlocks : {v, w} \subseteq Voxels(block(i))
      BY <2>1, <2>2, <2>5, InBlock
    <2> QED BY <2>3, <2>4, <2>5
  <1> QED BY <1>1, Invariance, PTL

(* At every moment of the merging loop, voxels whose ids have one root are *)
(* in one object, or are both background: no union joins what is not       *)
(* connected.                                                              *)
THEOREM UnionsAreSound ==
    Spec => []UnionsSound
  <1>1. IInv => UnionsSound
    <2> DEFINE class(i, v) == CHOOSE s \in ufd : Id(i, v) \in s
               uses == UNION {{<<class(i, v), ObjectOf(image, v)>> : v \in Voxels(block(i))} :
                                  i \in 1 .. numBlocks}
    <2> SUFFICES ASSUME IInv, pc = "merge"
                 PROVE  \A a, b \in uses : a[1] = b[1] => a[2] = b[2]
      BY DEF UnionsSound, ObjectOf
    <2>1. /\ Tiling /\ Labelling /\ Merging
          /\ \A i \in 1 .. numBlocks : ccBlocks_[i] = Labels(i)
      BY DEF IInv
    <2>2. /\ Partition(ufd, Ids) /\ Sound(ufd, Uses) /\ Len(ccBlocks_) = numBlocks
      BY <2>1 DEF Merging
    <2>3. ASSUME NEW i \in 1 .. numBlocks, NEW v \in Voxels(block(i))
          PROVE  /\ class(i, v) \in ufd /\ Ident(i, v) \in class(i, v)
                 /\ <<Ident(i, v), ObjectOf(image, v)>> \in Uses
      <3>1. Id(i, v) = Ident(i, v)
        BY <2>1 DEF Id, Ident
      <3>2. Ident(i, v) \in Ids
        BY <2>1, <2>2, IdsApart
      <3>3. \E s \in ufd : Id(i, v) \in s
        BY <2>2, <3>1, <3>2 DEF Partition
      <3>4. <<Ident(i, v), ObjectOf(image, v)>> \in Uses
        BY DEF Uses
      <3> QED BY <3>1, <3>3, <3>4
    <2> HIDE DEF class
    <2>4. ASSUME NEW a \in uses, NEW b \in uses, a[1] = b[1] PROVE a[2] = b[2]
      <3>1. PICK i \in 1 .. numBlocks :
               \E v \in Voxels(block(i)) : a = <<class(i, v), ObjectOf(image, v)>>
        OBVIOUS
      <3>2. PICK v \in Voxels(block(i)) : a = <<class(i, v), ObjectOf(image, v)>>
        BY <3>1
      <3>3. PICK j \in 1 .. numBlocks :
               \E w \in Voxels(block(j)) : b = <<class(j, w), ObjectOf(image, w)>>
        OBVIOUS
      <3>4. PICK w \in Voxels(block(j)) : b = <<class(j, w), ObjectOf(image, w)>>
        BY <3>3
      <3>5. class(i, v) = class(j, w) /\ a[2] = ObjectOf(image, v) /\ b[2] = ObjectOf(image, w)
        BY <2>4, <3>2, <3>4
      <3> DEFINE s == class(i, v)
                 e == <<Ident(i, v), ObjectOf(image, v)>>
                 f == <<Ident(j, w), ObjectOf(image, w)>>
      <3>6. s \in ufd /\ e \in Uses /\ f \in Uses /\ e[1] \in s /\ f[1] \in s
        BY <2>3, <3>5
      <3>7. e[2] = ObjectOf(image, v) /\ f[2] = ObjectOf(image, w)
        OBVIOUS
      <3> HIDE DEF s, e, f
      <3>8. e[2] = f[2]
        BY <2>2, <3>6 DEF Sound
      <3> QED BY <3>5, <3>7, <3>8
    <2> QED BY <2>4
  <1> QED BY <1>1, Invariance, PTL

LEMMA RanksOfIds ==
    ASSUME Tiling, Labelling, Merged
    PROVE  \A a, b \in Ids : rank[a] = rank[b] <=> Together(ufd, a, b)
  <1> DEFINE m == offsets[numBlocks + 1]
  <1>1. rank = Ranks(ufd) /\ Partition(ufd, 0 .. m) /\ Len(ccBlocks_) = numBlocks
    BY DEF Merged, Merging, Ids
  <1>2. m \in Nat
    BY <1>1, IdsApart
  <1> HIDE DEF m
  <1>3. \A a, b \in 0 .. m : Ranks(ufd)[a] = Ranks(ufd)[b] <=> Together(ufd, a, b)
    BY <1>1, <1>2, RanksExact
  <1> QED BY <1>1, <1>3 DEF Ids, m

(* The label of a voxel is the same in every block that holds it.          *)
LEMMA LabelsAgree ==
    ASSUME Tiling, Labelling, Merged, NEW i \in 1 .. numBlocks, NEW j \in 1 .. numBlocks,
           NEW v \in Voxels(block(i)), v \in Voxels(block(j))
    PROVE  rank[Ident(i, v)] = rank[Ident(j, v)]
  <1>1. United(i, j) /\ Len(ccBlocks_) = numBlocks
    BY DEF Merged, Merging
  <1>2. Together(ufd, Ident(i, v), Ident(j, v))
    BY <1>1 DEF United
  <1>3. Ident(i, v) \in Ids /\ Ident(j, v) \in Ids
    BY <1>1, IdsApart
  <1> QED BY <1>2, <1>3, RanksOfIds

(* After relabeling, blocks agree on every voxel they share, also blocks   *)
(* that are never merged with each other: the order in which writeResult   *)
(* writes them does not matter.                                            *)
THEOREM BlocksAreConsistent ==
    Spec => []BlocksAgree
  <1>1. IInv => BlocksAgree
    <2> SUFFICES ASSUME IInv, pc = "relabel", k > numBlocks,
                        NEW i \in 1 .. numBlocks, NEW j \in 1 .. numBlocks,
                        NEW v \in Voxels(intersect(block(i), block(j)).out)
                 PROVE  ccBlocks_[i][Relative(v, block(i))] = ccBlocks_[j][Relative(v, block(j))]
      BY DEF BlocksAgree
    <2>1. /\ Tiling /\ Labelling /\ Merged /\ k \in Nat
          /\ \A n \in 1 .. numBlocks : ccBlocks_[n] = IF n < k THEN Final(n) ELSE Labels(n)
          /\ image \in [Box(Origin, Shape) -> Value]
          /\ numBlocks \in Nat
      BY TilingState DEF IInv, Labelling
    <2>2. ccBlocks_[i] = Final(i) /\ ccBlocks_[j] = Final(j)
      BY <2>1
    <2>3. v \in Voxels(block(i)) /\ v \in Voxels(block(j))
      BY <2>1, SharedExact DEF Shared
    <2>4. /\ Final(i)[Relative(v, block(i))] = rank[Ident(i, v)]
          /\ Final(j)[Relative(v, block(j))] = rank[Ident(j, v)]
      BY <2>1, <2>3, FinalLabels
    <2>5. rank[Ident(i, v)] = rank[Ident(j, v)]
      BY <2>1, <2>3, LabelsAgree
    <2> QED BY <2>2, <2>4, <2>5
  <1> QED BY <1>1, Invariance, PTL

(* The label of voxel v in the dataset is the rank of any id of v.         *)
LEMMA WrittenLabel ==
    ASSUME IInv, pc = "done", NEW i \in 1 .. numBlocks, NEW v \in Voxels(block(i))
    PROVE  dataset[v] = rank[Ident(i, v)]
  <1>1. /\ Tiling /\ Labelling /\ Merged /\ k = numBlocks + 1
        /\ \A w \in Voxels(roi_) : (\E j \in 1 .. k - 1 : w \in Voxels(block(j))) => Written(w)
        /\ image \in [Box(Origin, Shape) -> Value]
        /\ numBlocks \in Nat
    BY TilingState DEF IInv, Labelling
  <1>2. v \in Voxels(roi_)
    BY <1>1, BlockFacts, TilingState
  <1>3. k - 1 = numBlocks
    BY <1>1
  <1>4. Written(v)
    BY <1>1, <1>2, <1>3
  <1>5. PICK j \in 1 .. numBlocks : v \in Voxels(block(j)) /\ dataset[v] = rank[Ident(j, v)]
    BY <1>4 DEF Written
  <1> QED BY <1>1, <1>5, LabelsAgree

(* The written labels are those of one labeling of the whole image, up to  *)
(* their numbers: the voxels of an object have one label, and no other     *)
(* object and no background voxel has it.                                  *)
THEOREM ComponentsAreExact ==
    Spec => []ComponentsExact
  <1>1. IInv => ComponentsExact
    <2> DEFINE written(o) == {dataset[v] : v \in o}
               background == {v \in DOMAIN image : image[v] = 0}
               objects == Objects(image)
    <2> SUFFICES ASSUME IInv, pc = "done"
                 PROVE  /\ \A o \in objects : Cardinality(written(o)) = 1
                        /\ \A o \in objects : \A other \in (objects \ {o}) \cup {background} :
                              written(o) \cap written(other) = {}
      BY DEF ComponentsExact
    <2>1. /\ Tiling /\ Labelling /\ Merged
          /\ image \in [Box(Origin, Shape) -> Value]
      BY DEF IInv, Labelling
    <2>2. /\ IsShape(Shape) /\ Box(Origin, Shape) \subseteq IntVectors
          /\ IsFiniteSet(Box(Origin, Shape)) /\ DOMAIN image = Box(Origin, Shape)
      BY <2>1, TilingState, WholeRegion, ShapeType
    <2>3. IsFiniteSet(Foreground(image)) /\ Foreground(image) \subseteq Box(Origin, Shape)
      <3>1. Foreground(image) \in SUBSET Box(Origin, Shape)
        BY <2>2 DEF Foreground
      <3> QED BY <2>2, <3>1, FS_Subset
    <2>4. AreObjects(image, Foreground(image), objects)
      BY <2>2, <2>3, ObjectsPartition
    <2>5. /\ \A o \in objects : o # {} /\ o \subseteq Box(Origin, Shape)
          /\ \A o \in objects : \A v \in o : ObjectOf(image, v) = o
          /\ \A v \in DOMAIN image : image[v] = 0 <=> ObjectOf(image, v) = {}
      BY <2>2, <2>3, ObjectOfMember
    <2>6. ASSUME NEW v \in Box(Origin, Shape), NEW w \in Box(Origin, Shape), Linked(image, v, w)
          PROVE  dataset[v] = dataset[w]
      <3>1. PICK i \in 1 .. numBlocks : v \in Voxels(block(i)) /\ w \in Voxels(block(i))
        BY <2>1, <2>6, InBlock DEF Linked
      <3>2. Labels(i)[Relative(v, block(i))] = Labels(i)[Relative(w, block(i))]
        BY <2>1, <2>6, <3>1, BlockFacts
      <3>3. Ident(i, v) = Ident(i, w)
        BY <3>2 DEF Ident
      <3> QED BY <3>1, <3>3, WrittenLabel
    <2>7. ASSUME NEW v \in Box(Origin, Shape), NEW w \in Box(Origin, Shape), dataset[v] = dataset[w]
          PROVE  ObjectOf(image, v) = ObjectOf(image, w)
      <3>1. PICK i \in 1 .. numBlocks : v \in Voxels(block(i))
        BY <2>1, InBlock
      <3>2. PICK j \in 1 .. numBlocks : w \in Voxels(block(j))
        BY <2>1, InBlock
      <3>3. rank[Ident(i, v)] = rank[Ident(j, w)]
        BY <2>7, <3>1, <3>2, WrittenLabel
      <3>4. /\ Partition(ufd, Ids) /\ Sound(ufd, Uses) /\ Len(ccBlocks_) = numBlocks
        BY <2>1 DEF Merged, Merging
      <3>5. Ident(i, v) \in Ids /\ Ident(j, w) \in Ids
        BY <2>1, <3>1, <3>2, <3>4, IdsApart
      <3>6. Together(ufd, Ident(i, v), Ident(j, w))
        BY <2>1, <3>3, <3>5, RanksOfIds
      <3> DEFINE e == <<Ident(i, v), ObjectOf(image, v)>>
                 f == <<Ident(j, w), ObjectOf(image, w)>>
      <3>7. e \in Uses /\ f \in Uses /\ Together(ufd, e[1], f[1])
        BY <3>1, <3>2, <3>6 DEF Uses
      <3>8. e[2] = ObjectOf(image, v) /\ f[2] = ObjectOf(image, w)
        OBVIOUS
      <3> HIDE DEF e, f
      <3>9. e[2] = f[2]
        BY <3>4, <3>7 DEF Sound, Together
      <3> QED BY <3>8, <3>9
    <2> HIDE DEF objects
    <2>8. ASSUME NEW o \in objects PROVE Cardinality(written(o)) = 1
      <3>1. PICK v \in o : TRUE
        BY <2>5
      <3> DEFINE P == {w \in o : dataset[w] = dataset[v]}
      <3>2. P = o
        <4>1. Connected(image, o)
          BY <2>4 DEF AreObjects
        <4>2. \A a \in P, b \in o : Linked(image, a, b) => b \in P
          BY <2>5, <2>6
        <4>3. P # {} /\ P \in SUBSET o
          BY <3>1
        <4> HIDE DEF P
        <4> QED BY <4>1, <4>2, <4>3 DEF Connected
      <3>3. written(o) = {dataset[v]}
        BY <3>1, <3>2
      <3> QED BY <3>3, FS_Singleton
    <2>9. ASSUME NEW o \in objects, NEW other \in (objects \ {o}) \cup {background}
          PROVE  written(o) \cap written(other) = {}
      <3> SUFFICES ASSUME NEW v \in o, NEW w \in other, dataset[v] = dataset[w] PROVE FALSE
        OBVIOUS
      <3>1. v \in Box(Origin, Shape) /\ w \in Box(Origin, Shape)
        BY <2>2, <2>5
      <3>2. ObjectOf(image, v) = o /\ o # {}
        BY <2>5
      <3>3. ObjectOf(image, w) # o
        BY <2>2, <2>5, <3>2
      <3> QED BY <2>7, <3>1, <3>2, <3>3
    <2> QED BY <2>8, <2>9
  <1> QED BY <1>1, Invariance, PTL
==============================================================================
