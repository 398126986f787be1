----------------------------- MODULE FoldLemmas -----------------------------
(***************************************************************************)
(* Folds, for the proofs of the modules that use those of the community    *)
(* modules: a fold over a set is defined there by CHOOSE of a function on  *)
(* its subsets, which is there and is the only one by induction over the   *)
(* finite sets.  The provers instantiate no operator, so an induction is   *)
(* over a set F of the sets it holds of, from the well-foundedness of the  *)
(* strict subsets (FiniteSetTheorems), and a fold's step is a function.    *)
(***************************************************************************)
EXTENDS Integers, FiniteSets, Sequences, SequencesExt,
        FiniteSetTheorems, SequenceTheorems, TLAPS

(* Induction over finite sets: what holds of a set when it holds of all    *)
(* its smaller subsets holds of all subsets. F is the set of those it      *)
(* holds of.                                                               *)
LEMMA SubsetInduction ==
  ASSUME NEW D, IsFiniteSet(D), NEW F,
         \A s \in SUBSET D : (\A u \in SUBSET s : u # s => u \in F) => s \in F
  PROVE  SUBSET D \subseteq F
<1> DEFINE T == (SUBSET D) \ F
<1> SUFFICES ASSUME T # {} PROVE FALSE
  OBVIOUS
<1>1. IsWellFoundedOn(StrictSubsetOrdering(D), FiniteSubsetsOf(D))
  BY FS_StrictSubsetOrderingWellFounded, Zenon
<1>2. FiniteSubsetsOf(D) = SUBSET D
  BY FS_FiniteSubsetsOfFinite
<1>3. IsWellFoundedOn(StrictSubsetOrdering(D), SUBSET D)
  BY <1>1, <1>2, Zenon
<1>4. T \subseteq SUBSET D
  OBVIOUS
<1>5. \E x \in T : \A y \in T : ~ (<<y, x>> \in StrictSubsetOrdering(D))
  <2> HIDE DEF T
  <2> QED
    BY ONLY <1>3, <1>4, T # {}, WFMin, Zenon
<1>6. PICK s \in T : \A u \in T : ~ (<<u, s>> \in StrictSubsetOrdering(D))
  BY <1>5
<1>7. \A u \in SUBSET s : u # s => u \in F
  BY <1>6 DEF StrictSubsetOrdering
<1> QED
  BY <1>7

(* Induction over the numbers, likewise.                                   *)
LEMMA CountingInduction ==
  ASSUME NEW F, 0 \in F, \A n \in Nat : n \in F => n + 1 \in F
  PROVE  Nat \subseteq F
<1> DEFINE T == Nat \ F
<1> SUFFICES ASSUME T # {} PROVE FALSE
  OBVIOUS
<1>1. IsWellFoundedOn(OpToRel(<, Nat), Nat)
  BY NatLessThanWellFounded, Zenon
<1>2. T \subseteq Nat
  OBVIOUS
<1> DEFINE R == OpToRel(<, Nat)
<1>3. \E x \in T : \A y \in T : ~ (<<y, x>> \in R)
  <2> HIDE DEF T
  <2>1. IsWellFoundedOn(R, Nat)
     BY <1>1
  <2> HIDE DEF R
  <2> QED
    BY ONLY <2>1, <1>2, T # {}, WFMin, Zenon
<1>4. PICK n \in T : \A y \in T : ~ (<<y, n>> \in R)
  BY <1>3
<1>5. \A y \in T : ~ (y < n)
  BY <1>4 DEF OpToRel
<1> QED
  BY <1>5

(* A set of numbers that is not empty has a least one.                     *)
LEMMA LeastNumber ==
  ASSUME NEW T \in SUBSET Nat, T # {}
  PROVE  \E n \in T : \A m \in T : n <= m
<1> DEFINE F == {n \in Nat : \A m \in T : m <= n => \E k \in T : \A j \in T : k <= j}
<1>1. 0 \in F
  OBVIOUS
<1>2. ASSUME NEW n \in Nat, n \in F PROVE n + 1 \in F
  <2> SUFFICES ASSUME NEW m \in T, m <= n + 1 PROVE \E k \in T : \A j \in T : k <= j
    OBVIOUS
  <2>1. CASE \E i \in T : i <= n
    BY <2>1, <1>2
  <2>2. CASE \A i \in T : ~ (i <= n)
    <3>1. \A j \in T : m <= j
      BY <2>2
    <3> QED
      BY <3>1
  <2> QED
    BY <2>1, <2>2
<1>3. Nat \subseteq F
  <2> HIDE DEF F
  <2> QED
    BY <1>1, <1>2, CountingInduction, Zenon
<1>4. PICK m \in T : TRUE
  OBVIOUS
<1>5. m \in F
  BY <1>3
<1> QED
  BY <1>5
-----------------------------------------------------------------------------
(* A fold over the subsets of d: b of the empty one, and of another what G *)
(* makes of c, the element chosen first, and of the fold over the rest. A  *)
(* is the type of its values.                                              *)
Step(c, G, b, it, s) == IF s = {} THEN b ELSE G[c[s]][it[s \ {c[s]}]]
Solves(it, d, A, b, c, G) ==
  it \in [SUBSET d -> A] /\ \A s \in SUBSET d : it[s] = Step(c, G, b, it, s)

(* Two folds by the same rules agree where both speak.                     *)
LEMMA FoldsAgree ==
  ASSUME NEW D, IsFiniteSet(D), NEW A, NEW b, NEW c, NEW G,
         \A s \in SUBSET D : s # {} => c[s] \in s,
         NEW d1 \in SUBSET D, NEW d2 \in SUBSET D, NEW i1, NEW i2,
         Solves(i1, d1, A, b, c, G), Solves(i2, d2, A, b, c, G)
  PROVE  \A s \in SUBSET (d1 \cap d2) : i1[s] = i2[s]
<1> DEFINE F == {s \in SUBSET D : s \in SUBSET (d1 \cap d2) => i1[s] = i2[s]}
<1>1. ASSUME NEW s \in SUBSET D, \A u \in SUBSET s : u # s => u \in F
      PROVE  s \in F
  <2> SUFFICES ASSUME s \in SUBSET (d1 \cap d2) PROVE i1[s] = i2[s]
    OBVIOUS
  <2>1. i1[s] = Step(c, G, b, i1, s) /\ i2[s] = Step(c, G, b, i2, s)
    BY DEF Solves
  <2>2. CASE s = {}
    BY <2>1, <2>2 DEF Step
  <2>3. CASE s # {}
    <3> DEFINE u == s \ {c[s]}
    <3>1. u \in SUBSET s /\ u # s /\ u \in SUBSET D
      BY <2>3
    <3>2. i1[u] = i2[u]
      BY <1>1, <3>1
    <3> QED
      BY <2>1, <2>3, <3>2 DEF Step
  <2> QED
    BY <2>2, <2>3
<1>2. SUBSET D \subseteq F
  <2> HIDE DEF F
  <2> QED
    BY <1>1, SubsetInduction, Zenon
<1> QED
  BY <1>2

(* There is such a fold: the CHOOSE of the community modules has something *)
(* to choose.                                                              *)
LEMMA FoldIsThere ==
  ASSUME NEW D, IsFiniteSet(D), NEW A, NEW b \in A, NEW c, NEW G,
         \A s \in SUBSET D : s # {} => c[s] \in s,
         \A x \in D, a \in A : G[x][a] \in A
  PROVE  \E it : Solves(it, D, A, b, c, G)
<1> DEFINE Has(d) == \E it : Solves(it, d, A, b, c, G)
           It(d) == CHOOSE it : Solves(it, d, A, b, c, G)
           F == {d \in SUBSET D : Has(d)}
<1>1. ASSUME NEW d \in SUBSET D, \A u \in SUBSET d : u # d => u \in F
      PROVE  Has(d)
  <2>1. ASSUME NEW u \in SUBSET d, u # d PROVE Solves(It(u), u, A, b, c, G)
    BY <2>1, <1>1
  <2>2. ASSUME NEW u \in SUBSET d, u # d, NEW v \in SUBSET u
        PROVE  It(u)[v] = It(v)[v]
    <3>1. v \in SUBSET d /\ v # d /\ u \in SUBSET D /\ v \in SUBSET D /\ v \in SUBSET (u \cap v)
      BY <2>2
    <3>2. Solves(It(u), u, A, b, c, G) /\ Solves(It(v), v, A, b, c, G)
      BY <2>1, <2>2, <3>1
    <3> HIDE DEF It
    <3> QED
      BY <3>1, <3>2, FoldsAgree
  <2> DEFINE top == IF d = {} THEN b ELSE G[c[d]][It(d \ {c[d]})[d \ {c[d]}]]
             g == [s \in SUBSET d |-> IF s = d THEN top ELSE It(s)[s]]
  <2>3. top \in A
    <3>1. CASE d = {}
      BY <3>1
    <3>2. CASE d # {}
      <4> DEFINE u == d \ {c[d]}
      <4>1. u \in SUBSET d /\ u # d /\ c[d] \in D
        BY <3>2
      <4>2. It(u)[u] \in A
        <5>1. Solves(It(u), u, A, b, c, G)
          BY <2>1, <4>1
        <5> HIDE DEF It, u
        <5> QED
          BY <5>1 DEF Solves
      <4> HIDE DEF It
      <4> QED
        BY <3>2, <4>1, <4>2
    <3> QED
      BY <3>1, <3>2
  <2>4. ASSUME NEW s \in SUBSET d, s # d PROVE It(s)[s] \in A
    <3>1. Solves(It(s), s, A, b, c, G)
      BY <2>1, <2>4
    <3> HIDE DEF It
    <3> QED
      BY <3>1 DEF Solves
  <2>5. g \in [SUBSET d -> A]
    <3> HIDE DEF It, top
    <3> QED
      BY <2>3, <2>4
  <2>6. ASSUME NEW s \in SUBSET d PROVE g[s] = Step(c, G, b, g, s)
    <3>1. CASE s = {}
      <4>1. CASE s = d
        <5> HIDE DEF It
        <5> QED
          BY <3>1, <4>1 DEF Step
      <4>2. CASE s # d
        <5>1. Solves(It(s), s, A, b, c, G)
          BY <2>1, <4>2
        <5> HIDE DEF It
        <5>2. It(s)[s] = b
          BY <5>1, <3>1 DEF Solves, Step
        <5>3. g[s] = It(s)[s]
          BY <4>2
        <5> QED
          BY <5>2, <5>3, <3>1 DEF Step
      <4> QED
        BY <4>1, <4>2
    <3>2. CASE s # {}
      <4> DEFINE u == s \ {c[s]}
      <4>1. u \in SUBSET s /\ u # s /\ u \in SUBSET d /\ u # d
        BY <3>2
      <4>2. g[u] = It(u)[u]
        <5> HIDE DEF It, top, u
        <5> QED
          BY <4>1
      <4>3. CASE s = d
        <5>1. g[s] = G[c[s]][It(u)[u]]
          <6> HIDE DEF It
          <6> QED
            BY <4>3, <3>2
        <5> HIDE DEF g, It, top
        <5> QED
          BY <5>1, <4>2, <3>2 DEF Step
      <4>4. CASE s # d
        <5>1. Solves(It(s), s, A, b, c, G)
          BY <2>1, <4>4
        <5>2. It(s)[u] = It(u)[u]
          BY <2>2, <4>1, <4>4
        <5> HIDE DEF It
        <5>3. It(s)[s] = G[c[s]][It(s)[u]]
          BY <5>1, <3>2 DEF Solves, Step
        <5>4. g[s] = It(s)[s]
          BY <4>4
        <5> HIDE DEF g, top
        <5> QED
          BY <5>3, <5>4, <5>2, <4>2, <3>2 DEF Step
      <4> QED
        BY <4>3, <4>4
    <3> QED
      BY <3>1, <3>2
  <2>7. Solves(g, d, A, b, c, G)
    <3> HIDE DEF g
    <3> QED
      BY <2>5, <2>6, Zenon DEF Solves
  <2> QED
    BY <2>7, Zenon
<1>2. \A d \in SUBSET D : (\A u \in SUBSET d : u # d => u \in F) => d \in F
  <2> HIDE DEF Has
  <2> QED
    BY <1>1
<1>3. SUBSET D \subseteq F
  <2> HIDE DEF F
  <2> QED
    BY <1>2, SubsetInduction, Zenon
<1>4. D \in F
  BY <1>3
<1> QED
  BY <1>4
-----------------------------------------------------------------------------
(* The sum of f over the subsets of D, as the folds of the community       *)
(* modules choose it.                                                      *)
AnyOf(D) == [s \in SUBSET D |-> CHOOSE x \in s : TRUE]
Adds(f, D) == [x \in D |-> [a \in Int |-> f[x] + a]]
Sums(f, D) ==
  CHOOSE it : it = [s \in SUBSET D |->
    IF s = {} THEN 0 ELSE f[CHOOSE x \in s : TRUE] + it[s \ {CHOOSE x \in s : TRUE}]]

(* It is the fold by addition.                                             *)
LEMMA SumsSolve ==
  ASSUME NEW D, IsFiniteSet(D), NEW f \in [D -> Int]
  PROVE  /\ \A s \in SUBSET D : s # {} => AnyOf(D)[s] \in s
         /\ Solves(Sums(f, D), D, Int, 0, AnyOf(D), Adds(f, D))
<1> DEFINE c == AnyOf(D)  G == Adds(f, D)
<1>1. \A s \in SUBSET D : s # {} => c[s] \in s
  BY DEF AnyOf
<1>2. \A x \in D, a \in Int : G[x][a] = f[x] + a /\ G[x][a] \in Int
  BY DEF Adds
<1>3. PICK it : Solves(it, D, Int, 0, c, G)
  <2>1. 0 \in Int /\ \A x \in D, a \in Int : G[x][a] \in Int
    BY <1>2
  <2> HIDE DEF c, G
  <2> QED
    BY <1>1, <2>1, FoldIsThere, Zenon
<1>4. it = [s \in SUBSET D |->
         IF s = {} THEN 0 ELSE f[CHOOSE x \in s : TRUE] + it[s \ {CHOOSE x \in s : TRUE}]]
  <2>1. ASSUME NEW s \in SUBSET D
        PROVE it[s] = IF s = {} THEN 0 ELSE f[CHOOSE x \in s : TRUE] + it[s \ {CHOOSE x \in s : TRUE}]
    <3>1. it[s] = Step(c, G, 0, it, s)
      BY <1>3 DEF Solves
    <3>2. CASE s = {}
      BY <3>1, <3>2 DEF Step
    <3>3. CASE s # {}
      <4>1. c[s] = CHOOSE x \in s : TRUE
        BY DEF AnyOf
      <4>2. c[s] \in D /\ it[s \ {c[s]}] \in Int
        BY <1>1, <3>3, <1>3 DEF Solves
      <4> HIDE DEF c, G
      <4>3. it[s] = f[c[s]] + it[s \ {c[s]}]
        BY <3>1, <3>3, <1>2, <4>2 DEF Step
      <4> QED
        BY <4>1, <4>3, <3>3
    <3> QED
      BY <3>2, <3>3
  <2> QED
    BY <2>1, <1>3 DEF Solves
<1>5. Sums(f, D) = [s \in SUBSET D |->
        IF s = {} THEN 0 ELSE f[CHOOSE x \in s : TRUE] + Sums(f, D)[s \ {CHOOSE x \in s : TRUE}]]
  BY <1>4, Zenon DEF Sums
<1> DEFINE st == Sums(f, D)
<1>6. ASSUME NEW s \in SUBSET D PROVE st[s] = it[s]
  <2> DEFINE F == {u \in SUBSET D : st[u] = it[u]}
  <2>1. ASSUME NEW u \in SUBSET D, \A v \in SUBSET u : v # u => v \in F PROVE u \in F
    <3> HIDE DEF st
    <3>1. CASE u = {}
      BY <3>1, <1>4, <1>5 DEF st
    <3>2. CASE u # {}
      <4> DEFINE x == CHOOSE y \in u : TRUE
      <4>1. u \ {x} \in SUBSET u /\ u \ {x} # u
        BY <3>2
      <4>2. st[u \ {x}] = it[u \ {x}]
        BY <4>1, <2>1
      <4>3. st[u] = f[x] + st[u \ {x}]
        BY <1>5, <3>2 DEF st
      <4>4. it[u] = f[x] + it[u \ {x}]
        BY <1>4, <3>2
      <4> QED
        BY <4>2, <4>3, <4>4
    <3> QED
      BY <3>1, <3>2
  <2>2. SUBSET D \subseteq F
    <3> HIDE DEF F
    <3> QED
      BY <2>1, SubsetInduction, Zenon
  <2> QED
    BY <2>2
<1>7. st = it
  <2>1. st = [s \in SUBSET D |-> st[s]]
    BY <1>5, Zenon
  <2>2. it = [s \in SUBSET D |-> it[s]]
    BY <1>3 DEF Solves
  <2> HIDE DEF st
  <2> QED
    BY <2>1, <2>2, <1>6
<1> QED
  BY <1>1, <1>3, <1>7

(* It is taken in any order, whatever CHOOSE chooses.                      *)
LEMMA SumInAnyOrder ==
  ASSUME NEW D, IsFiniteSet(D), NEW f \in [D -> Int]
  PROVE  /\ Sums(f, D)[{}] = 0
         /\ \A s \in SUBSET D : Sums(f, D)[s] \in Int
         /\ \A s \in SUBSET D : \A x \in s : Sums(f, D)[s] = f[x] + Sums(f, D)[s \ {x}]
<1> DEFINE it == Sums(f, D)  c == AnyOf(D)  G == Adds(f, D)
<1>1. Solves(it, D, Int, 0, c, G) /\ \A s \in SUBSET D : s # {} => c[s] \in s
  BY SumsSolve
<1>2. \A x \in D, a \in Int : G[x][a] = f[x] + a
  BY DEF Adds
<1> HIDE DEF it, c, G
<1>3. it[{}] = 0
  BY <1>1 DEF Solves, Step
<1>4. \A s \in SUBSET D : it[s] \in Int
  BY <1>1 DEF Solves
<1>5. ASSUME NEW s \in SUBSET D, s # {} PROVE it[s] = f[c[s]] + it[s \ {c[s]}]
  <2>1. c[s] \in D /\ it[s \ {c[s]}] \in Int
    BY <1>1, <1>4, <1>5
  <2> QED
    BY <1>1, <1>2, <1>5, <2>1 DEF Solves, Step
<1> DEFINE F == {s \in SUBSET D : \A x \in s : it[s] = f[x] + it[s \ {x}]}
<1>6. ASSUME NEW s \in SUBSET D, \A u \in SUBSET s : u # s => u \in F PROVE s \in F
  <2> SUFFICES ASSUME NEW x \in s PROVE it[s] = f[x] + it[s \ {x}]
    OBVIOUS
  <2> DEFINE y == c[s]
  <2>1. y \in s /\ it[s] = f[y] + it[s \ {y}]
    BY <1>1, <1>5
  <2>2. CASE x = y
    BY <2>1, <2>2
  <2>3. CASE x # y
    <3>1. it[s \ {y}] = f[x] + it[(s \ {y}) \ {x}]
      <4>1. s \ {y} \in SUBSET s /\ s \ {y} # s /\ x \in s \ {y}
        BY <2>1, <2>3
      <4> QED
        BY <4>1, <1>6
    <3>2. it[s \ {x}] = f[y] + it[(s \ {x}) \ {y}]
      <4>1. s \ {x} \in SUBSET s /\ s \ {x} # s /\ y \in s \ {x}
        BY <2>1, <2>3
      <4> QED
        BY <4>1, <1>6
    <3>3. (s \ {y}) \ {x} = (s \ {x}) \ {y} /\ (s \ {y}) \ {x} \in SUBSET D
      OBVIOUS
    <3>4. f[x] \in Int /\ f[y] \in Int /\ it[(s \ {y}) \ {x}] \in Int
      BY <1>4, <2>1, <3>3
    <3> DEFINE r == it[(s \ {y}) \ {x}]
    <3>5. it[s \ {y}] = f[x] + r /\ it[s \ {x}] = f[y] + r /\ r \in Int
      BY <3>1, <3>2, <3>3, <3>4
    <3> HIDE DEF r
    <3>6. it[s] = f[y] + (f[x] + r)
      BY <2>1, <3>5
    <3> HIDE DEF y
    <3> QED
      BY <3>5, <3>6, <3>4
  <2> QED
    BY <2>2, <2>3
<1>7. SUBSET D \subseteq F
  <2> HIDE DEF F
  <2> QED
    BY <1>6, SubsetInduction, Zenon
<1> QED
  BY <1>3, <1>4, <1>7 DEF it
-----------------------------------------------------------------------------
(* A fold of a sequence from the left takes its last element last.         *)
Tops(D) == [s \in SUBSET D |-> Max(s)]

(* A set of positions that is not empty has a last one.                    *)
LEMMA HasMax ==
  ASSUME NEW n \in Nat, NEW s \in SUBSET (1..n), s # {}
  PROVE  Max(s) \in s /\ \A y \in s : y <= Max(s)
<1> DEFINE T == {n - y : y \in s}
<1>1. T \in SUBSET Nat /\ T # {}
  <2>1. \A y \in s : y \in Int /\ n - y \in Nat
    OBVIOUS
  <2>2. PICK z \in s : TRUE
    OBVIOUS
  <2> QED
    BY <2>1, <2>2
<1>2. PICK m \in T : \A k \in T : m <= k
  <2> HIDE DEF T
  <2> QED
    BY <1>1, LeastNumber
<1>3. PICK x \in s : m = n - x
  OBVIOUS
<1>4. \A y \in s : x >= y
  <2> SUFFICES ASSUME NEW y \in s PROVE x >= y
    OBVIOUS
  <2>3. x \in Int /\ y \in Int
    OBVIOUS
  <2>1. n - y \in T
    OBVIOUS
  <2>2. n - x <= n - y
    <3> HIDE DEF T
    <3> QED
      BY <1>2, <1>3, <2>1
  <2> HIDE DEF T
  <2> QED
    BY <2>2, <2>3
<1>5. \E z \in s : \A y \in s : z >= y
  BY <1>4
<1>6. Max(s) \in s /\ \A y \in s : Max(s) >= y
  BY <1>5, Zenon DEF Max
<1> QED
  BY <1>6

(* Folding one element more is one step more.                              *)
LEMMA LeftFoldGrows ==
  ASSUME NEW n \in Nat, NEW A, NEW b, NEW F, NEW G, \A i \in 1..n : F[i] = G[i],
         NEW i1, Solves(i1, 1..n, A, b, Tops(1..n), F),
         NEW i2, Solves(i2, 1..(n + 1), A, b, Tops(1..(n + 1)), G)
  PROVE  i2[1..(n + 1)] = G[n + 1][i1[1..n]] /\ i1[1..n] \in A
<1> DEFINE D == 1..n  E == 1..(n + 1)  c == Tops(D)  d == Tops(E)
<1>0. D \in SUBSET E /\ E \in SUBSET E /\ D \in SUBSET (D \cap E) /\ E # {} /\ n + 1 \in Nat
  <2>1. \A i \in D : i \in E
    OBVIOUS
  <2>2. n + 1 \in E
    OBVIOUS
  <2>3. n + 1 \in Nat
    OBVIOUS
  <2> HIDE DEF D, E
  <2> QED
    BY <2>1, <2>2, <2>3
<1>1. D \in SUBSET E /\ E \in SUBSET E /\ D \in SUBSET (D \cap E) /\ E # {} /\ IsFiniteSet(E)
  <2>1. IsFiniteSet(E)
    BY FS_Interval
  <2> QED
    BY <1>0, <2>1
<1>2. \A s \in SUBSET E : s # {} => d[s] \in s
  BY <1>0, HasMax DEF Tops
<1>3. Solves(i1, D, A, b, d, F)
  <2>1. \A s \in SUBSET D : c[s] = d[s]
    BY <1>1 DEF Tops
  <2> HIDE DEF D, E, c, d
  <2>2. \A s \in SUBSET D : Step(c, F, b, i1, s) = Step(d, F, b, i1, s)
    BY <2>1 DEF Step
  <2> QED
    BY <2>2 DEF Solves, D, c
<1>4. Solves(i1, D, A, b, d, G)
  <2>1. ASSUME NEW s \in SUBSET D PROVE Step(d, F, b, i1, s) = Step(d, G, b, i1, s)
    <3>1. s # {} => d[s] \in D
      BY <1>2, <1>1
    <3> HIDE DEF d
    <3> QED
      BY <3>1 DEF Step
  <2> QED
    BY <2>1, <1>3 DEF Solves
<1>5. i1[D] = i2[D]
  <2> HIDE DEF D, E, c, d
  <2>1. Solves(i2, E, A, b, d, G)
    BY DEF E, d
  <2> QED
    BY <1>1, <1>2, <1>4, <2>1, FoldsAgree
<1>6. d[E] = n + 1
  <2>1. Max(E) \in E /\ \A y \in E : y <= Max(E)
    BY <1>0, HasMax
  <2>2. n + 1 \in E
    OBVIOUS
  <2>3. d[E] = Max(E)
    BY <1>1 DEF Tops
  <2> QED
    BY <2>1, <2>2, <2>3
<1>7. E \ {n + 1} = D
  OBVIOUS
<1>8. i2[E] = Step(d, G, b, i2, E)
  BY <1>1 DEF Solves
<1>9. i2[E] = G[n + 1][i2[D]]
  <2> HIDE DEF D, E, c, d
  <2> QED
    BY <1>1, <1>6, <1>7, <1>8 DEF Step
<1>10. i1[D] \in A
  BY <1>4 DEF Solves
<1> QED
  BY <1>5, <1>9, <1>10
-----------------------------------------------------------------------------
(* A function on the numbers up to n is a sequence.                        *)
LEMMA ListIsSeq ==
  ASSUME NEW T, NEW n \in Nat, NEW s \in [1..n -> T]
  PROVE  s \in Seq(T) /\ Len(s) = n
OBVIOUS

(* A part of a sequence.                                                   *)
LEMMA PartIs ==
  ASSUME NEW T, NEW s \in Seq(T), NEW m \in Nat \ {0}, NEW k \in 0..Len(s), m <= k + 1
  PROVE  /\ SubSeq(s, m, k) \in Seq(T) /\ Len(SubSeq(s, m, k)) = k - m + 1
         /\ \A i \in 1..(k - m + 1) : SubSeq(s, m, k)[i] = s[m + i - 1]
<1>1. \A i \in m..k : s[i] \in T
  <2>1. \A i \in m..k : i \in 1..Len(s)
    OBVIOUS
  <2> QED
    BY <2>1, ElementOfSeq
<1>2. m \in Int /\ k \in Int
  OBVIOUS
<1>3. SubSeq(s, m, k) \in Seq(T) /\ Len(SubSeq(s, m, k)) = (IF m <= k THEN k - m + 1 ELSE 0)
      /\ \A i \in 1..(k - m + 1) : SubSeq(s, m, k)[i] = s[m + i - 1]
  BY <1>1, <1>2, SubSeqProperties
<1> QED
  BY <1>3

(* The first part grows by what the rest begins with.                      *)
LEMMA PartGrows ==
  ASSUME NEW T, NEW s \in Seq(T), NEW k \in Nat, k < Len(s)
  PROVE  /\ SubSeq(s, 1, k + 1) = Append(SubSeq(s, 1, k), s[k + 1])
         /\ Head(SubSeq(s, k + 1, Len(s))) = s[k + 1]
         /\ Tail(SubSeq(s, k + 1, Len(s))) = SubSeq(s, k + 2, Len(s))
<1>1. Len(s) \in Nat
  OBVIOUS
<1>2. SubSeq(s, 1, k + 1) = Append(SubSeq(s, 1, k), s[k + 1])
  <2> DEFINE a == SubSeq(s, 1, k + 1)  b == SubSeq(s, 1, k)  c == Append(b, s[k + 1])
  <2>1. a \in Seq(T) /\ Len(a) = k + 1 /\ \A i \in 1..(k + 1) : a[i] = s[i]
    <3>1. 1 \in Nat \ {0} /\ k + 1 \in 0..Len(s) /\ 1 <= k + 1 + 1 /\ k + 1 - 1 + 1 = k + 1
          /\ \A i \in 1..(k + 1) : 1 + i - 1 = i
      BY <1>1
    <3>2. a \in Seq(T) /\ Len(a) = k + 1 - 1 + 1 /\ \A i \in 1..(k + 1 - 1 + 1) : a[i] = s[1 + i - 1]
      BY <3>1, PartIs
    <3> HIDE DEF a
    <3> QED
      BY <3>1, <3>2
  <2>2. b \in Seq(T) /\ Len(b) = k /\ \A i \in 1..k : b[i] = s[i]
    <3>1. 1 \in Nat \ {0} /\ k \in 0..Len(s) /\ 1 <= k + 1 /\ k - 1 + 1 = k
          /\ \A i \in 1..k : 1 + i - 1 = i
      BY <1>1
    <3>2. b \in Seq(T) /\ Len(b) = k - 1 + 1 /\ \A i \in 1..(k - 1 + 1) : b[i] = s[1 + i - 1]
      BY <3>1, PartIs
    <3> HIDE DEF b
    <3> QED
      BY <3>1, <3>2
  <2>3. s[k + 1] \in T
    BY <1>1
  <2> HIDE DEF a, b
  <2>4. c \in Seq(T) /\ Len(c) = k + 1 /\ \A i \in 1..(k + 1) : c[i] = s[i]
    BY <2>2, <2>3
  <2> HIDE DEF c
  <2>5. a = c
    BY <2>1, <2>4, SeqEqual
  <2> QED
    BY <2>5 DEF a, b, c
<1>3. \A i \in (k + 1)..Len(s) : s[i] \in T
  BY <1>1
<1> QED
  BY <1>1, <1>2, <1>3, HeadTailOfSubSeq

(* A list of two and one more.                                             *)
LEMMA Tripled ==
  ASSUME NEW S, NEW a \in S, NEW b \in S, NEW c \in S
  PROVE  Append(<<a, b>>, c) = <<a, b, c>>
<1> DEFINE s == <<a, b>>  t == <<a, b, c>>  u == Append(s, c)
<1>1. s \in Seq(S) /\ Len(s) = 2 /\ s[1] = a /\ s[2] = b
  OBVIOUS
<1>2. t \in Seq(S) /\ Len(t) = 3 /\ t[1] = a /\ t[2] = b /\ t[3] = c
  OBVIOUS
<1> HIDE DEF s, t
<1>3. u \in Seq(S) /\ Len(u) = 3 /\ u[1] = a /\ u[2] = b /\ u[3] = c
  <2>1. s \in Seq(S) /\ c \in S
    BY <1>1
  <2>2. /\ u \in Seq(S)
        /\ Len(u) = Len(s) + 1
        /\ \A i \in 1..Len(s) : u[i] = s[i]
        /\ u[Len(s) + 1] = c
    BY ONLY <2>1, AppendProperties
  <2> HIDE DEF u
  <2>3. 1 \in 1..Len(s) /\ 2 \in 1..Len(s) /\ Len(s) + 1 = 3
    BY <1>1
  <2> QED
    BY <1>1, <2>2, <2>3
<1> HIDE DEF u
<1>4. u = t
  BY <1>2, <1>3, SeqEqual
<1> QED
  BY <1>4 DEF u, s, t

SumOf(f) == Sums(f, DOMAIN f)[DOMAIN f]

(* A sum of integers, one element at a time.                               *)
LEMMA SumSteps ==
  ASSUME NEW D, IsFiniteSet(D), NEW f \in [D -> Int]
  PROVE  /\ SumOf(f) = Sums(f, D)[D] /\ Sums(f, D)[{}] = 0 /\ SumOf(f) \in Int
         /\ \A s \in SUBSET D : Sums(f, D)[s] \in Int
         /\ \A s \in SUBSET D : \A x \in s : Sums(f, D)[s] = f[x] + Sums(f, D)[s \ {x}]
<1>1. DOMAIN f = D
  OBVIOUS
<1>2. SumOf(f) = Sums(f, D)[D]
  BY <1>1 DEF SumOf
<1>3. /\ Sums(f, D)[{}] = 0
      /\ \A s \in SUBSET D : Sums(f, D)[s] \in Int
      /\ \A s \in SUBSET D : \A x \in s : Sums(f, D)[s] = f[x] + Sums(f, D)[s \ {x}]
  BY SumInAnyOrder
<1> QED
  BY <1>2, <1>3

(* The sum of nothing.                                                     *)
LEMMA SumOfNone == ASSUME NEW f \in [{} -> Int] PROVE SumOf(f) = 0
<1>1. IsFiniteSet({})
  BY FS_EmptySet
<1> QED
  BY <1>1, SumSteps

(* The sum of one.                                                         *)
LEMMA SumOfOne == ASSUME NEW a, NEW f \in [{a} -> Int] PROVE SumOf(f) = f[a]
<1> DEFINE D == {a}
<1>1. IsFiniteSet(D)
  BY FS_Singleton
<1>2. SumOf(f) = Sums(f, D)[D] /\ Sums(f, D)[{}] = 0
  BY <1>1, SumSteps
<1>3. Sums(f, D)[D] = f[a] + Sums(f, D)[D \ {a}]
  <2>1. D \in SUBSET D /\ a \in D /\ f \in [D -> Int]
    OBVIOUS
  <2>2. \A s \in SUBSET D : \A x \in s : Sums(f, D)[s] = f[x] + Sums(f, D)[s \ {x}]
    <3> HIDE DEF D
    <3> QED
      BY ONLY <1>1, <2>1, SumSteps
  <2> HIDE DEF D
  <2> QED
    BY <2>1, <2>2
<1>4. D \ {a} = {} /\ f[a] \in Int
  OBVIOUS
<1> HIDE DEF D
<1> QED
  BY <1>2, <1>3, <1>4

(* An element and the sum of the others.                                   *)
LEMMA SumWithout ==
  ASSUME NEW D, IsFiniteSet(D), NEW f \in [D -> Int], NEW a \in D
  PROVE  SumOf(f) = f[a] + SumOf([x \in D \ {a} |-> f[x]])
<1> DEFINE E == D \ {a}  g == [x \in E |-> f[x]]
           F == {u \in SUBSET E : Sums(f, D)[u] = Sums(g, E)[u]}
<1>1. IsFiniteSet(E) /\ g \in [E -> Int] /\ E \in SUBSET D
  BY FS_Subset
<1>2. /\ Sums(f, D)[{}] = 0 /\ Sums(g, E)[{}] = 0
      /\ \A s \in SUBSET D : \A x \in s : Sums(f, D)[s] = f[x] + Sums(f, D)[s \ {x}]
  BY SumSteps, <1>1
<1>3. \A s \in SUBSET E : \A x \in s : Sums(g, E)[s] = g[x] + Sums(g, E)[s \ {x}]
  <2>1. IsFiniteSet(E)
    BY <1>1
  <2>2. g \in [E -> Int]
    BY <1>1
  <2> HIDE DEF F, E, g
  <2> QED
    BY ONLY <2>1, <2>2, SumInAnyOrder
<1>4. ASSUME NEW u \in SUBSET E, \A v \in SUBSET u : v # u => v \in F PROVE u \in F
  <2>1. CASE u = {}
    BY <2>1, <1>2
  <2>2. CASE u # {}
    <3>1. PICK x \in u : TRUE
      BY <2>2
    <3>2. u \in SUBSET D /\ u \in SUBSET E
      BY <1>1
    <3>5. f[x] = g[x]
      BY <3>1
    <3>6. u \ {x} \in F
      <4>1. u \ {x} \in SUBSET u /\ u \ {x} # u
        BY <3>1
      <4> HIDE DEF F
      <4> QED
        BY <4>1, <1>4
    <3>7. Sums(f, D)[u \ {x}] = Sums(g, E)[u \ {x}]
      BY <3>6
    <3>3. Sums(f, D)[u] = f[x] + Sums(f, D)[u \ {x}]
      BY <1>2, <3>1, <3>2
    <3>4. Sums(g, E)[u] = g[x] + Sums(g, E)[u \ {x}]
      BY <1>3, <3>1, <3>2
    <3> QED
      BY <3>3, <3>4, <3>5, <3>7
  <2> QED
    BY <2>1, <2>2
<1>5. SUBSET E \subseteq F
  <2> HIDE DEF F, E
  <2> QED
    BY <1>1, <1>4, SubsetInduction, Zenon
<1>6. SumOf(g) = Sums(g, E)[E]
  <2> HIDE DEF E, g
  <2> QED
    BY SumSteps, <1>1
<1>7. SumOf(f) = f[a] + Sums(f, D)[E]
  <2>1. D \in SUBSET D
    OBVIOUS
  <2>2. SumOf(f) = Sums(f, D)[D] /\ \A x \in D : Sums(f, D)[D] = f[x] + Sums(f, D)[D \ {x}]
    BY ONLY <2>1, IsFiniteSet(D), f \in [D -> Int], SumSteps
  <2> QED
    BY <2>2
<1>8. E \in F
  BY <1>5
<1> QED
  BY <1>6, <1>7, <1>8

(* The sum of two.                                                         *)
LEMMA SumOfTwo ==
  ASSUME NEW a, NEW b, a # b, NEW f \in [{a, b} -> Int]
  PROVE  SumOf(f) = f[a] + f[b]
<1> DEFINE g == [x \in {a, b} \ {a} |-> f[x]]
<1>1. IsFiniteSet({a, b})
  <2>1. IsFiniteSet({b}) /\ {a, b} = {b} \cup {a}
    BY FS_Singleton
  <2> QED
    BY <2>1, FS_AddElement
<1>2. SumOf(f) = f[a] + SumOf(g)
  BY <1>1, SumWithout
<1>3. g \in [{b} -> Int] /\ g[b] = f[b]
  OBVIOUS
<1>4. SumOf(g) = g[b]
  <2> HIDE DEF g
  <2> QED
    BY <1>3, SumOfOne
<1> QED
  BY <1>2, <1>3, <1>4

(* The sum of three, given as the only members of a set.                   *)
LEMMA SumOfThree ==
  ASSUME NEW D, NEW a \in D, NEW b \in D, NEW c \in D, a # b, a # c, b # c,
         \A d \in D : d = a \/ d = b \/ d = c, NEW f \in [D -> Int]
  PROVE  SumOf(f) = f[a] + f[b] + f[c]
<1> DEFINE E == D \ {a}  g == [x \in E |-> f[x]]
<1>0. E = {b, c} /\ D = E \cup {a}
  OBVIOUS
<1>1. IsFiniteSet(D)
  <2>1. IsFiniteSet({c}) /\ {b, c} = {c} \cup {b}
    BY FS_Singleton
  <2>2. IsFiniteSet({b, c})
    BY <2>1, FS_AddElement
  <2> HIDE DEF E
  <2> QED
    BY <1>0, <2>2, FS_AddElement
<1>2. SumOf(f) = f[a] + SumOf(g)
  BY <1>1, SumWithout
<1>3. g \in [{b, c} -> Int] /\ g[b] = f[b] /\ g[c] = f[c]
  BY <1>0
<1>4. SumOf(g) = g[b] + g[c]
  <2> HIDE DEF g
  <2> QED
    BY <1>3, SumOfTwo
<1> QED
  BY <1>2, <1>3, <1>4

(* The last of a list and the sum of those before.                         *)
LEMMA SumToLast ==
  ASSUME NEW n \in Nat, NEW f \in [1..(n + 1) -> Int]
  PROVE  SumOf(f) = SumOf([i \in 1..n |-> f[i]]) + f[n + 1] /\ SumOf([i \in 1..n |-> f[i]]) \in Int
<1> DEFINE D == 1..(n + 1)  g == [i \in 1..n |-> f[i]]  h == [i \in D \ {n + 1} |-> f[i]]
<1>1. IsFiniteSet(D) /\ n + 1 \in D
  BY FS_Interval
<1>2. SumOf(f) = f[n + 1] + SumOf(h)
  BY <1>1, SumWithout
<1>3. h = g
  <2>1. D \ {n + 1} = 1..n
    OBVIOUS
  <2> QED
    BY <2>1, Zenon
<1>4. SumOf(g) \in Int
  <2>1. IsFiniteSet(1..n)
    BY FS_Interval
  <2>2. g \in [1..n -> Int]
    OBVIOUS
  <2> HIDE DEF g
  <2> QED
    BY <2>1, <2>2, SumSteps
<1>5. f[n + 1] \in Int
  OBVIOUS
<1>6. SumOf(f) = SumOf(g) + f[n + 1]
  <2> HIDE DEF g, h
  <2> QED
    BY <1>2, <1>3, <1>4, <1>5
<1> QED
  BY <1>4, <1>6

(* The sum of a list is that of its two parts.                             *)
LEMMA SumSplit ==
  ASSUME NEW m \in Nat, NEW n \in Nat, NEW f \in [1..(m + n) -> Int]
  PROVE  SumOf(f) = SumOf([i \in 1..m |-> f[i]]) + SumOf([i \in 1..n |-> f[m + i]])
<1> DEFINE Splits(k) == \A g \in [1..(m + k) -> Int] :
                   SumOf(g) = SumOf([i \in 1..m |-> g[i]]) + SumOf([i \in 1..k |-> g[m + i]])
           F == {k \in Nat : Splits(k)}
<1>1. 0 \in F
  <2> SUFFICES ASSUME NEW g \in [1..m -> Int]
               PROVE  SumOf(g) = SumOf([i \in 1..m |-> g[i]]) + SumOf([i \in 1..0 |-> g[m + i]])
    OBVIOUS
  <2>1. g = [i \in 1..m |-> g[i]]
    OBVIOUS
  <2> DEFINE e == [i \in 1..0 |-> g[m + i]]
  <2>2. SumOf(e) = 0
    <3>1. e \in [{} -> Int]
      OBVIOUS
    <3> HIDE DEF e
    <3> QED
      BY <3>1, SumOfNone
  <2>3. SumOf(g) \in Int
    <3>1. IsFiniteSet(1..m)
      BY FS_Interval
    <3> QED
      BY <3>1, SumSteps
  <2>4. SumOf(g) = SumOf(g) + SumOf(e)
    <3> HIDE DEF e
    <3> QED
      BY <2>2, <2>3
  <2> QED
    BY <2>1, <2>4
<1>2. ASSUME NEW k \in Nat, k \in F PROVE k + 1 \in F
  <2> SUFFICES ASSUME NEW g \in [1..(m + (k + 1)) -> Int]
               PROVE  SumOf(g) = SumOf([i \in 1..m |-> g[i]]) + SumOf([i \in 1..(k + 1) |-> g[m + i]])
    <3>1. k + 1 \in Nat /\ (Splits(k + 1) => k + 1 \in F)
      <4> HIDE DEF Splits
      <4> QED
        OBVIOUS
    <3> QED
      BY <3>1, Zenon
  <2> DEFINE h == [i \in 1..(m + k) |-> g[i]]  t == [i \in 1..(k + 1) |-> g[m + i]]
             e == [i \in 1..m |-> g[i]]  u == [i \in 1..k |-> g[m + i]]
             hm == [i \in 1..m |-> h[i]]  hk == [i \in 1..k |-> h[m + i]]  tk == [i \in 1..k |-> t[i]]
  <2>0. g \in [1..((m + k) + 1) -> Int] /\ m + k \in Nat /\ m + (k + 1) = (m + k) + 1
    <3>1. m + (k + 1) = (m + k) + 1
      OBVIOUS
    <3> QED
      BY <3>1
  <2>1. SumOf(g) = SumOf(h) + g[(m + k) + 1]
    BY ONLY <2>0, SumToLast
  <2>2. t \in [1..(k + 1) -> Int] /\ t[k + 1] = g[(m + k) + 1] /\ h \in [1..(m + k) -> Int]
    BY <2>0
  <2>3. SumOf(t) = SumOf(tk) + t[k + 1]
    <3> HIDE DEF t
    <3> QED
      BY <2>2, SumToLast
  <2>4. SumOf(h) = SumOf(hm) + SumOf(hk)
    <3> HIDE DEF h
    <3> QED
      BY <1>2, <2>2
  <2>5. hm = e
    OBVIOUS
  <2>6. hk = u /\ tk = u
    OBVIOUS
  <2>7. SumOf(e) \in Int
    <3>1. IsFiniteSet(1..m)
      BY FS_Interval
    <3>2. e \in [1..m -> Int]
      OBVIOUS
    <3> HIDE DEF e
    <3> QED
      BY <3>1, <3>2, SumSteps
  <2>8. SumOf(u) \in Int
    <3>1. IsFiniteSet(1..k)
      BY FS_Interval
    <3>2. u \in [1..k -> Int]
      OBVIOUS
    <3> HIDE DEF u
    <3> QED
      BY <3>1, <3>2, SumSteps
  <2>9. g[(m + k) + 1] \in Int
    BY <2>0
  <2>10. SumOf(g) = SumOf(e) + SumOf(t)
    <3> HIDE DEF h, t, e, u, hm, hk, tk
    <3> QED
      BY <2>1, <2>2, <2>3, <2>4, <2>5, <2>6, <2>7, <2>8, <2>9
  <2> QED
    BY <2>10
<1>3. Nat \subseteq F
  <2> HIDE DEF F
  <2> QED
    BY <1>1, <1>2, CountingInduction, Zenon
<1> QED
  BY <1>3

(* Zeros add up to zero.                                                   *)
LEMMA SumOfZeros ==
  ASSUME NEW n \in Nat, NEW f \in [1..n -> {0}]
  PROVE  SumOf(f) = 0
<1> DEFINE F == {k \in Nat : \A g \in [1..k -> {0}] : SumOf(g) = 0}
<1>1. 0 \in F
  <2> SUFFICES ASSUME NEW g \in [1..0 -> {0}] PROVE SumOf(g) = 0
    OBVIOUS
  <2>1. g \in [{} -> Int]
    OBVIOUS
  <2> QED
    BY <2>1, SumOfNone
<1>2. ASSUME NEW k \in Nat, k \in F PROVE k + 1 \in F
  <2> SUFFICES ASSUME NEW g \in [1..(k + 1) -> {0}] PROVE SumOf(g) = 0
    OBVIOUS
  <2> DEFINE h == [i \in 1..k |-> g[i]]
  <2>1. h \in [1..k -> {0}] /\ g[k + 1] = 0 /\ g \in [1..(k + 1) -> Int]
    OBVIOUS
  <2>2. SumOf(g) = SumOf(h) + g[k + 1]
    BY <2>1, SumToLast
  <2> HIDE DEF h
  <2> QED
    BY <1>2, <2>1, <2>2
<1>3. Nat \subseteq F
  <2> HIDE DEF F
  <2> QED
    BY <1>1, <1>2, CountingInduction, Zenon
<1> QED
  BY <1>3
=============================================================================
