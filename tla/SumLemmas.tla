------------------------------ MODULE SumLemmas ------------------------------
(***************************************************************************)
(* What sums over finite sets are: they exist, take their summands in any  *)
(* order, and depend on nothing else.  The folds of the community modules  *)
(* choose an order by CHOOSE; what they compute is found by looking for a  *)
(* smallest set on which it would be something else.                       *)
(***************************************************************************)
EXTENDS FiniteSetTheorems, TLAPS

\* Among sets of subsets of a finite set there is one with no other inside it.
LEMMA SmallestSubset ==
    ASSUME NEW S, IsFiniteSet(S), NEW T, T \subseteq SUBSET S, T # {}
    PROVE  \E m \in T : \A t \in T : t \subseteq m => t = m
<1> DEFINE R == StrictSubsetOrdering(S)
<1> DEFINE F == FiniteSubsetsOf(S)
<1>1. IsWellFoundedOn(R, F)
    BY FS_StrictSubsetOrderingWellFounded
<1>2. T \subseteq F
    BY FS_FiniteSubsetsOfFinite
<1> HIDE DEF R, F
<1>3. PICK m \in T : \A t \in T : ~ (<<t, m>> \in R)
    BY <1>1, <1>2, WFMin
<1>4. ASSUME NEW t \in T, t \subseteq m
      PROVE  t = m
    BY <1>3, <1>4 DEF R, StrictSubsetOrdering
<1> QED
    BY <1>4

\* The element that is taken first.
Pick(s) == CHOOSE x \in s : TRUE

LEMMA PickIn == \A s : s # {} => Pick(s) \in s
BY DEF Pick

\* f[s] is the sum of w over s, for the subsets s of S.
Summing(f, w, S) ==
    f = [s \in SUBSET S |-> IF s = {} THEN 0 ELSE w[Pick(s)] + f[s \ {Pick(s)}]]

LEMMA SummingStep ==
    ASSUME NEW S, NEW w, NEW f, Summing(f, w, S), NEW s \in SUBSET S
    PROVE  f[s] = IF s = {} THEN 0 ELSE w[Pick(s)] + f[s \ {Pick(s)}]
BY DEF Summing

LEMMA SummingUnique ==
    ASSUME NEW S, IsFiniteSet(S), NEW w, NEW f, NEW g, Summing(f, w, S), Summing(g, w, S)
    PROVE  f = g
<1> DEFINE T == {s \in SUBSET S : f[s] # g[s]}
<1>1. CASE T = {}
    <2>1. \A s \in SUBSET S : f[s] = g[s]
        BY <1>1
    <2>2. f = [s \in SUBSET S |-> f[s]] /\ g = [s \in SUBSET S |-> g[s]]
        BY DEF Summing
    <2> QED
        BY <2>1, <2>2
<1>2. CASE T # {}
    <2>0. T \subseteq SUBSET S
        OBVIOUS
    <2>1. PICK m \in T : \A t \in T : t \subseteq m => t = m
        <3> HIDE DEF T
        <3> QED
            BY <1>2, <2>0, SmallestSubset
    <2>2. CASE m = {}
        BY <2>1, <2>2, SummingStep
    <2>3. CASE m # {}
        <3>1. Pick(m) \in m
            BY <2>3, PickIn
        <3>2. m \ {Pick(m)} \notin T /\ m \ {Pick(m)} \in SUBSET S
            BY <2>1, <3>1
        <3>3. f[m \ {Pick(m)}] = g[m \ {Pick(m)}]
            BY <3>2
        <3>4. f[m] = w[Pick(m)] + f[m \ {Pick(m)}] /\ g[m] = w[Pick(m)] + g[m \ {Pick(m)}]
            BY <2>1, <2>3, SummingStep
        <3> QED
            BY <2>1, <3>3, <3>4
    <2> QED
        BY <2>2, <2>3
<1> QED
    BY <1>1, <1>2

LEMMA SummingRestricted ==
    ASSUME NEW S, NEW w, NEW f, Summing(f, w, S), NEW t \in SUBSET S
    PROVE  Summing([s \in SUBSET t |-> f[s]], w, t)
<1> DEFINE g == [s \in SUBSET t |-> f[s]]
<1>1. \A s \in SUBSET t : g[s] = IF s = {} THEN 0 ELSE w[Pick(s)] + g[s \ {Pick(s)}]
    BY SummingStep
<1> QED
    BY <1>1 DEF Summing

LEMMA SummingExists ==
    ASSUME NEW S, IsFiniteSet(S), NEW w, \A x \in S : w[x] \in Int
    PROVE  \E f \in [SUBSET S -> Int] : Summing(f, w, S)
<1> DEFINE Has(t) == \E f \in [SUBSET t -> Int] : Summing(f, w, t)
<1> DEFINE T == {t \in SUBSET S : ~ Has(t)}
<1> SUFFICES ASSUME T # {} PROVE FALSE
    OBVIOUS
<1>0. T \subseteq SUBSET S
    OBVIOUS
<1>1. PICK m \in T : \A t \in T : t \subseteq m => t = m
    <2> HIDE DEF T
    <2> QED
        BY <1>0, SmallestSubset
<1> DEFINE F(t) == CHOOSE f : f \in [SUBSET t -> Int] /\ Summing(f, w, t)
<1> DEFINE less == {t \in SUBSET m : t # m}
<1>2. \A t \in less : F(t) \in [SUBSET t -> Int] /\ Summing(F(t), w, t)
    <2>1. \A t \in less : Has(t)
        BY <1>1
    <2> QED
        BY <2>1
<1> HIDE DEF F
<1>3. \A t \in less : \A u \in SUBSET t : F(t)[u] = F(u)[u]
    <2> TAKE t \in less
    <2> TAKE u \in SUBSET t
    <2>1. u \in less
        OBVIOUS
    <2>2. Summing([s \in SUBSET u |-> F(t)[s]], w, u)
        BY ZenonT(60), <1>2, SummingRestricted
    <2>3. IsFiniteSet(u)
        BY FS_Subset
    <2>4. F(u) = [s \in SUBSET u |-> F(t)[s]]
        BY <1>2, <2>1, <2>2, <2>3, SummingUnique
    <2> QED
        BY <2>4
<1> DEFINE g == [s \in SUBSET m |-> IF s = {} THEN 0
                                    ELSE w[Pick(s)] + F(s \ {Pick(s)})[s \ {Pick(s)}]]
<1>4. \A t \in less : g[t] = F(t)[t]
    <2> TAKE t \in less
    <2>1. CASE t = {}
        BY <1>2, <2>1, SummingStep
    <2>2. CASE t # {}
        <3>1. F(t)[t] = w[Pick(t)] + F(t)[t \ {Pick(t)}]
            <4> DEFINE k == F(t)
            <4>1. Summing(k, w, t)
                BY <1>2
            <4> HIDE DEF k
            <4>2. k[t] = IF t = {} THEN 0 ELSE w[Pick(t)] + k[t \ {Pick(t)}]
                BY <4>1, SummingStep
            <4> QED
                BY <2>2, <4>2 DEF k
        <3> QED
            BY <1>3, <2>2, <3>1
    <2> QED
        BY <2>1, <2>2
<1>5. \A s \in SUBSET m : s # {} => s \ {Pick(s)} \in less
    BY PickIn
<1>6. \A s \in SUBSET m : g[s] = IF s = {} THEN 0 ELSE w[Pick(s)] + g[s \ {Pick(s)}]
    <2> HIDE DEF less
    <2>1. \A s \in SUBSET m : g[s] = IF s = {} THEN 0 ELSE w[Pick(s)] + F(s \ {Pick(s)})[s \ {Pick(s)}]
        OBVIOUS
    <2> HIDE DEF g
    <2> QED
        BY <1>4, <1>5, <2>1
<1>7. Summing(g, w, m)
    <2>1. g = [s \in SUBSET m |-> g[s]]
        OBVIOUS
    <2> HIDE DEF g
    <2> QED
        BY <1>6, <2>1 DEF Summing
<1>8. g \in [SUBSET m -> Int]
    <2>1. ASSUME NEW s \in SUBSET m, s # {}
          PROVE  w[Pick(s)] + F(s \ {Pick(s)})[s \ {Pick(s)}] \in Int
        <3>1. Pick(s) \in S
            BY <2>1, PickIn
        <3>2. F(s \ {Pick(s)})[s \ {Pick(s)}] \in Int
            <4> DEFINE u == s \ {Pick(s)}
            <4>1. u \in less
                BY <1>5, <2>1
            <4> HIDE DEF u, less
            <4>2. F(u) \in [SUBSET u -> Int]
                BY <1>2, <4>1
            <4> QED
                BY <4>2 DEF u
        <3> QED
            BY <3>1, <3>2
    <2> QED
        BY <2>1
<1> QED
    BY <1>1, <1>7, <1>8

\* The sum of w over S.
WSum(w, S) == (CHOOSE f : Summing(f, w, S))[S]

LEMMA WSumIs ==
    ASSUME NEW S, IsFiniteSet(S), NEW w, NEW f, Summing(f, w, S), NEW s \in SUBSET S
    PROVE  WSum(w, s) = f[s]
<1> DEFINE g == [u \in SUBSET s |-> f[u]]
<1> DEFINE h == CHOOSE k : Summing(k, w, s)
<1>1. Summing(g, w, s)
    BY SummingRestricted
<1>2. Summing(h, w, s)
    BY <1>1
<1>3. IsFiniteSet(s)
    BY FS_Subset
<1> HIDE DEF h
<1>4. h = g
    BY <1>1, <1>2, <1>3, SummingUnique
<1> QED
    BY <1>4 DEF WSum, h

LEMMA WSumStep ==
    ASSUME NEW S, IsFiniteSet(S), NEW w, \A x \in S : w[x] \in Int
    PROVE  /\ WSum(w, S) \in Int
           /\ S = {} => WSum(w, S) = 0
           /\ S # {} => WSum(w, S) = w[Pick(S)] + WSum(w, S \ {Pick(S)})
<1>1. PICK f \in [SUBSET S -> Int] : Summing(f, w, S)
    BY SummingExists
<1>2. WSum(w, S) = f[S] /\ WSum(w, S \ {Pick(S)}) = f[S \ {Pick(S)}]
    BY <1>1, WSumIs
<1> QED
    BY <1>1, <1>2, SummingStep

\* The order does not matter.
LEMMA WSumRemove ==
    ASSUME NEW S, IsFiniteSet(S), NEW w, \A x \in S : w[x] \in Int, NEW x \in S
    PROVE  WSum(w, S) = w[x] + WSum(w, S \ {x})
<1> DEFINE T == {s \in SUBSET S : \E y \in s : WSum(w, s) # w[y] + WSum(w, s \ {y})}
<1> SUFFICES ASSUME T # {} PROVE FALSE
    OBVIOUS
<1>0. T \subseteq SUBSET S
    OBVIOUS
<1>1. PICK m \in T : \A t \in T : t \subseteq m => t = m
    <2> HIDE DEF T
    <2> QED
        BY <1>0, SmallestSubset
<1>2. PICK y \in m : WSum(w, m) # w[y] + WSum(w, m \ {y})
    BY <1>1
<1>3. \A s \in SUBSET S : IsFiniteSet(s)
    BY FS_Subset
<1>4. \A s \in SUBSET S : WSum(w, s) \in Int
    BY <1>3, WSumStep
<1> DEFINE p == Pick(m)
<1>5. p \in m /\ WSum(w, m) = w[p] + WSum(w, m \ {p})
    BY <1>1, <1>3, PickIn, WSumStep
<1> HIDE DEF p
<1>6. p # y
    BY <1>2, <1>5
<1>7. WSum(w, m \ {p}) = w[y] + WSum(w, (m \ {p}) \ {y})
    <2>1. m \ {p} \notin T /\ m \ {p} \in SUBSET S /\ y \in m \ {p}
        BY <1>1, <1>5, <1>6
    <2> QED
        BY <2>1
<1>8. WSum(w, m \ {y}) = w[p] + WSum(w, (m \ {y}) \ {p})
    <2>1. m \ {y} \notin T /\ m \ {y} \in SUBSET S /\ p \in m \ {y}
        BY <1>1, <1>5, <1>6
    <2> QED
        BY <2>1
<1>9. (m \ {p}) \ {y} = (m \ {y}) \ {p}
    OBVIOUS
<1>10. w[p] \in Int /\ w[y] \in Int /\ WSum(w, (m \ {p}) \ {y}) \in Int
    BY <1>1, <1>4, <1>5
<1> QED
    BY <1>2, <1>5, <1>7, <1>8, <1>9, <1>10

\* Nothing else matters.
LEMMA WSumSame ==
    ASSUME NEW S, IsFiniteSet(S), NEW w, NEW v, \A x \in S : w[x] \in Int /\ v[x] = w[x]
    PROVE  WSum(v, S) = WSum(w, S)
<1> DEFINE T == {s \in SUBSET S : WSum(v, s) # WSum(w, s)}
<1> SUFFICES ASSUME T # {} PROVE FALSE
    OBVIOUS
<1>0. T \subseteq SUBSET S
    OBVIOUS
<1>1. PICK m \in T : \A t \in T : t \subseteq m => t = m
    <2> HIDE DEF T
    <2> QED
        BY <1>0, SmallestSubset
<1>2. IsFiniteSet(m)
    BY <1>1, FS_Subset
<1>3. /\ m = {} => WSum(w, m) = 0
      /\ m # {} => WSum(w, m) = w[Pick(m)] + WSum(w, m \ {Pick(m)})
    BY <1>1, <1>2, WSumStep
<1>4. /\ m = {} => WSum(v, m) = 0
      /\ m # {} => WSum(v, m) = v[Pick(m)] + WSum(v, m \ {Pick(m)})
    BY <1>1, <1>2, WSumStep
<1>5. m # {}
    BY <1>1, <1>3, <1>4
<1>6. Pick(m) \in m
    BY <1>5, PickIn
<1>7. WSum(v, m \ {Pick(m)}) = WSum(w, m \ {Pick(m)})
    BY <1>1, <1>6
<1> QED
    BY <1>1, <1>3, <1>4, <1>5, <1>6, <1>7

\* Summands that are not negative have a sum that is not.
LEMMA WSumNat ==
    ASSUME NEW S, IsFiniteSet(S), NEW w, \A x \in S : w[x] \in Nat
    PROVE  WSum(w, S) \in Nat
<1> DEFINE T == {s \in SUBSET S : WSum(w, s) \notin Nat}
<1> SUFFICES ASSUME T # {} PROVE FALSE
    OBVIOUS
<1>0. T \subseteq SUBSET S
    OBVIOUS
<1>1. PICK m \in T : \A t \in T : t \subseteq m => t = m
    <2> HIDE DEF T
    <2> QED
        BY <1>0, SmallestSubset
<1>2. IsFiniteSet(m)
    BY <1>1, FS_Subset
<1>3. /\ m = {} => WSum(w, m) = 0
      /\ m # {} => WSum(w, m) = w[Pick(m)] + WSum(w, m \ {Pick(m)})
    <2>1. \A x \in m : w[x] \in Int
        BY <1>1
    <2> QED
        BY <1>2, <2>1, WSumStep
<1>4. m # {}
    BY <1>1, <1>3
<1>5. Pick(m) \in m
    BY <1>4, PickIn
<1>6. WSum(w, m \ {Pick(m)}) \in Nat
    BY <1>1, <1>5
<1> QED
    BY <1>1, <1>3, <1>4, <1>5, <1>6

\* Nothing adds up to nothing.
LEMMA WSumZero ==
    ASSUME NEW S, IsFiniteSet(S), NEW w, \A x \in S : w[x] = 0
    PROVE  WSum(w, S) = 0
<1>. DEFINE f == [s \in SUBSET S |-> 0]
<1>1. Summing(f, w, S)
  BY PickIn DEF Summing
<1>2. WSum(w, S) = f[S]
  <2>. HIDE DEF f
  <2>. QED
    BY <1>1, WSumIs
<1>. QED
  BY <1>2

\* One more summand is added.
LEMMA WSumAdd ==
    ASSUME NEW S, IsFiniteSet(S), NEW w, NEW v, NEW x, x \notin S,
           \A y \in S : w[y] \in Int /\ v[y] = w[y], v[x] \in Int,
           NEW U, U = S \cup {x}
    PROVE  WSum(v, U) = WSum(w, S) + v[x]
<1>1. IsFiniteSet(U) /\ x \in U /\ U \ {x} = S
    BY FS_AddElement
<1>2. \A y \in U : v[y] \in Int
    OBVIOUS
<1>3. WSum(v, U) = v[x] + WSum(v, S)
    BY <1>1, <1>2, WSumRemove
<1>4. WSum(v, S) = WSum(w, S) /\ WSum(w, S) \in Int
    BY WSumSame, WSumStep
<1> QED
    BY <1>3, <1>4

\* A fold that adds w of what is in C and passes over the rest.
Folding(g, w, C, S) ==
    g = [s \in SUBSET S |-> IF s = {} THEN 0
                             ELSE IF Pick(s) \in C THEN w[Pick(s)] + g[s \ {Pick(s)}]
                                                   ELSE g[s \ {Pick(s)}]]

Within(w, C, S) == [x \in S |-> IF x \in C THEN w[x] ELSE 0]

LEMMA FoldingExists ==
    ASSUME NEW S, IsFiniteSet(S), NEW C, NEW w, \A x \in S : w[x] \in Int
    PROVE  \E g : Folding(g, w, C, S)
<1> DEFINE v == Within(w, C, S)
<1>1. \A x \in S : v[x] \in Int /\ v[x] = IF x \in C THEN w[x] ELSE 0
    BY DEF Within
<1> HIDE DEF v
<1>2. PICK f \in [SUBSET S -> Int] : Summing(f, v, S)
    BY <1>1, SummingExists
<1>3. ASSUME NEW s \in SUBSET S
      PROVE  f[s] = IF s = {} THEN 0
                    ELSE IF Pick(s) \in C THEN w[Pick(s)] + f[s \ {Pick(s)}]
                                          ELSE f[s \ {Pick(s)}]
    <2>1. f[s] = IF s = {} THEN 0 ELSE v[Pick(s)] + f[s \ {Pick(s)}]
        BY <1>2, SummingStep
    <2>2. f[s \ {Pick(s)}] \in Int
        BY <1>2
    <2>3. s # {} => Pick(s) \in S
        BY PickIn
    <2> QED
        BY <1>1, <2>1, <2>2, <2>3
<1> QED
    BY <1>2, <1>3 DEF Folding

LEMMA FoldingIsSum ==
    ASSUME NEW S, IsFiniteSet(S), NEW C, NEW w, \A x \in S : w[x] \in Int,
           NEW g, Folding(g, w, C, S)
    PROVE  g[S] = WSum(Within(w, C, S), S)
<1> DEFINE v == Within(w, C, S)
<1>1. \A x \in S : v[x] \in Int /\ v[x] = IF x \in C THEN w[x] ELSE 0
    BY DEF Within
<1> HIDE DEF v
<1> DEFINE T == {s \in SUBSET S : g[s] # WSum(v, s)}
<1> SUFFICES ASSUME T # {} PROVE FALSE
    BY DEF v
<1>0. T \subseteq SUBSET S
    OBVIOUS
<1>2. PICK m \in T : \A t \in T : t \subseteq m => t = m
    <2> HIDE DEF T
    <2> QED
        BY <1>0, SmallestSubset
<1>3. IsFiniteSet(m)
    BY <1>0, FS_Subset
<1>4. /\ m = {} => WSum(v, m) = 0
      /\ m # {} => WSum(v, m) = v[Pick(m)] + WSum(v, m \ {Pick(m)})
    <2>1. \A x \in m : v[x] \in Int
        BY <1>1
    <2> QED
        BY <1>3, <2>1, WSumStep
<1>5. g[m] = IF m = {} THEN 0
             ELSE IF Pick(m) \in C THEN w[Pick(m)] + g[m \ {Pick(m)}]
                                   ELSE g[m \ {Pick(m)}]
    BY DEF Folding
<1>6. m # {} => Pick(m) \in S /\ g[m \ {Pick(m)}] = WSum(v, m \ {Pick(m)})
    BY <1>2, PickIn
<1>7. m # {} => WSum(v, m \ {Pick(m)}) \in Int
    <2>1. IsFiniteSet(m \ {Pick(m)}) /\ \A x \in m \ {Pick(m)} : v[x] \in Int
        BY <1>1, <1>3, FS_Subset
    <2> QED
        BY <2>1, WSumStep
<1> QED
    BY <1>1, <1>2, <1>4, <1>5, <1>6, <1>7

\* Some number in a set of numbers is the least.
LEMMA LeastNatural ==
    ASSUME NEW T, T \subseteq Nat, T # {}
    PROVE  \E m \in T : \A t \in T : m <= t
<1> DEFINE R == OpToRel(<, Nat)
<1>1. IsWellFoundedOn(R, Nat)
    BY NatLessThanWellFounded
<1>2. \A x, y \in Nat : y < x => <<y, x>> \in R
    BY DEF OpToRel
<1> HIDE DEF R
<1>3. PICK m \in T : \A t \in T : ~ (<<t, m>> \in R)
    BY <1>1, WFMin
<1>4. ASSUME NEW t \in T PROVE m <= t
    <2>1. m \in Nat /\ t \in Nat
        OBVIOUS
    <2>2. ~ (t < m)
        BY <1>2, <1>3, <2>1
    <2> QED
        BY <2>1, <2>2
<1> QED
    BY <1>4

\* ... and in a bounded one some number is the greatest.
LEMMA GreatestNatural ==
    ASSUME NEW b \in Nat, NEW T, T \subseteq 0..b, T # {}
    PROVE  \E m \in T : \A t \in T : t <= m
<1> DEFINE U == {n \in Nat : \E t \in T : n = b - t}
<1>0. \A t \in T : t \in Nat /\ t <= b /\ b - t \in Nat
    OBVIOUS
<1>1. U \subseteq Nat /\ U # {} /\ \A t \in T : b - t \in U
    BY <1>0
<1>2. PICK u \in U : \A v \in U : u <= v
    <2> HIDE DEF U
    <2> QED
        BY <1>1, LeastNatural
<1>3. PICK m \in T : u = b - m
    BY <1>2
<1>4. ASSUME NEW t \in T PROVE t <= m
    <2>1. m \in Nat /\ t \in Nat /\ b - t \in U
        BY <1>0, <1>1
    <2>2. b - m <= b - t
        BY <1>2, <1>3, <2>1
    <2> QED
        BY <2>1, <2>2
<1> QED
    BY <1>4

\* The fold that takes its elements by CHOOSE is the sum.
LEMMA ChosenSum ==
  ASSUME NEW C, IsFiniteSet(C), NEW w, \A x \in C : w[x] \in Int, NEW g, Summing(g, w, C)
  PROVE  g[C] = WSum(w, C) /\ g[C] \in Int
<1>1. PICK f \in [SUBSET C -> Int] : Summing(f, w, C)
  BY SummingExists
<1>2. g = f
  BY <1>1, SummingUnique
<1>3. WSum(w, C) = f[C] /\ f[C] \in Int
  BY <1>1, WSumIs
<1>. QED
  BY <1>2, <1>3

\* The elements that h gives for those of S.
ImageOf(h, S) == {h[x] : x \in S}

\* h gives each element of S another one of the same weight.
Renames(h, S, w, v) ==
    /\ \A x \in S : w[x] \in Int /\ v[h[x]] = w[x]
    /\ \A x \in S : \A y \in S : h[x] = h[y] => x = y

\* What is added does not depend on what the elements are.
LEMMA WSumImage ==
  ASSUME NEW S, IsFiniteSet(S), NEW h, NEW w, NEW v, Renames(h, S, w, v)
  PROVE  WSum(v, ImageOf(h, S)) = WSum(w, S)
<1>0. /\ \A x \in S : w[x] \in Int /\ v[h[x]] = w[x]
      /\ \A x \in S : \A y \in S : h[x] = h[y] => x = y
  BY DEF Renames
<1>. DEFINE Image(s) == {h[x] : x \in s}
            T == {s \in SUBSET S : WSum(v, Image(s)) # WSum(w, s)}
<1>. SUFFICES ASSUME T # {} PROVE FALSE
  <2>1. ImageOf(h, S) = Image(S)
    BY DEF ImageOf
  <2>. HIDE DEF Image
  <2>. QED
    BY <2>1
<1>1. PICK m \in T : \A t \in T : t \subseteq m => t = m
  <2>1. T \subseteq SUBSET S
    OBVIOUS
  <2>. HIDE DEF T
  <2>. QED
    BY <2>1, SmallestSubset
<1>2. IsFiniteSet(m) /\ m \in SUBSET S
  BY <1>1, FS_Subset
<1>3. IsFiniteSet(Image(m)) /\ \A y \in Image(m) : v[y] \in Int
  <2>1. [x \in m |-> h[x]] \in Surjection(m, Image(m))
    BY DEF Surjection
  <2>2. IsFiniteSet(Image(m))
    BY <1>2, <2>1, FS_Surjection
  <2>. QED
    BY <1>0, <1>2, <2>2
<1>4. m # {}
  <2>1. ASSUME m = {} PROVE FALSE
    <3>1. Image(m) = {}
      BY <2>1
    <3>2. WSum(w, m) = 0
      <4>1. \A y \in m : w[y] \in Int
        BY <1>0, <1>2
      <4>. QED
        BY <1>2, <2>1, <4>1, WSumStep
    <3>3. WSum(v, Image(m)) = 0
      <4>. HIDE DEF Image
      <4>. QED
        BY <1>3, <3>1, WSumStep
    <3>. QED
      BY <1>1, <3>2, <3>3
  <2>. QED
    BY <2>1
<1>5. PICK x \in m : TRUE
  BY <1>4
<1>6. WSum(w, m) = w[x] + WSum(w, m \ {x})
  <2>1. \A y \in m : w[y] \in Int
    BY <1>0, <1>2
  <2>. QED
    BY <1>2, <2>1, WSumRemove
<1>7. WSum(v, Image(m)) = v[h[x]] + WSum(v, Image(m) \ {h[x]})
  <2>1. h[x] \in Image(m)
    OBVIOUS
  <2>. HIDE DEF Image
  <2>. QED
    BY <1>3, <2>1, WSumRemove
<1>8. Image(m) \ {h[x]} = Image(m \ {x})
  BY <1>0, <1>2, <1>5
<1>9. WSum(v, Image(m \ {x})) = WSum(w, m \ {x})
  <2>1. m \ {x} \in SUBSET S /\ m \ {x} # m /\ m \ {x} \subseteq m
    BY <1>2
  <2>2. m \ {x} \notin T
    <3>. HIDE DEF T
    <3>. QED
      BY <1>1, <2>1
  <2>. QED
    BY <2>1, <2>2
<1>10. v[h[x]] = w[x]
  BY <1>0, <1>2
<1>. QED
  BY <1>1, <1>6, <1>7, <1>8, <1>9, <1>10

\* What is added is the same part by part.
LEMMA WSumUnion ==
  ASSUME NEW S, IsFiniteSet(S), NEW R, IsFiniteSet(R), S \cap R = {},
         NEW w, \A x \in S \cup R : w[x] \in Int,
         NEW U, U = S \cup R
  PROVE  WSum(w, U) = WSum(w, S) + WSum(w, R)
<1>. DEFINE T == {s \in SUBSET R : WSum(w, S \cup s) # WSum(w, S) + WSum(w, s)}
<1>. SUFFICES ASSUME T # {} PROVE FALSE
  OBVIOUS
<1>1. PICK m \in T : \A t \in T : t \subseteq m => t = m
  <2>1. T \subseteq SUBSET R
    OBVIOUS
  <2>. HIDE DEF T
  <2>. QED
    BY <2>1, SmallestSubset
<1>2. IsFiniteSet(m) /\ m \in SUBSET R
  BY <1>1, FS_Subset
<1>. DEFINE both == S \cup m
<1>3. IsFiniteSet(both)
  BY <1>2, FS_Union
<1>4. /\ WSum(w, S) \in Int
      /\ m = {} => WSum(w, m) = 0
  BY <1>2, WSumStep
<1>5. WSum(w, both) # WSum(w, S) + WSum(w, m)
  BY <1>1
<1>6. m # {}
  <2>1. m = {} => both = S
    OBVIOUS
  <2>. HIDE DEF T, both
  <2>. QED
    BY <1>4, <1>5, <2>1
<1>7. PICK x \in m : TRUE
  BY <1>6
<1>8. WSum(w, m) = w[x] + WSum(w, m \ {x})
  BY <1>2, WSumRemove
<1>9. WSum(w, both) = w[x] + WSum(w, both \ {x})
  <2>1. x \in both /\ \A y \in both : w[y] \in Int
    BY <1>2
  <2>. HIDE DEF both
  <2>. QED
    BY <1>3, <2>1, WSumRemove
<1>10. both \ {x} = S \cup (m \ {x})
  BY <1>2
<1>11. WSum(w, S \cup (m \ {x})) = WSum(w, S) + WSum(w, m \ {x})
  <2>1. m \ {x} \in SUBSET R /\ m \ {x} # m /\ m \ {x} \subseteq m
    BY <1>2
  <2>2. m \ {x} \notin T
    <3>. HIDE DEF T
    <3>. QED
      BY <1>1, <2>1
  <2>. QED
    BY <2>1, <2>2
<1>12. WSum(w, m \ {x}) \in Int /\ w[x] \in Int
  <2>1. IsFiniteSet(m \ {x}) /\ \A y \in m \ {x} : w[y] \in Int
    BY <1>2, FS_Subset
  <2>. QED
    BY <1>2, <2>1, WSumStep
<1>. DEFINE left == both \ {x}
            joined == S \cup (m \ {x})
<1>13. left = joined /\ WSum(w, both) = w[x] + WSum(w, left)
  BY <1>9, <1>10
<1>14. WSum(w, joined) = WSum(w, S) + WSum(w, m \ {x})
  BY <1>11
<1>. HIDE DEF T, both, left, joined
<1>. QED
  BY <1>4, <1>5, <1>8, <1>12, <1>13, <1>14

\* Two sums over the same elements are one.
LEMMA WSumPlus ==
  ASSUME NEW S, IsFiniteSet(S), NEW w, NEW v, NEW u,
         \A x \in S : w[x] \in Int /\ v[x] \in Int /\ u[x] = w[x] + v[x]
  PROVE  WSum(u, S) = WSum(w, S) + WSum(v, S)
<1>. DEFINE T == {s \in SUBSET S : WSum(u, s) # WSum(w, s) + WSum(v, s)}
<1>. SUFFICES ASSUME T # {} PROVE FALSE
  OBVIOUS
<1>1. PICK m \in T : \A t \in T : t \subseteq m => t = m
  <2>1. T \subseteq SUBSET S
    OBVIOUS
  <2>. HIDE DEF T
  <2>. QED
    BY <2>1, SmallestSubset
<1>2. IsFiniteSet(m) /\ m \in SUBSET S /\ \A x \in m : u[x] \in Int
  BY <1>1, FS_Subset
<1>3. m # {}
  <2>1. m = {} => WSum(u, m) = 0 /\ WSum(w, m) = 0 /\ WSum(v, m) = 0
    BY <1>2, WSumStep
  <2>. QED
    BY <1>1, <2>1
<1>4. PICK x \in m : TRUE
  BY <1>3
<1>5. /\ WSum(u, m) = u[x] + WSum(u, m \ {x})
      /\ WSum(w, m) = w[x] + WSum(w, m \ {x})
      /\ WSum(v, m) = v[x] + WSum(v, m \ {x})
  BY <1>2, WSumRemove
<1>6. WSum(u, m \ {x}) = WSum(w, m \ {x}) + WSum(v, m \ {x})
  <2>1. m \ {x} \in SUBSET S /\ m \ {x} # m /\ m \ {x} \subseteq m
    BY <1>2
  <2>2. m \ {x} \notin T
    <3>. HIDE DEF T
    <3>. QED
      BY <1>1, <2>1
  <2>. QED
    BY <2>1, <2>2
<1>7. /\ WSum(w, m \ {x}) \in Int /\ WSum(v, m \ {x}) \in Int
      /\ w[x] \in Int /\ v[x] \in Int /\ u[x] = w[x] + v[x]
  <2>1. IsFiniteSet(m \ {x}) /\ \A y \in m \ {x} : w[y] \in Int /\ v[y] \in Int
    BY <1>2, FS_Subset
  <2>. QED
    BY <1>2, <2>1, WSumStep
<1>8. WSum(u, m) # WSum(w, m) + WSum(v, m)
  BY <1>1
<1>. HIDE DEF T
<1>. QED
  BY <1>5, <1>6, <1>7, <1>8

=============================================================================
