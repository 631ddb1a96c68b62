----------------------------- MODULE FiniteSums ------------------------------
(***************************************************************************)
(* Sums over finite sets, as MapThenSumSet of FiniteSetsExt defines them:  *)
(* there is one function that adds the amounts up, whichever element it    *)
(* takes first.  An operator over data cannot be reasoned about by the     *)
(* induction of the library, whose theorems take operators; a minimal      *)
(* counterexample among the subsets of a finite set takes its place.       *)
(***************************************************************************)
EXTENDS Integers, FiniteSets, FiniteSetTheorems, WellFoundedInduction, TLAPS

\* The element of S that a sum over S takes first.
SomeOf(S) == CHOOSE x \in S : TRUE

\* g is the function that MapThenSumSet defines over the subsets of E, for the
\* amount w[x] of each x.
SumsUp(g, E, w) ==
  g = [S \in SUBSET E |-> IF S = {} THEN 0 ELSE w[SomeOf(S)] + g[S \ {SomeOf(S)}]]

\* Induction over a finite set, as a minimal counterexample: a set of subsets
\* that is not empty has a member none of whose proper subsets is a member.
LEMMA MinimalSet ==
  ASSUME NEW E, IsFiniteSet(E), NEW bad \in SUBSET SUBSET E, bad # {}
  PROVE  \E S \in bad : \A T \in bad : T \subseteq S => T = S
<1>1. IsWellFoundedOn(StrictSubsetOrdering(E), SUBSET E)
  BY FS_StrictSubsetOrderingWellFounded, FS_FiniteSubsetsOfFinite
<1>2. PICK S \in bad : \A T \in bad : ~ (<<T, S>> \in StrictSubsetOrdering(E))
  BY <1>1, WFMin
<1>3. ASSUME NEW T \in bad, T \subseteq S, T # S
      PROVE  FALSE
  <2>1. <<T, S>> \in StrictSubsetOrdering(E)
    BY <1>3 DEF StrictSubsetOrdering
  <2>. QED
    BY <1>2, <2>1
<1>. QED
  BY <1>3

\* A set that is not empty has an element to take.
LEMMA SomeOfIn == ASSUME NEW S, S # {} PROVE SomeOf(S) \in S
BY DEF SomeOf

\* Two such functions agree on the sets that both are defined for.
LEMMA SumsAgree ==
  ASSUME NEW E, IsFiniteSet(E), NEW D \in SUBSET E, NEW w,
         NEW g, NEW h, SumsUp(g, E, w), SumsUp(h, D, w)
  PROVE  \A S \in SUBSET D : g[S] = h[S]
<1>. DEFINE bad == {S \in SUBSET D : g[S] # h[S]}
<1>1. SUFFICES ASSUME bad # {} PROVE FALSE
  OBVIOUS
<1>2. PICK S \in bad : \A T \in bad : T \subseteq S => T = S
  <2>1. bad \in SUBSET SUBSET D /\ IsFiniteSet(D)
    BY FS_Subset
  <2>. HIDE DEF bad
  <2>. QED
    BY <1>1, <2>1, MinimalSet
<1>3. S # {}
  BY <1>2 DEF SumsUp
<1>4. SomeOf(S) \in S
  BY <1>3, SomeOfIn
<1>5. g[S \ {SomeOf(S)}] = h[S \ {SomeOf(S)}]
  BY <1>2, <1>4
<1>. QED
  BY <1>2, <1>3, <1>4, <1>5 DEF SumsUp

\* There is such a function over every finite set.
LEMMA SumExists ==
  ASSUME NEW E, IsFiniteSet(E), NEW w
  PROVE  \E g : SumsUp(g, E, w)
<1>. DEFINE bad == {S \in SUBSET E : ~ \E g : SumsUp(g, S, w)}
<1>1. SUFFICES ASSUME bad # {} PROVE FALSE
  OBVIOUS
<1>2. PICK D \in bad : \A T \in bad : T \subseteq D => T = D
  <2>1. bad \in SUBSET SUBSET E
    OBVIOUS
  <2>. HIDE DEF bad
  <2>. QED
    BY <1>1, <2>1, MinimalSet
<1>. DEFINE h(S) == CHOOSE g : SumsUp(g, S, w)
            G == [S \in SUBSET D |->
                    IF S = {} THEN 0
                    ELSE w[SomeOf(S)] + h(S \ {SomeOf(S)})[S \ {SomeOf(S)}]]
<1>3. \A S \in SUBSET D : S # D => SumsUp(h(S), S, w)
  BY <1>2
<1>4. IsFiniteSet(D)
  BY FS_Subset
<1>5. ASSUME NEW S \in SUBSET D, S # D
      PROVE  G[S] = h(S)[S]
  <2>1. CASE S = {}
    <3>1. SumsUp(h(S), S, w)
      BY <1>3, <1>5
    <3>2. h(S)[S] = 0
      <4>. HIDE DEF h
      <4>. QED
      BY <2>1, <3>1 DEF SumsUp
    <3>3. G[S] = 0
      BY <2>1
    <3>. QED
      BY <3>2, <3>3
  <2>2. CASE S # {}
    <3>. DEFINE T == S \ {SomeOf(S)}
    <3>0. SomeOf(S) \in S
      BY <2>2, SomeOfIn
    <3>1. T \in SUBSET S /\ T # D
      BY <3>0
    <3>2. SumsUp(h(S), S, w) /\ SumsUp(h(T), T, w)
      BY <1>3, <1>5, <3>1
    <3>3. IsFiniteSet(S)
      BY <1>4, FS_Subset
    <3>4. h(S)[T] = h(T)[T]
      <4>. HIDE DEF h, T
      <4>. QED
      BY <3>1, <3>2, <3>3, SumsAgree
    <3>5. h(S)[S] = w[SomeOf(S)] + h(S)[T]
      BY <2>2, <3>2 DEF SumsUp
    <3>6. G[S] = w[SomeOf(S)] + h(T)[T]
      BY <2>2
    <3>. HIDE DEF G, h, T
    <3>. QED
      BY <3>4, <3>5, <3>6
  <2>. QED
    BY <2>1, <2>2
<1>6. ASSUME NEW S \in SUBSET D, S # {}
      PROVE  G[S] = w[SomeOf(S)] + G[S \ {SomeOf(S)}]
  <2>1. SomeOf(S) \in S
    BY <1>6, SomeOfIn
  <2>2. S \ {SomeOf(S)} \in SUBSET D /\ S \ {SomeOf(S)} # D
    BY <2>1
  <2>3. G[S \ {SomeOf(S)}] = h(S \ {SomeOf(S)})[S \ {SomeOf(S)}]
    BY <1>5, <2>2
  <2>. QED
    BY <1>6, <2>3
<1>7. SumsUp(G, D, w)
  <2>1. G[{}] = 0
    OBVIOUS
  <2>2. G = [S \in SUBSET D |-> G[S]]
    OBVIOUS
  <2>. HIDE DEF G
  <2>. QED
  BY <1>6, <2>1, <2>2 DEF SumsUp
<1>. QED
  BY <1>2, <1>7

\* A sum of amounts that stay together under addition stays with them.
LEMMA SumIn ==
  ASSUME NEW N, 0 \in N, \A i, j \in N : i + j \in N,
         NEW E, IsFiniteSet(E), NEW w, \A x \in E : w[x] \in N, NEW g, SumsUp(g, E, w)
  PROVE  \A S \in SUBSET E : g[S] \in N
<1>. DEFINE bad == {S \in SUBSET E : g[S] \notin N}
<1>1. SUFFICES ASSUME bad # {} PROVE FALSE
  OBVIOUS
<1>2. PICK S \in bad : \A T \in bad : T \subseteq S => T = S
  <2>1. bad \in SUBSET SUBSET E
    OBVIOUS
  <2>. HIDE DEF bad
  <2>. QED
    BY <1>1, <2>1, MinimalSet
<1>3. S # {}
  BY <1>2 DEF SumsUp
<1>4. SomeOf(S) \in S
  BY <1>3, SomeOfIn
<1>5. g[S \ {SomeOf(S)}] \in N /\ w[SomeOf(S)] \in N
  BY <1>2, <1>4
<1>6. g[S] = w[SomeOf(S)] + g[S \ {SomeOf(S)}]
  BY <1>2, <1>3 DEF SumsUp
<1>. QED
  BY <1>2, <1>5, <1>6

\* Any element may be taken first: the sum does not depend on the order.
LEMMA SumRemove ==
  ASSUME NEW E, IsFiniteSet(E), NEW w, \A x \in E : w[x] \in Int, NEW g, SumsUp(g, E, w)
  PROVE  \A S \in SUBSET E : \A x \in S : g[S] = w[x] + g[S \ {x}]
<1>. DEFINE bad == {S \in SUBSET E : \E x \in S : g[S] # w[x] + g[S \ {x}]}
<1>1. SUFFICES ASSUME bad # {} PROVE FALSE
  OBVIOUS
<1>2. PICK S \in bad : \A T \in bad : T \subseteq S => T = S
  <2>1. bad \in SUBSET SUBSET E
    OBVIOUS
  <2>. HIDE DEF bad
  <2>. QED
    BY <1>1, <2>1, MinimalSet
<1>3. PICK x \in S : g[S] # w[x] + g[S \ {x}]
  BY <1>2
<1>4. PICK y \in S : y = SomeOf(S)
  BY SomeOfIn
<1>5. g[S] = w[y] + g[S \ {y}]
  BY <1>4 DEF SumsUp
<1>6. x # y
  BY <1>3, <1>5
<1>0. ASSUME NEW T \in SUBSET S, T # S
      PROVE  \A z \in T : g[T] = w[z] + g[T \ {z}]
  <2>1. T \in SUBSET E /\ T \notin bad
    BY <1>0, <1>2
  <2>. QED
    BY <2>1
<1>7. g[S \ {y}] = w[x] + g[(S \ {y}) \ {x}]
  <2>1. S \ {y} \in SUBSET S /\ S \ {y} # S /\ x \in S \ {y}
    BY <1>6
  <2>. HIDE DEF bad
  <2>. QED
    BY <1>0, <2>1
<1>8. g[S \ {x}] = w[y] + g[(S \ {x}) \ {y}]
  <2>1. S \ {x} \in SUBSET S /\ S \ {x} # S /\ y \in S \ {x}
    BY <1>6
  <2>. HIDE DEF bad
  <2>. QED
    BY <1>0, <2>1
<1>9. (S \ {x}) \ {y} = (S \ {y}) \ {x}
  OBVIOUS
<1>10. g[(S \ {y}) \ {x}] \in Int /\ w[x] \in Int /\ w[y] \in Int
  <2>1. 0 \in Int /\ \A i, j \in Int : i + j \in Int
    OBVIOUS
  <2>2. \A T \in SUBSET E : g[T] \in Int
    BY <2>1, SumIn
  <2>. QED
    BY <2>2
<1>11. g[S] = w[x] + (w[y] + g[(S \ {y}) \ {x}])
  BY <1>5, <1>7, <1>10
<1>. QED
  BY <1>3, <1>8, <1>9, <1>11
=============================================================================
