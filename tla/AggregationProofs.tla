------------------------- MODULE AggregationProofs -------------------------
(***************************************************************************)
(* What module Aggregation promises holds for any number of processes,     *)
(* samples and bits: the report is that of the real samples of the job,    *)
(* and an overflow is noticed exactly when there is one.                   *)
(*                                                                         *)
(* Both rest on ReductionInv, which says what each of the three stages has *)
(* made of the samples so far.  Averages of averages are sums of fractions *)
(* over finite sets; the library has no theorem about its folds, so that   *)
(* FoldFunctionOnSet computes a sum, in whatever order it takes the        *)
(* elements, is proved here first, by induction over the subsets of a set. *)
(***************************************************************************)
EXTENDS Aggregation, FiniteSetTheorems, WellFoundedInduction, TLAPS

(***************************************************************************)
(* Induction and recursion, with sets and functions for predicates and     *)
(* definitions.                                                            *)
(***************************************************************************)
Smaller == {p \in Nat \X Nat : p[1] < p[2]}

LEMMA SmallerIsWellFounded == IsWellFoundedOn(Smaller, Nat)
<1>1. OpToRel(<, Nat) = Smaller
  BY DEF OpToRel, Smaller
<1> QED
  BY <1>1, NatLessThanWellFounded, Zenon

LEMMA LeastExists ==
  ASSUME NEW T \in SUBSET Nat, T # {}
  PROVE  \E x \in T : \A y \in T : x <= y
<1>1. PICK x \in T : \A y \in T : <<y, x>> \notin Smaller
  BY SmallerIsWellFounded, WFMin, Zenon
<1>2. ASSUME NEW y \in T PROVE x <= y
  <2>1. <<y, x>> \in Nat \X Nat /\ <<y, x>> \notin Smaller
    BY <1>1
  <2>2. ~(y < x)
    BY <2>1 DEF Smaller
  <2> QED
    BY <2>2
<1> QED
  BY <1>2

(***************************************************************************)
(* Folds over finite sets: what FoldFunctionOnSet computes by choosing one *)
(* element after the other does not depend on the choices.                 *)
(***************************************************************************)

(* What holds of a subset if it holds of all that lack one of its elements *)
(* holds of all subsets of a finite set.                                   *)
LEMMA SubsetInduction ==
  ASSUME NEW S, IsFiniteSet(S), NEW Q,
         \A U \in SUBSET S : (\A x \in U : U \ {x} \in Q) => U \in Q
  PROVE  SUBSET S \subseteq Q
<1> SUFFICES ASSUME ~(SUBSET S \subseteq Q) PROVE FALSE
  OBVIOUS
<1> DEFINE T == {U \in SUBSET S : U \notin Q}
<1>1. IsWellFoundedOn(StrictSubsetOrdering(S), FiniteSubsetsOf(S))
  BY FS_StrictSubsetOrderingWellFounded
<1>2. T \in SUBSET FiniteSubsetsOf(S) /\ T # {}
  BY FS_Subset DEF FiniteSubsetsOf
<1>3. \E U \in T : \A W \in T : <<W, U>> \notin StrictSubsetOrdering(S)
  <2> HIDE DEF T
  <2> QED
    BY <1>1, <1>2, WFMin, Zenon
<1>4. PICK U \in T : \A W \in T : <<W, U>> \notin StrictSubsetOrdering(S)
  BY <1>3
<1>5. ASSUME NEW x \in U PROVE U \ {x} \in Q
  <2>1. U \ {x} \in SUBSET S /\ <<U \ {x}, U>> \in StrictSubsetOrdering(S)
    BY <1>4 DEF StrictSubsetOrdering
  <2> QED
    BY <1>4, <2>1
<1> QED
  BY <1>4, <1>5

Picks(S) == {p \in [(SUBSET S) \ {{}} -> S] : \A U \in (SUBSET S) \ {{}} : p[U] \in U}

Operation(V) == [V \X V -> V]

(* g folds op over the values of f, for each subset of S in the order in   *)
(* which pick takes its elements away.                                     *)
IsFold(S, V, v, f, op, pick, g) ==
  /\ g \in [SUBSET S -> V]
  /\ g[{}] = v
  /\ \A U \in (SUBSET S) \ {{}} : g[U] = op[<<f[pick[U]], g[U \ {pick[U]}]>>]

(* There is such a g: it is put together from those for the sets of up to  *)
(* n elements, for growing n.                                              *)
LEMMA FoldExists ==
  ASSUME NEW S, IsFiniteSet(S), NEW V, NEW v \in V, NEW f \in [S -> V],
         NEW op \in Operation(V), NEW pick \in Picks(S)
  PROVE  \E g : IsFold(S, V, v, f, op, pick, g)
<1> DEFINE Small(n) == {U \in SUBSET S : Cardinality(U) <= n}
           Upto(n) == \E g \in [Small(n) -> V] :
                        /\ g[{}] = v
                        /\ \A U \in Small(n) \ {{}} : g[U] = op[<<f[pick[U]], g[U \ {pick[U]}]>>]
           T == {n \in Nat : ~Upto(n)}
<1>1. \A U \in SUBSET S : IsFiniteSet(U) /\ Cardinality(U) \in Nat /\ Cardinality(U) <= Cardinality(S)
  BY FS_Subset, FS_CardinalityType
<1>2. \A U \in (SUBSET S) \ {{}} :
         /\ pick[U] \in U /\ pick[U] \in S /\ U \ {pick[U]} \in SUBSET S
         /\ Cardinality(U \ {pick[U]}) = Cardinality(U) - 1
  BY <1>1, FS_RemoveElement DEF Picks
<1>3. {} \in SUBSET S /\ Cardinality({}) = 0
  BY FS_EmptySet
<1>4. \A n \in Nat : {} \in Small(n)
  BY <1>3
<1>5. Upto(0)
  <2>1. Small(0) = {{}}
    BY <1>1, <1>3, FS_EmptySet
  <2>2. [U \in Small(0) |-> v] \in [Small(0) -> V]
    OBVIOUS
  <2> QED
    BY <2>1, <2>2
<1>6. ASSUME NEW n \in Nat, Upto(n) PROVE Upto(n + 1)
  <2>1. PICK g \in [Small(n) -> V] :
                        /\ g[{}] = v
                        /\ \A U \in Small(n) \ {{}} : g[U] = op[<<f[pick[U]], g[U \ {pick[U]}]>>]
    BY <1>6
  <2> DEFINE h == [U \in Small(n + 1) |-> IF U \in Small(n) THEN g[U]
                                         ELSE op[<<f[pick[U]], g[U \ {pick[U]}]>>]]
  <2>2. ASSUME NEW U \in Small(n + 1) \ {{}}
        PROVE  U \ {pick[U]} \in Small(n) /\ f[pick[U]] \in V
               /\ op[<<f[pick[U]], g[U \ {pick[U]}]>>] \in V
    <3>1. Cardinality(U) <= n + 1 /\ Cardinality(U) \in Nat
      BY <1>1
    <3>2. U \ {pick[U]} \in Small(n) /\ f[pick[U]] \in V
      BY <1>2, <3>1
    <3>3. g[U \ {pick[U]}] \in V
      BY <2>1, <3>2
    <3> QED
      BY <3>2, <3>3 DEF Operation
  <2>3. Small(n) \subseteq Small(n + 1)
    BY <1>1
  <2>4. h \in [Small(n + 1) -> V]
    <3>1. ASSUME NEW U \in Small(n + 1) PROVE h[U] \in V
      <4>1. U \notin Small(n) => U # {}
        BY <1>4
      <4> HIDE DEF Small
      <4> QED
        BY <2>1, <2>2, <4>1
    <3> HIDE DEF Small
    <3> QED
      BY <3>1
  <2>5. h[{}] = v
    BY <1>4, <2>1, <2>3
  <2>6. ASSUME NEW U \in Small(n + 1) \ {{}} PROVE h[U] = op[<<f[pick[U]], h[U \ {pick[U]}]>>]
    <3>1. h[U \ {pick[U]}] = g[U \ {pick[U]}]
      <4> HIDE DEF Small
      <4> QED
        BY <2>2, <2>3
    <3>2. h[U] = op[<<f[pick[U]], g[U \ {pick[U]}]>>]
      <4> HIDE DEF Small
      <4> QED
        BY <2>1
    <3> QED
      BY <3>1, <3>2
  <2> HIDE DEF h, Small
  <2> QED
    BY <2>4, <2>5, <2>6
<1>7. \A n \in Nat : Upto(n)
  <2> HIDE DEF Upto
  <2> SUFFICES ASSUME T # {} PROVE FALSE
    OBVIOUS
  <2>1. PICK x \in T : \A y \in T : x <= y
    <3>1. T \in SUBSET Nat
      OBVIOUS
    <3> HIDE DEF T
    <3> QED
      BY <3>1, LeastExists
  <2>2. x \in Nat /\ x # 0 /\ x - 1 \in Nat /\ (x - 1) + 1 = x /\ x - 1 \notin T
    BY <1>5, <2>1
  <2> QED
    BY <1>6, <2>1, <2>2
<1>8. Upto(Cardinality(S)) /\ Small(Cardinality(S)) = SUBSET S
  <2>1. Cardinality(S) \in Nat
    BY FS_CardinalityType
  <2> HIDE DEF Upto
  <2> QED
    BY <1>1, <1>7, <2>1
<1> QED
  BY <1>8 DEF IsFold

(* An operation that lets two values change places. *)
Exchanges(V, op) ==
  \A x, y, z \in V : op[<<x, op[<<y, z>>]>>] = op[<<y, op[<<x, z>>]>>]

(* It does not matter which element is taken first.                        *)
IsFree(S, f, op, g) == \A U \in SUBSET S : \A x \in U : g[U] = op[<<f[x], g[U \ {x}]>>]

LEMMA FoldIsFree ==
  ASSUME NEW S, IsFiniteSet(S), NEW V, NEW v \in V, NEW f \in [S -> V],
         NEW op \in Operation(V), Exchanges(V, op), NEW pick \in Picks(S),
         NEW g, IsFold(S, V, v, f, op, pick, g)
  PROVE  IsFree(S, f, op, g)
<1> DEFINE Q == {U \in SUBSET S : \A x \in U : g[U] = op[<<f[x], g[U \ {x}]>>]}
<1>1. ASSUME NEW U \in SUBSET S, \A x \in U : U \ {x} \in Q PROVE U \in Q
  <2> SUFFICES ASSUME NEW x \in U PROVE g[U] = op[<<f[x], g[U \ {x}]>>]
    OBVIOUS
  <2> DEFINE y == pick[U]  W == U \ {x, y}
  <2>1. y \in U /\ g[U] = op[<<f[y], g[U \ {y}]>>] /\ U \in (SUBSET S) \ {{}}
    BY DEF IsFold, Picks
  <2>2. CASE x = y
    BY <2>1, <2>2
  <2>3. CASE x # y
    <3>1. /\ x \in U \ {y} /\ y \in U \ {x}
          /\ (U \ {y}) \ {x} = W /\ (U \ {x}) \ {y} = W
      BY <2>1, <2>3
    <3>2. g[U \ {y}] = op[<<f[x], g[W]>>] /\ g[U \ {x}] = op[<<f[y], g[W]>>]
      <4>1. U \ {y} \in Q /\ U \ {x} \in Q
        BY <1>1, <2>1
      <4> QED
        BY <3>1, <4>1
    <3>3. f[x] \in V /\ f[y] \in V /\ g[W] \in V
      <4>1. x \in S /\ y \in S /\ W \in SUBSET S
        BY <2>1
      <4> QED
        BY <4>1 DEF IsFold
    <3> QED
      BY <2>1, <3>2, <3>3 DEF Exchanges
  <2> QED
    BY <2>2, <2>3
<1>2. SUBSET S \subseteq Q
  <2> HIDE DEF Q
  <2> QED
    BY <1>1, SubsetInduction
<1> QED
  BY <1>2 DEF IsFree

(* What folds is the only thing that does.                                 *)
Unfolds(S, V, v, f, op, pick, h) ==
  /\ h[{}] = v
  /\ \A U \in (SUBSET S) \ {{}} :
       h[U \ {pick[U]}] \in V => h[U] = op[<<f[pick[U]], h[U \ {pick[U]}]>>]

Same(S, g, h) == \A U \in SUBSET S : g[U] = h[U]

LEMMA FoldIsOnly ==
  ASSUME NEW S, IsFiniteSet(S), NEW V, NEW v \in V, NEW f \in [S -> V],
         NEW op \in Operation(V), NEW pick \in Picks(S),
         NEW g, IsFold(S, V, v, f, op, pick, g), NEW h, Unfolds(S, V, v, f, op, pick, h)
  PROVE  Same(S, g, h)
<1> USE DEF Unfolds, Same
<1> DEFINE Q == {U \in SUBSET S : h[U] = g[U]}
<1>1. ASSUME NEW U \in SUBSET S, \A x \in U : U \ {x} \in Q PROVE U \in Q
  <2>1. CASE U = {}
    BY <2>1 DEF IsFold
  <2>2. CASE U # {}
    <3>1. U \in (SUBSET S) \ {{}} /\ pick[U] \in U
      BY <2>2 DEF Picks
    <3>2. h[U \ {pick[U]}] = g[U \ {pick[U]}]
      BY <1>1, <3>1
    <3>3. g[U \ {pick[U]}] \in V
      <4>1. U \ {pick[U]} \in SUBSET S
        OBVIOUS
      <4> QED
        BY <4>1 DEF IsFold
    <3> QED
      BY <3>1, <3>2, <3>3 DEF IsFold
  <2> QED
    BY <2>1, <2>2
<1>2. SUBSET S \subseteq Q
  <2> HIDE DEF Q
  <2> QED
    BY <1>1, SubsetInduction
<1> QED
  BY <1>2

(* Folds over different sets agree where their values do.                  *)
LEMMA FoldsAgree ==
  ASSUME NEW S, IsFiniteSet(S), NEW T, NEW V, NEW v \in V, NEW op \in Operation(V), NEW f, NEW h,
         NEW a, a[{}] = v, IsFree(S, f, op, a), NEW b, b[{}] = v, IsFree(T, h, op, b),
         \A x \in S \cap T : f[x] = h[x]
  PROVE  Same(S \cap T, a, b)
<1> USE DEF IsFree, Same
<1> DEFINE C == S \cap T
           Q == {U \in SUBSET C : a[U] = b[U]}
<1>1. ASSUME NEW U \in SUBSET C, \A x \in U : U \ {x} \in Q PROVE U \in Q
  <2>1. CASE U = {}
    BY <2>1
  <2>2. CASE U # {}
    <3>1. PICK x \in U : TRUE
      BY <2>2
    <3>2. U \in SUBSET S /\ U \in SUBSET T /\ x \in S \cap T /\ a[U \ {x}] = b[U \ {x}]
      BY <1>1
    <3> QED
      BY <3>2
  <2> QED
    BY <2>1, <2>2
<1>2. SUBSET C \subseteq Q
  <2>1. IsFiniteSet(C)
    BY FS_Intersection
  <2> HIDE DEF Q, C
  <2> QED
    BY <1>1, <2>1, SubsetInduction
<1> QED
  BY <1>2

-----------------------------------------------------------------------------
(* Sums of numbers over finite sets.                                       *)
AnyOf(S) == [U \in (SUBSET S) \ {{}} |-> CHOOSE x \in U : TRUE]

LEMMA AnyIsPick ==
  ASSUME NEW S
  PROVE  AnyOf(S) \in Picks(S)
<1>1. ASSUME NEW U \in (SUBSET S) \ {{}} PROVE AnyOf(S)[U] \in U /\ AnyOf(S)[U] \in S
  <2>1. (CHOOSE x \in U : TRUE) \in U
    OBVIOUS
  <2> QED
    BY <2>1 DEF AnyOf
<1> QED
  BY <1>1 DEF Picks, AnyOf

LEMMA FoldedByAny ==
  ASSUME NEW S, IsFiniteSet(S), NEW V, NEW v \in V, NEW f \in [S -> V],
         NEW op \in Operation(V), Exchanges(V, op),
         NEW h, Unfolds(S, V, v, f, op, AnyOf(S), h)
  PROVE  h[{}] = v /\ (\A U \in SUBSET S : h[U] \in V) /\ IsFree(S, f, op, h)
<1>1. AnyOf(S) \in Picks(S)
  BY AnyIsPick
<1>2. PICK g : IsFold(S, V, v, f, op, AnyOf(S), g)
  <2> HIDE DEF AnyOf
  <2> QED
    BY <1>1, FoldExists, Zenon
<1>3. IsFree(S, f, op, g) /\ Same(S, g, h)
  BY <1>1, <1>2, FoldIsFree, FoldIsOnly, Zenon
<1>4. \A U \in SUBSET S : h[U] = g[U]
  BY <1>3 DEF Same
<1>5. ASSUME NEW U \in SUBSET S, NEW x \in U PROVE h[U] = op[<<f[x], h[U \ {x}]>>]
  <2>1. U \ {x} \in SUBSET S
    OBVIOUS
  <2> QED
    BY <1>3, <1>4, <2>1 DEF IsFree
<1> QED
  BY <1>2, <1>4, <1>5 DEF IsFold, IsFree

(* SumFunctionOnSet(f, S) is the value of this function at S.              *)
SumIter(f, S) ==
  CHOOSE iter : iter = [s \in SUBSET S |->
     IF s = {} THEN 0 ELSE f[CHOOSE x \in s : TRUE] + iter[s \ {CHOOSE x \in s : TRUE}]]

IntPlus == [p \in Int \X Int |-> p[1] + p[2]]

LEMMA IntPlusExchanges == IntPlus \in Operation(Int) /\ Exchanges(Int, IntPlus)
<1>1. \A x, y \in Int : x + y \in Int /\ IntPlus[<<x, y>>] = x + y
  BY DEF IntPlus
<1>2. IntPlus \in Operation(Int)
  BY DEF IntPlus, Operation
<1>3. ASSUME NEW x \in Int, NEW y \in Int, NEW z \in Int
      PROVE IntPlus[<<x, IntPlus[<<y, z>>]>>] = IntPlus[<<y, IntPlus[<<x, z>>]>>]
  <2>1. x + (y + z) = y + (x + z) /\ y + z \in Int /\ x + z \in Int
    OBVIOUS
  <2> QED
    BY <1>1, <2>1
<1> QED
  BY <1>2, <1>3 DEF Exchanges

AddsUp(S, f, g) ==
  /\ g[{}] = 0
  /\ \A U \in SUBSET S : g[U] \in Int
  /\ \A U \in SUBSET S : \A x \in U : g[U] = f[x] + g[U \ {x}]

LEMMA SumIterFolds ==
  ASSUME NEW S, IsFiniteSet(S), NEW f, \A s \in S : f[s] \in Int
  PROVE  AddsUp(S, f, SumIter(f, S))
<1> DEFINE F == [s \in S |-> f[s]]  pick == AnyOf(S)  h == SumIter(f, S)
<1>1. PICK g : IsFold(S, Int, 0, F, IntPlus, pick, g)
  <2>0. pick \in Picks(S)
    BY AnyIsPick
  <2>1. /\ IsFiniteSet(S) /\ 0 \in Int /\ F \in [S -> Int] /\ pick \in Picks(S)
        /\ IntPlus \in Operation(Int)
    BY <2>0, IntPlusExchanges
  <2> HIDE DEF F, pick
  <2> QED
    BY ONLY <2>1, FoldExists, Zenon
<1>2. \A U \in SUBSET S : U # {} => (CHOOSE x \in U : TRUE) \in U /\ pick[U] = CHOOSE x \in U : TRUE
  BY DEF AnyOf
<1>3. g = [s \in SUBSET S |->
     IF s = {} THEN 0 ELSE f[CHOOSE x \in s : TRUE] + g[s \ {CHOOSE x \in s : TRUE}]]
  <2>1. g \in [SUBSET S -> Int] /\ g[{}] = 0
    BY <1>1 DEF IsFold
  <2>2. ASSUME NEW U \in SUBSET S, U # {}
        PROVE  g[U] = f[CHOOSE x \in U : TRUE] + g[U \ {CHOOSE x \in U : TRUE}]
    <3> DEFINE c == CHOOSE x \in U : TRUE
    <3>1. c \in U /\ c = pick[U] /\ U \in (SUBSET S) \ {{}}
      BY <1>2, <2>2
    <3> HIDE DEF c
    <3>2. F[c] \in Int /\ F[c] = f[c] /\ g[U \ {c}] \in Int
      BY <2>1, <3>1
    <3>3. g[U] = IntPlus[<<F[c], g[U \ {c}]>>]
      BY <1>1, <3>1 DEF IsFold
    <3>4. g[U] = f[c] + g[U \ {c}]
      BY <3>2, <3>3 DEF IntPlus
    <3> QED
      BY <3>4 DEF c
  <2> QED
    BY <2>1, <2>2
<1>4. h = [s \in SUBSET S |->
     IF s = {} THEN 0 ELSE f[CHOOSE x \in s : TRUE] + h[s \ {CHOOSE x \in s : TRUE}]]
  BY <1>3, Zenon DEF SumIter
<1>5. h[{}] = 0
  <2>1. {} \in SUBSET S
    OBVIOUS
  <2> HIDE DEF h
  <2> QED
    BY <1>4, <2>1
<1>6. ASSUME NEW U \in (SUBSET S) \ {{}}, h[U \ {pick[U]}] \in Int
      PROVE h[U] = IntPlus[<<F[pick[U]], h[U \ {pick[U]}]>>]
  <2> DEFINE c == CHOOSE x \in U : TRUE
  <2>1. c \in U /\ c \in S /\ c = pick[U]
    BY <1>2
  <2>2. h[U] = f[c] + h[U \ {c}]
    <3> HIDE DEF h, pick
    <3> QED
      BY <1>4
  <2> HIDE DEF c, h, pick
  <2>3. F[c] = f[c] /\ f[c] \in Int /\ h[U \ {c}] \in Int
    BY <1>6, <2>1
  <2> HIDE DEF F
  <2> QED
    BY <2>1, <2>2, <2>3 DEF IntPlus
<1>7. F \in [S -> Int]
  OBVIOUS
<1> HIDE DEF F, h
<1>8. Unfolds(S, Int, 0, F, IntPlus, pick, h)
  BY <1>5, <1>6 DEF Unfolds
<1>9. /\ h[{}] = 0 /\ \A U \in SUBSET S : h[U] \in Int
      /\ IsFree(S, F, IntPlus, h)
  <2>1. IsFiniteSet(S) /\ 0 \in Int /\ Unfolds(S, Int, 0, F, IntPlus, AnyOf(S), h)
    BY <1>8
  <2> QED
    BY ONLY <1>7, <2>1, IntPlusExchanges, FoldedByAny, Zenon
<1>10. ASSUME NEW U \in SUBSET S, NEW x \in U PROVE h[U] = f[x] + h[U \ {x}]
  <2>1. U \ {x} \in SUBSET S /\ F[x] = f[x] /\ f[x] \in Int
    BY DEF F
  <2>2. h[U] = IntPlus[<<F[x], h[U \ {x}]>>] /\ h[U \ {x}] \in Int
    BY <1>9, <2>1 DEF IsFree
  <2> QED
    BY <2>1, <2>2 DEF IntPlus
<1> QED
  BY <1>9, <1>10 DEF h, AddsUp

LEMMA SumRules ==
  ASSUME NEW S, IsFiniteSet(S), NEW f, \A s \in S : f[s] \in Int
  PROVE  /\ SumFunctionOnSet(f, S) \in Int
         /\ S = {} => SumFunctionOnSet(f, S) = 0
         /\ \A x \in S : SumFunctionOnSet(f, S) = f[x] + SumFunctionOnSet(f, S \ {x})
<1>1. \A T : SumFunctionOnSet(f, T) = SumIter(f, T)[T]
  BY Zenon DEF SumFunctionOnSet, FoldFunctionOnSet, MapThenFoldSet, SumIter
<1>2. AddsUp(S, f, SumIter(f, S))
  BY SumIterFolds
<1> USE DEF AddsUp
<1>3. ASSUME NEW x \in S PROVE SumFunctionOnSet(f, S) = f[x] + SumFunctionOnSet(f, S \ {x})
  <2> DEFINE T == S \ {x}  a == SumIter(f, S)  b == SumIter(f, T)
  <2>1. IsFiniteSet(T) /\ T \in SUBSET S /\ S \in SUBSET S /\ T = S \cap T
        /\ \A s \in T : f[s] \in Int
    BY FS_Subset
  <2>2. /\ b[{}] = 0
        /\ \A U \in SUBSET T : b[U] \in Int
        /\ \A U \in SUBSET T : \A y \in U : b[U] = f[y] + b[U \ {y}]
    <3> HIDE DEF T
    <3> QED
      BY <2>1, SumIterFolds DEF AddsUp
  <2> HIDE DEF a, b
  <2>3. IsFree(T, f, IntPlus, b)
    <3> SUFFICES ASSUME NEW U \in SUBSET T, NEW y \in U PROVE b[U] = IntPlus[<<f[y], b[U \ {y}]>>]
      BY DEF IsFree
    <3>1. U \ {y} \in SUBSET T /\ f[y] \in Int
      OBVIOUS
    <3> HIDE DEF T
    <3> QED
      BY <2>2, <3>1 DEF IntPlus
  <2>4. IsFree(S, f, IntPlus, a)
    <3> SUFFICES ASSUME NEW U \in SUBSET S, NEW y \in U PROVE a[U] = IntPlus[<<f[y], a[U \ {y}]>>]
      BY DEF IsFree
    <3>1. U \ {y} \in SUBSET S /\ f[y] \in Int
      OBVIOUS
    <3> QED
      BY <1>2, <3>1 DEF IntPlus, a
  <2>5. /\ IsFiniteSet(S) /\ 0 \in Int /\ IntPlus \in Operation(Int)
        /\ a[{}] = 0 /\ b[{}] = 0 /\ \A s \in S \cap T : f[s] = f[s]
    BY <1>2, <2>2, IntPlusExchanges DEF a
  <2>6. Same(S \cap T, a, b)
    <3> HIDE DEF T
    <3> QED
      BY ONLY <2>3, <2>4, <2>5, FoldsAgree, Zenon
  <2>7. a[T] = b[T]
    <3> HIDE DEF T
    <3> QED
      BY <2>1, <2>6 DEF Same
  <2>8. a[S] = f[x] + a[T]
    BY <1>2, <2>1, Zenon DEF a, T
  <2> QED
    BY <1>1, <2>7, <2>8 DEF a, b
<1> QED
  BY <1>1, <1>2, <1>3

Total(f, S) == SumFunctionOnSet(f, S)

LEMMA TotalRules ==
  ASSUME NEW S, IsFiniteSet(S), NEW f, \A s \in S : f[s] \in Int
  PROVE  /\ \A U \in SUBSET S : Total(f, U) \in Int
         /\ Total(f, {}) = 0
         /\ \A U \in SUBSET S : \A x \in U : Total(f, U) = f[x] + Total(f, U \ {x})
<1>1. ASSUME NEW U \in SUBSET S
      PROVE  /\ Total(f, U) \in Int
             /\ U = {} => Total(f, U) = 0
             /\ \A x \in U : Total(f, U) = f[x] + Total(f, U \ {x})
  <2>1. IsFiniteSet(U) /\ \A s \in U : f[s] \in Int
    BY FS_Subset
  <2> QED
    BY ONLY <2>1, SumRules, Zenon DEF Total
<1>2. {} \in SUBSET S
  OBVIOUS
<1> QED
  BY <1>1, <1>2

(* What grows with a set as its sum does is its sum.                       *)
LEMMA TotalIsOnly ==
  ASSUME NEW S, IsFiniteSet(S), NEW f, \A s \in S : f[s] \in Int,
         NEW g, g[{}] = 0, \A U \in SUBSET S : \A x \in U : g[U] = f[x] + g[U \ {x}]
  PROVE  g[S] = Total(f, S)
<1> DEFINE Q == {U \in SUBSET S : g[U] = Total(f, U)}
<1>1. ASSUME NEW U \in SUBSET S, \A x \in U : U \ {x} \in Q PROVE U \in Q
  <2>1. CASE U = {}
    BY <2>1, TotalRules
  <2>2. CASE U # {}
    <3>1. PICK x \in U : TRUE
      BY <2>2
    <3>2. g[U] = f[x] + g[U \ {x}] /\ g[U \ {x}] = Total(f, U \ {x})
      BY <1>1
    <3>3. Total(f, U) = f[x] + Total(f, U \ {x})
      BY TotalRules
    <3> QED
      BY <3>2, <3>3
  <2> QED
    BY <2>1, <2>2
<1>2. SUBSET S \subseteq Q
  <2> HIDE DEF Q
  <2> QED
    BY <1>1, SubsetInduction
<1> QED
  BY <1>2

LEMMA TotalSame ==
  ASSUME NEW S, IsFiniteSet(S), NEW f, NEW h,
         \A s \in S : f[s] \in Int /\ f[s] = h[s]
  PROVE  Total(f, S) = Total(h, S)
<1> DEFINE g == [U \in SUBSET S |-> Total(f, U)]
<1>1. /\ \A U \in SUBSET S : Total(f, U) \in Int
      /\ Total(f, {}) = 0
      /\ \A U \in SUBSET S : \A x \in U : Total(f, U) = f[x] + Total(f, U \ {x})
  BY TotalRules
<1>2. g[{}] = 0 /\ g[S] = Total(f, S)
  BY <1>1
<1>3. ASSUME NEW U \in SUBSET S, NEW x \in U PROVE g[U] = h[x] + g[U \ {x}]
  <2>1. U \ {x} \in SUBSET S /\ x \in S
    OBVIOUS
  <2> QED
    BY <1>1, <2>1
<1>4. \A s \in S : h[s] \in Int
  OBVIOUS
<1> HIDE DEF g
<1> QED
  BY <1>2, <1>3, <1>4, TotalIsOnly

(* A sum of multiples. *)
LEMMA TotalScales ==
  ASSUME NEW S, IsFiniteSet(S), NEW f, \A s \in S : f[s] \in Int, NEW c \in Int
  PROVE  Total([s \in S |-> c * f[s]], S) = c * Total(f, S)
<1> DEFINE g == [U \in SUBSET S |-> c * Total(f, U)]  h == [s \in S |-> c * f[s]]
<1>1. /\ \A U \in SUBSET S : Total(f, U) \in Int
      /\ Total(f, {}) = 0
      /\ \A U \in SUBSET S : \A x \in U : Total(f, U) = f[x] + Total(f, U \ {x})
  BY TotalRules
<1>2. g[{}] = 0 /\ g[S] = c * Total(f, S)
  BY <1>1
<1>3. ASSUME NEW U \in SUBSET S, NEW x \in U PROVE g[U] = h[x] + g[U \ {x}]
  <2>1. U \ {x} \in SUBSET S /\ x \in S /\ f[x] \in Int /\ Total(f, U \ {x}) \in Int
    BY <1>1
  <2>2. c * (f[x] + Total(f, U \ {x})) = c * f[x] + c * Total(f, U \ {x})
    BY <2>1
  <2> QED
    BY <1>1, <2>1, <2>2
<1>4. ASSUME NEW s \in S PROVE h[s] \in Int
  <2>1. f[s] \in Int
    OBVIOUS
  <2> QED
    BY <2>1
<1> HIDE DEF g, h
<1>5. g[S] = Total(h, S)
  BY <1>2, <1>3, <1>4, TotalIsOnly
<1> QED
  BY <1>2, <1>5 DEF h

(* A number is added for each member of another set.                       *)
PartAdded(S, f, M, t, e) == \A s \in S : e[s] = f[s] + (IF s \in M THEN t ELSE 0)

LEMMA TotalAddsPart ==
  ASSUME NEW S, IsFiniteSet(S), NEW f, \A s \in S : f[s] \in Int, NEW M, NEW t \in Int,
         NEW e, PartAdded(S, f, M, t, e)
  PROVE  Total(e, S) = Total(f, S) + (Cardinality(S \cap M) * t)
<1> DEFINE g == [U \in SUBSET S |-> Total(f, U) + (Cardinality(U \cap M) * t)]
           h == [s \in S |-> f[s] + (IF s \in M THEN t ELSE 0)]
<1>1. /\ \A U \in SUBSET S : Total(f, U) \in Int
      /\ Total(f, {}) = 0
      /\ \A U \in SUBSET S : \A x \in U : Total(f, U) = f[x] + Total(f, U \ {x})
  <2>1. IsFiniteSet(S) /\ \A s \in S : f[s] \in Int
    OBVIOUS
  <2> QED
    BY ONLY <2>1, TotalRules
<1>2. \A U \in SUBSET S : IsFiniteSet(U \cap M) /\ Cardinality(U \cap M) \in Nat
  <2> SUFFICES ASSUME NEW U \in SUBSET S PROVE IsFiniteSet(U \cap M) /\ Cardinality(U \cap M) \in Nat
    OBVIOUS
  <2>1. IsFiniteSet(U \cap M)
    BY FS_Subset
  <2> QED
    BY <2>1, FS_CardinalityType
<1>3. g[{}] = 0 /\ g[S] = Total(f, S) + (Cardinality(S \cap M) * t)
  <2>1. {} \cap M = {} /\ Cardinality({}) = 0 /\ {} \in SUBSET S /\ 0 * t = 0 /\ 0 + 0 = 0
    BY FS_EmptySet
  <2> QED
    BY <1>1, <2>1
<1>4. ASSUME NEW U \in SUBSET S, NEW x \in U PROVE g[U] = h[x] + g[U \ {x}]
  <2> DEFINE W == U \ {x}
  <2>1. W \in SUBSET S /\ x \in S /\ f[x] \in Int /\ Total(f, W) \in Int
        /\ IsFiniteSet(U \cap M) /\ Cardinality(U \cap M) \in Nat /\ Cardinality(W \cap M) \in Nat
    BY <1>1, <1>2
  <2>2. Total(f, U) = f[x] + Total(f, W)
    BY <1>1
  <2>3. /\ g[U] = Total(f, U) + (Cardinality(U \cap M) * t)
        /\ g[W] = Total(f, W) + (Cardinality(W \cap M) * t)
        /\ h[x] = f[x] + (IF x \in M THEN t ELSE 0)
    BY <2>1
  <2>4. CASE x \in M
    <3>1. W \cap M = (U \cap M) \ {x} /\ x \in U \cap M
      BY <2>4
    <3>2. Cardinality(W \cap M) = Cardinality(U \cap M) - 1
      <4> DEFINE C == U \cap M
      <4>1. IsFiniteSet(C) /\ x \in C /\ W \cap M = C \ {x}
        BY <2>1, <3>1
      <4>2. Cardinality(C \ {x}) = Cardinality(C) - 1
        <5> HIDE DEF C
        <5> QED
          BY ONLY <4>1, FS_RemoveElement
      <4> QED
        BY <4>1, <4>2
    <3>3. (Cardinality(W \cap M) + 1) * t = (Cardinality(W \cap M) * t) + t
      BY <2>1
    <3>4. Cardinality(U \cap M) = Cardinality(W \cap M) + 1 /\ Cardinality(W \cap M) * t \in Int
      <4> HIDE DEF W
      <4> QED
        BY <2>1, <3>2
    <3>5. h[x] = f[x] + t
      BY <2>3, <2>4
    <3>6. Total(f, W) \in Int /\ f[x] \in Int /\ g[W] = Total(f, W) + (Cardinality(W \cap M) * t)
          /\ g[U] = Total(f, U) + ((Cardinality(W \cap M) * t) + t)
      <4> HIDE DEF g, h, W
      <4> QED
        BY <2>1, <2>3, <3>3, <3>4
    <3>7. g[U] = h[x] + g[W]
      <4> HIDE DEF g, h, W
      <4> QED
        BY ONLY <2>2, <3>4, <3>5, <3>6, t \in Int
    <3> QED
      BY <3>7
  <2>5. CASE x \notin M
    <3>1. W \cap M = U \cap M
      BY <2>5
    <3>2. Cardinality(W \cap M) * t \in Int
      BY <2>1
    <3>3. h[x] = f[x] + 0
      BY <2>3, <2>5
    <3>4. g[U] = h[x] + g[W]
      <4> DEFINE p == Cardinality(W \cap M) * t
      <4>1. g[U] = Total(f, U) + p /\ g[W] = Total(f, W) + p
        BY <2>3, <3>1
      <4>2. p \in Int /\ f[x] \in Int /\ Total(f, W) \in Int
        BY <2>1, <3>2
      <4> HIDE DEF g, h, W, p
      <4> QED
        BY ONLY <2>2, <3>3, <4>1, <4>2
    <3> QED
      BY <3>4
  <2> QED
    BY <2>4, <2>5
<1>5. ASSUME NEW s \in S PROVE h[s] \in Int
  <2>1. f[s] \in Int /\ (IF s \in M THEN t ELSE 0) \in Int
    OBVIOUS
  <2> QED
    BY <2>1
<1>6. \A s \in S : e[s] = h[s]
  BY DEF PartAdded
<1> HIDE DEF g, h
<1>7. g[S] = Total(h, S)
  BY <1>3, <1>4, <1>5, TotalIsOnly
<1>8. Total(h, S) = Total(e, S)
  BY <1>5, <1>6, TotalSame
<1> QED
  BY <1>3, <1>7, <1>8

-----------------------------------------------------------------------------
(* Sums of fractions. *)
Fraction == [num : Int, den : Nat \ {0}]

FractionPlus == [p \in Fraction \X Fraction |-> Plus(p[1], p[2])]

LEMMA PlusType ==
  ASSUME NEW a \in Fraction, NEW b \in Fraction
  PROVE  Plus(a, b) \in Fraction /\ FractionPlus[<<a, b>>] = Plus(a, b)
<1>1. a.num \in Int /\ a.den \in Int /\ b.num \in Int /\ b.den \in Int
  BY DEF Fraction
<1>2. a.num * b.den \in Int /\ b.num * a.den \in Int /\ a.den * b.den \in Int
  BY <1>1
<1>3. Plus(a, b) \in Fraction
  BY <1>2 DEF Plus, Fraction
<1> QED
  BY <1>3 DEF FractionPlus

LEMMA PlusChanges ==
  ASSUME NEW a \in Int, NEW b \in Int, NEW c \in Int, NEW d \in Int, NEW m \in Int, NEW n \in Int
  PROVE  /\ a * (d * n) + (c * n + m * d) * b = c * (b * n) + (a * n + m * b) * d
         /\ b * (d * n) = d * (b * n)
OBVIOUS

LEMMA FractionPlusExchanges == FractionPlus \in Operation(Fraction) /\ Exchanges(Fraction, FractionPlus)
<1>1. FractionPlus \in Operation(Fraction)
  BY PlusType DEF FractionPlus, Operation
<1>2. ASSUME NEW x \in Fraction, NEW y \in Fraction, NEW z \in Fraction
      PROVE FractionPlus[<<x, FractionPlus[<<y, z>>]>>] = FractionPlus[<<y, FractionPlus[<<x, z>>]>>]
  <2>1. /\ FractionPlus[<<x, FractionPlus[<<y, z>>]>>] = Plus(x, Plus(y, z))
        /\ FractionPlus[<<y, FractionPlus[<<x, z>>]>>] = Plus(y, Plus(x, z))
    BY PlusType
  <2>2. x.num \in Int /\ x.den \in Int /\ y.num \in Int /\ y.den \in Int /\ z.num \in Int /\ z.den \in Int
    BY DEF Fraction
  <2>3. /\ Plus(x, Plus(y, z)) =
             [num |-> x.num * (y.den * z.den) + (y.num * z.den + z.num * y.den) * x.den,
              den |-> x.den * (y.den * z.den)]
        /\ Plus(y, Plus(x, z)) =
             [num |-> y.num * (x.den * z.den) + (x.num * z.den + z.num * x.den) * y.den,
              den |-> y.den * (x.den * z.den)]
    BY DEF Plus
  <2> QED
    BY <2>1, <2>2, <2>3, PlusChanges
<1> QED
  BY <1>1, <1>2 DEF Exchanges

FractionIter(f, S) ==
  CHOOSE iter : iter = [s \in SUBSET S |->
     IF s = {} THEN Zero ELSE Plus(f[CHOOSE x \in s : TRUE], iter[s \ {CHOOSE x \in s : TRUE}])]

AddsFractions(S, f, g) ==
  /\ g[{}] = Zero
  /\ \A U \in SUBSET S : g[U] \in Fraction
  /\ \A U \in SUBSET S : \A x \in U : g[U] = Plus(f[x], g[U \ {x}])

LEMMA FractionIterFolds ==
  ASSUME NEW S, IsFiniteSet(S), NEW f \in [S -> Fraction]
  PROVE  AddsFractions(S, f, FractionIter(f, S))
<1> DEFINE pick == AnyOf(S)  h == FractionIter(f, S)
<1>0. Zero \in Fraction
  BY DEF Zero, Fraction
<1>1. PICK g : IsFold(S, Fraction, Zero, f, FractionPlus, pick, g)
  <2>1. pick \in Picks(S)
    BY AnyIsPick
  <2> HIDE DEF pick
  <2> QED
    BY <1>0, <2>1, FractionPlusExchanges, FoldExists, Zenon
<1>2. \A U \in SUBSET S : U # {} => (CHOOSE x \in U : TRUE) \in U /\ pick[U] = CHOOSE x \in U : TRUE
  BY DEF AnyOf
<1>3. g = [s \in SUBSET S |->
     IF s = {} THEN Zero ELSE Plus(f[CHOOSE x \in s : TRUE], g[s \ {CHOOSE x \in s : TRUE}])]
  <2>1. g \in [SUBSET S -> Fraction] /\ g[{}] = Zero
    BY <1>1 DEF IsFold
  <2>2. ASSUME NEW U \in SUBSET S, U # {}
        PROVE  g[U] = Plus(f[CHOOSE x \in U : TRUE], g[U \ {CHOOSE x \in U : TRUE}])
    <3> DEFINE c == CHOOSE x \in U : TRUE
    <3>1. c \in U /\ c = pick[U] /\ U \in (SUBSET S) \ {{}}
      BY <1>2, <2>2
    <3> HIDE DEF c
    <3>2. f[c] \in Fraction /\ g[U \ {c}] \in Fraction
      BY <2>1, <3>1
    <3>3. g[U] = FractionPlus[<<f[c], g[U \ {c}]>>]
      BY <1>1, <3>1 DEF IsFold
    <3>4. g[U] = Plus(f[c], g[U \ {c}])
      BY <3>2, <3>3, PlusType
    <3> QED
      BY <3>4 DEF c
  <2> QED
    BY <2>1, <2>2
<1>4. h = [s \in SUBSET S |->
     IF s = {} THEN Zero ELSE Plus(f[CHOOSE x \in s : TRUE], h[s \ {CHOOSE x \in s : TRUE}])]
  BY <1>3, Zenon DEF FractionIter
<1>5. h[{}] = Zero
  <2>1. {} \in SUBSET S
    OBVIOUS
  <2> HIDE DEF h
  <2> QED
    BY <1>4, <2>1
<1>6. ASSUME NEW U \in (SUBSET S) \ {{}}, h[U \ {pick[U]}] \in Fraction
      PROVE h[U] = FractionPlus[<<f[pick[U]], h[U \ {pick[U]}]>>]
  <2> DEFINE c == CHOOSE x \in U : TRUE
  <2>1. c \in U /\ c \in S /\ c = pick[U]
    BY <1>2
  <2>2. h[U] = Plus(f[c], h[U \ {c}])
    <3> HIDE DEF h, pick
    <3> QED
      BY <1>4
  <2> HIDE DEF c, h, pick
  <2>3. f[c] \in Fraction /\ h[U \ {c}] \in Fraction
    BY <1>6, <2>1
  <2> QED
    BY <2>1, <2>2, <2>3, PlusType
<1> HIDE DEF h
<1>7. Unfolds(S, Fraction, Zero, f, FractionPlus, pick, h)
  BY <1>5, <1>6 DEF Unfolds
<1>8. /\ h[{}] = Zero /\ \A U \in SUBSET S : h[U] \in Fraction
      /\ IsFree(S, f, FractionPlus, h)
  <2>1. IsFiniteSet(S) /\ Unfolds(S, Fraction, Zero, f, FractionPlus, AnyOf(S), h)
    BY <1>7
  <2> QED
    BY <1>0, <2>1, FractionPlusExchanges, FoldedByAny, Zenon
<1>9. ASSUME NEW U \in SUBSET S, NEW x \in U PROVE h[U] = Plus(f[x], h[U \ {x}])
  <2>1. U \ {x} \in SUBSET S /\ f[x] \in Fraction
    OBVIOUS
  <2>2. h[U] = FractionPlus[<<f[x], h[U \ {x}]>>] /\ h[U \ {x}] \in Fraction
    BY <1>8, <2>1 DEF IsFree
  <2> QED
    BY <2>1, <2>2, PlusType
<1> QED
  BY <1>8, <1>9 DEF h, AddsFractions

(* If the fractions are t over k, so is their sum.                         *)
LEMMA SumOfFractions ==
  ASSUME NEW S, IsFiniteSet(S), NEW f \in [S -> Fraction], NEW k \in Int, NEW t,
         \A s \in S : t[s] \in Int /\ f[s].num * k = t[s] * f[s].den
  PROVE  /\ SumOf(f, S) \in Fraction
         /\ SumOf(f, S).num * k = Total(t, S) * SumOf(f, S).den
<1> DEFINE h == FractionIter(f, S)
           Q == {U \in SUBSET S : h[U].num * k = Total(t, U) * h[U].den}
<1>1. SumOf(f, S) = h[S]
  BY Zenon DEF SumOf, FoldFunctionOnSet, MapThenFoldSet, FractionIter
<1>2. /\ h[{}] = Zero /\ \A U \in SUBSET S : h[U] \in Fraction
      /\ \A U \in SUBSET S : \A x \in U : h[U] = Plus(f[x], h[U \ {x}])
  <2>1. AddsFractions(S, f, h)
    BY FractionIterFolds, Zenon
  <2> HIDE DEF h
  <2> QED
    BY <2>1 DEF AddsFractions
<1>3. /\ \A U \in SUBSET S : Total(t, U) \in Int
      /\ Total(t, {}) = 0
      /\ \A U \in SUBSET S : \A x \in U : Total(t, U) = t[x] + Total(t, U \ {x})
  <2>1. IsFiniteSet(S) /\ \A s \in S : t[s] \in Int
    OBVIOUS
  <2> QED
    BY ONLY <2>1, TotalRules
<1> HIDE DEF h
<1>4. ASSUME NEW U \in SUBSET S, \A x \in U : U \ {x} \in Q PROVE U \in Q
  <2>1. CASE U = {}
    <3>1. 0 * k = 0 * 1
      OBVIOUS
    <3> QED
      BY <1>2, <1>3, <2>1, <3>1 DEF Zero
  <2>2. CASE U # {}
    <3>1. PICK x \in U : TRUE
      BY <2>2
    <3> DEFINE b == h[U \ {x}]  m == Total(t, U \ {x})
    <3>2. U \ {x} \in SUBSET S /\ x \in S
      OBVIOUS
    <3>3. /\ f[x] \in Fraction /\ t[x] \in Int /\ f[x].num * k = t[x] * f[x].den
          /\ b \in Fraction /\ m \in Int /\ b.num * k = m * b.den
      BY <1>2, <1>3, <1>4, <3>2
    <3>4. h[U] = Plus(f[x], b) /\ Total(t, U) = t[x] + m
      BY <1>2, <1>3
    <3> HIDE DEF b, m
    <3>5. /\ h[U].num = f[x].num * b.den + b.num * f[x].den /\ h[U].den = f[x].den * b.den
          /\ f[x].num \in Int /\ f[x].den \in Int /\ b.num \in Int /\ b.den \in Int
      BY <3>3, <3>4 DEF Plus, Fraction
    <3>6. (f[x].num * b.den + b.num * f[x].den) * k
            = (f[x].num * k) * b.den + (b.num * k) * f[x].den
      BY <3>5
    <3>7. (t[x] * f[x].den) * b.den + (m * b.den) * f[x].den = (t[x] + m) * (f[x].den * b.den)
      BY <3>3, <3>5
    <3> QED
      BY <3>3, <3>4, <3>5, <3>6, <3>7
  <2> QED
    BY <2>1, <2>2
<1>5. SUBSET S \subseteq Q
  <2> HIDE DEF Q
  <2> QED
    BY <1>4, SubsetInduction
<1>6. S \in Q
  BY <1>5
<1> QED
  BY <1>1, <1>2, <1>6

LEMMA TotalOfZeros ==
  ASSUME NEW S, IsFiniteSet(S), NEW f, \A s \in S : f[s] = 0
  PROVE  Total(f, S) = 0
<1> DEFINE g == [U \in SUBSET S |-> 0]
<1>1. g[{}] = 0 /\ g[S] = 0
  OBVIOUS
<1>2. ASSUME NEW U \in SUBSET S, NEW x \in U PROVE g[U] = f[x] + g[U \ {x}]
  <2>1. U \ {x} \in SUBSET S /\ f[x] = 0 /\ 0 + 0 = 0
    OBVIOUS
  <2> QED
    BY <2>1
<1>3. \A s \in S : f[s] \in Int
  OBVIOUS
<1> HIDE DEF g
<1> QED
  BY <1>1, <1>2, <1>3, TotalIsOnly

LEMMA TotalSkipsZeros ==
  ASSUME NEW S, IsFiniteSet(S), NEW f, \A s \in S : f[s] \in Int,
         NEW C \in SUBSET S, \A s \in S \ C : f[s] = 0
  PROVE  Total(f, S) = Total(f, C)
<1> DEFINE g == [U \in SUBSET S |-> Total(f, U \cap C)]
<1>1. /\ \A U \in SUBSET S : Total(f, U) \in Int
      /\ Total(f, {}) = 0
      /\ \A U \in SUBSET S : \A x \in U : Total(f, U) = f[x] + Total(f, U \ {x})
  BY TotalRules
<1>2. g[{}] = 0 /\ g[S] = Total(f, C)
  <2>1. {} \cap C = {} /\ S \cap C = C
    OBVIOUS
  <2> QED
    BY <1>1, <2>1
<1>3. ASSUME NEW U \in SUBSET S, NEW x \in U PROVE g[U] = f[x] + g[U \ {x}]
  <2> DEFINE W == U \cap C  Y == (U \ {x}) \cap C
  <2>1. W \in SUBSET S /\ Y \in SUBSET S /\ g[U] = Total(f, W) /\ g[U \ {x}] = Total(f, Y)
    OBVIOUS
  <2>2. CASE x \in C
    <3>1. x \in W /\ W \ {x} = Y
      BY <2>2
    <3>2. Total(f, W) = f[x] + Total(f, W \ {x})
      <4> HIDE DEF W
      <4> QED
        BY <1>1, <2>1, <3>1
    <3> HIDE DEF W, Y, g
    <3> QED
      BY <2>1, <3>1, <3>2
  <2>3. CASE x \notin C
    <3>1. W = Y /\ f[x] = 0 /\ Total(f, W) \in Int
      BY <1>1, <2>1, <2>3
    <3> HIDE DEF W, Y, g
    <3> QED
      BY <2>1, <3>1
  <2> QED
    BY <2>2, <2>3
<1> HIDE DEF g
<1>4. g[S] = Total(f, S)
  BY <1>2, <1>3, TotalIsOnly
<1> QED
  BY <1>2, <1>4

LEMMA TotalCounts ==
  ASSUME NEW S, IsFiniteSet(S), NEW M, NEW f, \A s \in S : f[s] = IF s \in M THEN 1 ELSE 0
  PROVE  Total(f, S) = Cardinality(S \cap M)
<1> DEFINE z == [s \in S |-> 0]
<1>1. \A s \in S : z[s] = 0
  OBVIOUS
<1>2. \A s \in S : z[s] \in Int
  OBVIOUS
<1>3. \A s \in S : f[s] = z[s] + (IF s \in M THEN 1 ELSE 0)
  OBVIOUS
<1> HIDE DEF z
<1>4. Total(z, S) = 0
  BY <1>1, TotalOfZeros
<1>5. Total(f, S) = Total(z, S) + (Cardinality(S \cap M) * 1)
  <2>1. /\ IsFiniteSet(S) /\ 1 \in Int /\ \A s \in S : z[s] \in Int
        /\ PartAdded(S, z, M, 1, f)
    BY <1>2, <1>3 DEF PartAdded
  <2> QED
    BY ONLY <2>1, TotalAddsPart
<1>6. Cardinality(S \cap M) \in Nat
  BY FS_Intersection, FS_CardinalityType
<1> QED
  BY <1>4, <1>5, <1>6

(* If every element is in the class of c elements of the set, then what is *)
(* added up over the classes of all of them counts c times.                *)
LEMMA CountedTwice ==
  ASSUME NEW S, IsFiniteSet(S), NEW f, \A s \in S : f[s] \in Int, NEW c \in Nat,
         NEW class \in [S -> SUBSET S],
         \A r, s \in S : s \in class[r] <=> r \in class[s],
         \A s \in S : Cardinality(class[s]) = c
  PROVE  Total([s \in S |-> Total(f, class[s])], S) = c * Total(f, S)
<1> DEFINE In(U) == [s \in S |-> Total(f, class[s] \cap U)]
           g == [U \in SUBSET S |-> Total(In(U), S)]
           h == [s \in S |-> c * f[s]]
<1>1. /\ \A U \in SUBSET S : Total(f, U) \in Int
      /\ Total(f, {}) = 0
      /\ \A U \in SUBSET S : \A x \in U : Total(f, U) = f[x] + Total(f, U \ {x})
  BY TotalRules
<1>2. ASSUME NEW U \in SUBSET S PROVE \A s \in S : In(U)[s] = Total(f, class[s] \cap U) /\ In(U)[s] \in Int
  <2>1. \A s \in S : class[s] \cap U \in SUBSET S
    OBVIOUS
  <2> QED
    BY <1>1, <2>1
<1>3. g[{}] = 0
  <2>1. \A s \in S : class[s] \cap {} = {}
    OBVIOUS
  <2>2. \A s \in S : In({})[s] = 0
    BY <1>1, <2>1
  <2> HIDE DEF In
  <2>3. Total(In({}), S) = 0
    BY <2>2, TotalOfZeros
  <2>4. {} \in SUBSET S
    OBVIOUS
  <2> QED
    BY <2>3, <2>4
<1>4. ASSUME NEW U \in SUBSET S, NEW x \in U PROVE g[U] = h[x] + g[U \ {x}]
  <2> DEFINE W == U \ {x}
             k == [s \in S |-> In(W)[s] + (IF s \in class[x] THEN f[x] ELSE 0)]
  <2>1. W \in SUBSET S /\ x \in S /\ f[x] \in Int
    OBVIOUS
  <2>2. ASSUME NEW s \in S PROVE In(U)[s] = k[s]
    <3> DEFINE A == class[s] \cap U  B == class[s] \cap W
    <3>1. A \in SUBSET S /\ B \in SUBSET S /\ In(U)[s] = Total(f, A) /\ In(W)[s] = Total(f, B)
          /\ Total(f, B) \in Int
      BY <1>1, <1>2, <2>1
    <3>2. CASE s \in class[x]
      <4>1. x \in A /\ A \ {x} = B /\ k[s] = In(W)[s] + f[x]
        BY <2>1, <3>2
      <4> HIDE DEF A, B, In, k
      <4>2. Total(f, A) = f[x] + Total(f, B)
        BY <1>1, <3>1, <4>1
      <4> QED
        BY <2>1, <3>1, <4>1, <4>2
    <3>3. CASE s \notin class[x]
      <4>1. A = B /\ k[s] = In(W)[s] + 0
        BY <2>1, <3>3
      <4> HIDE DEF A, B, In, k
      <4> QED
        BY <3>1, <4>1
    <3> QED
      BY <3>2, <3>3
  <2>3. \A s \in S : In(W)[s] \in Int /\ In(U)[s] \in Int
    BY <1>2, <2>1
  <2> HIDE DEF In
  <2>4. Total(In(U), S) = Total(k, S)
    <3> HIDE DEF k
    <3> QED
      BY <2>2, <2>3, TotalSame
  <2>5. Total(k, S) = Total(In(W), S) + (Cardinality(S \cap class[x]) * f[x])
    <3>1. \A s \in S : k[s] = In(W)[s] + (IF s \in class[x] THEN f[x] ELSE 0)
      OBVIOUS
    <3>2. /\ IsFiniteSet(S) /\ f[x] \in Int /\ \A s \in S : In(W)[s] \in Int
          /\ PartAdded(S, In(W), class[x], f[x], k)
      BY <2>1, <2>3, <3>1 DEF PartAdded
    <3> HIDE DEF W, k
    <3> QED
      BY ONLY <3>2, TotalAddsPart
  <2>6. S \cap class[x] = class[x] /\ Cardinality(class[x]) = c
    BY <2>1
  <2>7. h[x] = c * f[x] /\ g[U] = Total(In(U), S) /\ g[W] = Total(In(W), S)
    BY <2>1
  <2>8. c * f[x] \in Int /\ g[W] \in Int
    <3>1. Total(In(W), S) \in Int
      <4>1. S \in SUBSET S
        OBVIOUS
      <4> HIDE DEF W
      <4> QED
        BY <2>3, <4>1, TotalRules
    <3> QED
      BY <2>1, <2>7, <3>1
  <2>9. g[U] = h[x] + g[W]
    <3>1. Total(k, S) = g[W] + (c * f[x])
      BY <2>5, <2>6, <2>7
    <3> HIDE DEF W, g, h, k
    <3> QED
      BY <2>4, <2>7, <2>8, <3>1
  <2> QED
    BY <2>9
<1>5. ASSUME NEW s \in S PROVE h[s] \in Int
  <2>1. f[s] \in Int
    OBVIOUS
  <2> QED
    BY <2>1
<1>6. g[S] = Total(h, S)
  <2> HIDE DEF g, h
  <2> QED
    BY <1>3, <1>4, <1>5, TotalIsOnly
<1>7. Total(h, S) = c * Total(f, S)
  BY TotalScales
<1>8. In(S) = [s \in S |-> Total(f, class[s])] /\ g[S] = Total(In(S), S)
  <2>1. \A s \in S : class[s] \cap S = class[s]
    OBVIOUS
  <2> QED
    BY <2>1
<1> QED
  BY <1>6, <1>7, <1>8

-----------------------------------------------------------------------------
(* Words. *)
Size == 2^Bits

LEMMA SizeIsPositive == Size \in Nat /\ Size > 0 /\ Word = 0..(Size - 1)
<1>1. IsFiniteSet(1..Bits) /\ Cardinality(1..Bits) = Bits
  BY ValueAssumption, FS_Interval
<1>2. IsFiniteSet(SUBSET (1..Bits)) /\ Cardinality(SUBSET (1..Bits)) = 2 ^ Bits
  BY <1>1, FS_SUBSET
<1>3. 2 ^ Bits \in Nat
  BY <1>2, FS_CardinalityType
<1>4. 2 ^ Bits # 0
  <2>1. SUBSET (1..Bits) # {}
    OBVIOUS
  <2> QED
    BY <1>2, <2>1, FS_EmptySet
<1> QED
  BY <1>3, <1>4 DEF Size, Word

(* A sum of two words has wrapped if it is less than one of them.          *)
LEMMA WrappedIsLess ==
  ASSUME NEW m \in Nat, m > 0, NEW a \in 0..(m - 1), NEW v \in 0..(m - 1)
  PROVE  /\ (a + v) % m \in 0..(m - 1)
         /\ (a + v) % m < v <=> a + v >= m
         /\ a + v < m => (a + v) % m = a + v
<1>1. (a + v) % m \in Int /\ 0 <= (a + v) % m /\ (a + v) % m < m
  OBVIOUS
<1>2. a + v < m => (a + v) % m = a + v
  OBVIOUS
<1>3. a + v >= m => (a + v) % m = (a + v) - m
  <2> SUFFICES ASSUME a + v >= m PROVE (a + v) % m = (a + v) - m
    OBVIOUS
  <2>1. (a + v) - m \in 0..(m - 1)
    OBVIOUS
  <2> DEFINE q == (a + v) - m
  <2>2. (m * 1 + q) % m = q
    BY <2>1
  <2>3. m * 1 + q = a + v
    OBVIOUS
  <2> QED
    BY <2>2, <2>3
<1> QED
  BY <1>1, <1>2, <1>3

-----------------------------------------------------------------------------
(* Minima and maxima. *)
IsMin(m, S) == m \in S /\ \A n \in S : m <= n
IsMax(m, S) == m \in S /\ \A n \in S : m >= n

LEMMA MinIsOnly ==
  ASSUME NEW S \in SUBSET Int, NEW m
  PROVE  /\ IsMin(m, S) => Min(S) = m
         /\ IsMax(m, S) => Max(S) = m
<1>1. ASSUME IsMin(m, S) PROVE Min(S) = m
  <2>1. \E x \in S : \A y \in S : x =< y
    BY <1>1 DEF IsMin
  <2>2. Min(S) \in S /\ \A y \in S : Min(S) =< y
    BY <2>1 DEF Min
  <2>3. m \in Int /\ Min(S) \in Int /\ m <= Min(S) /\ Min(S) <= m
    BY <1>1, <2>2 DEF IsMin
  <2> QED
    BY ONLY <2>3
<1>2. ASSUME IsMax(m, S) PROVE Max(S) = m
  <2>1. \E x \in S : \A y \in S : x >= y
    BY <1>2 DEF IsMax
  <2>2. Max(S) \in S /\ \A y \in S : Max(S) >= y
    BY <2>1 DEF Max
  <2>3. m \in Int /\ Max(S) \in Int /\ m >= Max(S) /\ Max(S) >= m
    BY <1>2, <2>2 DEF IsMax
  <2> QED
    BY ONLY <2>3
<1> QED
  BY <1>1, <1>2

LEMMA MinExists ==
  ASSUME NEW S \in SUBSET Int, IsFiniteSet(S), S # {}
  PROVE  IsMin(Min(S), S) /\ IsMax(Max(S), S)
<1> DEFINE Q == {U \in SUBSET S : U = {} \/ ((\E m \in U : IsMin(m, U)) /\ (\E m \in U : IsMax(m, U)))}
<1>1. ASSUME NEW U \in SUBSET S, \A x \in U : U \ {x} \in Q PROVE U \in Q
  <2>1. CASE U = {}
    BY <2>1
  <2>2. CASE U # {}
    <3>1. PICK x \in U : TRUE
      BY <2>2
    <3>2. CASE U \ {x} = {}
      <4>1. U = {x} /\ x \in Int
        BY <3>2
      <4>2. IsMin(x, U) /\ IsMax(x, U)
        BY <4>1 DEF IsMin, IsMax
      <4> QED
        BY <4>2
    <3>3. CASE U \ {x} # {}
      <4>1. PICK m, n \in U \ {x} : IsMin(m, U \ {x}) /\ IsMax(n, U \ {x})
        BY <1>1, <3>3
      <4>2. x \in Int /\ m \in Int /\ n \in Int /\ U \in SUBSET Int
        OBVIOUS
      <4>3. \E k \in U : IsMin(k, U)
        <5>1. IF x <= m THEN IsMin(x, U) ELSE IsMin(m, U)
          BY <4>1, <4>2 DEF IsMin
        <5> QED
          BY <5>1
      <4>4. \E k \in U : IsMax(k, U)
        <5>1. IF x >= n THEN IsMax(x, U) ELSE IsMax(n, U)
          BY <4>1, <4>2 DEF IsMax
        <5> QED
          BY <5>1
      <4> QED
        BY <4>3, <4>4
    <3> QED
      BY <3>2, <3>3
  <2> QED
    BY <2>1, <2>2
<1>2. SUBSET S \subseteq Q
  <2> HIDE DEF Q
  <2> QED
    BY <1>1, SubsetInduction
<1>3. S \in Q
  BY <1>2
<1>4. PICK m, n \in S : IsMin(m, S) /\ IsMax(n, S)
  BY <1>3
<1> QED
  BY <1>4, MinIsOnly

(* The least of the least members of some sets is that of all of them.     *)
LEMMA LeastOfAll ==
  ASSUME NEW S, IsFiniteSet(S), S # {}, NEW m, NEW A, NEW B \in SUBSET Int,
         \A n \in B : \E s \in S : n \in A[s],
         \A s \in S : A[s] \subseteq B
  PROVE  /\ (\A s \in S : IsMin(m[s], A[s])) => IsMin(Min({m[s] : s \in S}), B)
         /\ (\A s \in S : IsMax(m[s], A[s])) => IsMax(Max({m[s] : s \in S}), B)
<1> DEFINE M == {m[s] : s \in S}
<1>1. IsFiniteSet(M) /\ M # {}
  <2> DEFINE g == [s \in S |-> m[s]]
  <2>1. g \in Surjection(S, M)
    BY DEF Surjection
  <2> HIDE DEF M, g
  <2>2. IsFiniteSet(M)
    BY <2>1, FS_Surjection
  <2> QED
    BY <2>2 DEF M
<1>2. ASSUME \A s \in S : IsMin(m[s], A[s]) PROVE IsMin(Min(M), B)
  <2>1. M \in SUBSET B
    BY <1>2 DEF IsMin
  <2>2. IsMin(Min(M), M)
    <3> HIDE DEF M
    <3> QED
      BY <1>1, <2>1, MinExists
  <2>3. ASSUME NEW n \in B PROVE Min(M) <= n
    <3>1. PICK s \in S : n \in A[s]
      OBVIOUS
    <3>2. m[s] <= n /\ m[s] \in M
      BY <1>2, <3>1 DEF IsMin
    <3>3. Min(M) <= m[s] /\ Min(M) \in Int /\ m[s] \in Int /\ n \in Int
      BY <2>1, <2>2, <3>2 DEF IsMin
    <3> HIDE DEF M
    <3> QED
      BY <3>2, <3>3
  <2> HIDE DEF M
  <2> QED
    BY <2>1, <2>2, <2>3 DEF IsMin
<1>3. ASSUME \A s \in S : IsMax(m[s], A[s]) PROVE IsMax(Max(M), B)
  <2>1. M \in SUBSET B
    BY <1>3 DEF IsMax
  <2>2. IsMax(Max(M), M)
    <3> HIDE DEF M
    <3> QED
      BY <1>1, <2>1, MinExists
  <2>3. ASSUME NEW n \in B PROVE Max(M) >= n
    <3>1. PICK s \in S : n \in A[s]
      OBVIOUS
    <3>2. m[s] >= n /\ m[s] \in M
      BY <1>3, <3>1 DEF IsMax
    <3>3. Max(M) >= m[s] /\ Max(M) \in Int /\ m[s] \in Int /\ n \in Int
      BY <2>1, <2>2, <3>2 DEF IsMax
    <3> HIDE DEF M
    <3> QED
      BY <3>2, <3>3
  <2> HIDE DEF M
  <2> QED
    BY <2>1, <2>2, <2>3 DEF IsMax
<1> QED
  BY <1>2, <1>3

-----------------------------------------------------------------------------
(* Natural numbers add up to no less than some of them do. *)
LEMMA PartIsLess ==
  ASSUME NEW S, IsFiniteSet(S), NEW f, \A s \in S : f[s] \in Nat
  PROVE  /\ \A U \in SUBSET S : Total(f, U) \in Nat
         /\ \A U \in SUBSET S : Total(f, U) <= Total(f, S)
<1>1. /\ \A U \in SUBSET S : Total(f, U) \in Int
      /\ Total(f, {}) = 0
      /\ \A U \in SUBSET S : \A x \in U : Total(f, U) = f[x] + Total(f, U \ {x})
  <2>1. IsFiniteSet(S) /\ \A s \in S : f[s] \in Int
    OBVIOUS
  <2> QED
    BY ONLY <2>1, TotalRules
<1> DEFINE Q == {U \in SUBSET S : \A W \in SUBSET U : Total(f, W) \in Nat /\ Total(f, W) <= Total(f, U)}
<1>2. ASSUME NEW U \in SUBSET S, \A x \in U : U \ {x} \in Q PROVE U \in Q
  <2>1. ASSUME NEW W \in SUBSET U, W # U PROVE Total(f, W) \in Nat /\ Total(f, W) <= Total(f, U)
    <3>1. PICK x \in U : x \notin W
      BY <2>1
    <3>2. W \in SUBSET (U \ {x}) /\ f[x] \in Nat /\ U \ {x} \in Q
      BY <1>2, <3>1
    <3>3. Total(f, W) \in Nat /\ Total(f, W) <= Total(f, U \ {x})
      BY <3>2
    <3>4. Total(f, U) = f[x] + Total(f, U \ {x}) /\ Total(f, U \ {x}) \in Int
      BY <1>1
    <3> HIDE DEF Q
    <3> QED
      BY <3>2, <3>3, <3>4
  <2>2. Total(f, U) \in Nat
    <3>1. CASE U = {}
      BY <1>1, <3>1
    <3>2. CASE U # {}
      <4>1. {} \in SUBSET U /\ {} # U
        BY <3>2
      <4>2. Total(f, {}) <= Total(f, U)
        BY <2>1, <4>1
      <4> QED
        BY <1>1, <4>2
    <3> QED
      BY <3>1, <3>2
  <2>3. Total(f, U) <= Total(f, U)
    BY <2>2
  <2> QED
    BY <2>1, <2>2, <2>3
<1>3. SUBSET S \subseteq Q
  <2> HIDE DEF Q
  <2> QED
    BY <1>2, SubsetInduction
<1>4. S \in Q
  BY <1>3
<1> QED
  BY <1>4

(***************************************************************************)
(* The inductive invariant: what each stage has made of the samples.       *)
(***************************************************************************)

(* m.min and m.max are those of the values A, m.ave is sum / count.        *)
Figures(m, A, sum, count) ==
  /\ IsMin(m.min, A)
  /\ IsMax(m.max, A)
  /\ m.ave.num * count = sum * m.ave.den

Mma == [min : Int, max : Int, total : Int, ave : Fraction]

Samples == [1..Iters -> Word]

(* Of the samples t those of l are left: m is that of the others.          *)
Accumulates(l, t, m) ==
  LET popped == (Len(l) + 1)..Iters
  IN  /\ Len(l) \in 0..Iters
      /\ \A i \in 1..Len(l) : l[i] = t[i]
      /\ m.total \in Word
      /\ m.total = Total(t, popped)
      /\ Len(l) < Iters => /\ IsMin(m.min, {t[i] : i \in popped})
                           /\ IsMax(m.max, {t[i] : i \in popped})

Overflowed(t, m) == m = Null /\ Total(t, 1..Iters) \notin Word

Reduced(t, m) ==
  /\ m.total \in Word
  /\ Total(t, 1..Iters) \in Word
  /\ Figures(m, {t[i] : i \in 1..Iters}, Total(t, 1..Iters), Iters)

LEMMA SampleTotals ==
  ASSUME NEW t \in Samples
  PROVE  /\ IsFiniteSet(1..Iters)
         /\ \A i \in 1..Iters : t[i] \in Nat
         /\ \A U \in SUBSET (1..Iters) : Total(t, U) \in Nat
         /\ \A U \in SUBSET (1..Iters) : Total(t, U) <= Total(t, 1..Iters)
         /\ Total(t, {}) = 0
         /\ \A U \in SUBSET (1..Iters) : \A x \in U : Total(t, U) = t[x] + Total(t, U \ {x})
<1>1. IsFiniteSet(1..Iters)
  BY ItersAssumption, FS_Interval
<1>2. \A i \in 1..Iters : t[i] \in Nat
  BY SizeIsPositive DEF Samples
<1>3. \A i \in 1..Iters : t[i] \in Int
  BY <1>2
<1>4. /\ \A U \in SUBSET (1..Iters) : Total(t, U) \in Nat
      /\ \A U \in SUBSET (1..Iters) : Total(t, U) <= Total(t, 1..Iters)
  BY ONLY <1>1, <1>2, PartIsLess
<1>5. /\ Total(t, {}) = 0
      /\ \A U \in SUBSET (1..Iters) : \A x \in U : Total(t, U) = t[x] + Total(t, U \ {x})
  <2> DEFINE S == 1..Iters
  <2>1. IsFiniteSet(S) /\ \A i \in S : t[i] \in Int
    BY <1>1, <1>3
  <2>2. /\ Total(t, {}) = 0
        /\ \A U \in SUBSET S : \A x \in U : Total(t, U) = t[x] + Total(t, U \ {x})
    <3> HIDE DEF S
    <3> QED
      BY ONLY <2>1, TotalRules
  <2> QED
    BY <2>2
<1> QED
  BY <1>1, <1>2, <1>4, <1>5

LEMMA BlankAccumulates ==
  ASSUME NEW t \in Samples
  PROVE  /\ t \in Seq(Word)
         /\ Blank \in Mma
         /\ Accumulates(t, t, Blank)
<1>1. t \in Seq(Word) /\ Len(t) = Iters
  BY ItersAssumption DEF Samples
<1>2. (Len(t) + 1)..Iters = {}
  BY <1>1, ItersAssumption
<1>3. Total(t, {}) = 0 /\ 0 \in Word
  BY SampleTotals, SizeIsPositive
<1>4. Blank.total = 0 /\ Blank \in Mma
  BY DEF Blank, Mma, Zero, Fraction
<1>5. Len(t) \in 0..Iters /\ ~(Len(t) < Iters)
  BY <1>1, ItersAssumption
<1> QED
  BY <1>1, <1>2, <1>3, <1>4, <1>5 DEF Accumulates

(* What popping the latest sample from the list does to the set popped.    *)
LEMMA Pops ==
  ASSUME NEW t \in Samples, NEW l \in Seq(Word), l # << >>, NEW m \in Mma,
         Accumulates(l, t, m)
  PROVE  LET k == Len(l) IN
         /\ k \in 1..Iters
         /\ Last(l) = t[k] /\ t[k] \in Word
         /\ k..Iters \in SUBSET (1..Iters)
         /\ k..Iters = ((k + 1)..Iters) \union {k}
         /\ Total(t, k..Iters) = m.total + t[k]
         /\ Front(l) \in Seq(Word)
         /\ Len(Front(l)) = k - 1
         /\ \A i \in 1..(k - 1) : Front(l)[i] = t[i]
<1> DEFINE k == Len(l)
<1>1. k \in Nat /\ k # 0 /\ k \in 0..Iters
  BY DEF Accumulates
<1>2. k \in 1..Iters
  BY <1>1
<1>3. Last(l) = t[k] /\ t[k] \in Word
  BY <1>2 DEF Accumulates, Last, Samples
<1>4. /\ k..Iters \in SUBSET (1..Iters) /\ k \in k..Iters
      /\ (k..Iters) \ {k} = (k + 1)..Iters
      /\ k..Iters = ((k + 1)..Iters) \union {k}
  BY <1>2, ItersAssumption
<1>5. Total(t, k..Iters) = t[k] + Total(t, (k + 1)..Iters)
  <2> DEFINE U == k..Iters
  <2>1. Total(t, U) = t[k] + Total(t, U \ {k})
    <3>1. U \in SUBSET (1..Iters) /\ k \in U
      BY <1>4
    <3> HIDE DEF U, k
    <3> QED
      BY <3>1, SampleTotals
  <2> QED
    BY <1>4, <2>1
<1>6. m.total = Total(t, (k + 1)..Iters) /\ m.total \in Int /\ t[k] \in Int
  BY <1>3, SizeIsPositive DEF Accumulates, Mma
<1>7. Total(t, k..Iters) = m.total + t[k]
  BY <1>5, <1>6
<1>8. /\ Front(l) \in Seq(Word) /\ Len(Front(l)) = k - 1
      /\ \A i \in 1..(k - 1) : Front(l)[i] = l[i]
  <2>1. l \in Seq(Word) /\ 1 \in 1..(Len(l) + 1) /\ Len(l) - 1 \in 0..Len(l) /\ k - 1 \in Nat
    BY <1>1
  <2> HIDE DEF k
  <2>2. Front(l) = [i \in 1..(k - 1) |-> l[i]]
    BY <2>1 DEF Front, k
  <2>3. \A i \in 1..(k - 1) : l[i] \in Word
    BY <2>1 DEF k
  <2> QED
    BY <2>1, <2>2, <2>3
<1>9. \A i \in 1..(k - 1) : Front(l)[i] = t[i]
  BY <1>1, <1>8 DEF Accumulates
<1> QED
  BY <1>2, <1>3, <1>4, <1>7, <1>8, <1>9

LEMMA AnotherIsLeast ==
  ASSUME NEW S \in SUBSET Int, NEW v \in Int, NEW m \in Int, IsMin(m, S)
  PROVE  IsMin(IF v < m THEN v ELSE m, S \union {v})
BY DEF IsMin

LEMMA AnotherIsGreatest ==
  ASSUME NEW S \in SUBSET Int, NEW v \in Int, NEW m \in Int, IsMax(m, S)
  PROVE  IsMax(IF v > m THEN v ELSE m, S \union {v})
BY DEF IsMax

LEMMA StillAccumulates ==
  ASSUME NEW t \in Samples, NEW l \in Seq(Word), l # << >>, NEW m \in Mma,
         Accumulates(l, t, m),
         NEW n \in Mma,
         n.total = (m.total + Last(l)) % 2^Bits,
         ~(n.total < Last(l)),
         n.min = IF l = t \/ Last(l) < m.min THEN Last(l) ELSE m.min,
         n.max = IF l = t \/ Last(l) > m.max THEN Last(l) ELSE m.max
  PROVE  Front(l) \in Seq(Word) /\ Accumulates(Front(l), t, n)
<1> DEFINE k == Len(l)  popped == (k + 1)..Iters  more == k..Iters
<1>1. /\ k \in 1..Iters
      /\ Last(l) = t[k] /\ t[k] \in Word
      /\ more \in SUBSET (1..Iters)
      /\ more = popped \union {k}
      /\ Total(t, more) = m.total + t[k]
      /\ Front(l) \in Seq(Word)
      /\ Len(Front(l)) = k - 1
      /\ \A i \in 1..(k - 1) : Front(l)[i] = t[i]
  BY Pops
<1>2. m.total \in Word
  BY DEF Accumulates
<1>3. n.total \in Word /\ n.total = Total(t, more)
  <2>1. Size \in Nat /\ Size > 0 /\ m.total \in 0..(Size - 1) /\ t[k] \in 0..(Size - 1)
    BY <1>1, <1>2, SizeIsPositive
  <2>2. n.total = (m.total + t[k]) % Size /\ ~(n.total < t[k])
    BY <1>1 DEF Size
  <2> HIDE DEF k, more
  <2>3. /\ (m.total + t[k]) % Size \in 0..(Size - 1)
        /\ (m.total + t[k]) % Size < t[k] <=> m.total + t[k] >= Size
        /\ m.total + t[k] < Size => (m.total + t[k]) % Size = m.total + t[k]
    BY ONLY <2>1, WrappedIsLess
  <2>4. m.total + t[k] < Size
    BY <2>1, <2>2, <2>3
  <2> QED
    BY <1>1, <2>2, <2>3, <2>4, SizeIsPositive
<1> DEFINE P == {t[i] : i \in popped}  A == {t[i] : i \in more}
<1>4. A = P \union {t[k]} /\ t[k] \in Int /\ m.min \in Int /\ m.max \in Int
  <2>1. t[k] \in Int /\ m.min \in Int /\ m.max \in Int
    BY <1>1, SizeIsPositive DEF Mma
  <2>2. A = P \union {t[k]}
    <3>1. more = popped \union {k}
      BY <1>1
    <3> HIDE DEF more, popped, k
    <3> QED
      BY <3>1
  <2> QED
    BY <2>1, <2>2
<1>5. IsMin(n.min, A) /\ IsMax(n.max, A)
  <2>1. CASE k = Iters
    <3>1. l = t
      <4>1. t \in Seq(Word) /\ Len(t) = Iters
        BY ItersAssumption DEF Samples
      <4>2. \A i \in 1..k : l[i] = t[i]
        BY DEF Accumulates
      <4> QED
        BY <2>1, <4>1, <4>2
    <3>2. popped = {}
      BY <1>1, <2>1, ItersAssumption
    <3>3. A = {t[k]} /\ n.min = t[k] /\ n.max = t[k]
      BY <1>1, <1>4, <3>1, <3>2
    <3>4. n.min <= t[k] /\ n.max >= t[k]
      BY <1>4, <3>3
    <3> HIDE DEF k, A
    <3> QED
      BY <3>3, <3>4 DEF IsMin, IsMax
  <2>2. CASE k # Iters
    <3>1. l # t /\ k < Iters
      <4>1. Len(t) = Iters
        BY ItersAssumption DEF Samples
      <4> QED
        BY <1>1, <2>2, <4>1
    <3>2. IsMin(m.min, P) /\ IsMax(m.max, P)
      BY <3>1 DEF Accumulates
    <3>3. P \in SUBSET Int
      <4>1. \A i \in popped : i \in more /\ i \in 1..Iters
        BY <1>1
      <4> HIDE DEF popped
      <4> QED
        BY <4>1, SampleTotals
    <3>4. /\ n.min = IF t[k] < m.min THEN t[k] ELSE m.min
          /\ n.max = IF t[k] > m.max THEN t[k] ELSE m.max
      BY <1>1, <3>1
    <3> HIDE DEF k, A, P
    <3> QED
      BY <1>4, <3>2, <3>3, <3>4, AnotherIsLeast, AnotherIsGreatest
  <2> QED
    BY <2>1, <2>2
<1>6. Len(Front(l)) + 1 = k /\ Len(Front(l)) \in 0..Iters /\ Len(Front(l)) = k - 1
  <2>1. k \in Int /\ Iters \in Nat /\ k >= 1 /\ k <= Iters /\ Len(Front(l)) = k - 1
    BY <1>1, ItersAssumption
  <2> HIDE DEF k
  <2> QED
    BY ONLY <2>1
<1> HIDE DEF k
<1> QED
  BY <1>1, <1>3, <1>5, <1>6 DEF Accumulates

LEMMA OverflowsOnly ==
  ASSUME NEW t \in Samples, NEW l \in Seq(Word), l # << >>, NEW m \in Mma,
         Accumulates(l, t, m),
         (m.total + Last(l)) % 2^Bits < Last(l)
  PROVE  Total(t, 1..Iters) \notin Word
<1> DEFINE k == Len(l)  more == k..Iters
<1>1. /\ k \in 1..Iters
      /\ Last(l) = t[k] /\ t[k] \in Word
      /\ more \in SUBSET (1..Iters)
      /\ Total(t, more) = m.total + t[k]
  BY Pops
<1>2. Size \in Nat /\ Size > 0 /\ m.total \in 0..(Size - 1) /\ t[k] \in 0..(Size - 1)
  BY <1>1, SizeIsPositive DEF Accumulates
<1>3. (m.total + t[k]) % Size < t[k]
  BY <1>1 DEF Size
<1> HIDE DEF k, more
<1>4. (m.total + t[k]) % Size < t[k] <=> m.total + t[k] >= Size
  BY ONLY <1>2, WrappedIsLess
<1>5. Total(t, more) <= Total(t, 1..Iters) /\ Total(t, more) \in Nat /\ Total(t, 1..Iters) \in Nat
  BY <1>1, SampleTotals
<1> QED
  BY <1>1, <1>2, <1>3, <1>4, <1>5, SizeIsPositive

LEMMA EndsReduced ==
  ASSUME NEW t \in Samples, NEW l, l = << >>, NEW m \in Mma,
         Accumulates(l, t, m),
         NEW n \in Mma,
         n.min = m.min, n.max = m.max, n.total = m.total,
         n.ave = [num |-> m.total, den |-> Len(t)]
  PROVE  Reduced(t, n)
<1>1. Len(l) = 0 /\ Len(t) = Iters /\ 0 < Iters /\ 0 + 1 = 1
  BY ItersAssumption DEF Samples
<1>2. /\ m.total \in Word /\ m.total = Total(t, 1..Iters)
      /\ IsMin(m.min, {t[i] : i \in 1..Iters}) /\ IsMax(m.max, {t[i] : i \in 1..Iters})
  BY <1>1 DEF Accumulates
<1>3. n.ave.num = Total(t, 1..Iters) /\ n.ave.den = Iters
  BY <1>1, <1>2
<1> QED
  BY <1>2, <1>3 DEF Reduced, Figures

(* The jobs there are.                                                     *)
Given ==
  /\ node \in Placement
  /\ taken \in [Rank -> Samples]
  /\ \A r \in Rank : IsBogus(r) => \A i \in 1..Iters : taken[r][i] = 0

Places == {"local", "node", "crashed", "reduce", "global", "done"}

TypeInv ==
  /\ pc \in [Rank -> Places]
  /\ list \in [Rank -> Seq(Word)]
  /\ mma \in [Rank -> Mma]
  /\ nodeMma \in [Rank -> Mma]
  /\ globalMma \in [Rank -> Mma]

LocalInv(r) ==
  /\ pc[r] = "local" => Accumulates(list[r], taken[r], mma[r])
  /\ pc[r] \in {"node", "crashed"} => Overflowed(taken[r], mma[r]) \/ Reduced(taken[r], mma[r])
  /\ pc[r] \in {"reduce", "global", "done"} => Reduced(taken[r], mma[r])

(* What the samples of the node of r that count are, and come to.          *)
NodeReal(r) == {taken[s][i] : s \in {q \in OnNode(r) : ~IsBogus(q)}, i \in 1..Iters}
Sums == [s \in Rank |-> SumTaken(s)]
NodeSum(r) == Total(Sums, OnNode(r))

NodeInv(r) ==
  pc[r] \in {"global", "done"} =>
    Figures(nodeMma[r], NodeReal(r), NodeSum(r), Iters * NodeDivisor(r))

GlobalInv(r) ==
  pc[r] = "done" => Figures(globalMma[r], Real, SumReal, CountReal)

ReductionInv ==
  /\ Given
  /\ TypeInv
  /\ \A r \in Rank : LocalInv(r) /\ NodeInv(r) /\ GlobalInv(r)

-----------------------------------------------------------------------------
(* Nodes and those who collect on them. *)
LEMMA Ranks == IsFiniteSet(Rank) /\ Cardinality(Rank) = N /\ Rank # {} /\ Rank \in SUBSET Int
<1>1. IsFiniteSet(0..(N - 1)) /\ Cardinality(0..(N - 1)) = N
  <2>1. 0 \in Int /\ N - 1 \in Int /\ (N - 1) - 0 + 1 = N /\ 0 <= N - 1
    BY NAssumption
  <2> QED
    BY <2>1, FS_Interval
<1> QED
  BY <1>1, NAssumption DEF Rank

LEMMA NodesAreEven ==
  ASSUME Given
  PROVE  \E c \in Nat : c > 0 /\ \A r \in Rank : Cardinality(OnNode(r)) = c
<1>1. PICK q \in Rank : TRUE
  BY Ranks
<1> DEFINE c == Cardinality(OnNode(q))
<1>2. \A r \in Rank : Cardinality(OnNode(r)) = c
  BY <1>1, EvenAssumption DEF Given, OnNode
<1>3. OnNode(q) \in SUBSET Rank /\ q \in OnNode(q)
  BY DEF OnNode, OnNodeOf
<1>4. IsFiniteSet(OnNode(q))
  BY <1>3, Ranks, FS_Subset
<1>5. c \in Nat /\ c # 0
  <2>1. c \in Nat
    BY <1>4, FS_CardinalityType
  <2>2. c # 0
    BY <1>3, <1>4, FS_EmptySet
  <2> QED
    BY <2>1, <2>2
<1> HIDE DEF c
<1> QED
  BY <1>2, <1>5

LEMMA NodeMates ==
  ASSUME NEW r \in Rank
  PROVE  /\ OnNode(r) \in SUBSET Rank /\ r \in OnNode(r) /\ IsFiniteSet(OnNode(r))
         /\ \A s \in OnNode(r) : OnNode(s) = OnNode(r)
<1>1. OnNode(r) \in SUBSET Rank /\ r \in OnNode(r) /\ \A s \in OnNode(r) : OnNode(s) = OnNode(r)
  BY DEF OnNode, OnNodeOf
<1>2. IsFiniteSet(OnNode(r))
  BY <1>1, Ranks, FS_Subset
<1> QED
  BY <1>1, <1>2

(* Of a node exactly one process collects real node samples.               *)
LEMMA OneCollects ==
  ASSUME type = "node_post", NEW r \in Rank
  PROVE  \E q \in OnNode(r) :
           /\ ~IsBogus(q)
           /\ \A s \in OnNode(r) : s # q => IsBogus(s)
<1> DEFINE q == Min(OnNode(r))
<1>1. /\ OnNode(r) \in SUBSET Rank /\ r \in OnNode(r) /\ IsFiniteSet(OnNode(r))
      /\ \A s \in OnNode(r) : OnNode(s) = OnNode(r)
  BY NodeMates
<1>2. q \in OnNode(r)
  <2>1. OnNode(r) \in SUBSET Int /\ OnNode(r) # {}
    BY <1>1, Ranks
  <2> QED
    BY <1>1, <2>1, MinExists DEF IsMin
<1>3. \A s \in OnNode(r) : Min(OnNode(s)) = q
  BY <1>1
<1> HIDE DEF q
<1> QED
  BY <1>2, <1>3 DEF IsBogus

LEMMA AllCollect ==
  ASSUME type # "node_post"
  PROVE  \A r : ~IsBogus(r)
BY DEF IsBogus

LEMMA SumsTaken ==
  ASSUME Given, NEW r \in Rank
  PROVE  /\ taken[r] \in Samples
         /\ SumTaken(r) = Total(taken[r], 1..Iters)
         /\ SumTaken(r) \in Nat
         /\ Sums[r] = SumTaken(r)
<1>1. taken[r] \in Samples
  BY DEF Given
<1>2. SumTaken(r) = Total(taken[r], 1..Iters)
  BY <1>1 DEF SumTaken, SumFunction, Total, Samples
<1>3. Total(taken[r], 1..Iters) \in Nat
  BY <1>1, SampleTotals
<1> QED
  BY <1>1, <1>2, <1>3 DEF Sums

(* The bogus add nothing. *)
LEMMA BogusIsZero ==
  ASSUME Given, NEW r \in Rank, IsBogus(r)
  PROVE  SumTaken(r) = 0 /\ {taken[r][i] : i \in 1..Iters} = {0}
<1>1. \A i \in 1..Iters : taken[r][i] = 0
  BY DEF Given
<1>2. IsFiniteSet(1..Iters) /\ 1 \in 1..Iters
  BY ItersAssumption, FS_Interval
<1>3. Total(taken[r], 1..Iters) = 0
  <2> DEFINE S == 1..Iters
  <2>1. IsFiniteSet(S) /\ \A i \in S : taken[r][i] = 0
    BY <1>1, <1>2
  <2> HIDE DEF S
  <2>2. Total(taken[r], S) = 0
    BY <2>1, TotalOfZeros
  <2> QED
    BY <2>2 DEF S
<1>4. {taken[r][i] : i \in 1..Iters} = {0}
  BY <1>1, <1>2
<1> QED
  BY <1>3, <1>4, SumsTaken

-----------------------------------------------------------------------------
LEMMA ProductIsPositive ==
  ASSUME NEW p \in Int, NEW q \in Int, p > 0, q > 0
  PROVE  p * q \in Int /\ p * q > 0
<1>1. p * q \in Int /\ p * q # 0
  OBVIOUS
<1>2. ~(p * q < 0)
  OBVIOUS
<1> QED
  BY <1>1, <1>2

(* What a stage makes of the averages of the stage before it.              *)
Averaged(S, m, k, d, t, a) ==
  /\ IsFiniteSet(S)
  /\ k \in Int /\ d \in Nat \ {0}
  /\ \A s \in S : m[s] \in Mma
  /\ \A s \in S : t[s] \in Int /\ m[s].ave.num * k = t[s] * m[s].ave.den
  /\ a = Over(SumOf([s \in S |-> m[s].ave], S), d)

LEMMA AverageOfAverages ==
  ASSUME NEW S, NEW m, NEW k, NEW d, NEW t, NEW a, Averaged(S, m, k, d, t, a)
  PROVE  a \in Fraction /\ a.num * (k * d) = Total(t, S) * a.den
<1> USE DEF Averaged
<1> DEFINE f == [s \in S |-> m[s].ave]  z == SumOf(f, S)  y == Total(t, S)
<1>1. f \in [S -> Fraction]
  BY DEF Mma
<1>2. \A s \in S : t[s] \in Int /\ f[s].num * k = t[s] * f[s].den
  OBVIOUS
<1>3. z \in Fraction /\ z.num * k = y * z.den
  <2>1. IsFiniteSet(S) /\ k \in Int
    OBVIOUS
  <2> HIDE DEF f
  <2> QED
    BY ONLY <1>1, <1>2, <2>1, SumOfFractions
<1>4. y \in Int
  <2>1. IsFiniteSet(S) /\ (\A s \in S : t[s] \in Int) /\ S \in SUBSET S
    OBVIOUS
  <2> QED
    BY ONLY <2>1, TotalRules
<1>5. a = Over(z, d)
  OBVIOUS
<1>6. d \in Nat /\ d > 0 /\ k \in Int
  OBVIOUS
<1> HIDE DEF z, f, y
<1>7. z.num \in Int /\ z.den \in Int /\ a = [num |-> z.num, den |-> z.den * d]
  <2>1. z \in Fraction
    BY <1>3
  <2>2. z.num \in Int /\ z.den \in Int /\ z = [num |-> z.num, den |-> z.den]
    BY ONLY <2>1 DEF Fraction
  <2> QED
    BY ONLY <1>5, <2>2 DEF Over
<1>8. z.num * (k * d) = (z.num * k) * d /\ (y * z.den) * d = y * (z.den * d)
  BY <1>4, <1>7, <1>6
<1>9. z.den * d \in Nat \ {0}
  <2>1. z.den \in Int /\ d \in Int /\ z.den > 0 /\ d > 0
    BY <1>3, <1>6 DEF Fraction
  <2>2. z.den * d \in Int /\ z.den * d > 0
    BY ONLY <2>1, ProductIsPositive
  <2> QED
    BY ONLY <2>2
<1>10. a \in Fraction /\ a.num = z.num /\ a.den = z.den * d
  BY <1>7, <1>9 DEF Fraction
<1>11. a.num * (k * d) = y * a.den
  BY ONLY <1>3, <1>8, <1>10
<1> QED
  BY <1>10, <1>11 DEF y

(* What is reduced of each process of a node.                              *)
LEMMA MatesReduced ==
  ASSUME ReductionInv, NEW r \in Rank, Ready(OnNode(r), {"reduce", "global", "done"})
  PROVE  \A s \in OnNode(r) :
           /\ s \in Rank /\ mma[s] \in Mma
           /\ Figures(mma[s], {taken[s][i] : i \in 1..Iters}, SumTaken(s), Iters)
           /\ SumTaken(s) \in Int /\ Sums[s] = SumTaken(s)
<1> SUFFICES ASSUME NEW s \in OnNode(r)
             PROVE  /\ s \in Rank /\ mma[s] \in Mma
                    /\ Figures(mma[s], {taken[s][i] : i \in 1..Iters}, SumTaken(s), Iters)
                    /\ SumTaken(s) \in Int /\ Sums[s] = SumTaken(s)
  OBVIOUS
<1>1. s \in Rank
  BY NodeMates
<1>2. Given /\ mma[s] \in Mma /\ LocalInv(s)
  BY <1>1 DEF ReductionInv, TypeInv
<1>3. pc[s] \in {"reduce", "global", "done"}
  BY DEF Ready
<1>4. Reduced(taken[s], mma[s])
  BY <1>2, <1>3 DEF LocalInv
<1>5. SumTaken(s) = Total(taken[s], 1..Iters) /\ SumTaken(s) \in Nat /\ Sums[s] = SumTaken(s)
  BY <1>1, <1>2, SumsTaken
<1> QED
  BY <1>1, <1>2, <1>4, <1>5 DEF Reduced

LEMMA NodeExtremes ==
  ASSUME ReductionInv, NEW r \in Rank, Ready(OnNode(r), {"reduce", "global", "done"})
  PROVE  /\ IsMin(NodeMin({mma[s].min : s \in OnNode(r)}), NodeReal(r))
         /\ IsMax(Max({mma[s].max : s \in OnNode(r)}), NodeReal(r))
         /\ NodeReal(r) \in SUBSET Int
<1> DEFINE S == OnNode(r)
           A == [s \in S |-> {taken[s][i] : i \in 1..Iters}]
           lo == [s \in S |-> mma[s].min]  hi == [s \in S |-> mma[s].max]
<1>1. S \in SUBSET Rank /\ r \in S /\ IsFiniteSet(S) /\ Given
  BY NodeMates DEF ReductionInv
<1>2. \A s \in S : IsMin(lo[s], A[s]) /\ IsMax(hi[s], A[s])
  BY MatesReduced DEF Figures
<1>3. \A s \in S : A[s] \in SUBSET Int /\ A[s] \in SUBSET Nat
  <2> SUFFICES ASSUME NEW s \in S PROVE A[s] \in SUBSET Int /\ A[s] \in SUBSET Nat
    OBVIOUS
  <2>1. taken[s] \in Samples
    BY <1>1, SumsTaken
  <2> QED
    BY <2>1, SampleTotals
<1>4. {lo[s] : s \in S} = {mma[s].min : s \in OnNode(r)} /\ {hi[s] : s \in S} = {mma[s].max : s \in OnNode(r)}
  OBVIOUS
<1>5. NodeReal(r) = UNION {A[s] : s \in {q \in S : ~IsBogus(q)}}
  BY DEF NodeReal
<1>6. CASE type # "node_post"
  <2>1. \A s : ~IsBogus(s)
    BY <1>6, AllCollect
  <2>2. NodeReal(r) = UNION {A[s] : s \in S}
    BY <1>5, <2>1
  <2>3. /\ S # {} /\ NodeReal(r) \in SUBSET Int
        /\ \A n \in NodeReal(r) : \E s \in S : n \in A[s]
        /\ \A s \in S : A[s] \subseteq NodeReal(r)
    <3> HIDE DEF S, A
    <3> QED
      BY <1>1, <1>3, <2>2
  <2>4. IsMin(Min({lo[s] : s \in S}), NodeReal(r)) /\ IsMax(Max({hi[s] : s \in S}), NodeReal(r))
    <3> HIDE DEF S, A, lo, hi
    <3> QED
      BY <1>1, <1>2, <2>3, LeastOfAll
  <2> HIDE DEF S, A, lo, hi
  <2> QED
    BY <1>4, <1>6, <2>3, <2>4 DEF NodeMin
<1>7. CASE type = "node_post"
  <2>1. PICK q \in S : ~IsBogus(q) /\ \A s \in S : s # q => IsBogus(s)
    BY <1>7, OneCollects
  <2>2. NodeReal(r) = A[q]
    BY <1>5, <2>1
  <2>3. \A s \in S : s # q => A[s] = {0}
    BY <1>1, <2>1, BogusIsZero
  <2>4. ASSUME NEW s \in S PROVE lo[q] >= lo[s] /\ hi[q] >= hi[s] /\ lo[s] \in Int /\ hi[s] \in Int
    <3>1. lo[s] \in Nat /\ hi[s] \in Nat /\ lo[q] \in Nat /\ hi[q] \in Nat
      BY <1>2, <1>3 DEF IsMin, IsMax
    <3>2. s # q => lo[s] = 0 /\ hi[s] = 0
      BY <1>2, <2>3 DEF IsMin, IsMax
    <3> HIDE DEF lo, hi
    <3> QED
      BY <3>1, <3>2
  <2>5. IsMax(lo[q], {lo[s] : s \in S}) /\ IsMax(hi[q], {hi[s] : s \in S})
    <3> HIDE DEF S, lo, hi
    <3> QED
      BY <2>4 DEF IsMax
  <2>6. {lo[s] : s \in S} \in SUBSET Int /\ {hi[s] : s \in S} \in SUBSET Int
    <3> HIDE DEF lo, hi
    <3> QED
      BY <2>4
  <2> HIDE DEF S, A, lo, hi
  <2>7. Max({lo[s] : s \in S}) = lo[q] /\ Max({hi[s] : s \in S}) = hi[q]
    BY <2>5, <2>6, MinIsOnly
  <2> QED
    BY <1>2, <1>3, <1>4, <1>7, <2>2, <2>7 DEF NodeMin
<1> QED
  BY <1>6, <1>7

LEMMA NodeAverage ==
  ASSUME ReductionInv, NEW r \in Rank, Ready(OnNode(r), {"reduce", "global", "done"}),
         NEW a, a = Over(SumOf([s \in OnNode(r) |-> mma[s].ave], OnNode(r)), NodeDivisor(r))
  PROVE  a \in Fraction /\ a.num * (Iters * NodeDivisor(r)) = NodeSum(r) * a.den
<1> DEFINE S == OnNode(r)  d == NodeDivisor(r)
<1>1. IsFiniteSet(S)
  BY NodeMates
<1>2. \A s \in S : mma[s] \in Mma /\ Sums[s] \in Int /\ mma[s].ave.num * Iters = Sums[s] * mma[s].ave.den
  BY MatesReduced DEF Figures
<1>3. Iters \in Int /\ d \in Nat \ {0}
  <2>1. Cardinality(S) \in Nat /\ Cardinality(S) # 0
    BY NodesAreEven DEF ReductionInv
  <2> QED
    BY <2>1, ItersAssumption DEF NodeDivisor
<1>4. a = Over(SumOf([s \in S |-> mma[s].ave], S), d)
  OBVIOUS
<1> DEFINE t == Sums
<1>5. \A s \in S : mma[s] \in Mma /\ t[s] \in Int /\ mma[s].ave.num * Iters = t[s] * mma[s].ave.den
  BY <1>2
<1> HIDE DEF S, d, t
<1>6. a \in Fraction /\ a.num * (Iters * d) = Total(t, S) * a.den
  <2>1. Averaged(S, mma, Iters, d, t, a)
    BY <1>1, <1>3, <1>4, <1>5 DEF Averaged
  <2> QED
    BY ONLY <2>1, AverageOfAverages
<1> QED
  BY <1>6 DEF S, d, t, NodeSum

(* How many samples count. *)
LEMMA Collected ==
  ASSUME Given
  PROVE  \E c \in Nat :
           /\ c > 0 /\ Cardinality(Collector) \in Nat
           /\ \A r \in Rank : (Iters * NodeDivisor(r)) * N = CountReal * c
           /\ Total([s \in Rank |-> NodeSum(s)], Rank) = c * SumReal
           /\ SumReal \in Int
<1>1. PICK c \in Nat : c > 0 /\ \A r \in Rank : Cardinality(OnNode(r)) = c
  BY NodesAreEven
<1>2. IsFiniteSet(Rank) /\ Cardinality(Rank) = N
  BY Ranks
<1> DEFINE class == [r \in Rank |-> OnNode(r)]
<1>3. /\ class \in [Rank -> SUBSET Rank]
      /\ \A r, s \in Rank : s \in class[r] <=> r \in class[s]
      /\ \A s \in Rank : Cardinality(class[s]) = c
  BY <1>1 DEF OnNode, OnNodeOf
<1>4. \A s \in Rank : Sums[s] \in Int
  BY SumsTaken
<1>5. Collector \in SUBSET Rank
  BY DEF Collector
<1>6. IsFiniteSet(Collector) /\ Cardinality(Collector) \in Nat
  BY <1>2, <1>5, FS_Subset, FS_CardinalityType
<1>7. ASSUME NEW f, \A s \in Rank : f[s] \in Int
      PROVE  Total([s \in Rank |-> Total(f, class[s])], Rank) = c * Total(f, Rank)
  <2> HIDE DEF class
  <2> QED
    BY <1>1, <1>2, <1>3, <1>7, CountedTwice
<1>8. Total([s \in Rank |-> NodeSum(s)], Rank) = c * Total(Sums, Rank)
  <2> DEFINE x == [s \in Rank |-> Total(Sums, class[s])]
  <2>1. x = [s \in Rank |-> NodeSum(s)]
    BY DEF NodeSum
  <2> HIDE DEF class
  <2>2. Total(x, Rank) = c * Total(Sums, Rank)
    BY <1>4, <1>7
  <2> QED
    BY <2>1, <2>2
<1>9. SumReal = Total(Sums, Rank) /\ SumReal \in Int
  <2> DEFINE g == [r \in Collector |-> SumTaken(r)]
  <2>1. SumReal = Total(g, Collector)
    BY DEF SumReal, SumFunction, Total
  <2>2. \A s \in Collector : g[s] \in Int /\ g[s] = Sums[s]
    BY <1>4, <1>5 DEF Sums
  <2>3. Total(g, Collector) = Total(Sums, Collector)
    <3> HIDE DEF g
    <3> QED
      BY <1>6, <2>2, TotalSame
  <2>4. \A s \in Rank \ Collector : Sums[s] = 0
    <3> SUFFICES ASSUME NEW s \in Rank \ Collector PROVE Sums[s] = 0
      OBVIOUS
    <3>1. IsBogus(s) /\ s \in Rank
      BY DEF Collector
    <3> QED
      BY <3>1, BogusIsZero, SumsTaken
  <2>5. Total(Sums, Rank) = Total(Sums, Collector)
    BY <1>2, <1>4, <1>5, <2>4, TotalSkipsZeros
  <2>6. Total(Sums, Rank) \in Int
    <3>1. Rank \in SUBSET Rank
      OBVIOUS
    <3> QED
      BY <1>2, <1>4, <3>1, TotalRules
  <2> QED
    BY <2>1, <2>3, <2>5, <2>6
<1>10. ASSUME type # "node_post", NEW r \in Rank
       PROVE  NodeDivisor(r) = c /\ Cardinality(Collector) = N
  <2>1. Collector = Rank
    BY <1>10, AllCollect DEF Collector
  <2> QED
    BY <1>1, <1>2, <1>10, <2>1 DEF NodeDivisor
<1>11. ASSUME type = "node_post", NEW r \in Rank
       PROVE  NodeDivisor(r) = 1 /\ N = c * Cardinality(Collector)
  <2> DEFINE f == [s \in Rank |-> IF s \in Collector THEN 1 ELSE 0]
             x == [s \in Rank |-> Total(f, class[s])]
  <2>1. ASSUME NEW s \in Rank PROVE x[s] = 1
    <3>1. OnNode(s) \in SUBSET Rank /\ IsFiniteSet(OnNode(s))
      BY NodeMates
    <3>2. PICK q \in OnNode(s) : ~IsBogus(q) /\ \A p \in OnNode(s) : p # q => IsBogus(p)
      BY <1>11, OneCollects
    <3>3. OnNode(s) \cap Collector = {q}
      BY <3>1, <3>2 DEF Collector
    <3>4. Cardinality({q}) = 1
      BY FS_Singleton
    <3>5. \A p \in OnNode(s) : f[p] = IF p \in Collector THEN 1 ELSE 0
      BY <3>1
    <3> HIDE DEF f
    <3>6. Total(f, OnNode(s)) = Cardinality(OnNode(s) \cap Collector)
      BY <3>1, <3>5, TotalCounts
    <3> QED
      BY <3>3, <3>4, <3>6
  <2>2. \A s \in Rank : f[s] \in Int
    OBVIOUS
  <2>3. Total(x, Rank) = c * Total(f, Rank)
    <3> HIDE DEF class, f
    <3> QED
      BY <1>7, <2>2
  <2>4. \A s \in Rank : x[s] = IF s \in Rank THEN 1 ELSE 0
    BY <2>1
  <2>5. \A s \in Rank : f[s] = IF s \in Collector THEN 1 ELSE 0
    OBVIOUS
  <2> HIDE DEF x, f
  <2>6. Total(x, Rank) = Cardinality(Rank \cap Rank)
    BY <1>2, <2>4, TotalCounts
  <2>7. Total(f, Rank) = Cardinality(Rank \cap Collector)
    BY <1>2, <2>5, TotalCounts
  <2>8. Rank \cap Rank = Rank /\ Rank \cap Collector = Collector
    BY <1>5
  <2> QED
    BY <1>2, <1>11, <2>3, <2>6, <2>7, <2>8 DEF NodeDivisor
<1>12. ASSUME NEW r \in Rank PROVE (Iters * NodeDivisor(r)) * N = CountReal * c
  <2> DEFINE K == Cardinality(Collector)
  <2>1. K \in Nat /\ N \in Nat /\ Iters \in Nat /\ c \in Nat /\ CountReal = Iters * K
    BY <1>6, NAssumption, ItersAssumption DEF CountReal
  <2> HIDE DEF K
  <2>2. CASE type # "node_post"
    <3>1. NodeDivisor(r) = c /\ K = N
      BY <1>10, <2>2 DEF K
    <3>2. (Iters * c) * N = (Iters * N) * c
      BY <2>1
    <3> QED
      BY <2>1, <3>1, <3>2
  <2>3. CASE type = "node_post"
    <3>1. NodeDivisor(r) = 1 /\ N = c * K
      BY <1>11, <2>3 DEF K
    <3>2. (Iters * 1) * (c * K) = (Iters * K) * c
      BY <2>1
    <3> QED
      BY <2>1, <3>1, <3>2
  <2> QED
    BY <2>2, <2>3
<1> QED
  BY <1>1, <1>6, <1>8, <1>9, <1>12

LEMMA GlobalExtremes ==
  ASSUME ReductionInv, Ready(Rank, {"global", "done"})
  PROVE  /\ IsMin(Min({nodeMma[s].min : s \in Rank}), Real)
         /\ IsMax(Max({nodeMma[s].max : s \in Rank}), Real)
         /\ Real \in SUBSET Int
<1> DEFINE A == [s \in Rank |-> NodeReal(s)]
           lo == [s \in Rank |-> nodeMma[s].min]  hi == [s \in Rank |-> nodeMma[s].max]
<1>1. IsFiniteSet(Rank) /\ Rank # {} /\ Given
  BY Ranks DEF ReductionInv
<1>2. \A s \in Rank : IsMin(lo[s], A[s]) /\ IsMax(hi[s], A[s])
  <2> SUFFICES ASSUME NEW s \in Rank PROVE IsMin(lo[s], A[s]) /\ IsMax(hi[s], A[s])
    OBVIOUS
  <2>1. NodeInv(s) /\ pc[s] \in {"global", "done"}
    BY DEF ReductionInv, Ready
  <2> QED
    BY <2>1 DEF NodeInv, Figures
<1>3. Real \in SUBSET Int
  <2> SUFFICES ASSUME NEW r \in Rank, NEW i \in 1..Iters PROVE taken[r][i] \in Int
    BY DEF Real, Collector
  <2>1. taken[r] \in Samples
    BY <1>1, SumsTaken
  <2> QED
    BY <2>1, SampleTotals
<1>4. ASSUME NEW n \in Real PROVE \E s \in Rank : n \in A[s]
  <2>1. PICK r \in Collector, i \in 1..Iters : n = taken[r][i]
    BY <1>4 DEF Real
  <2>2. r \in Rank /\ ~IsBogus(r) /\ r \in OnNode(r)
    BY NodeMates DEF Collector
  <2>3. n \in NodeReal(r)
    BY <2>1, <2>2 DEF NodeReal
  <2> QED
    BY <2>2, <2>3
<1>5. ASSUME NEW s \in Rank PROVE A[s] \subseteq Real
  <2>1. OnNode(s) \in SUBSET Rank
    BY NodeMates
  <2> QED
    BY <2>1 DEF NodeReal, Real, Collector
<1>6. {lo[s] : s \in Rank} = {nodeMma[s].min : s \in Rank} /\ {hi[s] : s \in Rank} = {nodeMma[s].max : s \in Rank}
  OBVIOUS
<1> HIDE DEF A, lo, hi
<1>7. IsMin(Min({lo[s] : s \in Rank}), Real) /\ IsMax(Max({hi[s] : s \in Rank}), Real)
  BY <1>1, <1>2, <1>3, <1>4, <1>5, LeastOfAll
<1> QED
  BY <1>3, <1>6, <1>7

LEMMA GlobalAverage ==
  ASSUME ReductionInv, Ready(Rank, {"global", "done"}),
         NEW a, a = Over(SumOf([s \in Rank |-> nodeMma[s].ave], Rank), N)
  PROVE  a \in Fraction /\ a.num * CountReal = SumReal * a.den
<1>1. Given /\ IsFiniteSet(Rank)
  BY Ranks DEF ReductionInv
<1>2. PICK r \in Rank : TRUE
  BY Ranks
<1>3. PICK c \in Nat :
        /\ c > 0 /\ Cardinality(Collector) \in Nat
        /\ \A q \in Rank : (Iters * NodeDivisor(q)) * N = CountReal * c
        /\ Total([s \in Rank |-> NodeSum(s)], Rank) = c * SumReal
        /\ SumReal \in Int
  BY <1>1, Collected
<1> DEFINE k == Iters * NodeDivisor(r)  t == [s \in Rank |-> NodeSum(s)]
<1>4. k \in Int /\ N \in Nat \ {0}
  <2>1. NodeDivisor(r) \in Int
    BY NodeMates, FS_CardinalityType DEF NodeDivisor
  <2> QED
    BY <2>1, ItersAssumption, NAssumption
<1>5. \A s \in Rank : NodeDivisor(s) = NodeDivisor(r)
  BY <1>1, NodesAreEven DEF NodeDivisor
<1>6. ASSUME NEW s \in Rank
      PROVE nodeMma[s] \in Mma /\ t[s] \in Int /\ nodeMma[s].ave.num * k = t[s] * nodeMma[s].ave.den
  <2>1. nodeMma[s] \in Mma /\ NodeInv(s) /\ pc[s] \in {"global", "done"}
    BY DEF ReductionInv, TypeInv, Ready
  <2>2. nodeMma[s].ave.num * (Iters * NodeDivisor(s)) = NodeSum(s) * nodeMma[s].ave.den
    BY <2>1 DEF NodeInv, Figures
  <2>3. NodeSum(s) \in Int
    <3>1. IsFiniteSet(Rank) /\ (\A q \in Rank : Sums[q] \in Int) /\ OnNode(s) \in SUBSET Rank
      BY <1>1, SumsTaken, NodeMates
    <3>2. Total(Sums, OnNode(s)) \in Int
      BY ONLY <3>1, TotalRules
    <3> QED
      BY <3>2 DEF NodeSum
  <2> QED
    BY <1>5, <2>1, <2>2, <2>3
<1> HIDE DEF k, t
<1>7. a \in Fraction /\ a.num * (k * N) = Total(t, Rank) * a.den
  <2>1. Averaged(Rank, nodeMma, k, N, t, a)
    BY <1>1, <1>4, <1>6 DEF Averaged
  <2> QED
    BY ONLY <2>1, AverageOfAverages
<1>8. k * N = CountReal * c /\ Total(t, Rank) = c * SumReal
  BY <1>3 DEF k, t
<1>9. CountReal \in Int /\ a.num \in Int /\ a.den \in Int
  BY <1>3, <1>7, ItersAssumption DEF CountReal, Fraction
<1>10. (a.num * CountReal) * c = (SumReal * a.den) * c
  <2>1. a.num * (CountReal * c) = (a.num * CountReal) * c
    BY <1>3, <1>9
  <2>2. (c * SumReal) * a.den = (SumReal * a.den) * c
    BY <1>3, <1>9
  <2> QED
    BY <1>7, <1>8, <2>1, <2>2
<1>11. a.num * CountReal = SumReal * a.den
  <2> DEFINE x == a.num * CountReal  y == SumReal * a.den
  <2>1. x \in Int /\ y \in Int /\ c \in Int /\ c > 0 /\ x * c = y * c
    BY <1>3, <1>9, <1>10
  <2> HIDE DEF x, y
  <2>2. x = y
    BY ONLY <2>1
  <2> QED
    BY <2>2 DEF x, y
<1> QED
  BY <1>7, <1>11

-----------------------------------------------------------------------------
(* It holds at the start, and each step keeps it. *)
LEMMA InitReduces == Init => ReductionInv
<1> SUFFICES ASSUME Init PROVE ReductionInv
  OBVIOUS
<1>1. Value \in SUBSET Word /\ 0 \in Word
  BY ValueAssumption, SizeIsPositive
<1>2. Given
  <2>1. taken \in [Rank -> Samples]
    <3>1. Value \union {0} \in SUBSET Word
      BY <1>1
    <3> QED
      BY <3>1 DEF Init, Samples
  <2>2. \A r \in Rank : IsBogus(r) => \A i \in 1..Iters : taken[r][i] = 0
    BY DEF Init
  <2> QED
    BY <2>1, <2>2 DEF Given, Init
<1>3. ASSUME NEW r \in Rank
      PROVE  /\ pc[r] = "local" /\ list[r] = taken[r] /\ list[r] \in Seq(Word)
             /\ Accumulates(list[r], taken[r], mma[r])
  <2>1. taken[r] \in Samples
    BY <1>2 DEF Given
  <2>2. pc[r] = "local" /\ list[r] = taken[r] /\ mma[r] = Blank
    BY DEF Init
  <2> QED
    BY <2>1, <2>2, BlankAccumulates
<1>4. TypeInv
  <2>1. pc \in [Rank -> Places]
    BY DEF Init, Places
  <2>2. list \in [Rank -> Seq(Word)]
    BY <1>2, <1>3 DEF Init, Given
  <2>3. Blank \in Mma
    BY DEF Blank, Mma, Zero, Fraction
  <2>4. /\ mma \in [Rank -> Mma]
        /\ nodeMma \in [Rank -> Mma]
        /\ globalMma \in [Rank -> Mma]
    BY <2>3 DEF Init
  <2> QED
    BY <2>1, <2>2, <2>4 DEF TypeInv
<1>5. \A r \in Rank : LocalInv(r) /\ NodeInv(r) /\ GlobalInv(r)
  BY <1>3 DEF LocalInv, NodeInv, GlobalInv
<1> QED
  BY <1>2, <1>4, <1>5 DEF ReductionInv

(* No step changes what is given. *)
LEMMA JobStays ==
  ASSUME UNCHANGED <<node, type, taken>>
  PROVE  /\ Given' <=> Given
         /\ \A r \in Rank : NodeReal(r)' = NodeReal(r) /\ NodeSum(r)' = NodeSum(r)
                            /\ NodeDivisor(r)' = NodeDivisor(r)
         /\ Real' = Real /\ SumReal' = SumReal /\ CountReal' = CountReal
<1>1. node' = node /\ type' = type /\ taken' = taken
  OBVIOUS
<1>2. Given' <=> Given
  BY <1>1 DEF Given, IsBogus, OnNode
<1>3. \A r \in Rank : NodeReal(r)' = NodeReal(r)
  BY <1>1 DEF NodeReal, IsBogus, OnNode
<1>4. \A r \in Rank : NodeDivisor(r)' = NodeDivisor(r)
  BY <1>1 DEF NodeDivisor, OnNode
<1>5. \A r \in Rank : NodeSum(r)' = NodeSum(r)
  BY <1>1 DEF NodeSum, Sums, SumTaken, OnNode
<1>6. Real' = Real /\ SumReal' = SumReal /\ CountReal' = CountReal
  BY <1>1 DEF Real, SumReal, CountReal, Collector, SumTaken, IsBogus, OnNode
<1> QED
  BY <1>2, <1>3, <1>4, <1>5, <1>6

(* The processes that do not take the step stay where they are.            *)
LEMMA OthersStay ==
  ASSUME ReductionInv, UNCHANGED <<node, type, taken>>, NEW r \in Rank,
         TypeInv', LocalInv(r)', NodeInv(r)', GlobalInv(r)',
         \A q \in Rank : q # r =>
           /\ pc'[q] = pc[q] /\ list'[q] = list[q] /\ mma'[q] = mma[q]
           /\ nodeMma'[q] = nodeMma[q] /\ globalMma'[q] = globalMma[q]
  PROVE  ReductionInv'
<1>1. Given' /\ taken' = taken
  BY JobStays DEF ReductionInv
<1>2. ASSUME NEW q \in Rank, q # r PROVE LocalInv(q)' /\ NodeInv(q)' /\ GlobalInv(q)'
  <2>1. /\ pc'[q] = pc[q] /\ list'[q] = list[q] /\ mma'[q] = mma[q]
        /\ nodeMma'[q] = nodeMma[q] /\ globalMma'[q] = globalMma[q]
    BY <1>2
  <2>2. LocalInv(q) /\ NodeInv(q) /\ GlobalInv(q)
    BY DEF ReductionInv
  <2>3. LocalInv(q)'
    BY <1>1, <2>1, <2>2 DEF LocalInv
  <2>4. NodeInv(q)'
    BY <2>1, <2>2, JobStays DEF NodeInv
  <2>5. GlobalInv(q)'
    BY <2>1, <2>2, JobStays DEF GlobalInv
  <2> QED
    BY <2>3, <2>4, <2>5
<1>3. \A q \in Rank : LocalInv(q)' /\ NodeInv(q)' /\ GlobalInv(q)'
  BY <1>2
<1> QED
  BY <1>1, <1>3 DEF ReductionInv

LEMMA AddSampleReduces ==
  ASSUME ReductionInv, NEW r \in Rank, AddSample(r)
  PROVE  ReductionInv'
<1> DEFINE l == list[r]  t == taken[r]  m == mma[r]  n == Accumulated(r)
<1>1. /\ pc[r] = "local" /\ l # << >> /\ ~(NewTotal(r) < Last(l))
      /\ mma' = [mma EXCEPT ![r] = n] /\ list' = [list EXCEPT ![r] = Front(l)]
      /\ UNCHANGED <<node, type, taken, pc, nodeMma, globalMma>>
  BY DEF AddSample, Rest, Popped, Overflows
<1>2. TypeInv /\ Given /\ LocalInv(r)
  BY DEF ReductionInv
<1>3. l \in Seq(Word) /\ t \in Samples /\ m \in Mma /\ Accumulates(l, t, m)
  BY <1>1, <1>2 DEF TypeInv, Given, LocalInv
<1>4. /\ n = [m EXCEPT !.min = IF l = t \/ Last(l) < @ THEN Last(l) ELSE @,
                       !.max = IF l = t \/ Last(l) > @ THEN Last(l) ELSE @,
                       !.total = NewTotal(r)]
      /\ NewTotal(r) = (m.total + Last(l)) % 2^Bits
  BY DEF Accumulated, FirstTime, Popped, NewTotal
<1> HIDE DEF l, t, m, n
<1>5. Last(l) \in Int /\ NewTotal(r) \in Int
  <2>1. Last(l) \in Word /\ m.total \in Int
    <3>1. Len(l) \in 1..Iters /\ Last(l) = t[Len(l)]
      BY <1>1, <1>3, Pops
    <3> QED
      BY <1>3, <3>1 DEF Samples, Mma
  <2>2. 2^Bits \in Nat /\ 2^Bits > 0 /\ Last(l) \in Int
    BY <2>1, SizeIsPositive DEF Size
  <2> QED
    BY <1>4, <2>1, <2>2
<1>6. /\ n \in Mma
      /\ n.total = (m.total + Last(l)) % 2^Bits
      /\ ~(n.total < Last(l))
      /\ n.min = IF l = t \/ Last(l) < m.min THEN Last(l) ELSE m.min
      /\ n.max = IF l = t \/ Last(l) > m.max THEN Last(l) ELSE m.max
  BY <1>1, <1>3, <1>4, <1>5 DEF Mma
<1>7. Front(l) \in Seq(Word) /\ Accumulates(Front(l), t, n)
  BY <1>1, <1>3, <1>6, StillAccumulates
<1>8. TypeInv' /\ list'[r] = Front(l) /\ mma'[r] = n
  BY <1>1, <1>2, <1>6, <1>7 DEF TypeInv
<1>9. pc'[r] = "local" /\ taken'[r] = t
  BY <1>1 DEF t
<1>10. LocalInv(r)'
  BY <1>7, <1>8, <1>9 DEF LocalInv
<1>11. NodeInv(r)' /\ GlobalInv(r)'
  BY <1>9 DEF NodeInv, GlobalInv
<1>12. \A q \in Rank : q # r =>
         /\ pc'[q] = pc[q] /\ list'[q] = list[q] /\ mma'[q] = mma[q]
         /\ nodeMma'[q] = nodeMma[q] /\ globalMma'[q] = globalMma[q]
  BY <1>1, <1>2 DEF TypeInv
<1> QED
  BY <1>1, <1>8, <1>10, <1>11, <1>12, OthersStay

LEMMA OverflowReduces ==
  ASSUME ReductionInv, NEW r \in Rank, Overflow(r)
  PROVE  ReductionInv'
<1> DEFINE l == list[r]  t == taken[r]  m == mma[r]
<1>1. /\ pc[r] = "local" /\ l # << >> /\ (m.total + Last(l)) % 2^Bits < Last(l)
      /\ mma' = [mma EXCEPT ![r] = Null] /\ list' = [list EXCEPT ![r] = Front(l)]
      /\ pc' = [pc EXCEPT ![r] = "node"]
      /\ UNCHANGED <<node, type, taken, nodeMma, globalMma>>
  BY DEF Overflow, Rest, Popped, Overflows, NewTotal, Goto
<1>2. TypeInv /\ Given /\ LocalInv(r)
  BY DEF ReductionInv
<1>3. l \in Seq(Word) /\ t \in Samples /\ m \in Mma /\ Accumulates(l, t, m)
  BY <1>1, <1>2 DEF TypeInv, Given, LocalInv
<1> HIDE DEF l, t, m
<1>4. Total(t, 1..Iters) \notin Word
  BY <1>1, <1>3, OverflowsOnly
<1>5. Front(l) \in Seq(Word)
  BY <1>1, <1>3, Pops
<1>6. Null \in Mma /\ "node" \in Places
  BY DEF Null, Blank, Mma, Zero, Fraction, Places
<1>7. TypeInv' /\ mma'[r] = Null /\ pc'[r] = "node"
  BY <1>1, <1>2, <1>5, <1>6 DEF TypeInv
<1>8. Overflowed(taken'[r], mma'[r])
  BY <1>1, <1>4, <1>7 DEF Overflowed, t
<1>9. LocalInv(r)'
  BY <1>7, <1>8 DEF LocalInv
<1>10. NodeInv(r)' /\ GlobalInv(r)'
  BY <1>7 DEF NodeInv, GlobalInv
<1>11. \A q \in Rank : q # r =>
         /\ pc'[q] = pc[q] /\ list'[q] = list[q] /\ mma'[q] = mma[q]
         /\ nodeMma'[q] = nodeMma[q] /\ globalMma'[q] = globalMma[q]
  BY <1>1, <1>2 DEF TypeInv
<1> QED
  BY <1>1, <1>7, <1>9, <1>10, <1>11, OthersStay

LEMMA AverageReduces ==
  ASSUME ReductionInv, NEW r \in Rank, Average(r)
  PROVE  ReductionInv'
<1> DEFINE l == list[r]  t == taken[r]  m == mma[r]
           n == [m EXCEPT !.ave = [num |-> m.total, den |-> Len(t)]]
<1>1. /\ pc[r] = "local" /\ l = << >>
      /\ pc' = [pc EXCEPT ![r] = "node"]
      /\ UNCHANGED <<node, type, taken, list, nodeMma, globalMma>>
  BY DEF Average, Goto
<1>2. TypeInv /\ Given /\ LocalInv(r)
  BY DEF ReductionInv
<1>3. mma' = [mma EXCEPT ![r] = n]
  BY <1>2 DEF Average, TypeInv
<1>4. t \in Samples /\ m \in Mma /\ Accumulates(l, t, m)
  BY <1>1, <1>2 DEF TypeInv, Given, LocalInv
<1> HIDE DEF l, t, m
<1>5. /\ n \in Mma /\ n.min = m.min /\ n.max = m.max /\ n.total = m.total
      /\ n.ave = [num |-> m.total, den |-> Len(t)]
  <2>1. Len(t) \in Nat \ {0} /\ m.total \in Int
    BY <1>4, ItersAssumption DEF Samples, Mma
  <2> QED
    BY <1>4, <2>1 DEF Mma, Fraction
<1> HIDE DEF n
<1>6. Reduced(t, n)
  BY <1>1, <1>4, <1>5, EndsReduced
<1>7. TypeInv' /\ mma'[r] = n /\ pc'[r] = "node"
  <2>1. "node" \in Places
    BY DEF Places
  <2> QED
    BY <1>1, <1>2, <1>3, <1>5, <2>1 DEF TypeInv
<1>8. Reduced(taken'[r], mma'[r])
  BY <1>1, <1>6, <1>7 DEF t
<1>9. LocalInv(r)'
  BY <1>7, <1>8 DEF LocalInv
<1>10. NodeInv(r)' /\ GlobalInv(r)'
  BY <1>7 DEF NodeInv, GlobalInv
<1>11. \A q \in Rank : q # r =>
         /\ pc'[q] = pc[q] /\ list'[q] = list[q] /\ mma'[q] = mma[q]
         /\ nodeMma'[q] = nodeMma[q] /\ globalMma'[q] = globalMma[q]
  BY <1>1, <1>2, <1>3 DEF TypeInv
<1> QED
  BY <1>1, <1>7, <1>9, <1>10, <1>11, OthersStay

LEMMA DereferenceReduces ==
  ASSUME ReductionInv, NEW r \in Rank, Dereference(r)
  PROVE  ReductionInv'
<1>1. /\ pc[r] = "node"
      /\ pc' = [pc EXCEPT ![r] = IF mma[r] = Null THEN "crashed" ELSE "reduce"]
      /\ UNCHANGED <<node, type, taken, list, mma, nodeMma, globalMma>>
  BY DEF Dereference, Goto
<1>2. TypeInv /\ LocalInv(r)
  BY DEF ReductionInv
<1>3. Overflowed(taken[r], mma[r]) \/ Reduced(taken[r], mma[r])
  BY <1>1, <1>2 DEF LocalInv
<1>4. mma[r] # Null => Reduced(taken[r], mma[r])
  BY <1>3 DEF Overflowed
<1>5. TypeInv' /\ pc'[r] = IF mma[r] = Null THEN "crashed" ELSE "reduce"
  <2>1. (IF mma[r] = Null THEN "crashed" ELSE "reduce") \in Places
    BY DEF Places
  <2> QED
    BY <1>1, <1>2, <2>1 DEF TypeInv
<1>6. LocalInv(r)'
  BY <1>1, <1>3, <1>4, <1>5 DEF LocalInv
<1>7. NodeInv(r)' /\ GlobalInv(r)'
  BY <1>5 DEF NodeInv, GlobalInv
<1>8. \A q \in Rank : q # r =>
         /\ pc'[q] = pc[q] /\ list'[q] = list[q] /\ mma'[q] = mma[q]
         /\ nodeMma'[q] = nodeMma[q] /\ globalMma'[q] = globalMma[q]
  BY <1>1, <1>2 DEF TypeInv
<1> QED
  BY <1>1, <1>5, <1>6, <1>7, <1>8, OthersStay

LEMMA ReduceNodeReduces ==
  ASSUME ReductionInv, NEW r \in Rank, ReduceNode(r)
  PROVE  ReductionInv'
<1> DEFINE lo == NodeMin({mma[s].min : s \in OnNode(r)})
           hi == Max({mma[s].max : s \in OnNode(r)})
           a == Over(SumOf([s \in OnNode(r) |-> mma[s].ave], OnNode(r)), NodeDivisor(r))
           n == [min |-> lo, max |-> hi, total |-> 0, ave |-> a]
<1>1. /\ pc[r] = "reduce" /\ Ready(OnNode(r), {"reduce", "global", "done"})
      /\ nodeMma' = [nodeMma EXCEPT ![r] = n]
      /\ pc' = [pc EXCEPT ![r] = "global"]
      /\ UNCHANGED <<node, type, taken, list, mma, globalMma>>
  BY DEF ReduceNode, Goto
<1>2. IsMin(lo, NodeReal(r)) /\ IsMax(hi, NodeReal(r)) /\ NodeReal(r) \in SUBSET Int
  BY <1>1, NodeExtremes
<1>3. a \in Fraction /\ a.num * (Iters * NodeDivisor(r)) = NodeSum(r) * a.den
  BY <1>1, NodeAverage
<1> HIDE DEF lo, hi, a
<1>4. n \in Mma /\ Figures(n, NodeReal(r), NodeSum(r), Iters * NodeDivisor(r))
  <2>1. lo \in Int /\ hi \in Int
    BY <1>2 DEF IsMin, IsMax
  <2> QED
    BY <1>2, <1>3, <2>1 DEF Mma, Figures
<1> HIDE DEF n
<1>5. TypeInv /\ LocalInv(r)
  BY DEF ReductionInv
<1>6. TypeInv' /\ nodeMma'[r] = n /\ pc'[r] = "global"
  <2>1. "global" \in Places
    BY DEF Places
  <2> QED
    BY <1>1, <1>4, <1>5, <2>1 DEF TypeInv
<1>7. LocalInv(r)'
  <2>1. Reduced(taken[r], mma[r])
    BY <1>1, <1>5 DEF LocalInv
  <2> QED
    BY <1>1, <1>6, <2>1 DEF LocalInv
<1>8. NodeInv(r)'
  BY <1>1, <1>4, <1>6, JobStays DEF NodeInv
<1>9. GlobalInv(r)'
  BY <1>6 DEF GlobalInv
<1>10. \A q \in Rank : q # r =>
         /\ pc'[q] = pc[q] /\ list'[q] = list[q] /\ mma'[q] = mma[q]
         /\ nodeMma'[q] = nodeMma[q] /\ globalMma'[q] = globalMma[q]
  BY <1>1, <1>5 DEF TypeInv
<1> QED
  BY <1>1, <1>6, <1>7, <1>8, <1>9, <1>10, OthersStay

LEMMA ReduceGlobalReduces ==
  ASSUME ReductionInv, NEW r \in Rank, ReduceGlobal(r)
  PROVE  ReductionInv'
<1> DEFINE lo == Min({nodeMma[s].min : s \in Rank})
           hi == Max({nodeMma[s].max : s \in Rank})
           a == Over(SumOf([s \in Rank |-> nodeMma[s].ave], Rank), N)
           n == [min |-> lo, max |-> hi, total |-> 0, ave |-> a]
<1>1. /\ pc[r] = "global" /\ Ready(Rank, {"global", "done"})
      /\ globalMma' = [globalMma EXCEPT ![r] = n]
      /\ pc' = [pc EXCEPT ![r] = "done"]
      /\ UNCHANGED <<node, type, taken, list, mma, nodeMma>>
  BY DEF ReduceGlobal, Goto
<1>2. IsMin(lo, Real) /\ IsMax(hi, Real) /\ Real \in SUBSET Int
  BY <1>1, GlobalExtremes
<1>3. a \in Fraction /\ a.num * CountReal = SumReal * a.den
  BY <1>1, GlobalAverage
<1> HIDE DEF lo, hi, a
<1>4. n \in Mma /\ Figures(n, Real, SumReal, CountReal)
  <2>1. lo \in Int /\ hi \in Int
    BY <1>2 DEF IsMin, IsMax
  <2> QED
    BY <1>2, <1>3, <2>1 DEF Mma, Figures
<1> HIDE DEF n
<1>5. TypeInv /\ LocalInv(r) /\ NodeInv(r)
  BY DEF ReductionInv
<1>6. TypeInv' /\ globalMma'[r] = n /\ pc'[r] = "done"
  <2>1. "done" \in Places
    BY DEF Places
  <2> QED
    BY <1>1, <1>4, <1>5, <2>1 DEF TypeInv
<1>7. LocalInv(r)'
  <2>1. Reduced(taken[r], mma[r])
    BY <1>1, <1>5 DEF LocalInv
  <2> QED
    BY <1>1, <1>6, <2>1 DEF LocalInv
<1>8. NodeInv(r)'
  <2>1. Figures(nodeMma[r], NodeReal(r), NodeSum(r), Iters * NodeDivisor(r))
    BY <1>1, <1>5 DEF NodeInv
  <2> QED
    BY <1>1, <2>1, JobStays DEF NodeInv
<1>9. GlobalInv(r)'
  BY <1>1, <1>4, <1>6, JobStays DEF GlobalInv
<1>10. \A q \in Rank : q # r =>
         /\ pc'[q] = pc[q] /\ list'[q] = list[q] /\ mma'[q] = mma[q]
         /\ nodeMma'[q] = nodeMma[q] /\ globalMma'[q] = globalMma[q]
  BY <1>1, <1>5 DEF TypeInv
<1> QED
  BY <1>1, <1>6, <1>7, <1>8, <1>9, <1>10, OthersStay

LEMMA StepReduces == ReductionInv /\ [Next]_vars => ReductionInv'
<1> SUFFICES ASSUME ReductionInv, [Next]_vars PROVE ReductionInv'
  OBVIOUS
<1>1. ASSUME NEW r \in Rank, AddSample(r) PROVE ReductionInv'
  BY <1>1, AddSampleReduces
<1>2. ASSUME NEW r \in Rank, Overflow(r) PROVE ReductionInv'
  BY <1>2, OverflowReduces
<1>3. ASSUME NEW r \in Rank, Average(r) PROVE ReductionInv'
  BY <1>3, AverageReduces
<1>4. ASSUME NEW r \in Rank, Dereference(r) PROVE ReductionInv'
  BY <1>4, DereferenceReduces
<1>5. ASSUME NEW r \in Rank, ReduceNode(r) PROVE ReductionInv'
  BY <1>5, ReduceNodeReduces
<1>6. ASSUME NEW r \in Rank, ReduceGlobal(r) PROVE ReductionInv'
  BY <1>6, ReduceGlobalReduces
<1>7. CASE UNCHANGED vars
  <2>1. /\ UNCHANGED <<node, type, taken>>
        /\ pc' = pc /\ list' = list /\ mma' = mma /\ nodeMma' = nodeMma /\ globalMma' = globalMma
    BY <1>7 DEF vars
  <2>2. TypeInv'
    BY <2>1 DEF ReductionInv, TypeInv
  <2>3. PICK r \in Rank : TRUE
    BY Ranks
  <2>4. LocalInv(r) /\ NodeInv(r) /\ GlobalInv(r)
    BY DEF ReductionInv
  <2>5. LocalInv(r)' /\ NodeInv(r)' /\ GlobalInv(r)'
    BY <2>1, <2>4, JobStays DEF LocalInv, NodeInv, GlobalInv
  <2> QED
    BY <2>1, <2>2, <2>5, OthersStay
<1> QED
  BY <1>1, <1>2, <1>3, <1>4, <1>5, <1>6, <1>7 DEF Next

LEMMA AlwaysReduces == Spec => []ReductionInv
BY InitReduces, StepReduces, PTL DEF Spec

-----------------------------------------------------------------------------
(* The theorems. *)

(* Whatever the placement, the type and the samples: the three reductions  *)
(* end in the minimum, the maximum and the mean of the samples that count. *)
THEOREM ReportOfReal == Spec => []ReportIsOfRealSamples
<1>1. ReductionInv => ReportIsOfRealSamples
  <2> SUFFICES ASSUME ReductionInv, NEW r \in Rank, pc[r] = "done"
               PROVE  /\ globalMma[r].min = Min(Real)
                      /\ globalMma[r].max = Max(Real)
                      /\ globalMma[r].ave.den > 0
                      /\ globalMma[r].ave.num * CountReal = SumReal * globalMma[r].ave.den
    BY DEF ReportIsOfRealSamples
  <2>1. Figures(globalMma[r], Real, SumReal, CountReal)
    BY DEF ReductionInv, GlobalInv
  <2>2. Real \in SUBSET Int
    <3> SUFFICES ASSUME NEW q \in Rank, NEW i \in 1..Iters PROVE taken[q][i] \in Int
      BY DEF Real, Collector
    <3>1. taken[q] \in Samples
      BY DEF ReductionInv, Given
    <3> QED
      BY <3>1, SampleTotals
  <2>3. Min(Real) = globalMma[r].min /\ Max(Real) = globalMma[r].max
    BY <2>1, <2>2, MinIsOnly DEF Figures
  <2>4. globalMma[r].ave.den > 0
    BY DEF ReductionInv, TypeInv, Mma, Fraction
  <2> QED
    BY <2>1, <2>3, <2>4 DEF Figures
<1> QED
  BY <1>1, AlwaysReduces, PTL

(* get_mma gives up with no result exactly if the samples of the process   *)
(* add up to more than an unsigned long long holds: no sum wraps without   *)
(* being noticed, and none that fits is refused.                           *)
THEOREM OverflowIsDetected == Spec => []OverflowDetected
<1>1. ReductionInv => OverflowDetected
  <2> SUFFICES ASSUME ReductionInv, NEW r \in Rank, pc[r] # "local"
               PROVE  mma[r] = Null <=> SumTaken(r) \notin Word
    BY DEF OverflowDetected
  <2>1. Given /\ LocalInv(r) /\ pc[r] \in Places
    BY DEF ReductionInv, TypeInv
  <2>2. SumTaken(r) = Total(taken[r], 1..Iters)
    BY <2>1, SumsTaken
  <2>3. Overflowed(taken[r], mma[r]) \/ Reduced(taken[r], mma[r])
    BY <2>1 DEF LocalInv, Places
  <2>4. CASE Overflowed(taken[r], mma[r])
    BY <2>2, <2>4 DEF Overflowed
  <2>5. CASE Reduced(taken[r], mma[r])
    <3>1. SumTaken(r) \in Word /\ mma[r].total \in Word
      BY <2>2, <2>5 DEF Reduced
    <3>2. -1 \notin Word /\ Null.total = -1
      BY SizeIsPositive DEF Null, Blank
    <3> QED
      BY <3>1, <3>2
  <2> QED
    BY <2>3, <2>4, <2>5
<1> QED
  BY <1>1, AlwaysReduces, PTL
=============================================================================
