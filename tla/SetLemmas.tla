------------------------------ MODULE SetLemmas ------------------------------
(***************************************************************************)
(* Facts about finite sets of numbers that the proofs of several modules   *)
(* need.  What would be an induction over the set is an argument from a    *)
(* smallest counterexample: the proper subsets of a finite set are well    *)
(* founded.                                                                *)
(***************************************************************************)
EXTENDS Integers, FiniteSets, FunctionTheorems, FiniteSetTheorems, WellFoundedInduction, TLAPS

LEMMA SmallestCounterexample ==
  ASSUME NEW S, NEW F \in SUBSET FiniteSubsetsOf(S), F # {}
  PROVE  \E U \in F : \A V \in F : ~(V \subseteq U /\ V # U)
<1>1. PICK U \in F : \A V \in F : <<V, U>> \notin StrictSubsetOrdering(S)
  BY FS_StrictSubsetOrderingWellFounded, WFMin
<1>2. \A V \in F : V \in SUBSET S
  BY DEF FiniteSubsetsOf
<1> QED BY <1>1, <1>2 DEF StrictSubsetOrdering

\* A finite set of integers that is not empty has a largest member.
LEMMA HasLargest ==
  ASSUME NEW S \in SUBSET Int, IsFiniteSet(S), S # {}
  PROVE  \E m \in S : \A x \in S : x <= m
<1> DEFINE F == {U \in FiniteSubsetsOf(S) : U # {} /\ ~(\E m \in U : \A x \in U : x <= m)}
<1>a. S \in FiniteSubsetsOf(S)
  BY DEF FiniteSubsetsOf
<1> SUFFICES ASSUME F # {} PROVE FALSE
  BY <1>a, Zenon
<1>b. F \in SUBSET FiniteSubsetsOf(S)
  OBVIOUS
<1>1. PICK U \in F : \A V \in F : ~(V \subseteq U /\ V # U)
  <2> HIDE DEF F
  <2> QED BY <1>b, SmallestCounterexample
<1>2. U \subseteq S /\ IsFiniteSet(U) /\ U # {}
  BY DEF FiniteSubsetsOf
<1>3. PICK x \in U : TRUE
  BY <1>2
<1>4. U \ {x} \in FiniteSubsetsOf(S)
  <2>1. IsFiniteSet(U \ {x})
    BY <1>2, FS_RemoveElement
  <2> QED BY <1>2, <2>1 DEF FiniteSubsetsOf
<1>5. U \ {x} = {} \/ \E m \in U \ {x} : \A y \in U \ {x} : y <= m
  <2> SUFFICES ASSUME U \ {x} # {}, ~(\E m \in U \ {x} : \A y \in U \ {x} : y <= m) PROVE FALSE
    OBVIOUS
  <2>1. U \ {x} \in F
    BY <1>4
  <2> QED BY <1>1, <1>3, <2>1
<1>6. CASE U \ {x} = {}
  <2>1. \A y \in U : y <= x
    BY <1>2, <1>3, <1>6
  <2> QED BY <1>3, <2>1
<1>7. ASSUME NEW m \in U \ {x}, \A y \in U \ {x} : y <= m PROVE FALSE
  <2>1. m \in Int /\ x \in Int /\ \A y \in U : y \in Int
    BY <1>2, <1>3
  <2>2. \A y \in U : y <= IF x <= m THEN m ELSE x
    BY <1>7, <2>1
  <2>3. (IF x <= m THEN m ELSE x) \in U
    BY <1>3
  <2> QED BY <2>2, <2>3
<1> QED BY <1>5, <1>6, <1>7

\* The values of a function on a finite set are finitely many.
LEMMA FiniteRange ==
  ASSUME NEW S, IsFiniteSet(S), NEW f
  PROVE  IsFiniteSet({f[x] : x \in S})
<1> DEFINE T == {f[x] : x \in S}
           g == [x \in S |-> f[x]]
<1>1. g \in [S -> T]
  OBVIOUS
<1>2. \A y \in T : \E x \in S : g[x] = y
  OBVIOUS
<1>3. g \in Surjection(S, T)
  BY <1>1, <1>2 DEF Surjection
<1> QED BY <1>3, FS_Surjection DEF ExistsSurjection

\* A finite set of integers that is not empty has a smallest member.
LEMMA HasSmallest ==
  ASSUME NEW S \in SUBSET Int, IsFiniteSet(S), S # {}
  PROVE  \E m \in S : \A x \in S : m <= x
<1> DEFINE f == [x \in S |-> 0 - x]
           T == {f[x] : x \in S}
<1>1. IsFiniteSet(T)
  BY FiniteRange
<1>2. T \in SUBSET Int /\ T # {}
  <2>1. \A x \in S : f[x] \in Int
    OBVIOUS
  <2>2. PICK x \in S : TRUE
    OBVIOUS
  <2>3. f[x] \in T
    BY <2>2
  <2> QED BY <2>1, <2>3
<1>3. PICK n \in T : \A y \in T : y <= n
  <2> HIDE DEF T
  <2> QED BY <1>1, <1>2, HasLargest
<1>4. PICK m \in S : n = 0 - m
  OBVIOUS
<1>5. ASSUME NEW x \in S PROVE m <= x
  <2>1. 0 - x \in T
    OBVIOUS
  <2>2. 0 - x <= 0 - m
    BY <1>3, <1>4, <2>1
  <2> QED BY <2>2
<1> QED BY <1>5
=============================================================================
