--------------------------- MODULE Totals_proofs ---------------------------
(***************************************************************************)
(* What a sum over a finite set of accounts is worth: the facts the proofs *)
(* about the ledgers cite.  The sum is a recursive function in the library *)
(* (FiniteSetsExt); its values are established here by looking at a        *)
(* smallest subset on which a fact would fail.                             *)
(***************************************************************************)
EXTENDS Totals, FiniteSetTheorems, TLAPS

Pick(s) == CHOOSE x \in s : TRUE

\* g adds f up over every subset of S.
Adds(g, f, S) ==
  g = [s \in SUBSET S |-> IF s = {} THEN 0 ELSE f[Pick(s)] + g[s \ {Pick(s)}]]

Adder(f, S) == CHOOSE g : Adds(g, f, S)

LEMMA PickIn == \A s : s # {} => Pick(s) \in s
BY DEF Pick

LEMMA TotalIsAdder == \A f, S : Total(f, S) = Adder(f, S)[S]
BY DEF Total, Adder, Adds, Pick, MapThenSumSet, MapThenFoldSet

\* Among sets of subsets of a finite set one is minimal.
LEMMA MinimalSubset ==
  ASSUME NEW S, IsFiniteSet(S), NEW F \in SUBSET (SUBSET S), F # {}
  PROVE  \E T \in F : \A U \in F : ~ (U \subseteq T /\ U # T)
<1>1. IsWellFoundedOn(StrictSubsetOrdering(S), SUBSET S)
  BY FS_StrictSubsetOrderingWellFounded, FS_FiniteSubsetsOfFinite
<1>2. \E T \in F : \A U \in F : ~ (<<U, T>> \in StrictSubsetOrdering(S))
  BY <1>1, WFMin
<1> QED
  BY <1>2 DEF StrictSubsetOrdering

LEMMA AddsAgree ==
  ASSUME NEW f, NEW A, NEW B, NEW T, T \subseteq A, T \subseteq B, IsFiniteSet(T),
         NEW g, NEW h, Adds(g, f, A), Adds(h, f, B)
  PROVE  g[T] = h[T]
<1> DEFINE F == {V \in SUBSET T : g[V] # h[V]}
<1> SUFFICES ASSUME F # {} PROVE FALSE
  OBVIOUS
<1>0. F \in SUBSET (SUBSET T)
  OBVIOUS
<1>1. PICK V \in F : \A U \in F : ~ (U \subseteq V /\ U # V)
  <2> HIDE DEF F
  <2> QED
    BY <1>0, MinimalSubset
<1>2. V \subseteq T /\ g[V] # h[V]
  BY <1>1
<1>3. CASE V = {}
  BY <1>2, <1>3 DEF Adds
<1>4. CASE V # {}
  <2> DEFINE W == V \ {Pick(V)}
  <2>1. W \subseteq V /\ W # V /\ W \in SUBSET T
    BY <1>2, <1>4, PickIn
  <2>2. g[W] = h[W]
    BY <1>1, <2>1
  <2>3. g[V] = f[Pick(V)] + g[W] /\ h[V] = f[Pick(V)] + h[W]
    BY <1>2, <1>4 DEF Adds
  <2> QED
    BY <1>2, <2>2, <2>3
<1> QED
  BY <1>3, <1>4

LEMMA AdderAdds ==
  ASSUME NEW f, NEW S, IsFiniteSet(S)
  PROVE  Adds(Adder(f, S), f, S)
<1> DEFINE F == {T \in SUBSET S : ~ Adds(Adder(f, T), f, T)}
<1>1. F = {}
  <2> SUFFICES ASSUME F # {} PROVE FALSE
    OBVIOUS
  <2>0. F \in SUBSET (SUBSET S)
    OBVIOUS
  <2>1. PICK T \in F : \A U \in F : ~ (U \subseteq T /\ U # T)
    <3> HIDE DEF F
    <3> QED
      BY <2>0, MinimalSubset
  <2>2. T \subseteq S /\ ~ Adds(Adder(f, T), f, T)
    BY <2>1
  <2> DEFINE W == T \ {Pick(T)}
             h == [V \in SUBSET T |->
                     IF V = T THEN IF T = {} THEN 0 ELSE f[Pick(T)] + Adder(f, W)[W]
                              ELSE Adder(f, V)[V]]
  <2>3. \A V \in SUBSET T : V # T => Adds(Adder(f, V), f, V)
    BY <2>1, <2>2
  <2>4. ASSUME NEW V \in SUBSET T
        PROVE  h[V] = IF V = {} THEN 0 ELSE f[Pick(V)] + h[V \ {Pick(V)}]
    <3> DEFINE X == V \ {Pick(V)}
    <3>1. CASE V = {}
      <4>1. CASE T = {}
        BY <3>1, <4>1
      <4>2. CASE T # {}
        <5>1. Adds(Adder(f, V), f, V)
          BY <2>3, <3>1, <4>2
        <5> QED
          BY <3>1, <4>2, <5>1 DEF Adds
      <4> QED
        BY <4>1, <4>2
    <3>2. CASE V # {}
      <4>1. X \subseteq V /\ X # V /\ X \in SUBSET T /\ X # T
        BY <3>2, PickIn
      <4>2. h[X] = Adder(f, X)[X]
        BY <4>1
      <4>3. Adds(Adder(f, X), f, X)
        BY <2>3, <4>1
      <4>4. CASE V = T
        BY <3>2, <4>2, <4>4
      <4>5. CASE V # T
        <5>1. Adds(Adder(f, V), f, V)
          BY <2>3, <4>5
        <5>2. IsFiniteSet(X)
          BY <2>2, <4>1, FS_Subset
        <5>3. Adder(f, V)[X] = Adder(f, X)[X]
          BY <4>1, <4>3, <5>1, <5>2, AddsAgree
        <5>4. Adder(f, V)[V] = f[Pick(V)] + Adder(f, V)[X]
          BY <3>2, <5>1 DEF Adds
        <5> QED
          BY <3>2, <4>2, <4>5, <5>3, <5>4
      <4> QED
        BY <4>4, <4>5
    <3> QED
      BY <3>1, <3>2
  <2>5. Adds(h, f, T)
    <3> HIDE DEF h
    <3>1. h = [V \in SUBSET T |-> h[V]]
      BY DEF h
    <3> QED
      BY <2>4, <3>1 DEF Adds
  <2>6. Adds(Adder(f, T), f, T)
    <3> HIDE DEF h
    <3> QED
      BY <2>5 DEF Adder
  <2> QED
    BY <2>2, <2>6
<1> QED
  BY <1>1

\* The sum over a set is the picked entry and the sum over the others.
LEMMA TotalStep ==
  ASSUME NEW f, NEW S, IsFiniteSet(S)
  PROVE  Total(f, S) = IF S = {} THEN 0 ELSE f[Pick(S)] + Total(f, S \ {Pick(S)})
<1>1. Adds(Adder(f, S), f, S)
  BY AdderAdds
<1>2. CASE S = {}
  BY <1>1, <1>2, TotalIsAdder DEF Adds
<1>3. CASE S # {}
  <2> DEFINE R == S \ {Pick(S)}
  <2>1. R \subseteq S /\ IsFiniteSet(R)
    BY FS_Subset
  <2>2. Adds(Adder(f, R), f, R)
    BY <2>1, AdderAdds
  <2>3. Adder(f, S)[R] = Adder(f, R)[R]
    BY <1>1, <2>1, <2>2, AddsAgree
  <2>4. Adder(f, S)[S] = f[Pick(S)] + Adder(f, S)[R]
    BY <1>1, <1>3 DEF Adds
  <2> QED
    BY <1>3, <2>3, <2>4, TotalIsAdder
<1> QED
  BY <1>2, <1>3

\* A sum of integers is an integer.
LEMMA TotalInt ==
  ASSUME NEW f, NEW S, IsFiniteSet(S), \A x \in S : f[x] \in Int
  PROVE  Total(f, S) \in Int
<1> DEFINE F == {T \in SUBSET S : Total(f, T) \notin Int}
<1> SUFFICES ASSUME F # {} PROVE FALSE
  OBVIOUS
<1>0. F \in SUBSET (SUBSET S)
  OBVIOUS
<1>1. PICK T \in F : \A U \in F : ~ (U \subseteq T /\ U # T)
  <2> HIDE DEF F
  <2> QED
    BY <1>0, MinimalSubset
<1> DEFINE R == T \ {Pick(T)}
<1>2. T \subseteq S /\ Total(f, T) \notin Int
  BY <1>1
<1>3. IsFiniteSet(T)
  BY <1>2, FS_Subset
<1>4. Total(f, T) = IF T = {} THEN 0 ELSE f[Pick(T)] + Total(f, R)
  BY <1>3, TotalStep
<1>5. T # {}
  BY <1>2, <1>4
<1>6. Pick(T) \in T
  BY <1>5, PickIn
<1>7. Total(f, R) \in Int
  BY <1>1, <1>2, <1>6
<1>8. f[Pick(T)] + Total(f, R) \in Int
  BY <1>2, <1>6, <1>7
<1> QED
  BY <1>2, <1>4, <1>5, <1>8

\* Entries that agree have the same sum.
LEMMA TotalSame ==
  ASSUME NEW f, NEW g, NEW S, IsFiniteSet(S), \A x \in S : f[x] = g[x]
  PROVE  Total(f, S) = Total(g, S)
<1> DEFINE F == {T \in SUBSET S : Total(f, T) # Total(g, T)}
<1> SUFFICES ASSUME F # {} PROVE FALSE
  OBVIOUS
<1>0. F \in SUBSET (SUBSET S)
  OBVIOUS
<1>1. PICK T \in F : \A U \in F : ~ (U \subseteq T /\ U # T)
  <2> HIDE DEF F
  <2> QED
    BY <1>0, MinimalSubset
<1> DEFINE R == T \ {Pick(T)}
<1>2. T \subseteq S /\ Total(f, T) # Total(g, T)
  BY <1>1
<1>3. IsFiniteSet(T)
  BY <1>2, FS_Subset
<1>4. Total(f, T) = IF T = {} THEN 0 ELSE f[Pick(T)] + Total(f, R)
  BY <1>3, TotalStep
<1>5. Total(g, T) = IF T = {} THEN 0 ELSE g[Pick(T)] + Total(g, R)
  BY <1>3, TotalStep
<1>6. T # {}
  BY <1>2, <1>4, <1>5
<1>7. Pick(T) \in T
  BY <1>6, PickIn
<1>8. Total(f, R) = Total(g, R)
  BY <1>1, <1>2, <1>7
<1> QED
  BY <1>2, <1>4, <1>5, <1>6, <1>7, <1>8

\* Any entry can be taken out of a sum first.
LEMMA TotalTakeOut ==
  ASSUME NEW f, NEW S, IsFiniteSet(S), \A x \in S : f[x] \in Int, NEW a \in S
  PROVE  Total(f, S) = f[a] + Total(f, S \ {a})
<1> DEFINE F == {T \in SUBSET S :
                   \E x \in T : Total(f, T) # f[x] + Total(f, T \ {x})}
<1> SUFFICES ASSUME F # {} PROVE FALSE
  OBVIOUS
<1>0. F \in SUBSET (SUBSET S)
  OBVIOUS
<1>1. PICK T \in F : \A U \in F : ~ (U \subseteq T /\ U # T)
  <2> HIDE DEF F
  <2> QED
    BY <1>0, MinimalSubset
<1>2. PICK x \in T : Total(f, T) # f[x] + Total(f, T \ {x})
  BY <1>1
<1> DEFINE y == Pick(T)
<1>3. T \subseteq S /\ IsFiniteSet(T) /\ y \in T
  BY <1>1, <1>2, FS_Subset, PickIn
<1>4. Total(f, T) = f[y] + Total(f, T \ {y})
  BY <1>2, <1>3, TotalStep
<1>5. x # y
  BY <1>2, <1>4
<1> DEFINE A == T \ {x}
           B == T \ {y}
           C == (T \ {x}) \ {y}
<1>6. \A U \in SUBSET T : U # T => \A z \in U : Total(f, U) = f[z] + Total(f, U \ {z})
  BY <1>1, <1>3
<1>7. Total(f, A) = f[y] + Total(f, C)
  <2>1. A \in SUBSET T /\ A # T /\ y \in A
    BY <1>2, <1>3, <1>5
  <2> HIDE DEF y
  <2> QED
    BY <1>6, <2>1
<1>8. Total(f, B) = f[x] + Total(f, C)
  <2>1. B \in SUBSET T /\ B # T /\ x \in B
    BY <1>2, <1>3, <1>5
  <2>2. B \ {x} = C
    OBVIOUS
  <2>3. Total(f, B) = f[x] + Total(f, B \ {x})
    <3> HIDE DEF B
    <3> QED
      BY <1>6, <2>1
  <2> HIDE DEF B, C, y
  <2> QED
    BY <2>2, <2>3, Zenon
<1>9. Total(f, C) \in Int
  BY <1>3, FS_Subset, TotalInt
<1>10. f[x] \in Int /\ f[y] \in Int
  BY <1>2, <1>3
<1>11. Total(f, T) = f[y] + Total(f, B) /\ Total(f, T) # f[x] + Total(f, A)
  BY <1>2, <1>4
<1> HIDE DEF y, A, B, C
<1> QED
  BY <1>7, <1>8, <1>9, <1>10, <1>11

\* When one entry changes, the sum changes by as much.
LEMMA TotalOneChanges ==
  ASSUME NEW f, NEW g, NEW S, IsFiniteSet(S), NEW a \in S,
         \A x \in S : f[x] \in Int /\ g[x] \in Int,
         \A x \in S \ {a} : g[x] = f[x]
  PROVE  Total(g, S) = Total(f, S) + g[a] - f[a]
<1> DEFINE R == S \ {a}
<1>1. IsFiniteSet(R)
  BY FS_Subset
<1>2. Total(f, R) = Total(g, R)
  BY <1>1, TotalSame
<1>3. Total(f, S) = f[a] + Total(f, R) /\ Total(g, S) = g[a] + Total(g, R)
  BY TotalTakeOut
<1>4. Total(f, R) \in Int
  BY <1>1, TotalInt
<1>5. f[a] \in Int /\ g[a] \in Int
  OBVIOUS
<1> HIDE DEF R
<1> QED
  BY <1>2, <1>3, <1>4, <1>5

\* Adding to one account adds as much to the sum.
LEMMA TotalPaidIn ==
  ASSUME NEW S, IsFiniteSet(S), NEW f \in [S -> Int], NEW a \in S, NEW d \in Int
  PROVE  Total([f EXCEPT ![a] = @ + d], S) = Total(f, S) + d
<1> DEFINE g == [f EXCEPT ![a] = @ + d]
<1>1. g[a] = f[a] + d /\ g \in [S -> Int]
  OBVIOUS
<1>2. \A x \in S \ {a} : g[x] = f[x]
  OBVIOUS
<1>3. Total(g, S) = Total(f, S) + g[a] - f[a]
  <2> HIDE DEF g
  <2> QED
    BY <1>1, <1>2, TotalOneChanges
<1>4. Total(f, S) \in Int /\ f[a] \in Int
  BY TotalInt
<1> HIDE DEF g
<1>5. Total(g, S) = Total(f, S) + d
  BY <1>1, <1>3, <1>4
<1> QED
  BY <1>5 DEF g

\* Entries that are no smaller have no smaller a sum.
LEMMA TotalMonotone ==
  ASSUME NEW f, NEW g, NEW S, IsFiniteSet(S),
         \A x \in S : f[x] \in Int /\ g[x] \in Int /\ f[x] <= g[x]
  PROVE  Total(f, S) <= Total(g, S)
<1> DEFINE F == {T \in SUBSET S : ~ (Total(f, T) <= Total(g, T))}
<1> SUFFICES ASSUME F # {} PROVE FALSE
  OBVIOUS
<1>0. F \in SUBSET (SUBSET S)
  OBVIOUS
<1>1. PICK T \in F : \A U \in F : ~ (U \subseteq T /\ U # T)
  <2> HIDE DEF F
  <2> QED
    BY <1>0, MinimalSubset
<1> DEFINE R == T \ {Pick(T)}
<1>2. T \subseteq S /\ ~ (Total(f, T) <= Total(g, T))
  BY <1>1
<1>3. IsFiniteSet(T) /\ IsFiniteSet(R)
  BY <1>2, FS_Subset
<1>4. Total(f, T) = IF T = {} THEN 0 ELSE f[Pick(T)] + Total(f, R)
  BY <1>3, TotalStep
<1>5. Total(g, T) = IF T = {} THEN 0 ELSE g[Pick(T)] + Total(g, R)
  BY <1>3, TotalStep
<1>6. T # {}
  BY <1>2, <1>4, <1>5
<1>7. Pick(T) \in T
  BY <1>6, PickIn
<1>8. Total(f, R) <= Total(g, R)
  BY <1>1, <1>2, <1>7
<1>9. Total(f, R) \in Int /\ Total(g, R) \in Int
  BY <1>2, <1>3, TotalInt
<1>10. f[Pick(T)] \in Int /\ g[Pick(T)] \in Int /\ f[Pick(T)] <= g[Pick(T)]
  BY <1>2, <1>7
<1> HIDE DEF R
<1> QED
  BY <1>2, <1>4, <1>5, <1>6, <1>8, <1>9, <1>10

\* A sum of zeros is zero.
LEMMA TotalZero ==
  ASSUME NEW f, NEW S, IsFiniteSet(S), \A x \in S : f[x] = 0
  PROVE  Total(f, S) = 0
<1> DEFINE F == {T \in SUBSET S : Total(f, T) # 0}
<1> SUFFICES ASSUME F # {} PROVE FALSE
  OBVIOUS
<1>0. F \in SUBSET (SUBSET S)
  OBVIOUS
<1>1. PICK T \in F : \A U \in F : ~ (U \subseteq T /\ U # T)
  <2> HIDE DEF F
  <2> QED
    BY <1>0, MinimalSubset
<1> DEFINE R == T \ {Pick(T)}
<1>2. T \subseteq S /\ Total(f, T) # 0
  BY <1>1
<1>3. Total(f, T) = IF T = {} THEN 0 ELSE f[Pick(T)] + Total(f, R)
  BY <1>2, FS_Subset, TotalStep
<1>4. Pick(T) \in T
  BY <1>2, <1>3, PickIn
<1>5. Total(f, R) = 0
  BY <1>1, <1>2, <1>4
<1> QED
  BY <1>2, <1>3, <1>4, <1>5

\* A sum of natural numbers is a natural number.
LEMMA TotalNat ==
  ASSUME NEW f, NEW S, IsFiniteSet(S), \A x \in S : f[x] \in Nat
  PROVE  Total(f, S) \in Nat
<1> DEFINE z == [x \in S |-> 0]
<1>1. Total(z, S) = 0
  BY TotalZero
<1>2. Total(z, S) <= Total(f, S)
  BY TotalMonotone
<1>3. Total(f, S) \in Int
  BY TotalInt
<1> HIDE DEF z
<1> QED
  BY <1>1, <1>2, <1>3

\* The sum of non-negative entries is at least each of them.
LEMMA TotalBoundsEach ==
  ASSUME NEW f, NEW S, IsFiniteSet(S), \A x \in S : f[x] \in Nat, NEW a \in S
  PROVE  Total(f, S) \in Nat /\ f[a] <= Total(f, S)
<1> DEFINE R == S \ {a}
<1>1. IsFiniteSet(R)
  BY FS_Subset
<1>2. Total(f, R) \in Nat
  BY <1>1, TotalNat
<1>3. Total(f, S) = f[a] + Total(f, R)
  BY TotalTakeOut
<1>4. f[a] \in Nat
  OBVIOUS
<1> HIDE DEF R
<1> QED
  BY <1>2, <1>3, <1>4

\* Entry by entry, two ledgers add up to a third: so do their sums.
LEMMA TotalOfTwo ==
  ASSUME NEW f, NEW g, NEW h, NEW S, IsFiniteSet(S),
         \A x \in S : f[x] \in Int /\ g[x] \in Int /\ h[x] = f[x] + g[x]
  PROVE  Total(h, S) = Total(f, S) + Total(g, S)
<1> DEFINE F == {T \in SUBSET S : Total(h, T) # Total(f, T) + Total(g, T)}
<1> SUFFICES ASSUME F # {} PROVE FALSE
  OBVIOUS
<1>0. F \in SUBSET (SUBSET S)
  OBVIOUS
<1>1. PICK T \in F : \A U \in F : ~ (U \subseteq T /\ U # T)
  <2> HIDE DEF F
  <2> QED
    BY <1>0, MinimalSubset
<1> DEFINE R == T \ {Pick(T)}
<1>2. T \subseteq S /\ Total(h, T) # Total(f, T) + Total(g, T)
  BY <1>1
<1>3. IsFiniteSet(T) /\ IsFiniteSet(R)
  BY <1>2, FS_Subset
<1>4. /\ Total(f, T) = IF T = {} THEN 0 ELSE f[Pick(T)] + Total(f, R)
      /\ Total(g, T) = IF T = {} THEN 0 ELSE g[Pick(T)] + Total(g, R)
      /\ Total(h, T) = IF T = {} THEN 0 ELSE h[Pick(T)] + Total(h, R)
  BY <1>3, TotalStep
<1>5. T # {}
  BY <1>2, <1>4
<1>6. Pick(T) \in T
  BY <1>5, PickIn
<1>7. Total(h, R) = Total(f, R) + Total(g, R)
  BY <1>1, <1>2, <1>6
<1>8. Total(f, R) \in Int /\ Total(g, R) \in Int
  BY <1>2, <1>3, TotalInt
<1>9. f[Pick(T)] \in Int /\ g[Pick(T)] \in Int /\ h[Pick(T)] = f[Pick(T)] + g[Pick(T)]
  BY <1>2, <1>6
<1> HIDE DEF R
<1> QED
  BY <1>2, <1>4, <1>5, <1>7, <1>8, <1>9

\* A finite set of numbers that is not empty has a greatest.
LEMMA Greatest ==
  ASSUME NEW S, IsFiniteSet(S), S \subseteq Int, S # {}
  PROVE  \E m \in S : \A x \in S : x <= m
<1> DEFINE F == {A \in SUBSET S : \E x \in S : A = {y \in S : y > x}}
<1>0. F \in SUBSET (SUBSET S)
  OBVIOUS
<1>1. F # {}
  <2>1. PICK x \in S : TRUE
    OBVIOUS
  <2>2. {y \in S : y > x} \in F
    OBVIOUS
  <2> QED
    BY <2>2
<1>2. PICK V \in F : \A U \in F : ~ (U \subseteq V /\ U # V)
  <2>1. IsFiniteSet(S)
    OBVIOUS
  <2> HIDE DEF F
  <2>2. \E T \in F : \A U \in F : ~ (U \subseteq T /\ U # T)
    BY ONLY <1>0, <1>1, <2>1, MinimalSubset
  <2> QED
    BY <2>2
<1>3. PICK m \in S : V = {y \in S : y > m}
  BY <1>2
<1>4. ASSUME NEW x \in S, x > m PROVE FALSE
  <2> DEFINE U == {y \in S : y > x}
  <2>1. U \in F
    OBVIOUS
  <2>2. \A y \in S : y > x => y > m
    BY <1>4
  <2>3. U \subseteq V
    BY <1>3, <2>2
  <2>4. x \in V /\ x \notin U
    BY <1>3, <1>4
  <2> HIDE DEF U, F
  <2> QED
    BY <1>2, <2>1, <2>4, <2>3
<1> QED
  BY <1>4
=============================================================================
