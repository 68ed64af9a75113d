------------------------ MODULE DashboardPageProofs -------------------------
(***************************************************************************)
(* TLAPS proofs about DashboardPage, for every set of spans, agents, costs *)
(* and counters, and any number of refreshes, polls at a time, requests    *)
(* counted and restarts of the gateway.                                    *)
(*                                                                         *)
(* The two effects of the page share only that it is there, and so do the  *)
(* two halves of the invariant.  CardsInv: while a refresh is under way    *)
(* alone, what its calls have brought is the table as it is, unless it was *)
(* stirred (OneMoment).  MetersInv: no counter anybody knows of is beyond  *)
(* what was counted in that life (Counted), and a poll under way alone     *)
(* will bring no less than the page shows (InTurn).                        *)
(*                                                                         *)
(* That cards and bars then agree is arithmetic: sums over finite sets,    *)
(* their sums by group (SumByAgent) and what rounding takes from the parts *)
(* of a whole (PartsOfWhole), by induction over finite sets in the form of *)
(* a smallest counterexample (SmallestSubset).                             *)
(***************************************************************************)
EXTENDS DashboardPage, FiniteSetTheorems, SequenceTheorems, WellFoundedInduction, TLAPS

-----------------------------------------------------------------------------
(* Sums over finite sets. *)

\* Every family of subsets of a finite set has a smallest member: induction
\* over finite sets, by the smallest counterexample.
Smallest(X, F) == X \in F /\ \A Y \in F : Y \subseteq X => Y = X

LEMMA SmallestSubset ==
    ASSUME NEW S, IsFiniteSet(S), NEW F \in SUBSET SUBSET S, F # {}
    PROVE  \E X : Smallest(X, F)
<1>1. IsWellFoundedOn(StrictSubsetOrdering(S), SUBSET S)
  BY FS_StrictSubsetOrderingWellFounded, FS_FiniteSubsetsOfFinite, Zenon
<1>2. PICK X \in F : \A Y \in F : <<Y, X>> \notin StrictSubsetOrdering(S)
  BY <1>1, WFMin, Zenon
<1> QED
  BY <1>2 DEF StrictSubsetOrdering, Smallest

pick(s) == CHOOSE x \in s : TRUE

\* g is the sum of w over every subset of S, as SumFunctionOnSet computes it.
IsSum(g, w, S) ==
    g = [s \in SUBSET S |-> IF s = {} THEN 0 ELSE w[pick(s)] + g[s \ {pick(s)}]]

Sum(w, S) == SumFunctionOnSet(w, S)

LEMMA SumDef ==
    ASSUME NEW w, NEW S
    PROVE  Sum(w, S) = (CHOOSE g : IsSum(g, w, S))[S]
BY DEF Sum, SumFunctionOnSet, FoldFunctionOnSet, MapThenFoldSet, IsSum, pick

LEMMA Picked ==
    ASSUME NEW s, s # {}
    PROVE  pick(s) \in s
BY DEF pick

LEMMA SumAt ==
    ASSUME NEW g, NEW w, NEW S, IsSum(g, w, S), NEW s \in SUBSET S
    PROVE  /\ s = {} => g[s] = 0
           /\ s # {} => g[s] = w[pick(s)] + g[s \ {pick(s)}]
BY DEF IsSum

\* There is at most one such function ...
LEMMA SumUnique ==
    ASSUME NEW w, NEW S, IsFiniteSet(S), NEW A \in SUBSET S, NEW B \in SUBSET S,
           NEW g, NEW h, IsSum(g, w, A), IsSum(h, w, B)
    PROVE  \A s \in SUBSET (A \cap B) : g[s] = h[s]
<1> SUFFICES ASSUME ~ \A s \in SUBSET (A \cap B) : g[s] = h[s]
             PROVE  FALSE
  OBVIOUS
<1> DEFINE F == {s \in SUBSET (A \cap B) : g[s] # h[s]}
<1>1. F \in SUBSET SUBSET S /\ F # {}
  OBVIOUS
<1>2. PICK X : Smallest(X, F)
  <2> HIDE DEF F
  <2> QED
    BY <1>1, SmallestSubset
<1>3. X \in SUBSET A /\ X \in SUBSET B /\ g[X] # h[X]
      /\ \A Y \in F : Y \subseteq X => Y = X
  BY <1>2 DEF Smallest
<1>4. X # {}
  BY <1>3, SumAt
<1>5. /\ g[X] = w[pick(X)] + g[X \ {pick(X)}]
      /\ h[X] = w[pick(X)] + h[X \ {pick(X)}]
  BY <1>3, <1>4, SumAt
<1>6. pick(X) \in X
  BY <1>4, Picked
<1>7. X \ {pick(X)} \notin F
  BY <1>3, <1>6
<1>8. g[X \ {pick(X)}] = h[X \ {pick(X)}]
  BY <1>3, <1>7
<1> QED
  BY <1>3, <1>5, <1>8

\* ... and there is one.
LEMMA SumExists ==
    ASSUME NEW w, NEW S, IsFiniteSet(S)
    PROVE  \E g : IsSum(g, w, S)
<1> SUFFICES ASSUME ~ \E g : IsSum(g, w, S)
             PROVE  FALSE
  OBVIOUS
<1> DEFINE F == {T \in SUBSET S : ~ \E g : IsSum(g, w, T)}
<1>1. F \in SUBSET SUBSET S /\ F # {}
  OBVIOUS
<1>2. PICK X : Smallest(X, F)
  <2> HIDE DEF F
  <2> QED
    BY <1>1, SmallestSubset
<1>3. X \in SUBSET S /\ (~ \E g : IsSum(g, w, X)) /\ \A Y \in F : Y \subseteq X => Y = X
  BY <1>2 DEF Smallest
<1> DEFINE V(s) == (CHOOSE g : IsSum(g, w, s))[s]
           G(s) == CHOOSE g : IsSum(g, w, s)
           p == pick(X)
           h == [s \in SUBSET X |-> IF s = X /\ X # {} THEN w[p] + V(X \ {p}) ELSE V(s)]
<1>4. \A s \in SUBSET X : s # X => IsSum(G(s), w, s)
  BY <1>3
<1>5. ASSUME NEW s \in SUBSET X, s # X
      PROVE  V(s) = IF s = {} THEN 0 ELSE w[pick(s)] + V(s \ {pick(s)})
  <2>1. PICK g : g = G(s) /\ IsSum(g, w, s) /\ V(s) = g[s]
    BY <1>4, <1>5
  <2>2. s = {} => g[s] = 0
    BY <2>1, SumAt
  <2>3. ASSUME s # {} PROVE g[s] = w[pick(s)] + V(s \ {pick(s)})
    <3>1. g[s] = w[pick(s)] + g[s \ {pick(s)}]
      BY <2>1, <2>3, SumAt
    <3>2. PICK r : r = s \ {pick(s)} /\ r \subseteq s /\ r # s /\ r \subseteq X /\ r # X
      <4>1. PICK q \in s : q = pick(s)
        BY <2>3, Picked
      <4>2. PICK r : r = s \ {q}
        OBVIOUS
      <4> HIDE DEF G, V, h, F
      <4>3. r \subseteq s /\ q \notin r /\ r \subseteq X /\ q \in X
        BY <4>1, <4>2
      <4>4. r # s /\ r # X
        BY <4>1, <4>3
      <4> QED
        BY <4>1, <4>2, <4>3, <4>4
    <3>3. PICK k : k = G(r) /\ IsSum(k, w, r) /\ V(r) = k[r]
      BY <1>4, <3>2
    <3>4. g[r] = k[r]
      <4> HIDE DEF G, V
      <4>1. r \in SUBSET (s \cap r)
        BY <3>2
      <4>2. s \in SUBSET S /\ r \in SUBSET S
        BY <1>3, <3>2
      <4> QED
        BY <2>1, <3>3, <4>1, <4>2, SumUnique
    <3> QED
      BY <3>1, <3>2, <3>3, <3>4
  <2> QED
    BY <2>1, <2>2, <2>3
<1>6. ASSUME X = {} PROVE FALSE
  <2>1. IsSum([s \in SUBSET X |-> 0], w, X)
    BY <1>6 DEF IsSum
  <2> QED
    BY <1>3, <2>1
<1>7. \A s \in SUBSET X : h[s] = IF s = {} THEN 0 ELSE w[pick(s)] + h[s \ {pick(s)}]
  <2> SUFFICES ASSUME NEW s \in SUBSET X
               PROVE  h[s] = IF s = {} THEN 0 ELSE w[pick(s)] + h[s \ {pick(s)}]
    OBVIOUS
  <2> HIDE DEF V
  <2>1. CASE s = X
    <3>1. X \ {p} \in SUBSET X /\ X \ {p} # X
      BY <1>6, Picked
    <3>2. h[X] = w[p] + V(X \ {p}) /\ h[X \ {p}] = V(X \ {p})
      BY <1>6, <3>1
    <3> QED
      BY <1>6, <2>1, <3>2
  <2>2. CASE s # X
    <3>1. h[s] = V(s)
      BY <2>2
    <3>2. s # {} => h[s \ {pick(s)}] = V(s \ {pick(s)})
      BY <2>2, Picked
    <3> QED
      BY <1>5, <2>2, <3>1, <3>2
  <2> QED
    BY <2>1, <2>2
<1>8. IsSum(h, w, X)
  <2>1. h = [s \in SUBSET X |-> h[s]]
    OBVIOUS
  <2> HIDE DEF h
  <2> QED
    BY <1>7, <2>1 DEF IsSum
<1> QED
  BY <1>3, <1>8

LEMMA SumStep ==
    ASSUME NEW w, NEW S, IsFiniteSet(S)
    PROVE  /\ S = {} => Sum(w, S) = 0
           /\ S # {} => /\ pick(S) \in S
                        /\ Sum(w, S) = w[pick(S)] + Sum(w, S \ {pick(S)})
<1> DEFINE r == S \ {pick(S)}
<1>1. PICK g : g = (CHOOSE k : IsSum(k, w, S)) /\ IsSum(g, w, S)
  BY SumExists
<1>2. Sum(w, S) = g[S]
  BY <1>1, SumDef
<1>3. IsFiniteSet(r)
  BY FS_RemoveElement
<1>4. PICK h : h = (CHOOSE k : IsSum(k, w, r)) /\ IsSum(h, w, r)
  <2> HIDE DEF r
  <2> QED
    BY <1>3, SumExists
<1>5. Sum(w, r) = h[r]
  BY <1>4, SumDef
<1>6. g[r] = h[r]
  <2>1. r \in SUBSET (S \cap r) /\ r \in SUBSET S /\ S \in SUBSET S
    OBVIOUS
  <2>2. IsSum(g, w, S) /\ IsSum(h, w, r)
    BY <1>1, <1>4
  <2> HIDE DEF r
  <2>3. \A s \in SUBSET (S \cap r) : g[s] = h[s]
    BY <2>1, <2>2, SumUnique
  <2> QED
    BY <2>1, <2>3
<1>7. /\ S = {} => g[S] = 0
      /\ S # {} => g[S] = w[pick(S)] + g[r]
  BY <1>1, SumAt
<1> QED
  BY <1>2, <1>5, <1>6, <1>7, Picked

LEMMA SumNat ==
    ASSUME NEW w, NEW S, IsFiniteSet(S), \A x \in S : w[x] \in Nat
    PROVE  Sum(w, S) \in Nat
<1> SUFFICES ASSUME Sum(w, S) \notin Nat PROVE FALSE
  OBVIOUS
<1> DEFINE F == {T \in SUBSET S : Sum(w, T) \notin Nat}
<1>1. F \in SUBSET SUBSET S /\ F # {}
  OBVIOUS
<1>2. PICK X : Smallest(X, F)
  <2> HIDE DEF F
  <2> QED
    BY <1>1, SmallestSubset
<1>3. X \in SUBSET S /\ Sum(w, X) \notin Nat /\ \A Y \in F : Y \subseteq X => Y = X
  BY <1>2 DEF Smallest
<1>4. IsFiniteSet(X)
  BY <1>3, FS_Subset
<1>a. X # {}
  <2>1. X = {} => Sum(w, X) = 0
    BY <1>4, SumStep
  <2> QED
    BY <1>3, <2>1
<1>5. X # {} /\ pick(X) \in X /\ Sum(w, X) = w[pick(X)] + Sum(w, X \ {pick(X)})
  BY <1>a, <1>4, SumStep
<1>6. Sum(w, X \ {pick(X)}) \in Nat
  BY <1>3, <1>5
<1> QED
  BY <1>3, <1>5, <1>6

\* Any member may be taken out of a sum.
LEMMA SumOut ==
    ASSUME NEW w, NEW S, IsFiniteSet(S), \A x \in S : w[x] \in Nat, NEW a \in S
    PROVE  Sum(w, S) = w[a] + Sum(w, S \ {a})
<1> SUFFICES ASSUME Sum(w, S) # w[a] + Sum(w, S \ {a}) PROVE FALSE
  OBVIOUS
<1> DEFINE F == {T \in SUBSET S : \E x \in T : Sum(w, T) # w[x] + Sum(w, T \ {x})}
<1>1. F \in SUBSET SUBSET S /\ F # {}
  OBVIOUS
<1>2. PICK X : Smallest(X, F)
  <2> HIDE DEF F
  <2> QED
    BY <1>1, SmallestSubset
<1>3. X \in SUBSET S /\ \A Y \in F : Y \subseteq X => Y = X
  BY <1>2 DEF Smallest
<1>4. PICK x \in X : Sum(w, X) # w[x] + Sum(w, X \ {x})
  BY <1>2 DEF Smallest
<1>5. \A Y \in SUBSET X : Y # X => \A y \in Y : Sum(w, Y) = w[y] + Sum(w, Y \ {y})
  BY <1>3
<1>6. IsFiniteSet(X)
  BY <1>3, FS_Subset
<1>7. PICK p \in X : p = pick(X) /\ Sum(w, X) = w[p] + Sum(w, X \ {p})
  BY <1>4, <1>6, SumStep
<1>8. x # p
  BY <1>4, <1>7
<1>9. Sum(w, X \ {p}) = w[x] + Sum(w, (X \ {p}) \ {x})
  BY <1>5, <1>8
<1>10. Sum(w, X \ {x}) = w[p] + Sum(w, (X \ {x}) \ {p})
  BY <1>5, <1>8
<1>11. (X \ {p}) \ {x} = (X \ {x}) \ {p}
  OBVIOUS
<1>12. PICK rest \in Nat : rest = Sum(w, (X \ {p}) \ {x})
  <2>1. IsFiniteSet((X \ {p}) \ {x})
    BY <1>6, FS_Subset
  <2> QED
    BY <1>3, <2>1, SumNat
<1>13. w[x] \in Nat /\ w[p] \in Nat
  BY <1>3
<1>14. w[x] + (w[p] + rest) = w[p] + (w[x] + rest)
  BY <1>13
<1> QED
  BY <1>4, <1>7, <1>9, <1>10, <1>11, <1>12, <1>14

\* The sum over two sets that share nothing.
LEMMA SumUnion ==
    ASSUME NEW w, NEW A, NEW B, IsFiniteSet(A), IsFiniteSet(B), A \cap B = {},
           \A x \in A \cup B : w[x] \in Nat
    PROVE  Sum(w, A \cup B) = Sum(w, A) + Sum(w, B)
<1> SUFFICES ASSUME Sum(w, A \cup B) # Sum(w, A) + Sum(w, B) PROVE FALSE
  OBVIOUS
<1> DEFINE F == {T \in SUBSET A : Sum(w, T \cup B) # Sum(w, T) + Sum(w, B)}
<1>1. F \in SUBSET SUBSET A /\ F # {}
  OBVIOUS
<1>2. PICK X : Smallest(X, F)
  <2> HIDE DEF F
  <2> QED
    BY <1>1, SmallestSubset
<1>3. X \in SUBSET A /\ Sum(w, X \cup B) # Sum(w, X) + Sum(w, B) /\ \A Y \in F : Y \subseteq X => Y = X
  BY <1>2 DEF Smallest
<1>4. IsFiniteSet(X) /\ IsFiniteSet(X \cup B)
  BY <1>3, FS_Subset, FS_Union
<1>5. Sum(w, B) \in Nat
  BY SumNat
<1>6. CASE X = {}
  <2>1. Sum(w, X) = 0 /\ X \cup B = B
    BY <1>4, <1>6, SumStep
  <2>2. Sum(w, X \cup B) = Sum(w, B)
    BY <2>1, Zenon
  <2> QED
    BY <1>3, <1>5, <2>1, <2>2
<1>7. CASE X # {}
  <2>1. PICK p : p \in X
    BY <1>7
  <2>2. Sum(w, X) = w[p] + Sum(w, X \ {p})
    BY <1>3, <1>4, <2>1, SumOut
  <2>3. Sum(w, X \cup B) = w[p] + Sum(w, (X \cup B) \ {p})
    <3>1. p \in X \cup B /\ \A x \in X \cup B : w[x] \in Nat
      BY <1>3, <2>1
    <3>2. PICK U : U = X \cup B
      OBVIOUS
    <3> QED
      BY <1>4, <3>1, <3>2, SumOut
  <2>4. (X \cup B) \ {p} = (X \ {p}) \cup B
    BY <1>3, <2>1
  <2>5. Sum(w, (X \ {p}) \cup B) = Sum(w, X \ {p}) + Sum(w, B)
    BY <1>3, <2>1
  <2>6. w[p] \in Nat /\ Sum(w, X \ {p}) \in Nat
    <3>1. IsFiniteSet(X \ {p}) /\ \A x \in X \ {p} : w[x] \in Nat
      BY <1>3, <1>4, FS_Subset
    <3>2. PICK U : U = X \ {p}
      OBVIOUS
    <3> QED
      BY <1>3, <2>1, <3>1, <3>2, SumNat
  <2>7. w[p] + (Sum(w, X \ {p}) + Sum(w, B)) = (w[p] + Sum(w, X \ {p})) + Sum(w, B)
    BY <1>5, <2>6
  <2> QED
    BY <1>3, <2>2, <2>3, <2>4, <2>5, <2>7
<1> QED
  BY <1>6, <1>7

LEMMA SumOnes ==
    ASSUME NEW w, NEW S, IsFiniteSet(S), \A x \in S : w[x] = 1
    PROVE  Sum(w, S) = Cardinality(S)
<1> SUFFICES ASSUME Sum(w, S) # Cardinality(S) PROVE FALSE
  OBVIOUS
<1> DEFINE F == {T \in SUBSET S : Sum(w, T) # Cardinality(T)}
<1>1. F \in SUBSET SUBSET S /\ F # {}
  OBVIOUS
<1>2. PICK X : Smallest(X, F)
  <2> HIDE DEF F
  <2> QED
    BY <1>1, SmallestSubset
<1>3. X \in SUBSET S /\ Sum(w, X) # Cardinality(X) /\ \A Y \in F : Y \subseteq X => Y = X
  BY <1>2 DEF Smallest
<1>4. IsFiniteSet(X)
  BY <1>3, FS_Subset
<1>5. CASE X = {}
  <2>1. Sum(w, X) = 0
    BY <1>4, <1>5, SumStep
  <2>2. Cardinality(X) = 0
    BY <1>5, FS_EmptySet
  <2> QED
    BY <1>3, <2>1, <2>2
<1>6. CASE X # {}
  <2>1. PICK p \in X : p = pick(X) /\ Sum(w, X) = w[p] + Sum(w, X \ {p})
    BY <1>4, <1>6, SumStep
  <2>2. Sum(w, X \ {p}) = Cardinality(X \ {p})
    BY <1>3, <2>1
  <2>3. Cardinality(X \ {p}) = Cardinality(X) - 1 /\ Cardinality(X) \in Nat
    BY <1>4, <2>1, FS_RemoveElement, FS_CardinalityType
  <2>4. w[p] = 1
    BY <1>3, <2>1
  <2> QED
    BY <1>3, <2>1, <2>2, <2>3, <2>4
<1> QED
  BY <1>5, <1>6

\* Sums by group: I has one item J[a] for each agent a of A, and w is for each
\* of them the sum of v over the spans of D that are its agent's.
Group(D, A) == {s \in D : AgentOf[s] \in A}

Itemises(I, J, w, D, v, A) ==
    /\ IsFiniteSet(D) /\ \A s \in D : v[s] \in Nat
    /\ IsFiniteSet(A) /\ \A a, b \in A : J[a] = J[b] => a = b
    /\ \A a \in A : w[J[a]] = Sum(v, Group(D, {a}))
    /\ \A i : i \in I <=> \E a \in A : i = J[a]

LEMMA SumByAgent ==
    ASSUME NEW I, NEW J, NEW w, NEW D, NEW v, NEW A, Itemises(I, J, w, D, v, A)
    PROVE  Sum(w, I) = Sum(v, Group(D, A))
<1>0. /\ IsFiniteSet(D) /\ \A s \in D : v[s] \in Nat
      /\ IsFiniteSet(A) /\ \A a, b \in A : J[a] = J[b] => a = b
      /\ \A a \in A : w[J[a]] = Sum(v, Group(D, {a}))
      /\ \A i : i \in I <=> \E a \in A : i = J[a]
  BY DEF Itemises
<1> USE <1>0
<1> DEFINE Items(T) == {J[a] : a \in T}
<1>a. I = Items(A)
  OBVIOUS
<1> SUFFICES ASSUME Sum(w, Items(A)) # Sum(v, Group(D, A)) PROVE FALSE
  BY <1>a, Zenon
<1> DEFINE F == {T \in SUBSET A : Sum(w, Items(T)) # Sum(v, Group(D, T))}
<1>1. F \in SUBSET SUBSET A /\ F # {}
  OBVIOUS
<1>2. PICK X : Smallest(X, F)
  <2> HIDE DEF F
  <2> QED
    BY <1>1, SmallestSubset
<1>3. X \in SUBSET A /\ \A Y \in F : Y \subseteq X => Y = X
  BY <1>2 DEF Smallest
<1>4. Sum(w, Items(X)) # Sum(v, Group(D, X))
  BY <1>2 DEF Smallest
<1>5. IsFiniteSet(X)
  BY <1>3, FS_Subset
<1>6. CASE X = {}
  <2>1. Items(X) = {} /\ Group(D, X) = {}
    BY <1>6 DEF Group
  <2>2. Sum(w, {}) = 0 /\ Sum(v, {}) = 0
    BY FS_EmptySet, SumStep
  <2>3. Sum(w, Items(X)) = 0 /\ Sum(v, Group(D, X)) = 0
    BY <2>1, <2>2, Zenon
  <2> QED
    BY <1>4, <2>3
<1>7. CASE X # {}
  <2>1. PICK a \in X : TRUE
    BY <1>7
  <2>2. PICK Z : Z = X \ {a}
    OBVIOUS
  <2>3. IsFiniteSet(Items(X))
    <3>1. [x \in X |-> J[x]] \in Surjection(X, Items(X))
      BY DEF Surjection
    <3> HIDE DEF Items
    <3> QED
      BY <1>5, <3>1, FS_Surjection
  <2>4. \A T : IsFiniteSet(Group(D, T)) /\ \A s \in Group(D, T) : v[s] \in Nat
    BY FS_Subset DEF Group
  <2>5. \A i \in Items(X) : w[i] \in Nat
    <3>1. \A T : Sum(v, Group(D, T)) \in Nat
      BY <2>4, SumNat
    <3> SUFFICES ASSUME NEW i \in Items(X) PROVE w[i] \in Nat
      OBVIOUS
    <3>2. PICK x \in X : i = J[x]
      OBVIOUS
    <3>3. w[J[x]] = Sum(v, Group(D, {x}))
      BY <1>3
    <3> QED
      BY <3>1, <3>2, <3>3
  <2>6. J[a] \in Items(X) /\ Items(X) \ {J[a]} = Items(Z)
    BY <1>3, <2>1, <2>2
  <2>7. Sum(w, Items(X)) = w[J[a]] + Sum(w, Items(Z))
    <3> HIDE DEF Items
    <3>1. Sum(w, Items(X)) = w[J[a]] + Sum(w, Items(X) \ {J[a]})
      BY <2>3, <2>5, <2>6, SumOut
    <3> QED
      BY <2>6, <3>1
  <2>8. Sum(w, Items(Z)) = Sum(v, Group(D, Z))
    BY <1>3, <2>1, <2>2
  <2>9. Group(D, X) = Group(D, {a}) \cup Group(D, Z) /\ Group(D, {a}) \cap Group(D, Z) = {}
    BY <2>1, <2>2 DEF Group
  <2>10. Sum(v, Group(D, X)) = Sum(v, Group(D, {a})) + Sum(v, Group(D, Z))
    <3>1. \A s \in Group(D, {a}) \cup Group(D, Z) : v[s] \in Nat
      BY <2>4
    <3>2. /\ IsFiniteSet(Group(D, {a})) /\ IsFiniteSet(Group(D, Z))
      BY <2>4
    <3>3. PICK P, Q : P = Group(D, {a}) /\ Q = Group(D, Z)
      OBVIOUS
    <3>4. /\ IsFiniteSet(P) /\ IsFiniteSet(Q) /\ P \cap Q = {}
          /\ \A s \in P \cup Q : v[s] \in Nat
      BY <2>9, <3>1, <3>2, <3>3
    <3>5. Sum(v, P \cup Q) = Sum(v, P) + Sum(v, Q)
      BY <3>4, SumUnion
    <3> QED
      BY <2>9, <3>3, <3>5, Zenon
  <2>11. w[J[a]] = Sum(v, Group(D, {a}))
    BY <1>3, <2>1
  <2> HIDE DEF Items, F
  <2> QED
    BY <1>4, <2>7, <2>8, <2>10, <2>11
<1> QED
  BY <1>6, <1>7

-----------------------------------------------------------------------------
(* Parts of a whole. *)

LEMMA DivBounds ==
    ASSUME NEW m \in Nat \ {0}, NEW a \in Nat
    PROVE  /\ a \div m \in Nat
           /\ m * (a \div m) <= a
           /\ a <= m * (a \div m) + (m - 1)
OBVIOUS

LEMMA TimesMonotone ==
    ASSUME NEW m \in Nat, NEW a \in Nat, NEW b \in Nat, a <= b
    PROVE  m * a <= m * b
OBVIOUS

LEMMA TimesAdd ==
    ASSUME NEW m \in Nat, NEW a \in Nat, NEW b \in Nat
    PROVE  m * (a + b) = m * a + m * b /\ m * a \in Nat /\ m * b \in Nat
OBVIOUS

\* A part is rounded down by less than one.
LEMMA SumOfParts ==
    ASSUME NEW S, IsFiniteSet(S), NEW l, \A x \in S : l[x] \in Nat,
           NEW m \in Nat \ {0}, NEW b, \A x \in S : b[x] = (l[x] * 1000) \div m
    PROVE  /\ Sum(b, S) \in Nat /\ Sum(l, S) \in Nat /\ Cardinality(S) \in Nat
           /\ m * Sum(b, S) <= 1000 * Sum(l, S)
           /\ 1000 * Sum(l, S) <= m * Sum(b, S) + (m - 1) * Cardinality(S)
<1>1. ASSUME NEW x \in S
      PROVE  b[x] \in Nat /\ m * b[x] <= 1000 * l[x] /\ 1000 * l[x] <= m * b[x] + (m - 1)
  <2>1. PICK k \in Nat : k = l[x]
    BY <1>1
  <2>2. PICK a \in Nat : a = k * 1000 /\ a = 1000 * k
    OBVIOUS
  <2>3. b[x] = a \div m
    BY <1>1, <2>1, <2>2
  <2>4. PICK q \in Nat : q = a \div m /\ m * q <= a /\ a <= m * q + (m - 1)
    BY DivBounds
  <2>5. b[x] = q
    BY <2>3, <2>4
  <2> QED
    BY <2>1, <2>2, <2>4, <2>5
<1> DEFINE Good(T) == /\ m * Sum(b, T) <= 1000 * Sum(l, T)
                      /\ 1000 * Sum(l, T) <= m * Sum(b, T) + (m - 1) * Cardinality(T)
           F == {T \in SUBSET S : ~ Good(T)}
<1>2. \A T \in SUBSET S : /\ IsFiniteSet(T) /\ Sum(b, T) \in Nat /\ Sum(l, T) \in Nat
                          /\ Cardinality(T) \in Nat
  <2> SUFFICES ASSUME NEW T \in SUBSET S
               PROVE  /\ IsFiniteSet(T) /\ Sum(b, T) \in Nat /\ Sum(l, T) \in Nat
                      /\ Cardinality(T) \in Nat
    OBVIOUS
  <2>1. IsFiniteSet(T) /\ Cardinality(T) \in Nat
    BY FS_Subset, FS_CardinalityType
  <2>2. \A x \in T : b[x] \in Nat /\ l[x] \in Nat
    BY <1>1
  <2> QED
    BY <2>1, <2>2, SumNat
<1>3. SUFFICES ASSUME ~ Good(S) PROVE FALSE
  BY <1>2
<1>4. F \in SUBSET SUBSET S /\ F # {}
  <2> HIDE DEF Good
  <2> QED
    BY <1>3
<1>5. PICK X : Smallest(X, F)
  <2> HIDE DEF F
  <2> QED
    BY <1>4, SmallestSubset
<1>6. X \in SUBSET S /\ (~ Good(X)) /\ \A Y \in F : Y \subseteq X => Y = X
  <2> HIDE DEF Good
  <2> QED
    BY <1>5 DEF Smallest
<1>7. CASE X = {}
  <2>1. Sum(b, X) = 0 /\ Sum(l, X) = 0
    BY <1>2, <1>6, <1>7, SumStep
  <2>2. Cardinality(X) = 0
    BY <1>7, FS_EmptySet
  <2> QED
    BY <1>6, <2>1, <2>2
<1>8. CASE X # {}
  <2>1. PICK p \in X : TRUE
    BY <1>8
  <2>2. PICK Z : Z = X \ {p} /\ Z \in SUBSET S
    <3>1. X \ {p} \in SUBSET S
      BY <1>6
    <3> QED
      BY <3>1
  <2>3. Good(Z)
    <3> HIDE DEF Good
    <3> QED
      BY <1>6, <2>1, <2>2
  <2>4. /\ IsFiniteSet(X) /\ \A x \in X : b[x] \in Nat /\ l[x] \in Nat
    BY <1>1, <1>2, <1>6
  <2>5. Sum(b, X) = b[p] + Sum(b, Z) /\ Sum(l, X) = l[p] + Sum(l, Z)
    BY <2>1, <2>2, <2>4, SumOut
  <2>6. Cardinality(X) = 1 + Cardinality(Z)
    <3>1. Cardinality(Z) = Cardinality(X) - 1 /\ Cardinality(X) \in Nat
      BY <2>1, <2>2, <2>4, FS_RemoveElement, FS_CardinalityType
    <3> QED
      BY <3>1
  <2>7. PICK y \in Nat, B \in Nat, x \in Nat, L \in Nat, n \in Nat :
            y = b[p] /\ B = Sum(b, Z) /\ x = l[p] /\ L = Sum(l, Z) /\ n = Cardinality(Z)
    <3>1. /\ b[p] \in Nat /\ Sum(b, Z) \in Nat /\ l[p] \in Nat /\ Sum(l, Z) \in Nat
          /\ Cardinality(Z) \in Nat
      BY <1>2, <2>1, <2>2, <2>4
    <3> QED
      BY <3>1
  <2>8. m * B <= 1000 * L /\ 1000 * L <= m * B + (m - 1) * n
    BY <2>3, <2>7
  <2>9. m * y <= 1000 * x /\ 1000 * x <= m * y + (m - 1)
    BY <1>1, <1>6, <2>1, <2>7
  <2>10. m * (y + B) = m * y + m * B /\ m * y \in Nat /\ m * B \in Nat
    BY TimesAdd
  <2>11. (m - 1) * (1 + n) = (m - 1) + (m - 1) * n /\ (m - 1) * n \in Nat
    <3>1. PICK k \in Nat : k = m - 1
      OBVIOUS
    <3>2. k * (1 + n) = k * 1 + k * n /\ k * n \in Nat
      BY TimesAdd
    <3> QED
      BY <3>1, <3>2
  <2>12. /\ m * (y + B) <= 1000 * (x + L)
         /\ 1000 * (x + L) <= m * (y + B) + (m - 1) * (1 + n)
    BY <2>8, <2>9, <2>10, <2>11
  <2> QED
    BY <1>6, <2>5, <2>6, <2>7, <2>12
<1> QED
  BY <1>7, <1>8

\* The parts of a whole make up the whole, but for what is rounded.
LEMMA PartsOfWhole ==
    ASSUME NEW S, IsFiniteSet(S), NEW l, \A x \in S : l[x] \in Nat, Sum(l, S) > 0,
           NEW b, \A x \in S : b[x] = (l[x] * 1000) \div Sum(l, S)
    PROVE  Sum(b, S) \in (1001 - Cardinality(S))..1000
<1>1. PICK m \in Nat \ {0} : m = Sum(l, S)
  BY SumNat
<1>2. /\ Sum(b, S) \in Nat /\ Cardinality(S) \in Nat
      /\ m * Sum(b, S) <= 1000 * m
      /\ 1000 * m <= m * Sum(b, S) + (m - 1) * Cardinality(S)
  BY <1>1, SumOfParts
<1>3. PICK B \in Nat, n \in Nat : B = Sum(b, S) /\ n = Cardinality(S)
  BY <1>2
<1>4. m * B <= 1000 * m /\ 1000 * m <= m * B + (m - 1) * n
  BY <1>2, <1>3
<1>5. n # 0
  <2>1. n = 0 => S = {}
    BY <1>3, FS_EmptySet
  <2> QED
    BY <1>1, <2>1, SumStep
<1>6. B <= 1000
  <2> SUFFICES ASSUME B > 1000 PROVE FALSE
    OBVIOUS
  <2>1. m * 1001 <= m * B
    BY TimesMonotone
  <2> QED
    BY <1>4, <2>1
<1>7. B + n > 1000
  <2> SUFFICES ASSUME B + n <= 1000 PROVE FALSE
    OBVIOUS
  <2>1. m * (B + n) <= m * 1000
    BY TimesMonotone
  <2>2. m * (B + n) = m * B + m * n /\ m * B \in Nat /\ m * n \in Nat
    BY TimesAdd
  <2>3. m * n = (m - 1) * n + n
    OBVIOUS
  <2>4. (m - 1) * n \in Int
    OBVIOUS
  <2> QED
    BY <1>4, <1>5, <2>1, <2>2, <2>3, <2>4
<1> QED
  BY <1>3, <1>6, <1>7

-----------------------------------------------------------------------------
(* The invariant. *)

Counts == [Counter -> 0..MaxCount]
PollRec == [low : Counts, life : 0..MaxLives, answer : {None} \cup Counts]
Spans   == {None} \cup SUBSET Span

CardsTypes ==
    /\ stored \subseteq Span /\ mounted \in BOOLEAN
    /\ overlapped \in BOOLEAN /\ stirred \in BOOLEAN
    /\ tick \in 0..MaxTicks /\ asked \subseteq 1..tick
    /\ summary \in Spans /\ breakdown \in Spans
    /\ sumAnswer \in [1..MaxTicks -> {Lost} \cup Spans]
    /\ costAnswer \in [1..MaxTicks -> {Lost} \cup Spans]
    /\ \A n \in 1..MaxTicks \ asked : sumAnswer[n] = None /\ costAnswer[n] = None
    /\ ~mounted => asked = {} /\ summary = None /\ breakdown = None

\* While one refresh is under way alone, nothing is shown, and what its calls
\* have brought is the table as it is, unless it has changed since; when it
\* has settled, both calls brought the same.
OneMoment ==
    ~overlapped =>
        /\ asked \subseteq {tick}
        /\ asked # {} => summary = None /\ breakdown = None
        /\ asked # {} /\ ~stirred => /\ sumAnswer[tick] \in {None, Lost, Day}
                                    /\ costAnswer[tick] \in {None, Lost, Day}
        /\ asked = {} /\ ~stirred => summary = None \/ breakdown = None \/ summary = breakdown

CardsInv == CardsTypes /\ OneMoment

MetersTypes ==
    /\ mounted \in BOOLEAN /\ slow \in BOOLEAN
    /\ count \in Counts /\ life \in 0..MaxLives
    /\ live \in {None} \cup Counts /\ liveLife \in 0..life
    /\ polls \in Seq(PollRec) /\ \A i \in DOMAIN polls : polls[i].life <= life
    /\ timers = IF mounted THEN 1 ELSE 0
    /\ ~mounted => live = None /\ polls = <<>>

\* The least a poll may bring, or what it has brought.
Brings(p) == IF p.answer = None THEN p.low ELSE p.answer

AtMost(f, g) == \A c \in Counter : f[c] <= g[c]

\* Nothing is known of this life that has not been counted.
Counted ==
    /\ live # None /\ liveLife = life => AtMost(live, count)
    /\ \A i \in DOMAIN polls : polls[i].life = life => AtMost(Brings(polls[i]), count)

\* A poll that is under way alone was sent after the answer on the page.
InTurn ==
    ~slow =>
        /\ Len(polls) <= 1
        /\ \A i \in DOMAIN polls :
               live # None /\ polls[i].life = liveLife => AtMost(live, Brings(polls[i]))

MetersInv == MetersTypes /\ Counted /\ InTurn

IInv == CardsInv /\ MetersInv

-----------------------------------------------------------------------------
(* Cards and bars step by step. *)

cardsSeen == <<stored, since, mounted, cards>>

LEMMA CardsInit == Init => CardsInv
<1> SUFFICES ASSUME Init PROVE CardsInv
  OBVIOUS
<1> USE DashboardAssumption
<1>1. CardsTypes
  <2>1. stored \subseteq Span /\ mounted = FALSE /\ tick = 0 /\ asked = {}
        /\ summary = None /\ breakdown = None /\ overlapped = FALSE /\ stirred = FALSE
    BY DEF Init
  <2>2. /\ sumAnswer = [n \in 1..MaxTicks |-> None]
        /\ costAnswer = [n \in 1..MaxTicks |-> None]
    BY DEF Init
  <2>3. 0 \in 0..MaxTicks
    OBVIOUS
  <2> QED
    BY <2>1, <2>2, <2>3 DEF CardsTypes, Spans
<1>2. OneMoment
  BY DEF Init, OneMoment
<1> QED
  BY <1>1, <1>2 DEF CardsInv

LEMMA CardsStutter == CardsInv /\ UNCHANGED cardsSeen => CardsInv'
<1> SUFFICES ASSUME CardsInv, UNCHANGED cardsSeen PROVE CardsInv'
  OBVIOUS
<1>1. /\ stored' = stored /\ since' = since /\ mounted' = mounted /\ tick' = tick
      /\ summary' = summary /\ breakdown' = breakdown /\ asked' = asked
      /\ sumAnswer' = sumAnswer /\ costAnswer' = costAnswer
      /\ overlapped' = overlapped /\ stirred' = stirred
  BY DEF cardsSeen, cards
<1>2. Day' = Day
  BY <1>1 DEF Day
<1> QED
  BY <1>1, <1>2 DEF CardsInv, CardsTypes, OneMoment

LEMMA DayStored == CardsTypes => Day \in Spans
BY DEF CardsTypes, Day, Spans

\* Open and Refresh: the answers of the new refresh are yet to come.
LEMMA CardsFetch ==
    ASSUME CardsInv, Fetch, mounted', UNCHANGED <<stored, since>>
    PROVE  CardsInv'
<1> USE DashboardAssumption DEF CardsInv
<1>1. tick \in Nat /\ tick' = tick + 1 /\ tick' \in 1..MaxTicks /\ tick' \notin asked
  BY DEF Fetch, CardsTypes
<1>2. sumAnswer'[tick'] = None /\ costAnswer'[tick'] = None
  BY <1>1 DEF Fetch, CardsTypes
<1>3. CardsTypes'
  <2>1. asked' \subseteq 1..tick' /\ tick' \in 0..MaxTicks
    BY <1>1 DEF Fetch, CardsTypes
  <2>2. overlapped' \in BOOLEAN /\ stirred' \in BOOLEAN /\ mounted' \in BOOLEAN
    <3>1. (asked # {} \/ (overlapped /\ mounted)) \in BOOLEAN
      OBVIOUS
    <3> QED
      BY <3>1 DEF Fetch
  <2>3. \A n \in 1..MaxTicks \ asked' : sumAnswer'[n] = None /\ costAnswer'[n] = None
    BY DEF Fetch, CardsTypes
  <2> QED
    BY <2>1, <2>2, <2>3 DEF Fetch, CardsTypes, Spans
<1>4. OneMoment'
  BY <1>1, <1>2 DEF Fetch, OneMoment
<1> QED
  BY <1>3, <1>4

\* One of the calls is answered: what it brings is the table as it is.
LEMMA CardsRead ==
    ASSUME CardsInv, NEW n \in 1..MaxTicks, ReadSummary(n) \/ ReadCost(n)
    PROVE  CardsInv'
<1> USE DEF CardsInv
<1>1. PICK x \in {Day, Lost} :
          \/ /\ sumAnswer' = [sumAnswer EXCEPT ![n] = x] /\ costAnswer' = costAnswer
          \/ /\ costAnswer' = [costAnswer EXCEPT ![n] = x] /\ sumAnswer' = sumAnswer
  BY DEF ReadSummary, ReadCost
<1>2. /\ n \in asked
      /\ stored' = stored /\ since' = since /\ mounted' = mounted /\ tick' = tick
      /\ summary' = summary /\ breakdown' = breakdown /\ asked' = asked
      /\ overlapped' = overlapped /\ stirred' = stirred
  BY DEF ReadSummary, ReadCost
<1>3. Day' = Day /\ Day \in Spans
  BY <1>2, DayStored DEF Day
<1>4. CardsTypes'
  <2>1. x \in {Lost} \cup Spans
    BY <1>3
  <2>2. /\ sumAnswer' \in [1..MaxTicks -> {Lost} \cup Spans]
        /\ costAnswer' \in [1..MaxTicks -> {Lost} \cup Spans]
    BY <1>1, <2>1 DEF CardsTypes
  <2>3. \A k \in 1..MaxTicks \ asked : sumAnswer'[k] = None /\ costAnswer'[k] = None
    BY <1>1, <1>2 DEF CardsTypes
  <2> QED
    BY <1>2, <2>2, <2>3 DEF CardsTypes
<1>5. OneMoment'
  <2> SUFFICES ASSUME ~overlapped
               PROVE  /\ asked \subseteq {tick}
                      /\ asked # {} => summary = None /\ breakdown = None
                      /\ asked # {} /\ ~stirred => /\ sumAnswer'[tick] \in {None, Lost, Day}
                                                  /\ costAnswer'[tick] \in {None, Lost, Day}
                      /\ asked = {} /\ ~stirred
                          => summary = None \/ breakdown = None \/ summary = breakdown
    BY <1>2, <1>3 DEF OneMoment
  <2>1. asked \subseteq {tick} /\ n = tick
    BY <1>2 DEF OneMoment
  <2>2. sumAnswer \in [1..MaxTicks -> {Lost} \cup Spans]
        /\ costAnswer \in [1..MaxTicks -> {Lost} \cup Spans]
    BY DEF CardsTypes
  <2>3. x = Day \/ x = Lost
    BY <1>1
  <2>4. /\ sumAnswer'[tick] \in {x, sumAnswer[tick]}
        /\ costAnswer'[tick] \in {x, costAnswer[tick]}
    BY <1>1, <2>1, <2>2
  <2> QED
    BY <1>2, <2>1, <2>3, <2>4 DEF OneMoment
<1> QED
  BY <1>4, <1>5

\* Both calls have ended: what is shown is what they brought.
LEMMA CardsSettle ==
    ASSUME CardsInv, NEW n \in 1..MaxTicks, Settle(n)
    PROVE  CardsInv'
<1> USE DEF CardsInv
<1>1. /\ n \in asked /\ sumAnswer[n] # None /\ costAnswer[n] # None
      /\ asked' = asked \ {n}
      /\ summary' = IF sumAnswer[n] = Lost THEN summary ELSE sumAnswer[n]
      /\ breakdown' = IF costAnswer[n] = Lost THEN breakdown ELSE costAnswer[n]
      /\ sumAnswer' = [sumAnswer EXCEPT ![n] = None]
      /\ costAnswer' = [costAnswer EXCEPT ![n] = None]
      /\ stored' = stored /\ mounted' = mounted /\ tick' = tick
      /\ overlapped' = overlapped /\ stirred' = stirred
  BY DEF Settle
<1>2. CardsTypes'
  <2>1. /\ sumAnswer' \in [1..MaxTicks -> {Lost} \cup Spans]
        /\ costAnswer' \in [1..MaxTicks -> {Lost} \cup Spans]
    BY <1>1 DEF CardsTypes, Spans
  <2>2. \A k \in 1..MaxTicks \ asked' : sumAnswer'[k] = None /\ costAnswer'[k] = None
    BY <1>1 DEF CardsTypes
  <2>3. sumAnswer[n] \in {Lost} \cup Spans /\ costAnswer[n] \in {Lost} \cup Spans
    BY DEF CardsTypes
  <2>4. summary' \in Spans /\ breakdown' \in Spans
    BY <1>1, <2>3 DEF CardsTypes
  <2> QED
    BY <1>1, <2>1, <2>2, <2>4 DEF CardsTypes
<1>3. OneMoment'
  <2> SUFFICES ASSUME ~overlapped
               PROVE  /\ asked' = {}
                      /\ ~stirred => \/ summary' = None \/ breakdown' = None
                                     \/ summary' = breakdown'
    BY <1>1 DEF OneMoment
  <2>1. asked = {n} /\ n = tick /\ summary = None /\ breakdown = None
    BY <1>1 DEF OneMoment
  <2>2. ~stirred => sumAnswer[n] \in {Lost, Day} /\ costAnswer[n] \in {Lost, Day}
    BY <1>1, <2>1 DEF OneMoment
  <2> QED
    BY <1>1, <2>1, <2>2
<1> QED
  BY <1>2, <1>3

\* Insert and Age: the table changes, and it is noted while a refresh is
\* under way.
LEMMA CardsStir ==
    ASSUME CardsInv, stored' \subseteq Span, stirred' = (asked # {} \/ stirred),
           UNCHANGED <<mounted, tick, summary, breakdown, asked, sumAnswer, costAnswer,
                       overlapped>>
    PROVE  CardsInv'
<1>1. CardsTypes'
  <2>1. (asked # {} \/ stirred) \in BOOLEAN
    OBVIOUS
  <2> QED
    BY <2>1 DEF CardsInv, CardsTypes
<1>2. OneMoment'
  BY DEF CardsInv, OneMoment
<1> QED
  BY <1>1, <1>2 DEF CardsInv

LEMMA CardsLeave == CardsInv /\ Leave => CardsInv'
<1> SUFFICES ASSUME CardsInv, Leave PROVE CardsInv'
  OBVIOUS
<1>1. CardsTypes'
  BY DEF CardsInv, CardsTypes, Leave, Spans
<1>2. OneMoment'
  BY DEF Leave, OneMoment
<1> QED
  BY <1>1, <1>2 DEF CardsInv

\* The steps of the meters leave all of this alone.
LEMMA MetersStepLeaves == MetersStep => UNCHANGED cardsSeen
BY DEF MetersStep, Fire, PollEnds, Hear, FailPoll, Restart, ReadPoll, Count, cardsSeen

LEMMA CardsNext == CardsInv /\ [Next]_vars => CardsInv'
<1> SUFFICES ASSUME CardsInv, [Next]_vars PROVE CardsInv'
  OBVIOUS
<1>1. CASE Open
  BY <1>1, CardsFetch DEF Open
<1>2. CASE Leave
  BY <1>2, CardsLeave
<1>3. CASE Refresh
  BY <1>3, CardsFetch DEF Refresh
<1>4. CASE Age
  BY <1>4, CardsStir DEF Age, CardsInv, CardsTypes
<1>5. ASSUME NEW n \in 1..MaxTicks, ReadSummary(n) \/ ReadCost(n)
      PROVE  CardsInv'
  BY <1>5, CardsRead
<1>6. ASSUME NEW n \in 1..MaxTicks, Settle(n) PROVE CardsInv'
  BY <1>6, CardsSettle
<1>7. ASSUME NEW s \in Span, Insert(s) PROVE CardsInv'
  BY <1>7, CardsStir DEF Insert, Store, CardsInv, CardsTypes
<1>8. CASE MetersStep
  BY <1>8, MetersStepLeaves, CardsStutter
<1>9. CASE UNCHANGED vars
  BY <1>9, CardsStutter DEF vars, cardsSeen
<1> QED
  BY <1>1, <1>2, <1>3, <1>4, <1>5, <1>6, <1>7, <1>8, <1>9 DEF Next, CardsStep

-----------------------------------------------------------------------------
(* Counters step by step. *)

metersSeen == <<count, life, mounted, meters>>

\* What is left of a queue of polls without its i-th.
LEMMA RemovePoll ==
    ASSUME NEW s \in Seq(PollRec), NEW i \in 1..Len(s)
    PROVE  /\ RemoveAt(s, i) \in Seq(PollRec) /\ Len(RemoveAt(s, i)) = Len(s) - 1
           /\ \A j \in 1..(Len(s) - 1) : \E k \in 1..Len(s) : RemoveAt(s, i)[j] = s[k]
<1> DEFINE p == SubSeq(s, 1, i - 1)
           q == SubSeq(s, i + 1, Len(s))
<1>1. Len(s) \in Nat /\ i \in Nat /\ \A j \in 1..Len(s) : s[j] \in PollRec
  OBVIOUS
<1>2. /\ p \in Seq(PollRec) /\ Len(p) = i - 1
      /\ \A j \in 1..(i - 1) : p[j] = s[j]
  <2>1. \A j \in 1..(i - 1) : s[j] \in PollRec
    BY <1>1
  <2> QED
    BY <1>1, <2>1, SubSeqProperties
<1>3. /\ q \in Seq(PollRec) /\ Len(q) = Len(s) - i
      /\ \A j \in 1..(Len(s) - i) : q[j] = s[i + j]
  <2>1. \A j \in (i + 1)..Len(s) : s[j] \in PollRec
    BY <1>1
  <2>2. /\ q \in Seq(PollRec)
        /\ Len(q) = IF i + 1 <= Len(s) THEN Len(s) - (i + 1) + 1 ELSE 0
        /\ \A j \in 1..(Len(s) - (i + 1) + 1) : q[j] = s[i + 1 + j - 1]
    BY <1>1, <2>1, SubSeqProperties
  <2> QED
    BY <1>1, <2>2
<1>4. RemoveAt(s, i) = p \o q
  BY DEF RemoveAt
<1> HIDE DEF p, q
<1>5. /\ p \o q \in Seq(PollRec) /\ Len(p \o q) = Len(s) - 1
      /\ \A j \in 1..(Len(s) - 1) : (p \o q)[j] = IF j <= i - 1 THEN p[j] ELSE q[j - (i - 1)]
  <2>1. /\ p \o q \in Seq(PollRec) /\ Len(p \o q) = Len(p) + Len(q)
        /\ \A j \in 1..(Len(p) + Len(q)) :
              (p \o q)[j] = IF j <= Len(p) THEN p[j] ELSE q[j - Len(p)]
    BY <1>2, <1>3, ConcatProperties
  <2> QED
    BY <1>1, <1>2, <1>3, <2>1
<1>6. \A j \in 1..(Len(s) - 1) : \E k \in 1..Len(s) : (p \o q)[j] = s[k]
  <2> SUFFICES ASSUME NEW j \in 1..(Len(s) - 1)
               PROVE  \E k \in 1..Len(s) : (p \o q)[j] = s[k]
    OBVIOUS
  <2>1. CASE j <= i - 1
    BY <1>1, <1>2, <1>5, <2>1
  <2>2. CASE j > i - 1
    <3>1. (p \o q)[j] = q[j - (i - 1)] /\ j - (i - 1) \in 1..(Len(s) - i)
      BY <1>1, <1>5, <2>2
    <3>2. q[j - (i - 1)] = s[j + 1]
      BY <1>1, <1>3, <3>1
    <3> QED
      BY <1>1, <3>1, <3>2
  <2>3. j <= i - 1 \/ j > i - 1
    BY <1>1
  <2> QED
    BY <2>1, <2>2, <2>3
<1> QED
  BY <1>1, <1>4, <1>5, <1>6

LEMMA MetersInit == Init => MetersInv
<1> SUFFICES ASSUME Init PROVE MetersInv
  OBVIOUS
<1> USE DashboardAssumption
<1>1. MetersTypes
  <2>1. Zero \in Counts
    BY DEF Zero, Counts
  <2>2. <<>> \in Seq(PollRec) /\ DOMAIN <<>> = {} /\ 0 \in 0..MaxLives /\ 0 \in 0..0
    BY EmptySeq
  <2> QED
    BY <2>1, <2>2 DEF Init, MetersTypes
<1>2. Counted /\ InTurn
  BY DEF Init, Counted, InTurn
<1> QED
  BY <1>1, <1>2 DEF MetersInv

LEMMA MetersStutter == MetersInv /\ UNCHANGED metersSeen => MetersInv'
BY DEF metersSeen, meters, MetersInv, MetersTypes, Counted, InTurn, Brings, AtMost

LEMMA PollTypes ==
    ASSUME MetersTypes, NEW i \in DOMAIN polls
    PROVE  /\ polls[i] \in PollRec /\ polls[i].life \in 0..MaxLives
           /\ Brings(polls[i]) \in Counts
<1>1. polls[i] \in PollRec
  BY DEF MetersTypes
<1> QED
  BY <1>1 DEF PollRec, Brings

\* A poll that is sent now.
LEMMA PollSent ==
    ASSUME MetersTypes
    PROVE  Poll \in PollRec /\ Poll.life = life /\ Brings(Poll) = count
<1>1. Poll \in PollRec
  BY DEF Poll, PollRec, MetersTypes
<1> QED
  BY <1>1 DEF Poll, Brings

\* Open: one poll is under way, nothing is shown.
LEMMA MetersOpen == MetersInv /\ Open => MetersInv'
<1> SUFFICES ASSUME MetersInv, Open PROVE MetersInv'
  OBVIOUS
<1> USE DEF MetersInv
<1>1. /\ ~mounted /\ mounted' = TRUE /\ timers = 0 /\ timers' = 1 /\ live = None
      /\ polls' = <<Poll>> /\ slow' = FALSE
      /\ count' = count /\ life' = life /\ live' = live /\ liveLife' = liveLife
  BY DEF Open, MetersTypes
<1>2. /\ polls' \in Seq(PollRec) /\ Len(polls') = 1 /\ DOMAIN polls' = {1}
      /\ polls'[1] = Poll /\ Poll.life = life /\ Brings(Poll) = count
  BY <1>1, PollSent
<1>3. AtMost(count, count)
  BY DEF MetersTypes, Counts, AtMost
<1>4. MetersTypes'
  <2>1. life <= life
    BY DEF MetersTypes
  <2>2. \A i \in DOMAIN polls' : polls'[i].life <= life
    BY <1>2, <2>1
  <2> QED
    BY <1>1, <1>2, <2>2 DEF MetersTypes
<1>5. Counted'
  BY <1>1, <1>2, <1>3 DEF Counted, AtMost, Brings
<1>6. InTurn'
  BY <1>1, <1>2 DEF InTurn
<1> QED
  BY <1>4, <1>5, <1>6

LEMMA MetersLeave == MetersInv /\ Leave => MetersInv'
<1> SUFFICES ASSUME MetersInv, Leave PROVE MetersInv'
  OBVIOUS
<1>1. MetersTypes'
  <2>1. /\ mounted' = FALSE /\ live' = None /\ polls' = <<>> /\ timers' = 0 /\ slow' = FALSE
        /\ liveLife' = 0 /\ count' = count /\ life' = life
    BY DEF Leave, MetersInv, MetersTypes
  <2>2. <<>> \in Seq(PollRec) /\ DOMAIN <<>> = {}
    BY EmptySeq
  <2>3. 0 \in 0..life
    BY DEF MetersInv, MetersTypes
  <2> QED
    BY <2>1, <2>2, <2>3 DEF MetersInv, MetersTypes
<1>2. Counted' /\ InTurn'
  BY DEF Leave, Counted, InTurn
<1> QED
  BY <1>1, <1>2 DEF MetersInv

\* Fire: what the page shows has been counted when the poll is sent.
LEMMA MetersFire == MetersInv /\ Fire => MetersInv'
<1> SUFFICES ASSUME MetersInv, Fire PROVE MetersInv'
  OBVIOUS
<1> USE DEF MetersInv
<1>1. /\ timers > 0 /\ polls' = Append(polls, Poll) /\ slow' = (polls # <<>>)
      /\ mounted' = mounted /\ count' = count /\ life' = life
      /\ live' = live /\ liveLife' = liveLife /\ timers' = timers
  BY DEF Fire
<1>2. /\ Poll \in PollRec /\ Poll.life = life /\ Brings(Poll) = count
  BY PollSent
<1>3. polls \in Seq(PollRec) /\ Len(polls) \in Nat
  BY DEF MetersTypes
<1>4. /\ polls' \in Seq(PollRec) /\ Len(polls') = Len(polls) + 1
      /\ \A i \in DOMAIN polls' : polls'[i] = IF i \in DOMAIN polls THEN polls[i] ELSE Poll
  BY <1>1, <1>2, <1>3, AppendProperties
<1>5. AtMost(count, count)
  BY DEF MetersTypes, Counts, AtMost
<1>6. MetersTypes'
  <2>1. mounted
    BY <1>1 DEF MetersTypes
  <2>2. (polls # <<>>) \in BOOLEAN
    OBVIOUS
  <2>3. \A i \in DOMAIN polls' : polls'[i].life <= life
    BY <1>2, <1>4 DEF MetersTypes
  <2> QED
    BY <1>1, <1>4, <2>1, <2>2, <2>3 DEF MetersTypes
<1>7. Counted'
  <2>1. live # None /\ liveLife = life => AtMost(live, count)
    BY DEF Counted
  <2>2. \A i \in DOMAIN polls' : polls'[i].life = life => AtMost(Brings(polls'[i]), count)
    BY <1>2, <1>4, <1>5 DEF Counted
  <2> QED
    BY <1>1, <2>1, <2>2 DEF Counted, AtMost, Brings
<1>8. InTurn'
  <2> SUFFICES ASSUME ~slow'
               PROVE  /\ Len(polls') <= 1
                      /\ \A i \in DOMAIN polls' :
                             live # None /\ polls'[i].life = liveLife
                                 => AtMost(live, Brings(polls'[i]))
    BY <1>1 DEF InTurn, AtMost, Brings
  <2>1. polls = <<>>
    <3>1. polls # <<>> => slow'
      BY <1>1, Zenon
    <3> QED
      BY <3>1
  <2>a. Len(polls') = 1 /\ DOMAIN polls = {}
    BY <1>4, <2>1, EmptySeq
  <2>2. \A i \in DOMAIN polls' : polls'[i] = Poll
    BY <1>4, <2>a
  <2> QED
    BY <1>2, <2>a, <2>2 DEF Counted
<1> QED
  BY <1>6, <1>7, <1>8

\* ReadPoll: a counter is read between the moment the poll was sent and now.
LEMMA MetersRead ==
    ASSUME MetersInv, NEW i \in 1..MaxPolls, ReadPoll(i)
    PROVE  MetersInv'
<1> USE DashboardAssumption DEF MetersInv
<1>1. /\ i \in DOMAIN polls /\ polls[i].answer = None /\ polls[i].life = life
      /\ mounted' = mounted /\ count' = count /\ life' = life /\ slow' = slow
      /\ live' = live /\ liveLife' = liveLife /\ timers' = timers
  BY DEF ReadPoll
<1>2. PICK a \in Counts :
          /\ \A c \in Counter : a[c] \in polls[i].low[c]..count[c]
          /\ polls' = [polls EXCEPT ![i].answer = a, ![i].low = Zero]
  BY DEF ReadPoll, Counts
<1>3. polls \in Seq(PollRec) /\ polls[i] \in PollRec
  BY <1>1 DEF MetersTypes
<1>4. PICK r : r = [polls[i] EXCEPT !.answer = a, !.low = Zero]
  OBVIOUS
<1>5. r \in PollRec /\ r.life = life /\ r.answer = a
  <2>1. Zero \in Counts
    BY DEF Zero, Counts
  <2> QED
    BY <1>1, <1>3, <1>4, <2>1 DEF PollRec
<1>6. a # None
  BY DEF Counts
<1>7. Brings(r) = a
  BY <1>5, <1>6 DEF Brings
<1>8. polls' = [polls EXCEPT ![i] = r]
  BY <1>1, <1>2, <1>3, <1>4
<1>9. /\ polls' \in Seq(PollRec) /\ Len(polls') = Len(polls) /\ DOMAIN polls' = DOMAIN polls
      /\ \A j \in DOMAIN polls : polls'[j] = IF j = i THEN r ELSE polls[j]
  BY <1>1, <1>3, <1>5, <1>8
<1>10. MetersTypes'
  <2>1. \A j \in DOMAIN polls' : polls'[j].life <= life
    BY <1>5, <1>9 DEF MetersTypes
  <2>2. ~mounted => polls = <<>>
    BY DEF MetersTypes
  <2>3. mounted
    BY <1>1, <2>2
  <2> QED
    BY <1>1, <1>9, <2>1, <2>3 DEF MetersTypes
<1>11. AtMost(polls[i].low, a) /\ AtMost(a, count)
  <2>1. \A c \in Counter : polls[i].low[c] \in Nat /\ count[c] \in Nat /\ a[c] \in Nat
    BY <1>3 DEF PollRec, Counts, MetersTypes
  <2> QED
    BY <1>2, <2>1 DEF AtMost
<1>12. Counted'
  <2>1. live # None /\ liveLife = life => AtMost(live, count)
    BY DEF Counted
  <2>2. \A j \in DOMAIN polls' : polls'[j].life = life => AtMost(Brings(polls'[j]), count)
    BY <1>7, <1>9, <1>11 DEF Counted
  <2> QED
    BY <1>1, <2>1, <2>2 DEF Counted, AtMost, Brings
<1>13. InTurn'
  <2> SUFFICES ASSUME ~slow, NEW j \in DOMAIN polls', live # None, polls'[j].life = liveLife
               PROVE  AtMost(live, Brings(polls'[j]))
    BY <1>1, <1>9 DEF InTurn, AtMost, Brings
  <2>1. CASE j # i
    BY <1>9, <2>1 DEF InTurn
  <2>2. CASE j = i
    <3>1. polls[i].life = liveLife /\ Brings(polls[i]) = polls[i].low
      BY <1>1, <1>5, <1>9, <2>2 DEF Brings
    <3>2. AtMost(live, polls[i].low)
      BY <1>1, <3>1 DEF InTurn
    <3>3. \A c \in Counter : live[c] \in Nat /\ polls[i].low[c] \in Nat /\ a[c] \in Nat
      BY <1>3 DEF PollRec, Counts, MetersTypes
    <3>4. AtMost(live, a)
      BY <1>11, <3>2, <3>3 DEF AtMost
    <3> QED
      BY <1>7, <1>9, <2>2, <3>4
  <2> QED
    BY <2>1, <2>2
<1> QED
  BY <1>10, <1>12, <1>13

\* Hear and FailPoll: what is left has been counted as before; a poll that
\* was alone leaves none.
LEMMA MetersEnd ==
    ASSUME MetersInv, NEW i \in 1..MaxPolls, Hear(i) \/ FailPoll(i)
    PROVE  MetersInv'
<1> USE DEF MetersInv
<1>1. /\ i \in DOMAIN polls /\ polls' = RemoveAt(polls, i)
      /\ mounted' = mounted /\ count' = count /\ life' = life /\ slow' = slow
      /\ timers' = timers
  BY DEF Hear, FailPoll
<1>2. \/ live' = live /\ liveLife' = liveLife
      \/ /\ polls[i].answer # None
         /\ live' = Brings(polls[i]) /\ liveLife' = polls[i].life
         /\ live' \in Counts
  <2>1. CASE FailPoll(i)
    BY <2>1 DEF FailPoll
  <2>2. CASE Hear(i)
    <3>1. polls[i] \in PollRec
      BY <1>1 DEF MetersTypes
    <3> QED
      BY <2>2, <3>1 DEF Hear, Brings, PollRec
  <2> QED
    BY <2>1, <2>2
<1>3. polls \in Seq(PollRec) /\ Len(polls) \in Nat /\ polls[i] \in PollRec
  BY <1>1 DEF MetersTypes
<1>4. /\ polls' \in Seq(PollRec) /\ Len(polls') = Len(polls) - 1
      /\ \A j \in DOMAIN polls' : \E k \in DOMAIN polls : polls'[j] = polls[k]
  <2>1. i \in 1..Len(polls)
    BY <1>1, <1>3
  <2>2. /\ RemoveAt(polls, i) \in Seq(PollRec) /\ Len(RemoveAt(polls, i)) = Len(polls) - 1
        /\ \A j \in 1..(Len(polls) - 1) : \E k \in 1..Len(polls) :
               RemoveAt(polls, i)[j] = polls[k]
    BY <1>3, <2>1, RemovePoll
  <2>3. polls' \in Seq(PollRec) /\ Len(polls') = Len(polls) - 1
    BY <1>1, <2>2, Zenon
  <2>4. DOMAIN polls' = 1..(Len(polls) - 1) /\ DOMAIN polls = 1..Len(polls)
    BY <1>3, <2>3
  <2>5. \A j \in 1..(Len(polls) - 1) : \E k \in 1..Len(polls) : polls'[j] = polls[k]
    BY <1>1, <2>2, Zenon
  <2> QED
    BY <2>3, <2>4, <2>5
<1>5. MetersTypes'
  <2>1. \A j \in DOMAIN polls' : polls'[j].life <= life
    BY <1>4 DEF MetersTypes
  <2>2. live' \in {None} \cup Counts /\ liveLife' \in 0..life
    BY <1>1, <1>2, <1>3 DEF MetersTypes, PollRec
  <2>3. mounted
    BY <1>1 DEF MetersTypes
  <2> QED
    BY <1>1, <1>4, <2>1, <2>2, <2>3 DEF MetersTypes
<1>6. Counted'
  <2>1. \A j \in DOMAIN polls' : polls'[j].life = life => AtMost(Brings(polls'[j]), count)
    BY <1>4 DEF Counted
  <2>2. live' # None /\ liveLife' = life => AtMost(live', count)
    BY <1>1, <1>2 DEF Counted
  <2> QED
    BY <1>1, <2>1, <2>2 DEF Counted, AtMost, Brings
<1>7. InTurn'
  <2>1. ~slow => polls' = <<>>
    <3>1. ~slow => Len(polls) <= 1
      BY DEF InTurn
    <3>2. ~slow => Len(polls') = 0
      BY <1>1, <1>3, <1>4, <3>1
    <3> QED
      BY <1>4, <3>2, EmptySeq
  <2> QED
    BY <1>1, <2>1 DEF InTurn
<1> QED
  BY <1>5, <1>6, <1>7

LEMMA MetersCount ==
    ASSUME MetersInv, NEW c \in Counter, Count(c)
    PROVE  MetersInv'
<1> USE DashboardAssumption DEF MetersInv
<1>1. /\ count[c] < MaxCount /\ count' = [count EXCEPT ![c] = @ + 1]
      /\ UNCHANGED <<life, mounted, live, timers, polls, slow, liveLife>>
  BY DEF Count, meters
<1>2. count \in Counts /\ \A d \in Counter : count[d] \in Nat
  BY DEF MetersTypes, Counts
<1>3. count' \in Counts
  BY <1>1, <1>2 DEF Counts
<1>4. \A d \in Counter : count[d] <= count'[d] /\ count'[d] \in Nat
  BY <1>1, <1>2 DEF Counts
<1>5. \A f \in Counts : AtMost(f, count) => AtMost(f, count')
  BY <1>2, <1>4 DEF AtMost, Counts
<1>6. MetersTypes'
  BY <1>1, <1>3 DEF MetersTypes
<1>7. Counted'
  <2>1. live # None /\ liveLife = life => AtMost(live, count')
    BY <1>5 DEF Counted, MetersTypes
  <2>2. \A i \in DOMAIN polls : Brings(polls[i]) \in Counts
    BY PollTypes
  <2>3. \A i \in DOMAIN polls : polls[i].life = life => AtMost(Brings(polls[i]), count')
    BY <1>5, <2>2 DEF Counted
  <2> QED
    BY <1>1, <2>1, <2>3 DEF Counted, AtMost, Brings
<1>8. InTurn'
  BY <1>1 DEF InTurn, AtMost, Brings
<1> QED
  BY <1>6, <1>7, <1>8

\* Restart: all that is known is of an earlier life.
LEMMA MetersRestart == MetersInv /\ Restart => MetersInv'
<1> SUFFICES ASSUME MetersInv, Restart PROVE MetersInv'
  OBVIOUS
<1> USE DashboardAssumption DEF MetersInv
<1>1. /\ life < MaxLives /\ life' = life + 1 /\ count' = Zero
      /\ UNCHANGED <<mounted, live, timers, polls, slow, liveLife>>
  BY DEF Restart, meters
<1>2. life \in Nat /\ liveLife < life' /\ \A i \in DOMAIN polls : polls[i].life < life'
  <2>1. \A i \in DOMAIN polls : polls[i].life \in Nat
    BY PollTypes
  <2> QED
    BY <1>1, <2>1 DEF MetersTypes
<1>3. MetersTypes'
  <2>1. Zero \in Counts
    BY DEF Zero, Counts
  <2>2. liveLife \in 0..life' /\ life' \in 0..MaxLives
    BY <1>1, <1>2 DEF MetersTypes
  <2>3. \A i \in DOMAIN polls : polls[i].life <= life'
    BY <1>1, <1>2, PollTypes DEF MetersTypes
  <2> QED
    BY <1>1, <2>1, <2>2, <2>3 DEF MetersTypes
<1>4. Counted'
  <2>1. liveLife # life' /\ \A i \in DOMAIN polls : polls[i].life # life'
    <3>1. \A i \in DOMAIN polls : polls[i].life \in Nat
      BY PollTypes
    <3> QED
      BY <1>1, <1>2, <3>1 DEF MetersTypes
  <2> QED
    BY <1>1, <2>1 DEF Counted
<1>5. InTurn'
  BY <1>1 DEF InTurn, AtMost, Brings
<1> QED
  BY <1>3, <1>4, <1>5

LEMMA CardsStepLeaves == CardsStep => UNCHANGED metersSeen
BY DEF CardsStep, Refresh, Age, ReadSummary, ReadCost, Settle, Insert, metersSeen

LEMMA MetersNext == MetersInv /\ [Next]_vars => MetersInv'
<1> SUFFICES ASSUME MetersInv, [Next]_vars PROVE MetersInv'
  OBVIOUS
<1>1. CASE Open
  BY <1>1, MetersOpen
<1>2. CASE Leave
  BY <1>2, MetersLeave
<1>3. CASE Fire
  BY <1>3, MetersFire
<1>4. CASE Restart
  BY <1>4, MetersRestart
<1>5. CASE PollEnds
  BY <1>5, MetersEnd DEF PollEnds
<1>6. ASSUME NEW i \in 1..MaxPolls, ReadPoll(i) PROVE MetersInv'
  BY <1>6, MetersRead
<1>7. ASSUME NEW c \in Counter, Count(c) PROVE MetersInv'
  BY <1>7, MetersCount
<1>8. CASE CardsStep
  BY <1>8, CardsStepLeaves, MetersStutter
<1>9. CASE UNCHANGED vars
  BY <1>9, MetersStutter DEF vars, metersSeen
<1> QED
  BY <1>1, <1>2, <1>3, <1>4, <1>5, <1>6, <1>7, <1>8, <1>9 DEF Next, MetersStep

\* The two halves of the invariant hold in every reachable state.
THEOREM Invariant == Spec => []IInv
<1>1. Init => IInv
  BY CardsInit, MetersInit DEF IInv
<1>2. IInv /\ [Next]_vars => IInv'
  BY CardsNext, MetersNext DEF IInv
<1> QED
  BY <1>1, <1>2, PTL DEF Spec

\* The page and its calls keep their types; a page that is closed waits for
\* nothing, and there is one timer while it is open (Dashboard.tsx:50-90).
THEOREM TypeCorrect == Spec => []TypeOK
<1>1. IInv => TypeOK
  <2> SUFFICES ASSUME IInv PROVE TypeOK
    OBVIOUS
  <2>1. /\ stored \subseteq Span /\ asked \subseteq 1..tick
        /\ ~mounted => asked = {}
        /\ mounted \in BOOLEAN
    BY DEF IInv, CardsInv, CardsTypes
  <2>2. MetersTypes
    BY DEF IInv, MetersInv
  <2>3. \A i \in DOMAIN polls : polls[i].low \in [Counter -> 0..MaxCount]
    BY <2>2, PollTypes DEF PollRec, Counts
  <2> QED
    BY <2>1, <2>2, <2>3 DEF TypeOK, MetersTypes, Counts
<1> QED
  BY <1>1, Invariant, PTL

-----------------------------------------------------------------------------
(* Totals and their parts. *)

LEMMA ImageFinite ==
    ASSUME NEW S, IsFiniteSet(S), NEW f
    PROVE  IsFiniteSet({f[x] : x \in S})
<1>1. [x \in S |-> f[x]] \in Surjection(S, {f[x] : x \in S})
  BY DEF Surjection
<1> QED
  BY <1>1, FS_Surjection

\* The bars are about the agents that are named.
Agents(D) == {AgentOf[s] : s \in D} \ {NoAgent}
Bare(D)   == {s \in D : AgentOf[s] = NoAgent}

LEMMA AgentsFinite ==
    ASSUME NEW D \in SUBSET Span
    PROVE  /\ IsFiniteSet(D) /\ IsFiniteSet(Agents(D)) /\ IsFiniteSet(Bare(D))
           /\ IsFiniteSet(Group(D, Agents(D)))
           /\ D = Group(D, Agents(D)) \cup Bare(D)
           /\ Group(D, Agents(D)) \cap Bare(D) = {}
<1>1. IsFiniteSet(D)
  BY SpanAssumption, FS_Subset
<1>2. IsFiniteSet({AgentOf[s] : s \in D})
  BY <1>1, ImageFinite
<1>3. IsFiniteSet(Agents(D))
  BY <1>2, FS_Subset DEF Agents
<1>4. IsFiniteSet(Bare(D)) /\ IsFiniteSet(Group(D, Agents(D)))
  BY <1>1, FS_Subset DEF Bare, Group
<1> QED
  BY <1>1, <1>3, <1>4 DEF Agents, Bare, Group

\* The bars of D, each with one figure of its agent, and the spans of no agent
\* make up the figure of D.
LEMMA FigureByAgent ==
    ASSUME NEW D \in SUBSET Span, NEW v, \A s \in D : v[s] \in Nat,
           NEW w, \A a \in Agents(D) : w[CostItem(D, a)] = Sum(v, Group(D, {a}))
    PROVE  Sum(v, D) = Sum(w, by_agent(D)) + Sum(v, Bare(D))
<1> DEFINE A == Agents(D)
           J == [a \in A |-> CostItem(D, a)]
<1>1. /\ IsFiniteSet(D) /\ IsFiniteSet(A)
      /\ IsFiniteSet(Group(D, A)) /\ IsFiniteSet(Bare(D))
      /\ D = Group(D, A) \cup Bare(D) /\ Group(D, A) \cap Bare(D) = {}
  BY AgentsFinite
<1>2. \A a, b \in A : J[a] = J[b] => a = b
  <2> SUFFICES ASSUME NEW a \in A, NEW b \in A, J[a] = J[b] PROVE a = b
    OBVIOUS
  <2>1. J[a].name = a /\ J[b].name = b
    BY DEF CostItem
  <2> QED
    BY <2>1
<1>3. \A a \in A : w[J[a]] = Sum(v, Group(D, {a}))
  OBVIOUS
<1>4. \A i : i \in by_agent(D) <=> \E a \in A : i = J[a]
  BY DEF by_agent, Agents
<1> HIDE DEF A, J
<1>5. Sum(w, by_agent(D)) = Sum(v, Group(D, A))
  <2>1. Itemises(by_agent(D), J, w, D, v, A)
    BY <1>1, <1>2, <1>3, <1>4 DEF Itemises
  <2> QED
    BY <2>1, SumByAgent
<1>6. PICK P, Q : P = Group(D, A) /\ Q = Bare(D)
  OBVIOUS
<1>7. /\ IsFiniteSet(P) /\ IsFiniteSet(Q) /\ P \cap Q = {} /\ D = P \cup Q
  BY <1>1, <1>6, Zenon
<1>8. \A s \in P \cup Q : v[s] \in Nat
  BY <1>7
<1>9. Sum(v, P \cup Q) = Sum(v, P) + Sum(v, Q)
  BY <1>7, <1>8, SumUnion
<1> QED
  BY <1>5, <1>6, <1>7, <1>9, Zenon

LEMMA TotalsByAgent ==
    ASSUME NEW D \in SUBSET Span
    PROVE  /\ CostSum(D) = Sum([i \in by_agent(D) |-> i.cost], by_agent(D)) + CostSum(Bare(D))
           /\ Cardinality(D) = Sum([i \in by_agent(D) |-> i.count], by_agent(D))
                                   + Cardinality(Bare(D))
<1>1. \A a \in Agents(D) : CostItem(D, a) \in by_agent(D)
  BY DEF by_agent, Agents
<1>2. \A a : {s \in D : AgentOf[s] = a} = Group(D, {a})
  BY DEF Group
<1>3. CostSum(D) = Sum([i \in by_agent(D) |-> i.cost], by_agent(D)) + CostSum(Bare(D))
  <2> DEFINE w == [i \in by_agent(D) |-> i.cost]
  <2>1. \A s \in D : CostOf[s] \in Nat
    BY DashboardAssumption
  <2>2. \A a \in Agents(D) : w[CostItem(D, a)] = Sum(CostOf, Group(D, {a}))
    <3> SUFFICES ASSUME NEW a \in Agents(D)
                 PROVE  w[CostItem(D, a)] = Sum(CostOf, Group(D, {a}))
      OBVIOUS
    <3>1. w[CostItem(D, a)] = CostItem(D, a).cost
      BY <1>1
    <3>2. CostItem(D, a).cost = CostSum(Group(D, {a}))
      BY <1>2 DEF CostItem
    <3> QED
      BY <3>1, <3>2 DEF CostSum, Sum
  <2> HIDE DEF w
  <2>3. Sum(CostOf, D) = Sum(w, by_agent(D)) + Sum(CostOf, Bare(D))
    BY <2>1, <2>2, FigureByAgent
  <2> QED
    BY <2>3 DEF CostSum, Sum, w
<1>4. Cardinality(D) = Sum([i \in by_agent(D) |-> i.count], by_agent(D)) + Cardinality(Bare(D))
  <2> DEFINE w == [i \in by_agent(D) |-> i.count]
             ones == [s \in Span |-> 1]
  <2>1. \A s \in D : ones[s] = 1 /\ ones[s] \in Nat
    OBVIOUS
  <2>2. \A T \in SUBSET D : Sum(ones, T) = Cardinality(T)
    <3> SUFFICES ASSUME NEW T \in SUBSET D PROVE Sum(ones, T) = Cardinality(T)
      OBVIOUS
    <3>1. IsFiniteSet(T)
      BY AgentsFinite, FS_Subset
    <3>2. \A s \in T : ones[s] = 1
      OBVIOUS
    <3> HIDE DEF ones
    <3> QED
      BY <3>1, <3>2, SumOnes
  <2>3. \A a \in Agents(D) : w[CostItem(D, a)] = Sum(ones, Group(D, {a}))
    <3> SUFFICES ASSUME NEW a \in Agents(D)
                 PROVE  w[CostItem(D, a)] = Sum(ones, Group(D, {a}))
      OBVIOUS
    <3>1. w[CostItem(D, a)] = CostItem(D, a).count
      BY <1>1
    <3>2. CostItem(D, a).count = Cardinality(Group(D, {a}))
      BY <1>2 DEF CostItem
    <3>3. Group(D, {a}) \in SUBSET D
      BY DEF Group
    <3> HIDE DEF w, ones
    <3> QED
      BY <2>2, <3>1, <3>2, <3>3
  <2>4. D \in SUBSET D /\ Bare(D) \in SUBSET D
    BY DEF Bare
  <2> HIDE DEF w, ones
  <2>5. Sum(ones, D) = Sum(w, by_agent(D)) + Sum(ones, Bare(D))
    BY <2>1, <2>3, FigureByAgent
  <2>6. Sum(ones, D) = Cardinality(D) /\ Sum(ones, Bare(D)) = Cardinality(Bare(D))
    BY <2>2, <2>4
  <2> QED
    BY <2>5, <2>6 DEF w
<1> QED
  BY <1>3, <1>4

\* Cards and bars are about the spans of one moment; what the agents cost and
\* the spans they ran are the totals of the cards, less the spans that name no
\* agent (Dashboard.tsx:60-80, dashboard.go:20-117).
THEOREM CardsAgree == Spec => []CardsAgreeWithBars
<1>1. IInv => CardsAgreeWithBars
  <2> SUFFICES ASSUME IInv, summary # None, breakdown # None, ~overlapped, ~stirred
               PROVE  LET items == by_agent(breakdown)
                          bare  == {s \in summary : AgentOf[s] = NoAgent}
                          costs == SumFunctionOnSet([i \in items |-> i.cost], items)
                          runs  == SumFunctionOnSet([i \in items |-> i.count], items)
                          all   == StatCards(summary)
                      IN  /\ asked = {}
                          /\ all.TOTAL_COST = costs + CostSum(bare)
                          /\ all.SPANS = runs + Cardinality(bare)
    BY DEF CardsAgreeWithBars
  <2>1. asked = {} /\ breakdown = summary
    BY DEF IInv, CardsInv, OneMoment
  <2>2. summary \in SUBSET Span
    BY DEF IInv, CardsInv, CardsTypes, Spans
  <2>3. /\ CostSum(summary) =
               Sum([i \in by_agent(summary) |-> i.cost], by_agent(summary))
                   + CostSum(Bare(summary))
        /\ Cardinality(summary) =
               Sum([i \in by_agent(summary) |-> i.count], by_agent(summary))
                   + Cardinality(Bare(summary))
    BY <2>2, TotalsByAgent
  <2>4. /\ StatCards(summary).TOTAL_COST = CostSum(summary)
        /\ StatCards(summary).SPANS = Cardinality(summary)
    BY DEF StatCards, DashboardSummary
  <2> QED
    BY <2>1, <2>3, <2>4 DEF Sum, Bare
<1> QED
  BY <1>1, Invariant, PTL

-----------------------------------------------------------------------------
(* Frames. *)

LEMMA DivOfMultiple ==
    ASSUME NEW m \in Nat \ {0}, NEW n \in Nat, NEW a \in Nat, a <= n * m
    PROVE  a \div m \in 0..n
OBVIOUS

\* A finite set of numbers has a greatest one.
LEMMA Greatest ==
    ASSUME NEW S, IsFiniteSet(S), S \subseteq Nat, S # {}
    PROVE  Max(S) \in S /\ \A y \in S : y <= Max(S)
<1>1. SUFFICES \E x \in S : \A y \in S : x >= y
  <2>1. Max(S) \in S /\ \A y \in S : Max(S) >= y
    BY <1>1 DEF Max
  <2> QED
    BY <2>1
<1>2. SUFFICES ASSUME ~ \E x \in S : \A y \in S : x >= y
               PROVE  FALSE
  OBVIOUS
<1> DEFINE F == {X \in SUBSET S : X # {} /\ ~ \E x \in X : \A y \in X : x >= y}
<1>3. F \in SUBSET SUBSET S /\ F # {}
  BY <1>2
<1>4. PICK X : Smallest(X, F)
  <2> HIDE DEF F
  <2> QED
    BY <1>3, SmallestSubset
<1>5. X \in F /\ \A Y \in F : Y \subseteq X => Y = X
  BY <1>4 DEF Smallest
<1>6. PICK a \in X : TRUE
  BY <1>5
<1>7. X \ {a} \notin F
  BY <1>5, <1>6
<1>8. CASE X \ {a} = {}
  BY <1>5, <1>6, <1>8
<1>9. CASE X \ {a} # {}
  <2>1. PICK b \in X \ {a} : \A y \in X \ {a} : b >= y
    BY <1>5, <1>7, <1>9
  <2>2. a \in Nat /\ b \in Nat /\ X \subseteq Nat
    BY <1>5, <1>6, <2>1
  <2>3. CASE a >= b
    <3>1. \A y \in X : a >= y
      BY <2>1, <2>2, <2>3
    <3> QED
      BY <1>5, <1>6, <3>1
  <2>4. CASE b >= a
    <3>1. \A y \in X : b >= y
      BY <2>1, <2>2, <2>4
    <3> QED
      BY <1>5, <2>1, <3>1
  <2> QED
    BY <2>2, <2>3, <2>4
<1> QED
  BY <1>8, <1>9

LEMMA RateFramed ==
    ASSUME NEW D \in SUBSET Span
    PROVE  StatCards(D).ERROR_RATE \in 0..1000
<1> DEFINE E == {s \in D : StatusOf[s] = "error"}
<1>1. StatCards(D).ERROR_RATE =
          IF D = {} THEN 0 ELSE (Cardinality(E) * 1000) \div Cardinality(D)
  BY DEF StatCards, DashboardSummary
<1>2. IsFiniteSet(D)
  BY AgentsFinite
<1>3. E \subseteq D
  OBVIOUS
<1> HIDE DEF E
<1>4. /\ Cardinality(D) \in Nat /\ Cardinality(E) \in Nat
      /\ Cardinality(E) <= Cardinality(D)
      /\ D # {} => Cardinality(D) # 0
  BY <1>2, <1>3, FS_Subset, FS_CardinalityType, FS_EmptySet
<1>5. CASE D = {}
  BY <1>1, <1>5
<1>6. CASE D # {}
  <2>1. PICK m \in Nat \ {0} : m = Cardinality(D)
    BY <1>4, <1>6
  <2>2. PICK e \in Nat : e = Cardinality(E)
    BY <1>4
  <2>3. PICK k \in Nat : k = e * 1000 /\ k <= 1000 * m
    BY <1>4, <2>1, <2>2
  <2>4. k \div m \in 0..1000
    BY <2>3, DivOfMultiple
  <2> QED
    BY <1>1, <1>6, <2>1, <2>2, <2>3, <2>4
<1> QED
  BY <1>5, <1>6

LEMMA BarFramed ==
    ASSUME NEW D \in SUBSET Span, NEW i \in by_agent(D)
    PROVE  AgentBar(by_agent(D), i) \in 0..1000
<1> DEFINE C == {j.cost : j \in by_agent(D)} \cup {LeastCost}
           J == [a \in Agents(D) |-> CostItem(D, a).cost]
<1>1. \A a \in Agents(D) : CostItem(D, a).cost \in Nat
  <2> SUFFICES ASSUME NEW a \in Agents(D) PROVE CostItem(D, a).cost \in Nat
    OBVIOUS
  <2>1. PICK M : M = {s \in D : AgentOf[s] = a}
    OBVIOUS
  <2>2. IsFiniteSet(M) /\ \A s \in M : CostOf[s] \in Nat
    BY <2>1, AgentsFinite, FS_Subset, DashboardAssumption
  <2>3. CostItem(D, a).cost = Sum(CostOf, M)
    BY <2>1 DEF CostItem, CostSum, Sum
  <2> QED
    BY <2>2, <2>3, SumNat
<1>2. C = {J[a] : a \in Agents(D)} \cup {LeastCost}
  BY DEF by_agent, Agents
<1>3. IsFiniteSet({J[a] : a \in Agents(D)})
  <2> HIDE DEF J
  <2> QED
    BY AgentsFinite, ImageFinite
<1>4. IsFiniteSet(C)
  <2> HIDE DEF C, J
  <2>1. IsFiniteSet({LeastCost})
    BY FS_Singleton
  <2> QED
    BY <1>2, <1>3, <2>1, FS_Union
<1>5. C \subseteq Nat /\ LeastCost \in C /\ i.cost \in C
  <2>1. \A j \in by_agent(D) : j.cost \in Nat
    BY <1>1 DEF by_agent, Agents
  <2> QED
    BY <2>1, DashboardAssumption
<1>6. AgentBar(by_agent(D), i) = (i.cost * 1000) \div Max(C)
  BY DEF AgentBar
<1> HIDE DEF C, J
<1>7. PICK m \in Nat : m = Max(C) /\ i.cost <= m /\ LeastCost <= m
  BY <1>4, <1>5, Greatest
<1>8. PICK c \in Nat : c = i.cost
  BY <1>5
<1>9. m # 0
  BY <1>7, DashboardAssumption
<1>10. PICK k \in Nat : k = c * 1000 /\ k <= 1000 * m
  BY <1>7, <1>8
<1>11. k \div m \in 0..1000
  BY <1>9, <1>10, DivOfMultiple
<1> QED
  BY <1>6, <1>7, <1>8, <1>10, <1>11

LEMMA StatusFramed ==
    ASSUME live \in Counts, total > 0
    PROVE  SumFunctionOnSet([c \in Status |-> StatusBar(c)], Status)
               \in (1001 - Cardinality(Status))..1000
<1> DEFINE bars == [c \in Status |-> StatusBar(c)]
<1>1. IsFiniteSet(Status) /\ \A c \in Status : live[c] \in Nat
  BY DashboardAssumption, FS_Subset DEF Counts
<1>2. total = Sum(live, Status)
  BY DEF total, Sum
<1>3. \A c \in Status : bars[c] = (live[c] * 1000) \div Sum(live, Status)
  BY <1>2 DEF StatusBar
<1> HIDE DEF bars
<1>4. Sum(bars, Status) \in (1001 - Cardinality(Status))..1000
  BY <1>1, <1>2, <1>3, PartsOfWhole
<1> QED
  BY <1>4 DEF Sum, bars

\* Rates and bars have something to divide by and stay inside their frames;
\* the bars of the statuses fill theirs, but for what is rounded
\* (Dashboard.tsx:130-185, 330-445).
THEOREM Framed == Spec => []BarsInFrame
<1>1. IInv => BarsInFrame
  <2> SUFFICES ASSUME IInv PROVE BarsInFrame
    OBVIOUS
  <2>1. summary \in Spans /\ breakdown \in Spans /\ live \in {None} \cup Counts
    BY DEF IInv, CardsInv, CardsTypes, MetersInv, MetersTypes
  <2>2. summary # None => StatCards(summary).ERROR_RATE \in 0..1000
    BY <2>1, RateFramed DEF Spans
  <2>3. breakdown # None =>
            \A i \in by_agent(breakdown) : AgentBar(by_agent(breakdown), i) \in 0..1000
    BY <2>1, BarFramed DEF Spans
  <2>4. live # None /\ total > 0 =>
            SumFunctionOnSet([c \in Status |-> StatusBar(c)], Status)
                \in (1001 - Cardinality(Status))..1000
    BY <2>1, StatusFramed
  <2> QED
    BY <2>2, <2>3, <2>4 DEF BarsInFrame
<1> QED
  BY <1>1, Invariant, PTL

-----------------------------------------------------------------------------

\* The figures "of all time" go back only with a restart of the gateway or a
\* poll that outlasted the period of the timer (Dashboard.tsx:83-95,
\* snapshot.go:31-72).
THEOREM NeverBack == Spec => CountsNeverGoBack
<1>1. IInv /\ [Next]_vars =>
          [live # None /\ live' # None /\ liveLife' = liveLife /\ ~slow
              => \A c \in Counter : live'[c] >= live[c]]_vars
  <2> SUFFICES ASSUME IInv, [Next]_vars,
                      live # None, live' # None, liveLife' = liveLife, ~slow,
                      NEW c \in Counter
               PROVE  live'[c] >= live[c]
    OBVIOUS
  <2>1. MetersTypes /\ InTurn
    BY DEF IInv, MetersInv
  <2>2. live \in Counts /\ live[c] \in Nat
    BY <2>1 DEF MetersTypes, Counts
  <2>3. live' = live \/ \E i \in 1..MaxPolls : Hear(i)
    BY DEF Next, Open, Leave, CardsStep, MetersStep, Refresh, Age, ReadSummary, ReadCost,
           Settle, Insert, Fire, PollEnds, FailPoll, Restart, ReadPoll, Count, meters, vars
  <2>4. CASE live' = live
    BY <2>2, <2>4
  <2>5. ASSUME NEW i \in 1..MaxPolls, Hear(i)
        PROVE  live'[c] >= live[c]
    <3>1. /\ i \in DOMAIN polls /\ polls[i].life = liveLife
          /\ live' = Brings(polls[i])
      BY <2>5 DEF Hear, Brings
    <3>2. AtMost(live, live')
      BY <2>1, <3>1 DEF InTurn
    <3>3. live' \in Counts
      BY <2>1, <3>1, PollTypes
    <3>4. live'[c] \in Nat
      BY <3>3 DEF Counts
    <3> QED
      BY <2>2, <3>2, <3>4 DEF AtMost
  <2> QED
    BY <2>3, <2>4, <2>5
<1> QED
  BY <1>1, Invariant, PTL DEF Spec, CountsNeverGoBack

=============================================================================
