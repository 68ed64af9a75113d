-------------------------- MODULE TracePagesProofs ---------------------------
(***************************************************************************)
(* TLAPS proofs about TracePages, for every set of spans with any parents, *)
(* clocks, agents, users and traces, and any size of a page, limit of the  *)
(* spans read and number of calls and visits.                              *)
(*                                                                         *)
(* None of the properties is inductive: what a page shows was decided when *)
(* a call was sent and when it was read.  The invariant says of each call  *)
(* under way what it asks for and what its answer holds (ListAnswers,      *)
(* DetailAnswers: an answer is a page of rows that the table bears out, or *)
(* the spans of one trace as the table was at some moment), how the last   *)
(* call and the screen agree (ListLast, DetailLast), that a closed page    *)
(* waits for nothing (ListClosed, DetailClosed), and what the tree may     *)
(* have collapsed (Tree).                                                  *)
(*                                                                         *)
(* Parents form any relation, circles included, and rows are counted and   *)
(* ordered by rank; induction over such finite sets goes by a smallest     *)
(* counterexample (SmallestSubset).                                        *)
(***************************************************************************)
EXTENDS TracePages, FiniteSetTheorems, WellFoundedInduction, TLAPS

-----------------------------------------------------------------------------
(* Finite sets and numbers. *)

\* Every family of subsets of a finite set has a smallest member: induction
\* over finite sets, by the smallest counterexample.
Smallest(X, F) == X \in F /\ \A Y \in F : Y \subseteq X => Y = X

LEMMA SmallestSubset ==
    ASSUME NEW S, IsFiniteSet(S), NEW F \in SUBSET SUBSET S, F # {}
    PROVE  \E X : Smallest(X, F)
<1>1. IsWellFoundedOn(StrictSubsetOrdering(S), SUBSET S)
  BY FS_StrictSubsetOrderingWellFounded, FS_FiniteSubsetsOfFinite, Zenon
<1>2. PICK X \in F : \A Y \in F : <<Y, X>> \notin StrictSubsetOrdering(S)
  BY <1>1, WFMin, Zenon
<1> QED
  BY <1>2 DEF StrictSubsetOrdering, Smallest

\* A finite set of numbers has a greatest one ...
LEMMA Greatest ==
    ASSUME NEW S, IsFiniteSet(S), S \subseteq Int, S # {}
    PROVE  \E x \in S : \A y \in S : y <= x
<1> SUFFICES ASSUME ~ \E x \in S : \A y \in S : y <= x
             PROVE  FALSE
  OBVIOUS
<1> DEFINE F == {X \in SUBSET S : X # {} /\ ~ \E x \in X : \A y \in X : y <= x}
<1>1. F \in SUBSET SUBSET S /\ F # {}
  OBVIOUS
<1>2. PICK X : Smallest(X, F)
  <2> HIDE DEF F
  <2> QED
    BY <1>1, SmallestSubset
<1>3. X \in F /\ \A Y \in F : Y \subseteq X => Y = X
  BY <1>2 DEF Smallest
<1>4. PICK a \in X : TRUE
  BY <1>3 DEF F
<1>5. X \ {a} \notin F
  BY <1>3, <1>4
<1> USE DEF F
<1>6. CASE X \ {a} = {}
  <2>1. X = {a}
    BY <1>4, <1>6
  <2>2. \A y \in X : y <= a
    BY <2>1, <1>2, <1>3
  <2> QED
    BY <2>2, <1>3, <1>4
<1>7. CASE X \ {a} # {}
  <2>1. PICK b \in X \ {a} : \A y \in X \ {a} : y <= b
    BY <1>3, <1>5, <1>7
  <2>2. a \in Int /\ b \in Int /\ X \subseteq Int
    BY <1>3, <1>4, <2>1
  <2>3. CASE a <= b
    BY <1>3, <2>1, <2>2, <2>3
  <2>4. CASE b <= a
    <3>1. \A y \in X : y <= a
      BY <2>1, <2>2, <2>4
    <3> QED
      BY <3>1, <1>3, <1>4
  <2> QED
    BY <2>2, <2>3, <2>4
<1> QED
  BY <1>6, <1>7

\* ... and a least one.
LEMMA Least ==
    ASSUME NEW S, IsFiniteSet(S), S \subseteq Int, S # {}
    PROVE  \E x \in S : \A y \in S : x <= y
<1> DEFINE N == {0 - x : x \in S}
<1>1. IsFiniteSet(N)
  <2>1. [x \in S |-> 0 - x] \in Surjection(S, N)
    BY DEF Surjection
  <2> QED
    BY <2>1, FS_Surjection
<1>2. N \subseteq Int /\ N # {}
  BY \A x \in S : 0 - x \in Int
<1>3. PICK m \in N : \A y \in N : y <= m
  BY <1>1, <1>2, Greatest, Zenon
<1>4. PICK x \in S : m = 0 - x
  BY <1>3
<1>5. \A y \in S : 0 - y <= 0 - x
  BY <1>3, <1>4
<1> QED
  BY <1>4, <1>5

\* Both pages count as this module does.
LEMMA Counting ==
    ASSUME NEW S
    PROVE  List!Cardinality(S) = Cardinality(S) /\ Detail!Cardinality(S) = Cardinality(S)
BY DEF List!Cardinality, Detail!Cardinality, Cardinality

LEMMA DivAdd ==
    ASSUME NEW m \in Nat \ {0}, NEW a \in Nat, NEW b \in Nat
    PROVE  /\ a \div m \in Nat
           /\ (a \div m) + (b \div m) <= (a + b) \div m
OBVIOUS

LEMMA DivOfMultiple ==
    ASSUME NEW m \in Nat \ {0}, NEW n \in Nat, NEW a \in Nat, a <= n * m
    PROVE  a \div m <= n
OBVIOUS

\* Whole pages.
LEMMA PagesBefore ==
    ASSUME NEW m \in Nat \ {0}, NEW p \in Nat, NEW n \in Nat,
           p < (n + m - 1) \div m
    PROVE  p * m < n
<1> DEFINE q == (n + m - 1) \div m
<1>1. q \in Int /\ m * q <= n + m - 1
  OBVIOUS
<1> HIDE DEF q
<1>2. p + 1 <= q
  BY <1>1 DEF q
<1>3. PICK d \in Nat : q = p + 1 + d
  BY <1>1, <1>2
<1>4. m * q = p * m + m + m * d
  BY <1>3
<1>5. m * d >= 0
  OBVIOUS
<1> QED
  BY <1>1, <1>4, <1>5

-----------------------------------------------------------------------------
(* The tree of spans. *)

Parents(D, s) == Detail!Parents(D, s)
Above(D, s)   == Detail!Above(D, s)
Rows(D, C)    == Detail!Rows(D, C)

\* With a node U holds those it hangs on.
Upward(D, U) == \A y \in U : Parents(D, y) \subseteq U

\* The nodes above a node are those it hangs on, directly or not: the least
\* such set.
LEMMA AboveGrows ==
    ASSUME NEW D, NEW s
    PROVE  /\ Above(D, s) \subseteq D
           /\ Parents(D, s) \subseteq Above(D, s)
           /\ Upward(D, Above(D, s))
BY DEF Above, Detail!Above, Upward, Parents, Detail!Parents

LEMMA AboveLeast ==
    ASSUME NEW D, NEW s, NEW U, U \subseteq D, Parents(D, s) \subseteq U, Upward(D, U)
    PROVE  Above(D, s) \subseteq U
BY DEF Above, Detail!Above, Upward, Parents

LEMMA AboveTransitive ==
    ASSUME NEW D, NEW s, NEW y \in Above(D, s)
    PROVE  Above(D, y) \subseteq Above(D, s)
<1>1. Above(D, s) \subseteq D /\ Parents(D, y) \subseteq Above(D, s) /\ Upward(D, Above(D, s))
  BY AboveGrows DEF Upward
<1> QED
  BY <1>1, AboveLeast

\* What is above a node is its parent or above its parent.
LEMMA AboveChild ==
    ASSUME NEW D, NEW s \in D, NEW c, Parents(D, c) = {s}
    PROVE  Above(D, c) = {s} \cup Above(D, s)
<1>1. Above(D, c) \subseteq {s} \cup Above(D, s)
  <2>1. {s} \cup Above(D, s) \subseteq D
    BY AboveGrows
  <2>2. Upward(D, {s} \cup Above(D, s))
    BY AboveGrows DEF Upward
  <2> QED
    BY <2>1, <2>2, AboveLeast
<1>2. s \in Above(D, c)
  BY AboveGrows
<1>3. Above(D, s) \subseteq Above(D, c)
  BY <1>2, AboveTransitive
<1> QED
  BY <1>1, <1>2, <1>3

LEMMA ParentsAre ==
    ASSUME NEW D, NEW s
    PROVE  /\ ParentOf[s] \in D => Parents(D, s) = {ParentOf[s]}
           /\ ParentOf[s] \notin D => Parents(D, s) = {}
BY DEF Parents, Detail!Parents

\* Of two nodes above a third, one is above the other.
Aligned(D, s, y) == s = y \/ y \in Above(D, s) \/ s \in Above(D, y)

LEMMA AboveInLine ==
    ASSUME NEW D, NEW c, NEW s \in Above(D, c), NEW x \in Above(D, c)
    PROVE  Aligned(D, s, x)
<1> DEFINE U == {y \in Above(D, c) : Aligned(D, s, y)}
<1>1. U \subseteq D
  BY AboveGrows
<1>2. Parents(D, c) \subseteq U
  <2> SUFFICES ASSUME NEW p \in Parents(D, c) PROVE p \in U
    OBVIOUS
  <2>1. p \in D /\ Parents(D, c) = {p}
    BY ParentsAre DEF Parents, Detail!Parents
  <2>2. Above(D, c) = {p} \cup Above(D, p)
    BY <2>1, AboveChild
  <2> QED
    BY <2>2 DEF Aligned
<1>3. Upward(D, U)
  <2> SUFFICES ASSUME NEW y \in U, NEW z \in Parents(D, y) PROVE z \in U
    BY DEF Upward
  <2>1. z \in D /\ Parents(D, y) = {z}
    BY ParentsAre DEF Parents, Detail!Parents
  <2>2. Above(D, y) = {z} \cup Above(D, z)
    BY <2>1, AboveChild
  <2>3. z \in Above(D, c)
    BY AboveGrows DEF Upward
  <2>4. CASE y = s
    BY <2>2, <2>3, <2>4 DEF Aligned
  <2>5. CASE y \in Above(D, s)
    <3>1. z \in Above(D, s)
      BY <2>5, AboveGrows DEF Upward
    <3> QED
      BY <3>1, <2>3 DEF Aligned
  <2>6. CASE s \in Above(D, y)
    BY <2>2, <2>3, <2>6 DEF Aligned
  <2> QED
    BY <2>4, <2>5, <2>6 DEF Aligned
<1>4. Above(D, c) \subseteq U
  BY <1>1, <1>2, <1>3, AboveLeast
<1> QED
  BY <1>4

LEMMA RowsGrow ==
    ASSUME NEW D, NEW C
    PROVE  Detail!Drawn(D, C, Rows(D, C))
BY DEF Rows, Detail!Rows, Detail!Drawn, Detail!Roots, Detail!Children

LEMMA RowsLeast ==
    ASSUME NEW D, NEW C, NEW R, R \subseteq D, Detail!Drawn(D, C, R)
    PROVE  Rows(D, C) \subseteq R
BY DEF Rows, Detail!Rows

\* What is collapsed in addition adds no row.
LEMMA RowsAntitone ==
    ASSUME NEW D, NEW C, NEW B, B \subseteq C
    PROVE  Rows(D, C) \subseteq Rows(D, B)
<1>1. Detail!Drawn(D, C, Rows(D, B))
  BY RowsGrow DEF Detail!Drawn
<1> QED
  BY <1>1, RowsLeast DEF Rows, Detail!Rows

\* A span has a row if nothing above it is collapsed and it does not hang on a
\* circle.
Rooted(D, s) == \E x \in {s} \cup Above(D, s) : ParentOf[x] \notin D

LEMMA RowsAre ==
    ASSUME NEW D, NEW C, NEW s \in D
    PROVE  s \in Rows(D, C) <=> Above(D, s) \cap C = {} /\ Rooted(D, s)
<1>1. ASSUME s \in Rows(D, C)
      PROVE  Above(D, s) \cap C = {} /\ Rooted(D, s)
  <2> DEFINE R == {x \in D : Above(D, x) \cap C = {} /\ Rooted(D, x)}
  <2>1. Detail!Roots(D) \subseteq R
    <3> SUFFICES ASSUME NEW x \in D, ParentOf[x] \notin D PROVE x \in R
      BY DEF Detail!Roots
    <3>1. Above(D, x) \subseteq {}
      <4>1. Parents(D, x) \subseteq {} /\ Upward(D, {})
        BY ParentsAre DEF Upward
      <4> QED
        BY <4>1, AboveLeast
    <3> QED
      BY <3>1 DEF Rooted
  <2>2. ASSUME NEW x \in R \ C, NEW c \in Detail!Children(D, x)
        PROVE  c \in R
    <3>1. c \in D /\ Parents(D, c) = {x}
      BY ParentsAre DEF Detail!Children
    <3>2. Above(D, c) = {x} \cup Above(D, x)
      BY <3>1, AboveChild
    <3> QED
      BY <3>1, <3>2 DEF Rooted
  <2>3. Detail!Drawn(D, C, R)
    BY <2>1, <2>2 DEF Detail!Drawn
  <2>4. Rows(D, C) \subseteq R
    BY <2>3, RowsLeast
  <2> QED
    BY <2>4, <1>1
<1>2. ASSUME Above(D, s) \cap C = {}, Rooted(D, s), s \notin Rows(D, C)
      PROVE  FALSE
  <2> DEFINE U == {y \in {s} \cup Above(D, s) : y \notin Rows(D, C)}
  <2>1. ASSUME NEW y \in U PROVE Parents(D, y) \subseteq U
    <3> SUFFICES ASSUME NEW z \in Parents(D, y) PROVE z \in U
      OBVIOUS
    <3>1. z \in D /\ z = ParentOf[y] /\ y \in D
      BY AboveGrows DEF Parents, Detail!Parents
    <3>2. z \in Above(D, s)
      BY AboveGrows DEF Upward
    <3>3. z \notin C
      BY <3>2, <1>2
    <3>4. z \notin Rows(D, C)
      BY <3>1, <3>3, RowsGrow DEF Detail!Drawn, Detail!Children
    <3> QED
      BY <3>2, <3>4
  <2>2. U \subseteq D /\ Parents(D, s) \subseteq U /\ Upward(D, U)
    <3>1. s \in U
      BY <1>2
    <3> QED
      BY <2>1, <3>1, AboveGrows DEF Upward
  <2>3. Above(D, s) \subseteq U
    BY <2>2, AboveLeast
  <2>4. PICK x \in {s} \cup Above(D, s) : ParentOf[x] \notin D
    BY <1>2 DEF Rooted
  <2>5. x \in U /\ x \in D
    BY <2>3, <2>4, <1>2, AboveGrows
  <2>6. x \in Rows(D, C)
    BY <2>4, <2>5, RowsGrow DEF Detail!Drawn, Detail!Roots
  <2> QED
    BY <2>5, <2>6
<1> QED
  BY <1>1, <1>2

-----------------------------------------------------------------------------
(* Bars. *)

LEMMA SpanTimes ==
    ASSUME NEW s \in Span
    PROVE  /\ List!Start(s) \in Nat /\ Detail!Start(s) = List!Start(s)
           /\ Detail!End(s) \in Nat /\ Detail!Duration(s) \in Nat
           /\ Detail!Duration(s) + Detail!Start(s) <= Detail!End(s)
<1>1. /\ Began[s] \in Nat /\ Ended[s] \in Nat /\ Began[s] <= Ended[s]
      /\ Ms \in Nat \ {0}
  BY SpanAssumption
<1>2. PICK d \in Nat : d = Ended[s] - Began[s] /\ d + Began[s] = Ended[s]
  BY <1>1
<1>3. /\ d \div Ms \in Nat /\ Began[s] \div Ms \in Nat /\ Ended[s] \div Ms \in Nat
      /\ (d \div Ms) + (Began[s] \div Ms) <= Ended[s] \div Ms
  BY <1>1, <1>2, DivAdd
<1> QED
  BY <1>2, <1>3 DEF List!Start, Detail!Start, Detail!End, Detail!Duration

LEMMA Timeline ==
    ASSUME NEW D, D \subseteq Span, NEW s \in D
    PROVE  /\ Detail!RelativeStart(D, s) \in Nat
           /\ Detail!TotalDuration(D) \in Nat
           /\ Detail!RelativeStart(D, s) + Detail!Duration(s) <= Detail!TotalDuration(D)
<1> DEFINE B == {Detail!Start(x) : x \in D}
           E == {Detail!End(x) : x \in D}
<1>1. IsFiniteSet(D)
  BY SpanAssumption, FS_Subset
<1>2. IsFiniteSet(B) /\ B \subseteq Int /\ Detail!Start(s) \in B
  <2>1. [x \in D |-> Detail!Start(x)] \in Surjection(D, B)
    BY DEF Surjection
  <2>2. IsFiniteSet(B)
    BY <1>1, <2>1, FS_Surjection
  <2> QED
    BY <2>2, SpanTimes
<1>3. IsFiniteSet(E) /\ E \subseteq Int /\ Detail!End(s) \in E
  <2>1. [x \in D |-> Detail!End(x)] \in Surjection(D, E)
    BY DEF Surjection
  <2>2. IsFiniteSet(E)
    BY <1>1, <2>1, FS_Surjection
  <2> QED
    BY <2>2, SpanTimes
<1>4. \E x \in B : \A y \in B : x <= y
  <2> HIDE DEF B
  <2> QED
    BY <1>2, Least
<1>5. \E x \in E : \A y \in E : y <= x
  <2> HIDE DEF E
  <2> QED
    BY <1>3, Greatest
<1>6. /\ Detail!TraceStart(D) \in B
      /\ \A y \in B : Detail!TraceStart(D) <= y
  BY <1>4 DEF Detail!TraceStart, Detail!SetMin
<1>7. /\ Detail!TraceEnd(D) \in E
      /\ \A y \in E : y <= Detail!TraceEnd(D)
  BY <1>5 DEF Detail!TraceEnd, Detail!SetMax
<1> HIDE DEF B, E
<1>8. /\ Detail!Start(s) \in Int /\ Detail!End(s) \in Int
      /\ Detail!TraceStart(D) \in Int /\ Detail!TraceEnd(D) \in Int
      /\ Detail!TraceStart(D) <= Detail!Start(s)
      /\ Detail!End(s) <= Detail!TraceEnd(D)
  BY <1>2, <1>3, <1>6, <1>7
<1>9. /\ Detail!Duration(s) \in Nat
      /\ Detail!Duration(s) + Detail!Start(s) <= Detail!End(s)
  BY SpanTimes
<1> QED
  BY <1>8, <1>9 DEF Detail!RelativeStart, Detail!TotalDuration

LEMMA BarFits ==
    ASSUME NEW D, D \subseteq Span, NEW s \in D
    PROVE  /\ Detail!Bar(D, s).left >= 0
           /\ Detail!Bar(D, s).left + Detail!Bar(D, s).width <= 1000 + 5
<1>1. PICK a \in Nat : a = Detail!RelativeStart(D, s)
  BY Timeline
<1>2. PICK b \in Nat : b = Detail!Duration(s)
  BY SpanTimes
<1>3. PICK t \in Nat \ {0} : t = Detail!safe(D) /\ a + b <= t
  BY <1>1, <1>2, Timeline DEF Detail!safe
<1>4. PICK p \in Nat : p = a * 1000
  OBVIOUS
<1>5. PICK q \in Nat : q = b * 1000
  OBVIOUS
<1>6. PICK left \in Nat : left = p \div t
  BY <1>3, DivAdd
<1>a. PICK width \in Nat : width = q \div t
  BY <1>3, DivAdd
<1>b. left + width <= 1000
  <2>1. PICK both \in Nat : both = p + q /\ both <= 1000 * t
    BY <1>3, <1>4, <1>5
  <2>2. left + width <= both \div t /\ both \div t \in Int
    BY <1>3, <1>6, <1>a, <2>1, DivAdd
  <2>3. both \div t <= 1000
    BY <2>1, <1>3, DivOfMultiple
  <2> QED
    BY <2>2, <2>3
<1>7. Detail!Bar(D, s) = [left |-> left, width |-> IF width < 5 THEN 5 ELSE width]
  BY <1>1, <1>2, <1>3, <1>4, <1>5, <1>6, <1>a DEF Detail!Bar
<1> QED
  BY <1>7, <1>b

-----------------------------------------------------------------------------
(* Pages of the list. *)

\* The newest span of a trace: it decides the place of the trace.
IsNewest(Z, t, s) ==
    /\ s \in List!Of(Z, t)
    /\ \A r \in List!Of(Z, t) : List!Start(r) <= List!Start(s)

LEMMA Newest ==
    ASSUME NEW Z, Z \subseteq Span, NEW t \in List!Order(Z)
    PROVE  \E s \in Span : IsNewest(Z, t, s)
<1> DEFINE O == List!Of(Z, t)
           B == {List!Start(s) : s \in O}
<1>1. IsFiniteSet(O) /\ O \subseteq Span /\ O # {}
  BY SpanAssumption, FS_Subset DEF List!Of, List!Order
<1>2. IsFiniteSet(B) /\ B \subseteq Int /\ B # {}
  <2>1. [x \in O |-> List!Start(x)] \in Surjection(O, B)
    BY DEF Surjection
  <2>2. IsFiniteSet(B)
    BY <1>1, <2>1, FS_Surjection
  <2> QED
    BY <2>2, <1>1, SpanTimes
<1>3. \E x \in B : \A y \in B : y <= x
  <2> HIDE DEF B
  <2> QED
    BY <1>2, Greatest
<1> QED
  BY <1>1, <1>3 DEF IsNewest

LEMMA SoonerIsNewer ==
    ASSUME NEW Z, Z \subseteq Span,
           NEW t, NEW u, NEW x \in Span, NEW y \in Span,
           IsNewest(Z, t, x), IsNewest(Z, u, y)
    PROVE  List!Sooner(Z, t, u) <=> List!Start(x) > List!Start(y)
<1>1. \A r \in List!Of(Z, t) \cup List!Of(Z, u) : r \in Span /\ List!Start(r) \in Nat
  BY SpanTimes DEF List!Of
<1> QED
  BY <1>1, SpanTimes DEF List!Sooner, IsNewest

\* The places of the traces are 0, 1, ..., each taken once.
LEMMA Places ==
    ASSUME NEW Z, Z \subseteq Span, NEW T, T = List!Order(Z)
    PROVE  /\ IsFiniteSet(T)
           /\ \A t \in T : List!Place(Z, t) \in 0..(Cardinality(T) - 1)
           /\ \A t, u \in T : List!Place(Z, t) = List!Place(Z, u) => t = u
           /\ \A k \in 0..(Cardinality(T) - 1) : \E t \in T : List!Place(Z, t) = k
<1> DEFINE N == [t \in T |-> CHOOSE s \in Span : IsNewest(Z, t, s)]
           Before(u) == {t \in T : List!Sooner(Z, t, u)}
<1>1. IsFiniteSet(Z)
  BY SpanAssumption, FS_Subset
<1>2. IsFiniteSet(T)
  <2>1. [s \in Z |-> TraceOf[s]] \in Surjection(Z, T)
    BY DEF Surjection, List!Order
  <2> QED
    BY <1>1, <2>1, FS_Surjection
<1>3. PICK n \in Nat : n = Cardinality(T)
  BY <1>2, FS_CardinalityType
<1>4. \A t \in T : N[t] \in Span /\ IsNewest(Z, t, N[t])
  BY Newest, Zenon
<1> HIDE DEF N
<1>5. \A t, u \in T : List!Sooner(Z, t, u) <=> List!Start(N[t]) > List!Start(N[u])
  BY <1>4, SoonerIsNewer
<1>6. \A t \in T : List!Start(N[t]) \in Nat /\ TraceOf[N[t]] = t
  BY <1>4, SpanTimes DEF IsNewest, List!Of
<1>7. \A t, u \in T : List!Start(N[t]) = List!Start(N[u]) => t = u
  BY <1>4, <1>6, SpanAssumption DEF List!Start
<1>8. \A u \in T : List!Place(Z, u) = Cardinality(Before(u))
  BY Counting DEF List!Place
<1>9. \A u \in T : /\ IsFiniteSet(Before(u)) /\ Cardinality(Before(u)) \in Nat
                   /\ Cardinality(Before(u)) < n
  <2> SUFFICES ASSUME NEW u \in T
               PROVE  /\ IsFiniteSet(Before(u)) /\ Cardinality(Before(u)) \in Nat
                      /\ Cardinality(Before(u)) < n
    OBVIOUS
  <2>1. u \notin Before(u)
    BY <1>5, <1>6
  <2>2. Before(u) \subseteq T
    OBVIOUS
  <2> HIDE DEF Before
  <2>3. IsFiniteSet(Before(u)) /\ Cardinality(Before(u)) <= n /\ Cardinality(Before(u)) # n
    BY <1>2, <1>3, <2>1, <2>2, FS_Subset
  <2>4. Cardinality(Before(u)) \in Nat
    BY <2>3, FS_CardinalityType
  <2> QED
    BY <2>3, <2>4
<1>10. ASSUME NEW t \in T, NEW u \in T, List!Start(N[t]) > List!Start(N[u])
       PROVE  Cardinality(Before(t)) < Cardinality(Before(u))
  <2>1. Before(t) \subseteq Before(u) /\ t \in Before(u) /\ t \notin Before(t)
    BY <1>5, <1>6, <1>10
  <2>2. /\ IsFiniteSet(Before(u))
        /\ Cardinality(Before(t)) \in Nat /\ Cardinality(Before(u)) \in Nat
    BY <1>9
  <2> HIDE DEF Before
  <2>3. /\ Cardinality(Before(t)) <= Cardinality(Before(u))
        /\ Cardinality(Before(u)) = Cardinality(Before(t)) => Before(u) = Before(t)
    BY <2>1, <2>2, FS_Subset
  <2> QED
    BY <2>1, <2>2, <2>3
<1>11. \A t \in T : List!Place(Z, t) \in 0..(n - 1)
  <2> HIDE DEF Before
  <2> QED
    BY <1>8, <1>9
<1>12. \A t, u \in T : List!Place(Z, t) = List!Place(Z, u) => t = u
  <2> SUFFICES ASSUME NEW t \in T, NEW u \in T, t # u
               PROVE  List!Place(Z, t) # List!Place(Z, u)
    OBVIOUS
  <2>1. List!Start(N[t]) > List!Start(N[u]) \/ List!Start(N[u]) > List!Start(N[t])
    BY <1>6, <1>7
  <2>2. Cardinality(Before(t)) \in Nat /\ Cardinality(Before(u)) \in Nat
    BY <1>9
  <2>3. Cardinality(Before(t)) < Cardinality(Before(u)) \/ Cardinality(Before(u)) < Cardinality(Before(t))
    BY <2>1, <1>10
  <2> HIDE DEF Before
  <2> QED
    BY <1>8, <2>2, <2>3
<1>13. \A k \in 0..(n - 1) : \E t \in T : List!Place(Z, t) = k
  <2> DEFINE f == [t \in T |-> List!Place(Z, t)]
  <2>1. f \in Injection(T, 0..(n - 1))
    BY <1>11, <1>12 DEF Injection, IsInjective
  <2>2. IsFiniteSet(0..(n - 1)) /\ Cardinality(0..(n - 1)) = n
    BY FS_Interval
  <2>3. f \in Surjection(T, 0..(n - 1))
    <3> HIDE DEF f
    <3> QED
      BY <1>3, <2>1, <2>2, FS_Injection
  <2> QED
    BY <2>3 DEF Surjection
<1> QED
  BY <1>2, <1>3, <1>11, <1>12, <1>13

\* A page has no more than PageSize rows, and if there are traces behind it
\* exactly so many.
LEMMA PageOfAnswer ==
    ASSUME stored \subseteq Span, NEW q, q.page \in Nat \ {0}
    PROVE  /\ IsFiniteSet(List!Answer(q).traces)
           /\ Cardinality(List!Answer(q).traces) \in Nat
           /\ Cardinality(List!Answer(q).traces) <= PageSize
           /\ List!Answer(q).total \in Nat
           /\ q.page * PageSize < List!Answer(q).total
                => Cardinality(List!Answer(q).traces) = PageSize
<1> DEFINE Z == List!Selected(q)
           T == List!Order(Z)
<1>1. Z \subseteq Span
  BY DEF List!Selected
<1>2. PICK n \in Nat : n = Cardinality(T) /\ IsFiniteSet(T)
  BY <1>1, Places, FS_CardinalityType
<1>3. PICK m \in Nat \ {0} : m = PageSize
  BY PagesAssumption
<1>4. PICK a \in Nat : a = (q.page - 1) * PageSize /\ q.page * PageSize = a + m
  <2>1. PICK p \in Nat : q.page = p + 1
    BY q.page - 1 \in Nat
  <2>2. p * m \in Nat /\ (p + 1) * m = p * m + m
    OBVIOUS
  <2> QED
    BY <2>1, <2>2, <1>3
<1> DEFINE P == {t \in T : List!Place(Z, t) \in a..(a + m - 1)}
           Rs == {List!Item(Z, t) : t \in P}
<1>5. List!Answer(q) = [traces |-> Rs, total |-> n]
  <2>1. (q.page - 1) * PageSize = a /\ PageSize = m /\ Cardinality(T) = n
    BY <1>2, <1>3, <1>4
  <2> QED
    BY <2>1, Counting, Zenon DEF List!Answer
<1>6. /\ \A t \in T : List!Place(Z, t) \in 0..(n - 1)
      /\ \A t, u \in T : List!Place(Z, t) = List!Place(Z, u) => t = u
      /\ \A k \in 0..(n - 1) : \E t \in T : List!Place(Z, t) = k
  <2> HIDE DEF Z
  <2> QED
    BY <1>1, <1>2, Places
<1> HIDE DEF Z
<1>7. IsFiniteSet(P) /\ Cardinality(P) \in Nat
  BY <1>2, FS_Subset, FS_CardinalityType
<1>8. IsFiniteSet(a..(a + m - 1)) /\ Cardinality(a..(a + m - 1)) = m
  BY FS_Interval
<1> DEFINE f == [t \in P |-> List!Place(Z, t)]
<1>9. f \in Injection(P, a..(a + m - 1))
  BY <1>6 DEF Injection, IsInjective
<1>10. Cardinality(P) <= m
  <2> HIDE DEF P, f
  <2> QED
    BY <1>8, <1>9, FS_Injection
<1>11. ASSUME a + m < n PROVE Cardinality(P) = m
  <2>1. f \in Surjection(P, a..(a + m - 1))
    <3>1. ASSUME NEW k \in a..(a + m - 1) PROVE \E t \in P : f[t] = k
      <4>1. k \in 0..(n - 1)
        BY <1>11
      <4>2. PICK t \in T : List!Place(Z, t) = k
        BY <1>6, <4>1
      <4> QED
        BY <4>2
    <3> QED
      BY <1>9, <3>1 DEF Injection, Surjection
  <2> HIDE DEF P, f
  <2> QED
    BY <1>8, <1>9, <2>1, FS_Injection
<1> DEFINE g == [t \in P |-> List!Item(Z, t)]
<1>12. g \in Bijection(P, Rs)
  <2>1. \A t \in P : List!Item(Z, t).trace = t
    BY DEF List!Item
  <2>2. g \in Surjection(P, Rs)
    BY DEF Surjection
  <2>3. g \in Injection(P, Rs)
    BY <2>1 DEF Injection, IsInjective
  <2> QED
    BY <2>2, <2>3 DEF Bijection
<1>13. IsFiniteSet(Rs) /\ Cardinality(Rs) = Cardinality(P)
  <2>1. ExistsBijection(P, Rs)
    BY <1>12 DEF ExistsBijection
  <2> HIDE DEF P, Rs, g
  <2> QED
    BY <1>7, <2>1, FS_Bijection
<1> HIDE DEF P, Rs
<1> QED
  BY <1>3, <1>4, <1>5, <1>7, <1>10, <1>11, <1>13

-----------------------------------------------------------------------------
(* The invariant. *)

\* What a row says of its trace is in the spans of S.
Sound(S, r) ==
    /\ r \in List!Row
    /\ r.span_count <= Cardinality({s \in S : TraceOf[s] = r.trace})
    /\ r.status = "error" => \E s \in S : TraceOf[s] = r.trace /\ StatusOf[s] = "error"

\* T is page p of n traces.
Paged(p, T, n) ==
    /\ Cardinality(T) \in Nat /\ Cardinality(T) <= PageSize /\ n \in Nat
    /\ p * PageSize < n => Cardinality(T) = PageSize

Screen == [page |-> page, agent |-> agentFilter, user |-> userFilter]

ListTypes ==
    /\ stored \subseteq Span
    /\ mounted \in BOOLEAN /\ loading \in BOOLEAN /\ error \in BOOLEAN
    /\ overtaken \in BOOLEAN
    /\ made \in 0..MaxListCalls /\ asked \subseteq 1..made
    /\ page \in 1..(made + 1)
    /\ DOMAIN query = 1..MaxListCalls /\ DOMAIN answer = 1..MaxListCalls

\* A list that is closed is as it was at first, and it waits only for a call.
ListClosed ==
    /\ ~mounted => /\ asked = {} /\ shown = 0 /\ loading = FALSE
                   /\ page = 1 /\ agentFilter = Untyped /\ userFilter = Untyped
    /\ loading => asked # {}

\* The answers under way, and the one on the page, are pages of sound rows.
ListAnswers ==
    /\ \A n \in 1..MaxListCalls \ asked : answer[n] = None
    /\ \A n \in asked :
        /\ query[n].page \in Nat \ {0}
        /\ answer[n] # None =>
               /\ Paged(query[n].page, answer[n].traces, answer[n].total)
               /\ \A r \in answer[n].traces : Sound(stored, r)
    /\ Cardinality(traces) \in Nat /\ Cardinality(traces) <= PageSize /\ total \in Nat
    /\ total = 0 \/ Paged(shownQuery.page, traces, total)
    /\ \A r \in traces : Sound(stored, r)

\* The last call asks for what is on the screen; once it is answered, that is
\* on the page, or the call has failed or overtaken another.
ListLast ==
    mounted =>
        /\ made \in asked => query[made] = Screen
        /\ made \notin asked /\ asked # {} => overtaken
        /\ made \notin asked /\ ~error /\ ~overtaken => shownQuery = Screen

ListInv == ListTypes /\ ListClosed /\ ListAnswers /\ ListLast

DetailTypes ==
    /\ stored \subseteq Span
    /\ traceId \in Trace \cup {None}
    /\ detailLoading \in BOOLEAN /\ detailError \in BOOLEAN
    /\ detailOvertaken \in BOOLEAN
    /\ detailMade \in 0..MaxDetailCalls /\ detailAsked \subseteq 1..detailMade
    /\ DOMAIN detailQuery = 1..MaxDetailCalls
    /\ DOMAIN detailAnswer = 1..MaxDetailCalls

DetailClosed ==
    /\ traceId = None =>
           /\ detailAsked = {} /\ detailShown = 0 /\ detailLoading = FALSE
           /\ data = {} /\ collapsed = {} /\ row = None
    /\ detailLoading => detailAsked # {} /\ data = {} /\ collapsed = {}

\* The answers under way, and the one on the page, are the spans of a trace.
DetailAnswers ==
    /\ \A n \in 1..MaxDetailCalls \ detailAsked : detailAnswer[n] = None
    /\ \A n \in detailAsked : detailAnswer[n] # None =>
           \A s \in detailAnswer[n] : s \in stored /\ TraceOf[s] = detailQuery[n]
    /\ data \subseteq stored

DetailLast ==
    traceId # None =>
        /\ detailMade \in detailAsked => detailQuery[detailMade] = traceId
        /\ detailMade \notin detailAsked /\ detailAsked # {} => detailOvertaken
        /\ detailMade \notin detailAsked /\ ~detailError /\ ~detailOvertaken
               => data # {} /\ \A s \in data : TraceOf[s] = traceId

\* Only a node with a row is collapsed.
Tree ==
    /\ collapsed \subseteq Rows(data, collapsed)
    /\ collapsed # {} => ~detailLoading /\ ~detailError /\ data # {}

\* The row whose link was followed is borne out by the table, and by the
\* answers about its trace.
RowBorneOut ==
    row # None =>
        /\ Sound(stored, row)
        /\ \A n \in detailAsked :
               detailAnswer[n] # None /\ detailQuery[n] = row.trace
                   => Sound(detailAnswer[n], row)
        /\ data # {} /\ (\A s \in data : TraceOf[s] = row.trace) => Sound(data, row)

DetailInv ==
    DetailTypes /\ DetailClosed /\ DetailAnswers /\ DetailLast /\ Tree /\ RowBorneOut

IInv == ListInv /\ DetailInv /\ (mounted => traceId = None)

-----------------------------------------------------------------------------
(* Sound rows. *)

LEMMA SoundStays ==
    ASSUME NEW S, NEW R, S \subseteq R, R \subseteq Span, NEW r, Sound(S, r)
    PROVE  Sound(R, r)
<1> DEFINE A == {s \in S : TraceOf[s] = r.trace}
           B == {s \in R : TraceOf[s] = r.trace}
<1>1. IsFiniteSet(A) /\ IsFiniteSet(B) /\ A \in SUBSET B
  BY SpanAssumption, FS_Subset
<1>2. Cardinality(A) \in Nat /\ Cardinality(B) \in Nat
  BY <1>1, FS_CardinalityType
<1>3. Cardinality(A) <= Cardinality(B)
  <2> HIDE DEF A, B
  <2> QED
    BY <1>1, FS_Subset
<1>4. r.span_count \in Nat
  BY DEF Sound, List!Row
<1>5. r.span_count <= Cardinality(B)
  BY <1>2, <1>3, <1>4 DEF Sound
<1> QED
  BY <1>5 DEF Sound

LEMMA SoundItem ==
    ASSUME NEW S, S \subseteq Span, NEW Z, Z \subseteq S, NEW t \in List!Order(Z)
    PROVE  Sound(S, List!Item(Z, t))
<1>1. t \in Trace
  BY SpanAssumption DEF List!Order
<1>2. List!Of(Z, t) = {s \in Z : TraceOf[s] = t} /\ IsFiniteSet(List!Of(Z, t))
  BY SpanAssumption, FS_Subset DEF List!Of
<1>3. Cardinality(List!Of(Z, t)) \in Nat
  BY <1>2, FS_CardinalityType
<1>4. List!Item(Z, t) =
          [trace      |-> t,
           span_count |-> Cardinality(List!Of(Z, t)),
           status     |-> IF \E s \in List!Of(Z, t) : StatusOf[s] = "error"
                          THEN "error" ELSE "success"]
  BY Counting DEF List!Item
<1>5. List!Item(Z, t) \in List!Row
  BY <1>1, <1>3, <1>4 DEF List!Row
<1>6. Sound(Z, List!Item(Z, t))
  BY <1>2, <1>3, <1>4, <1>5 DEF Sound
<1> QED
  BY <1>6, SoundStays

LEMMA SoundAnswer ==
    ASSUME stored \subseteq Span, NEW q, NEW r \in List!Answer(q).traces
    PROVE  Sound(stored, r)
<1>1. List!Selected(q) \subseteq stored
  BY DEF List!Selected
<1>2. \E t \in List!Order(List!Selected(q)) : r = List!Item(List!Selected(q), t)
  BY DEF List!Answer
<1> QED
  BY <1>1, <1>2, SoundItem

LEMMA PagedAnswer ==
    ASSUME stored \subseteq Span, NEW q, q.page \in Nat \ {0}
    PROVE  Paged(q.page, List!Answer(q).traces, List!Answer(q).total)
BY PageOfAnswer DEF Paged

-----------------------------------------------------------------------------
(* Steps of the list. *)

\* A call of the list that asks for what the step leaves on the screen.
ListAsks ==
    /\ made < MaxListCalls /\ made' = made + 1
    /\ asked' = asked \cup {made'}
    /\ query' = [query EXCEPT ![made'] = Screen']
    /\ loading' = TRUE /\ error' = FALSE
    /\ overtaken' = (overtaken /\ asked # {})
    /\ mounted' = TRUE /\ page' \in 1..(made' + 1)
    /\ UNCHANGED <<stored, traces, total, shown, shownQuery, answer>>

LEMMA OpenAsks ==
    ASSUME ListInv, List!Open
    PROVE  ListAsks
<1>1. made \in Nat /\ page = 1 /\ agentFilter = Untyped /\ userFilter = Untyped
  BY DEF ListInv, ListTypes, ListClosed, List!Open
<1> QED
  BY <1>1 DEF List!Open, List!load, List!form, List!rows, ListAsks, Screen

LEMMA TypeAsks ==
    ASSUME ListInv, List!Type
    PROVE  ListAsks
<1>1. made \in Nat
  BY DEF ListInv, ListTypes
<1>2. ASSUME NEW v, List!SetAgent(v) PROVE ListAsks
  BY <1>1, <1>2 DEF List!SetAgent, List!load, List!rows, ListAsks, Screen
<1>3. ASSUME NEW v, List!SetUser(v) PROVE ListAsks
  BY <1>1, <1>3 DEF List!SetUser, List!load, List!rows, ListAsks, Screen
<1> QED
  BY <1>2, <1>3 DEF List!Type

LEMMA TurnAsks ==
    ASSUME ListInv, List!Prev \/ List!Next_ \/ List!Refresh
    PROVE  ListAsks
<1>1. made \in Nat /\ page \in 1..(made + 1)
  BY DEF ListInv, ListTypes
<1>2. ASSUME NEW p \in 1..(made + 2), mounted, List!Turn(p) PROVE ListAsks
  BY <1>1, <1>2 DEF List!Turn, List!load, List!rows, ListAsks, Screen
<1>3. CASE List!Prev
  <2>1. page - 1 \in 1..(made + 2)
    BY <1>1, <1>3 DEF List!Prev, List!PrevEnabled
  <2> QED
    BY <1>2, <1>3, <2>1 DEF List!Prev
<1>4. CASE List!Next_
  <2>1. page + 1 \in 1..(made + 2)
    BY <1>1
  <2> QED
    BY <1>2, <1>4, <2>1 DEF List!Next_
<1>5. CASE List!Refresh
  BY <1>1, <1>5 DEF List!Refresh, List!load, List!form, List!rows, ListAsks, Screen
<1> QED
  BY <1>3, <1>4, <1>5

LEMMA AsksInv ==
    ASSUME ListInv, ListAsks
    PROVE  ListInv'
<1> USE DEF ListAsks
<1>1. /\ made \in 0..MaxListCalls /\ asked \subseteq 1..made
      /\ MaxListCalls \in Nat /\ made' \in 1..MaxListCalls /\ made' \notin asked
  BY PagesAssumption DEF ListInv, ListTypes
<1>2. /\ query'[made'] = Screen'
      /\ \A n \in asked : query'[n] = query[n]
      /\ answer[made'] = None
  BY <1>1 DEF ListInv, ListTypes, ListAnswers
<1>3. ListTypes'
  <2>1. overtaken' \in BOOLEAN /\ loading' \in BOOLEAN /\ error' \in BOOLEAN /\ mounted' \in BOOLEAN
    OBVIOUS
  <2>2. /\ stored' \subseteq Span
        /\ DOMAIN query' = 1..MaxListCalls /\ DOMAIN answer' = 1..MaxListCalls
    BY DEF ListInv, ListTypes
  <2>3. made' \in 0..MaxListCalls /\ asked' \subseteq 1..made' /\ page' \in 1..(made' + 1)
    BY <1>1
  <2> QED
    BY <2>1, <2>2, <2>3 DEF ListTypes
<1>4. ListClosed'
  BY <1>1 DEF ListClosed
<1>5. ListAnswers'
  <2>1. Screen'.page \in Nat \ {0}
    BY <1>1 DEF Screen
  <2> QED
    BY <1>1, <1>2, <2>1 DEF ListInv, ListAnswers
<1>6. ListLast'
  BY <1>1, <1>2 DEF ListLast, Screen
<1> QED
  BY <1>3, <1>4, <1>5, <1>6 DEF ListInv

LEMMA StatusInv ==
    ASSUME ListInv, NEW s, List!SetStatus(s)
    PROVE  ListInv'
BY DEF ListInv, ListTypes, ListClosed, ListAnswers, ListLast, Screen,
       List!SetStatus, List!rows, List!calls

LEMMA ReadInv ==
    ASSUME ListInv, NEW n \in 1..MaxListCalls, List!Read(n)
    PROVE  ListInv'
<1> USE DEF List!Read, List!form, List!rows
<1>1. ListTypes'
  BY DEF ListInv, ListTypes
<1>2. ListClosed'
  BY DEF ListInv, ListClosed
<1>3. ListAnswers'
  <2>1. stored \subseteq Span /\ n \in asked /\ query[n].page \in Nat \ {0}
    BY DEF ListInv, ListTypes, ListAnswers
  <2>2. PICK found : found = List!Answer(query[n])
    OBVIOUS
  <2>3. /\ Paged(query[n].page, found.traces, found.total)
        /\ \A r \in found.traces : Sound(stored, r)
    BY <2>1, <2>2, PagedAnswer, SoundAnswer
  <2>4. /\ answer'[n] = found
        /\ \A m \in 1..MaxListCalls \ {n} : answer'[m] = answer[m]
    BY <2>2 DEF ListInv, ListTypes
  <2>5. asked \subseteq 1..MaxListCalls
    BY PagesAssumption DEF ListInv, ListTypes
  <2> QED
    BY <2>1, <2>3, <2>4, <2>5 DEF ListInv, ListAnswers
<1>4. ListLast'
  BY DEF ListInv, ListLast, Screen
<1> QED
  BY <1>1, <1>2, <1>3, <1>4 DEF ListInv

\* A call ends, with or without an answer.
LEMMA OverFacts ==
    ASSUME ListInv, NEW n \in asked, List!Over(n)
    PROVE  /\ asked' = asked \ {n} /\ asked' \subseteq asked
           /\ asked \subseteq 1..MaxListCalls /\ asked \subseteq 1..made
           /\ \A m \in asked' : query'[m] = query[m] /\ answer'[m] = answer[m]
           /\ answer'[n] = None
           /\ \A m \in 1..MaxListCalls \ asked : answer'[m] = None
           /\ DOMAIN query' = 1..MaxListCalls /\ DOMAIN answer' = 1..MaxListCalls
           /\ loading' = FALSE /\ overtaken' \in BOOLEAN
           /\ overtaken => overtaken'
           /\ n = made /\ asked' # {} => overtaken'
           /\ UNCHANGED <<stored, mounted, page, agentFilter, userFilter, status, made>>
<1>1. asked \subseteq 1..MaxListCalls /\ asked \subseteq 1..made /\ made \in Nat
  BY PagesAssumption DEF ListInv, ListTypes
<1>2. ASSUME n = made, asked' # {} PROVE overtaken'
  <2>1. PICK m \in asked : m # n
    BY <1>2 DEF List!Over
  <2>2. m < n
    BY <1>1, <1>2, <2>1
  <2> QED
    BY <2>2 DEF List!Over
<1> QED
  BY <1>1, <1>2 DEF ListInv, ListTypes, ListAnswers, List!Over, List!form

LEMMA ReceiveInv ==
    ASSUME ListInv, NEW n \in 1..MaxListCalls, List!Receive(n)
    PROVE  ListInv'
<1>1. n \in asked /\ answer[n] # None /\ List!Over(n)
  BY DEF List!Receive
<1>2. /\ traces' = answer[n].traces /\ total' = answer[n].total
      /\ shown' = n /\ shownQuery' = query[n] /\ error' = error
  BY DEF List!Receive
<1>3. ListTypes'
  BY <1>1, <1>2, OverFacts DEF ListInv, ListTypes
<1>4. ListClosed'
  BY <1>1, <1>2, OverFacts DEF ListInv, ListClosed
<1>5. ListAnswers'
  <2>1. /\ query[n].page \in Nat \ {0}
        /\ Paged(query[n].page, answer[n].traces, answer[n].total)
        /\ \A r \in answer[n].traces : Sound(stored, r)
    BY <1>1 DEF ListInv, ListAnswers
  <2>2. Cardinality(traces') \in Nat /\ Cardinality(traces') <= PageSize /\ total' \in Nat
    BY <1>2, <2>1 DEF Paged
  <2> QED
    BY <1>1, <1>2, <2>1, <2>2, OverFacts DEF ListInv, ListAnswers
<1>6. ListLast'
  BY <1>1, <1>2, OverFacts DEF ListInv, ListLast, Screen
<1> QED
  BY <1>3, <1>4, <1>5, <1>6 DEF ListInv

LEMMA FailInv ==
    ASSUME ListInv, NEW n \in 1..MaxListCalls, List!Fail(n)
    PROVE  ListInv'
<1>1. n \in asked /\ List!Over(n) /\ error' = TRUE
  BY DEF List!Fail
<1>2. UNCHANGED <<traces, total, shown, shownQuery>>
  BY DEF List!Fail, List!rows
<1>3. ListTypes'
  BY <1>1, <1>2, OverFacts DEF ListInv, ListTypes
<1>4. ListClosed'
  BY <1>1, <1>2, OverFacts DEF ListInv, ListClosed
<1>5. ListAnswers'
  BY <1>1, <1>2, OverFacts DEF ListInv, ListAnswers
<1>6. ListLast'
  BY <1>1, <1>2, OverFacts DEF ListInv, ListLast, Screen
<1> QED
  BY <1>3, <1>4, <1>5, <1>6 DEF ListInv

LEMMA NothingShown ==
    Cardinality({}) = 0 /\ PageSize \in Nat
BY FS_EmptySet, PagesAssumption

LEMMA LeaveInv ==
    ASSUME ListInv, List!Leave
    PROVE  ListInv'
<1> USE DEF List!Leave
<1>1. ListTypes'
  <2>1. made \in Nat
    BY DEF ListInv, ListTypes
  <2>2. page' \in 1..(made' + 1) /\ asked' \subseteq 1..made'
    BY <2>1
  <2> QED
    BY <2>2 DEF ListInv, ListTypes
<1>2. ListClosed'
  BY DEF ListClosed
<1>3. ListAnswers'
  BY NothingShown DEF ListAnswers
<1>4. ListLast'
  BY DEF ListLast
<1> QED
  BY <1>1, <1>2, <1>3, <1>4 DEF ListInv

\* The list does not mind what else happens.
LEMMA ListStays ==
    ASSUME ListInv, UNCHANGED listPage, stored \subseteq stored', stored' \subseteq Span
    PROVE  ListInv'
<1>1. ListTypes'
  BY DEF ListInv, ListTypes, listPage
<1>2. ListClosed'
  BY DEF ListInv, ListClosed, listPage
<1>3. ListAnswers'
  <2>1. \A r : Sound(stored, r) => Sound(stored', r)
    BY SoundStays
  <2> QED
    BY <2>1 DEF ListInv, ListAnswers, listPage
<1>4. ListLast'
  BY DEF ListInv, ListLast, Screen, listPage
<1> QED
  BY <1>1, <1>2, <1>3, <1>4 DEF ListInv

LEMMA ListStepInv ==
    ASSUME ListInv, List!Step
    PROVE  ListInv' /\ stored' = stored
<1>1. CASE List!Type
  BY <1>1, TypeAsks, AsksInv DEF ListAsks
<1>2. CASE \E s \in List!Filter : List!SetStatus(s)
  BY <1>2, StatusInv DEF List!SetStatus
<1>3. CASE List!Prev \/ List!Next_ \/ List!Refresh
  BY <1>3, TurnAsks, AsksInv DEF ListAsks
<1>4. CASE \E n \in 1..MaxListCalls : List!Read(n) \/ List!Receive(n) \/ List!Fail(n)
  BY <1>4, ReadInv, ReceiveInv, FailInv
     DEF List!Read, List!Receive, List!Fail, List!Over
<1> QED
  BY <1>1, <1>2, <1>3, <1>4 DEF List!Step

-----------------------------------------------------------------------------
(* Steps of the detail. *)

\* A call of the detail about the trace the step puts in the path.
DetailAsks ==
    /\ detailMade < MaxDetailCalls /\ detailMade' = detailMade + 1
    /\ detailAsked' = detailAsked \cup {detailMade'}
    /\ detailQuery' = [detailQuery EXCEPT ![detailMade'] = traceId']
    /\ detailOvertaken' = (detailOvertaken /\ detailAsked # {})
    /\ traceId' \in Trace /\ detailLoading' \in BOOLEAN
    /\ detailLoading' => data = {} /\ collapsed = {}
    /\ collapsed # {} => ~detailLoading'
    /\ UNCHANGED <<stored, data, collapsed, detailShown, detailError, detailAnswer>>

LEMMA DetailAsksInv ==
    ASSUME DetailInv, DetailAsks,
           \/ row' = row \/ row' = None
           \/ Sound(stored, row') /\ detailAsked = {} /\ data = {}
    PROVE  DetailInv'
<1>1. /\ detailMade \in 0..MaxDetailCalls /\ detailAsked \subseteq 1..detailMade
      /\ MaxDetailCalls \in Nat
      /\ detailMade' \in 1..MaxDetailCalls /\ detailMade' \notin detailAsked
  BY PagesAssumption DEF DetailInv, DetailTypes, DetailAsks
<1>2. /\ detailQuery'[detailMade'] = traceId'
      /\ \A n \in detailAsked : detailQuery'[n] = detailQuery[n]
      /\ detailAnswer[detailMade'] = None
  BY <1>1 DEF DetailInv, DetailTypes, DetailAnswers, DetailAsks
<1>3. traceId' \in Trace /\ traceId' # None
  BY SpanAssumption DEF DetailAsks
<1>4. DetailTypes'
  <2>1. detailOvertaken' \in BOOLEAN /\ detailLoading' \in BOOLEAN
    BY DEF DetailAsks
  <2>2. /\ stored' \subseteq Span /\ detailError' \in BOOLEAN
        /\ DOMAIN detailQuery' = 1..MaxDetailCalls /\ DOMAIN detailAnswer' = 1..MaxDetailCalls
    BY DEF DetailInv, DetailTypes, DetailAsks
  <2>3. detailMade' \in 0..MaxDetailCalls /\ detailAsked' \subseteq 1..detailMade'
    BY <1>1 DEF DetailAsks
  <2> QED
    BY <1>3, <2>1, <2>2, <2>3 DEF DetailTypes
<1>5. DetailClosed'
  BY <1>1, <1>3 DEF DetailClosed, DetailAsks
<1>6. DetailAnswers'
  BY <1>1, <1>2 DEF DetailInv, DetailAnswers, DetailAsks
<1>7. DetailLast'
  BY <1>1, <1>2 DEF DetailLast, DetailAsks
<1>8. Tree'
  BY DEF DetailInv, Tree, DetailAsks, Rows, Detail!Rows, Detail!Drawn, Detail!Roots, Detail!Children
<1>9. RowBorneOut'
  BY <1>1, <1>2 DEF DetailInv, RowBorneOut, DetailAsks
<1> QED
  BY <1>4, <1>5, <1>6, <1>7, <1>8, <1>9 DEF DetailInv

LEMMA DetailOpenInv ==
    ASSUME DetailInv, NEW t \in Trace, Detail!Open(t),
           row' = row \/ row' = None \/ Sound(stored, row')
    PROVE  DetailInv' /\ stored' = stored
<1>1. detailAsked = {} /\ data = {} /\ collapsed = {}
  BY DEF DetailInv, DetailClosed, Detail!Open
<1>2. DetailAsks
  BY <1>1 DEF Detail!Open, Detail!Fetch, Detail!content, DetailAsks
<1> QED
  BY <1>1, <1>2, DetailAsksInv DEF DetailAsks

LEMMA GoToInv ==
    ASSUME DetailInv, NEW t \in Trace, Detail!GoTo(t), row' = row
    PROVE  DetailInv'
<1>1. DetailAsks
  BY DEF DetailInv, DetailTypes, DetailClosed, Detail!GoTo, Detail!Fetch, Detail!content, DetailAsks
<1> QED
  BY <1>1, DetailAsksInv

LEMMA SoundOfTrace ==
    ASSUME NEW S, NEW r, Sound(S, r)
    PROVE  Sound({s \in S : TraceOf[s] = r.trace}, r)
<1> DEFINE T == {s \in S : TraceOf[s] = r.trace}
<1>1. {s \in T : TraceOf[s] = r.trace} = T
  OBVIOUS
<1>2. Cardinality({s \in T : TraceOf[s] = r.trace}) = Cardinality(T)
  BY <1>1, Zenon
<1> QED
  BY <1>2 DEF Sound

LEMMA DetailReadInv ==
    ASSUME DetailInv, NEW n \in 1..MaxDetailCalls, Detail!Read(n), row' = row
    PROVE  DetailInv'
<1> USE DEF Detail!Read, Detail!content
<1>1. PICK found : found = {s \in stored : TraceOf[s] = detailQuery[n]}
  OBVIOUS
<1>2. /\ detailAnswer'[n] = found /\ n \in detailAsked
      /\ \A m \in 1..MaxDetailCalls \ {n} : detailAnswer'[m] = detailAnswer[m]
      /\ DOMAIN detailAnswer' = 1..MaxDetailCalls
  BY <1>1 DEF DetailInv, DetailTypes, Detail!SpansOf
<1>3. detailAsked \subseteq 1..MaxDetailCalls
  BY PagesAssumption DEF DetailInv, DetailTypes
<1>4. DetailTypes'
  BY <1>2 DEF DetailInv, DetailTypes
<1>5. DetailClosed'
  BY DEF DetailInv, DetailClosed
<1>6. DetailAnswers'
  BY <1>1, <1>2, <1>3 DEF DetailInv, DetailAnswers
<1>7. DetailLast'
  BY DEF DetailInv, DetailLast
<1>8. Tree'
  BY DEF DetailInv, Tree, Rows, Detail!Rows, Detail!Drawn, Detail!Roots, Detail!Children
<1>9. RowBorneOut'
  <2>1. row # None /\ detailQuery[n] = row.trace => Sound(found, row)
    BY <1>1, SoundOfTrace DEF DetailInv, RowBorneOut
  <2> QED
    BY <1>2, <1>3, <2>1 DEF DetailInv, RowBorneOut
<1> QED
  BY <1>4, <1>5, <1>6, <1>7, <1>8, <1>9 DEF DetailInv

LEMMA DetailOverFacts ==
    ASSUME DetailInv, NEW n \in detailAsked, Detail!Over(n)
    PROVE  /\ traceId # None
           /\ detailAsked' = detailAsked \ {n} /\ detailAsked' \subseteq detailAsked
           /\ detailAsked \subseteq 1..MaxDetailCalls /\ detailAsked \subseteq 1..detailMade
           /\ \A m \in detailAsked' : /\ detailQuery'[m] = detailQuery[m]
                                      /\ detailAnswer'[m] = detailAnswer[m]
           /\ detailAnswer'[n] = None
           /\ \A m \in 1..MaxDetailCalls \ detailAsked : detailAnswer'[m] = None
           /\ DOMAIN detailQuery' = 1..MaxDetailCalls /\ DOMAIN detailAnswer' = 1..MaxDetailCalls
           /\ detailLoading' = FALSE /\ detailOvertaken' \in BOOLEAN
           /\ detailOvertaken => detailOvertaken'
           /\ n = detailMade /\ detailAsked' # {} => detailOvertaken'
           /\ UNCHANGED <<stored, traceId, detailMade>>
<1>1. /\ detailAsked \subseteq 1..MaxDetailCalls /\ detailAsked \subseteq 1..detailMade
      /\ detailMade \in Nat
  BY PagesAssumption DEF DetailInv, DetailTypes
<1>2. ASSUME n = detailMade, detailAsked' # {} PROVE detailOvertaken'
  <2>1. PICK m \in detailAsked : m # n
    BY <1>2 DEF Detail!Over
  <2>2. m < n
    BY <1>1, <1>2, <2>1
  <2> QED
    BY <2>2 DEF Detail!Over
<1>3. traceId # None
  BY DEF DetailInv, DetailClosed
<1> QED
  BY <1>1, <1>2, <1>3 DEF DetailInv, DetailTypes, DetailAnswers, Detail!Over

\* Flags that are kept belong to nodes that have a row again.
LEMMA KeptHaveRows ==
    ASSUME NEW D, NEW C
    PROVE  Detail!Kept(D, C) \subseteq C /\ Detail!Kept(D, C) \subseteq Rows(D, Detail!Kept(D, C))
<1>1. Detail!Kept(D, C) \subseteq C /\ Detail!Kept(D, C) \subseteq Rows(D, C)
  BY DEF Detail!Kept, Rows
<1> QED
  BY <1>1, RowsAntitone

LEMMA DetailReceiveInv ==
    ASSUME DetailInv, NEW n \in 1..MaxDetailCalls, Detail!Receive(n), row' = row
    PROVE  DetailInv'
<1>1. n \in detailAsked /\ detailAnswer[n] \notin {None, {}} /\ Detail!Over(n)
  BY DEF Detail!Receive
<1>2. /\ data' = detailAnswer[n] /\ detailShown' = n /\ detailError' = detailError
      /\ collapsed' = IF detailError THEN {} ELSE Detail!Kept(detailAnswer[n], collapsed)
  BY DEF Detail!Receive
<1>3. \A s \in detailAnswer[n] : s \in stored /\ TraceOf[s] = detailQuery[n]
  BY <1>1 DEF DetailInv, DetailAnswers
<1>4. DetailTypes'
  BY <1>1, <1>2, DetailOverFacts DEF DetailInv, DetailTypes
<1>5. DetailClosed'
  BY <1>1, <1>2, DetailOverFacts DEF DetailInv, DetailClosed
<1>6. DetailAnswers'
  BY <1>1, <1>2, <1>3, DetailOverFacts DEF DetailInv, DetailAnswers
<1>7. DetailLast'
  BY <1>1, <1>2, <1>3, DetailOverFacts DEF DetailInv, DetailLast
<1>8. Tree'
  <2>1. collapsed' \subseteq Rows(data', collapsed')
    BY <1>2, KeptHaveRows
  <2>2. collapsed' # {} => ~detailLoading' /\ ~detailError' /\ data' # {}
    BY <1>1, <1>2, DetailOverFacts
  <2> QED
    BY <2>1, <2>2 DEF Tree, Rows, Detail!Rows, Detail!Drawn, Detail!Roots, Detail!Children
<1>9. RowBorneOut'
  <2>1. ASSUME row # None, \A s \in detailAnswer[n] : TraceOf[s] = row.trace
        PROVE  Sound(detailAnswer[n], row)
    BY <1>1, <1>3, <2>1 DEF DetailInv, RowBorneOut
  <2> QED
    BY <1>1, <1>2, <2>1, DetailOverFacts DEF DetailInv, RowBorneOut
<1> QED
  BY <1>4, <1>5, <1>6, <1>7, <1>8, <1>9 DEF DetailInv

LEMMA DetailFailInv ==
    ASSUME DetailInv, NEW n \in 1..MaxDetailCalls, Detail!Fail(n), row' = row
    PROVE  DetailInv'
<1>1. /\ n \in detailAsked /\ Detail!Over(n) /\ detailError' = TRUE /\ collapsed' = {}
      /\ UNCHANGED <<data, detailShown>>
  BY DEF Detail!Fail
<1>2. DetailTypes'
  BY <1>1, DetailOverFacts DEF DetailInv, DetailTypes
<1>3. DetailClosed'
  BY <1>1, DetailOverFacts DEF DetailInv, DetailClosed
<1>4. DetailAnswers'
  BY <1>1, DetailOverFacts DEF DetailInv, DetailAnswers
<1>5. DetailLast'
  BY <1>1, DetailOverFacts DEF DetailInv, DetailLast
<1>6. Tree'
  BY <1>1 DEF Tree
<1>7. RowBorneOut'
  BY <1>1, DetailOverFacts DEF DetailInv, RowBorneOut
<1> QED
  BY <1>2, <1>3, <1>4, <1>5, <1>6, <1>7 DEF DetailInv

LEMMA DisplayIs ==
    Detail!Display = "detail" <=> ~detailLoading /\ ~detailError /\ data # {}
<1>1. CASE detailLoading
  BY <1>1 DEF Detail!Display
<1>2. CASE ~detailLoading /\ detailError
  BY <1>2 DEF Detail!Display
<1>3. CASE ~detailLoading /\ ~detailError /\ data = {}
  BY <1>3 DEF Detail!Display
<1>4. CASE ~detailLoading /\ ~detailError /\ data # {}
  BY <1>4 DEF Detail!Display
<1> QED
  BY <1>1, <1>2, <1>3, <1>4

LEMMA ToggleInv ==
    ASSUME DetailInv, NEW s, Detail!Toggle(s), row' = row
    PROVE  DetailInv'
<1>1. PICK now : collapsed' = now \cap Rows(data, now)
  BY DEF Detail!Toggle, Rows
<1>2. UNCHANGED <<stored, traceId, data, detailShown, detailLoading, detailError,
                  detailMade, detailAsked, detailQuery, detailAnswer, detailOvertaken>>
  BY DEF Detail!Toggle, Detail!calls
<1>3. ~detailLoading /\ ~detailError /\ data # {}
  BY DisplayIs DEF Detail!Toggle
<1>4. DetailTypes' /\ DetailClosed' /\ DetailAnswers' /\ DetailLast' /\ RowBorneOut'
  BY <1>2, <1>3 DEF DetailInv, DetailTypes, DetailClosed, DetailAnswers, DetailLast, RowBorneOut
<1>5. Tree'
  <2>1. collapsed' \subseteq Rows(data', collapsed')
    BY <1>1, <1>2, RowsAntitone
  <2> QED
    BY <1>2, <1>3, <2>1 DEF Tree, Rows, Detail!Rows, Detail!Drawn, Detail!Roots, Detail!Children
<1> QED
  BY <1>4, <1>5 DEF DetailInv

LEMMA DetailLeaveInv ==
    ASSUME DetailInv, Detail!Leave, row' = None
    PROVE  DetailInv' /\ stored' = stored /\ traceId' = None
<1> USE DEF Detail!Leave
<1>1. DetailTypes'
  BY DEF DetailInv, DetailTypes
<1>2. DetailClosed' /\ DetailAnswers' /\ DetailLast' /\ Tree' /\ RowBorneOut'
  BY DEF DetailClosed, DetailAnswers, DetailLast, Tree, RowBorneOut
<1> QED
  BY <1>1, <1>2 DEF DetailInv

\* The detail does not mind what else happens.
LEMMA DetailStays ==
    ASSUME DetailInv, UNCHANGED detailPage, row' = row \/ row' = None,
           stored \subseteq stored', stored' \subseteq Span
    PROVE  DetailInv'
<1> USE DEF detailPage
<1>1. DetailTypes' /\ DetailClosed' /\ DetailLast'
  BY DEF DetailInv, DetailTypes, DetailClosed, DetailLast
<1>2. DetailAnswers'
  BY DEF DetailInv, DetailAnswers
<1>3. Tree'
  BY DEF DetailInv, Tree, Rows, Detail!Rows, Detail!Drawn, Detail!Roots, Detail!Children
<1>4. RowBorneOut'
  <2>1. Sound(stored, row) => Sound(stored', row)
    BY SoundStays
  <2> QED
    BY <2>1 DEF DetailInv, RowBorneOut
<1> QED
  BY <1>1, <1>2, <1>3, <1>4 DEF DetailInv

LEMMA DetailStepInv ==
    ASSUME DetailInv, Detail!Step, row' = row
    PROVE  DetailInv' /\ stored' = stored /\ traceId # None
<1>1. CASE \E t \in Trace : Detail!GoTo(t)
  BY <1>1, GoToInv DEF Detail!GoTo
<1>2. CASE \E n \in 1..MaxDetailCalls : Detail!Read(n) \/ Detail!Receive(n) \/ Detail!Fail(n)
  BY <1>2, DetailReadInv, DetailReceiveInv, DetailFailInv
     DEF Detail!Read, Detail!Receive, Detail!Fail, Detail!Over, DetailInv, DetailClosed
<1>3. CASE \E s \in Span : Detail!Toggle(s)
  BY <1>3, ToggleInv, DisplayIs DEF Detail!Toggle, DetailInv, DetailClosed
<1> QED
  BY <1>1, <1>2, <1>3 DEF Detail!Step

-----------------------------------------------------------------------------
(* The invariant is one. *)

LEMMA InitIInv == Init => IInv
<1> SUFFICES ASSUME Init PROVE IInv
  OBVIOUS
<1> USE DEF Init, List!Init, Detail!Init
<1>1. stored \subseteq Span /\ MaxListCalls \in Nat /\ MaxDetailCalls \in Nat
  BY PagesAssumption
<1>2. ListTypes /\ ListClosed /\ ListLast
  <2>1. page \in 1..(made + 1) /\ made \in 0..MaxListCalls /\ asked \subseteq 1..made
    BY <1>1
  <2>2. DOMAIN query = 1..MaxListCalls /\ DOMAIN answer = 1..MaxListCalls
    OBVIOUS
  <2> QED
    BY <1>1, <2>1, <2>2 DEF ListTypes, ListClosed, ListLast
<1>3. ListAnswers
  BY NothingShown DEF ListAnswers
<1>4. DetailTypes
  <2>1. detailMade \in 0..MaxDetailCalls /\ detailAsked \subseteq 1..detailMade
    BY <1>1
  <2>2. DOMAIN detailQuery = 1..MaxDetailCalls /\ DOMAIN detailAnswer = 1..MaxDetailCalls
    OBVIOUS
  <2> QED
    BY <1>1, <2>1, <2>2 DEF DetailTypes
<1>5. DetailClosed /\ DetailAnswers /\ DetailLast /\ Tree /\ RowBorneOut
  BY DEF DetailClosed, DetailAnswers, DetailLast, Tree, RowBorneOut
<1> QED
  BY <1>2, <1>3, <1>4, <1>5 DEF IInv, ListInv, DetailInv

LEMMA NextIInv == IInv /\ [Next]_vars => IInv'
<1> SUFFICES ASSUME IInv, [Next]_vars PROVE IInv'
  OBVIOUS
<1>1. ListInv /\ DetailInv /\ (mounted => traceId = None) /\ stored \subseteq Span
  BY DEF IInv, ListInv, ListTypes
<1>2. ASSUME NEW s \in Span, Insert(s) PROVE IInv'
  <2>1. stored \subseteq stored' /\ stored' \subseteq Span
    BY <1>1, <1>2 DEF Insert, Store
  <2> QED
    BY <1>1, <1>2, <2>1, ListStays, DetailStays DEF Insert, IInv, listPage, detailPage
<1>3. CASE List!Step /\ UNCHANGED <<detailPage, row>>
  <2>1. ListInv' /\ stored' = stored
    BY <1>1, <1>3, ListStepInv
  <2>2. mounted
    BY <1>1, <1>3 DEF ListInv, ListClosed, List!Step, List!Type, List!SetAgent, List!SetUser,
       List!SetStatus, List!Prev, List!Next_, List!Refresh, List!Read, List!Receive, List!Fail
  <2> QED
    BY <1>1, <1>3, <2>1, <2>2, DetailStays DEF IInv, detailPage
<1>4. CASE Detail!Step /\ UNCHANGED <<listPage, row>>
  <2>1. DetailInv' /\ stored' = stored /\ traceId # None
    BY <1>1, <1>4, DetailStepInv
  <2> QED
    BY <1>1, <1>4, <2>1, ListStays DEF IInv, listPage
<1>5. CASE GoToList
  <2>1. ListInv' /\ stored' = stored
    BY <1>1, <1>5, OpenAsks, AsksInv DEF GoToList, ListAsks
  <2>2. CASE traceId = None
    BY <1>1, <1>5, <2>1, <2>2, DetailStays DEF GoToList, IInv, detailPage
  <2>3. CASE traceId # None
    BY <1>1, <1>5, <2>1, <2>3, DetailLeaveInv DEF GoToList, IInv
  <2> QED
    BY <2>2, <2>3
<1>6. CASE FollowLink
  <2>1. PICK r \in traces : Detail!Open(r.trace) /\ row' = r /\ List!Leave
    BY <1>6 DEF FollowLink, List!visible
  <2>2. Sound(stored, r)
    BY <1>1, <2>1 DEF ListInv, ListAnswers
  <2>3. r.trace \in Trace
    BY <2>2 DEF Sound, List!Row
  <2>4. DetailInv'
    BY <1>1, <2>1, <2>2, <2>3, DetailOpenInv
  <2>5. ListInv' /\ mounted' = FALSE
    BY <1>1, <2>1, LeaveInv DEF List!Leave
  <2> QED
    BY <2>4, <2>5 DEF IInv
<1>7. CASE GoElsewhere
  <2>1. CASE List!Leave /\ UNCHANGED <<detailPage, row>>
    BY <1>1, <2>1, LeaveInv, DetailStays DEF List!Leave, IInv
  <2>2. CASE Detail!Leave /\ row' = None /\ UNCHANGED listPage
    BY <1>1, <2>2, DetailLeaveInv, ListStays DEF IInv, listPage
  <2> QED
    BY <1>7, <2>1, <2>2 DEF GoElsewhere
<1>8. ASSUME NEW t \in Trace, OpenAddress(t) PROVE IInv'
  <2>1. DetailInv' /\ stored' = stored
    BY <1>1, <1>8, DetailOpenInv DEF OpenAddress
  <2> QED
    BY <1>1, <1>8, <2>1, ListStays DEF OpenAddress, IInv, listPage
<1>9. CASE UNCHANGED vars
  BY <1>1, <1>9, ListStays, DetailStays DEF vars, IInv, listPage, detailPage
<1> QED
  BY <1>2, <1>3, <1>4, <1>5, <1>6, <1>7, <1>8, <1>9 DEF Next

\* The inductive invariant holds in every run of the two pages.
THEOREM Invariant == Spec => []IInv
BY InitIInv, NextIInv, PTL DEF Spec

-----------------------------------------------------------------------------
(* What the pages promise. *)

\* One page at a time, each in a state its handlers can bring about.
THEOREM TypeCorrect == Spec => []TypeOK
<1>1. IInv => TypeOK
  <2> SUFFICES ASSUME IInv PROVE TypeOK
    OBVIOUS
  <2>1. traces \subseteq List!Row
    BY DEF IInv, ListInv, ListAnswers, Sound
  <2>2. collapsed # {} => Detail!Display = "detail"
    BY DisplayIs DEF IInv, DetailInv, Tree
  <2> QED
    BY <2>1, <2>2 DEF IInv, ListInv, ListTypes, ListAnswers, DetailInv, DetailTypes,
       DetailAnswers, Tree, Rows, TypeOK
<1> QED
  BY <1>1, Invariant, PTL

\* The table of a list that has settled is the answer to a call that asked for
\* the page and the filters on the screen (TraceList.tsx: load and its effect).
THEOREM CurrentRows == Spec => []RowsOfCurrentQuery
<1>1. IInv => RowsOfCurrentQuery
  BY DEF IInv, ListInv, ListTypes, ListLast, Screen,
     RowsOfCurrentQuery, List!RowsOfCurrentQuery, List!Settled
<1> QED
  BY <1>1, Invariant, PTL

\* Next is offered whenever a later page has traces, for every size of a page
\* and every limit of the spans read (TraceList.tsx, handleListTraces).
THEOREM AllInReach == Spec => []NothingOutOfReach
<1>1. IInv => NothingOutOfReach
  <2> SUFFICES ASSUME IInv, List!Settled, ~overtaken, page < List!totalPages
               PROVE  List!NextEnabled
    BY DEF NothingOutOfReach, List!NothingOutOfReach
  <2>1. /\ mounted /\ asked = {} /\ ~error /\ made \notin asked /\ ~loading
        /\ page \in Nat \ {0}
    BY DEF IInv, ListInv, ListTypes, ListClosed, List!Settled
  <2>2. shownQuery.page = page
    BY <2>1 DEF IInv, ListInv, ListLast, Screen
  <2>3. total \in Nat /\ total # 0
    BY <2>1 DEF IInv, ListInv, ListAnswers, List!totalPages
  <2>4. Paged(page, traces, total)
    BY <2>2, <2>3 DEF IInv, ListInv, ListAnswers
  <2>5. page < (total + PageSize - 1) \div PageSize /\ PageSize \in Nat \ {0}
    BY <2>3, PagesAssumption DEF List!totalPages
  <2>6. page * PageSize < total
    BY <2>1, <2>3, <2>5, PagesBefore
  <2>7. Cardinality(traces) = PageSize
    BY <2>4, <2>6 DEF Paged
  <2> QED
    BY <2>1, <2>5, <2>7, Counting DEF List!NextEnabled
<1> QED
  BY <1>1, Invariant, PTL

\* A detail that has settled shows the spans of the trace in its path
\* (TraceDetail.tsx: the effect on traceId, which resets nothing).
THEOREM ShowsItsTrace == Spec => []SettledShowsItsTrace
<1>1. IInv => SettledShowsItsTrace
  BY DEF IInv, DetailInv, DetailTypes, DetailLast,
     SettledShowsItsTrace, Detail!SettledShowsItsTrace
<1> QED
  BY <1>1, Invariant, PTL

\* A span has a row just if nothing above it is collapsed and it does not hang
\* on a circle, for every relation of parents (buildSpanTree, SpanNode.tsx).
THEOREM NoSpanLost == Spec => []EverySpanHasItsRow
<1>1. EverySpanHasItsRow
  BY RowsAre DEF EverySpanHasItsRow, Detail!EverySpanHasItsRow, Rows, Above, Rooted
<1> QED
  BY <1>1, PTL

\* Start, end and duration are rounded one by one, and yet every bar fits the
\* timeline, for every clock (calculateTimeline, SpanNode.tsx).
THEOREM BarsFit == Spec => []BarsInTimeline
<1>1. IInv => BarsInTimeline
  <2> SUFFICES ASSUME IInv, NEW s \in data
               PROVE  /\ Detail!Bar(data, s).left >= 0
                      /\ Detail!Bar(data, s).left + Detail!Bar(data, s).width <= 1000 + 5
    BY DEF BarsInTimeline, Detail!BarsInTimeline
  <2>1. data \subseteq Span
    BY DEF IInv, DetailInv, DetailTypes, DetailAnswers
  <2> QED
    BY <2>1, BarFits
<1> QED
  BY <1>1, Invariant, PTL

\* What a row of the list said of its trace, the detail behind its link bears
\* out, although both are read at different times and the list through its
\* filters and its limit (App.tsx, TraceList.tsx, traces.go).
THEOREM RowsBorneOut == Spec => []DetailBearsRowOut
<1>1. IInv => DetailBearsRowOut
  <2> SUFFICES ASSUME IInv, row # None, Detail!Display = "detail",
                      \A s \in data : TraceOf[s] = row.trace
               PROVE  /\ Detail!Summary(data).total_spans >= row.span_count
                      /\ row.status = "error" => Detail!Summary(data).status = "error"
    BY DEF DetailBearsRowOut
  <2>1. Sound(data, row)
    BY DisplayIs DEF IInv, DetailInv, RowBorneOut
  <2>2. data = {s \in data : TraceOf[s] = row.trace}
    OBVIOUS
  <2>3. row.span_count <= Cardinality(data)
    BY <2>1, <2>2, Zenon DEF Sound
  <2>4. IsFiniteSet(data)
    BY SpanAssumption, FS_Subset DEF IInv, DetailInv, DetailTypes, DetailAnswers
  <2>5. Cardinality(data) \in Nat /\ row.span_count \in Nat
    BY <2>1, <2>4, FS_CardinalityType DEF Sound, List!Row
  <2>6. row.status = "error" => \E s \in data : StatusOf[s] = "error"
    BY <2>1 DEF Sound
  <2> QED
    BY <2>3, <2>5, <2>6, Counting DEF Detail!Summary
<1> QED
  BY <1>1, Invariant, PTL

LEMMA OpenedWhole ==
    ASSUME IInv, NEW s \in collapsed, Detail!Toggle(s), NEW c \in data, s \in Above(data, c)
    PROVE  c \in Rows(data', collapsed')
<1>1. data' = data /\ s \in Rows(data, collapsed)
  BY DEF Detail!Toggle, Rows
<1>2. collapsed' \subseteq collapsed \ {s}
  BY DEF Detail!Toggle
<1>3. \A x \in collapsed : x \in Rows(data, collapsed) /\ x \in data
  BY DEF IInv, DetailInv, Tree, Rows, Detail!Rows
<1>4. Above(data, s) \cap collapsed = {} /\ Rooted(data, s)
  BY <1>1, <1>3, RowsAre
<1>5. ASSUME NEW x \in Above(data, c), x \in collapsed' PROVE FALSE
  <2>1. x \in collapsed /\ x # s
    BY <1>2, <1>5
  <2>2. Aligned(data, s, x)
    BY AboveInLine
  <2>3. Above(data, x) \cap collapsed = {}
    BY <1>3, <2>1, RowsAre
  <2> QED
    BY <1>4, <2>1, <2>2, <2>3 DEF Aligned
<1>6. Rooted(data, c)
  BY <1>4, AboveTransitive DEF Rooted
<1> QED
  BY <1>1, <1>5, <1>6, RowsAre

\* A node that is opened again shows all there is below it (SpanNode.tsx: a
\* child that is mounted again is expanded).
THEOREM OpenedAgain == Spec => ReopenedWhole
<1>1. IInv /\ [Next]_vars =>
        [\A s \in collapsed : Detail!Toggle(s) =>
            \A c \in data : s \in Detail!Above(data, c)
                => c \in Detail!Rows(data, collapsed)']_Detail!vars
  BY OpenedWhole DEF Above, Rows, Detail!Rows, Detail!Drawn, Detail!Roots, Detail!Children
<1> QED
  BY <1>1, Invariant, PTL DEF Spec, ReopenedWhole, Detail!ReopenedWhole

-----------------------------------------------------------------------------
(* Both pages keep the promises of FetchView. *)

LEMMA ListFetches ==
    ASSUME IInv, [Next]_vars
    PROVE  [ListView!Next]_ListView!view
<1> USE DEF ListView!Next, ListView!Ask, ListView!Hear, ListView!Leave, ListView!view
<1>1. ListInv
  BY DEF IInv
<1>2. CASE ListAsks
  BY <1>2 DEF ListAsks
<1>3. ASSUME NEW n \in asked, List!Over(n), shown' \in {shown, n} PROVE ListView!Hear
  BY <1>3 DEF List!Over
<1>4. CASE List!Leave
  BY <1>4 DEF List!Leave
<1>5. CASE List!Step
  <2>1. CASE List!Type \/ List!Prev \/ List!Next_ \/ List!Refresh
    BY <1>1, <1>2, <2>1, TypeAsks, TurnAsks
  <2>2. CASE \E s \in List!Filter : List!SetStatus(s)
    BY <2>2 DEF List!SetStatus, List!rows, List!calls
  <2>3. CASE \E n \in 1..MaxListCalls : List!Read(n)
    BY <2>3 DEF List!Read, List!rows
  <2>4. CASE \E n \in 1..MaxListCalls : List!Receive(n)
    BY <1>3, <2>4 DEF List!Receive
  <2>5. CASE \E n \in 1..MaxListCalls : List!Fail(n)
    BY <1>3, <2>5 DEF List!Fail, List!rows
  <2> QED
    BY <1>5, <2>1, <2>2, <2>3, <2>4, <2>5 DEF List!Step
<1>6. CASE GoToList
  BY <1>1, <1>2, <1>6, OpenAsks DEF GoToList
<1>7. CASE UNCHANGED listPage
  BY <1>7 DEF listPage
<1> QED
  BY <1>4, <1>5, <1>6, <1>7 DEF Next, vars, Insert, FollowLink, GoElsewhere, OpenAddress

LEMMA DetailFetches ==
    ASSUME IInv, [Next]_vars
    PROVE  [DetailView!Next]_DetailView!view
<1> USE DEF DetailView!Next, DetailView!Ask, DetailView!Hear, DetailView!Leave, DetailView!view
<1>1. DetailInv
  BY DEF IInv
<1>2. ASSUME NEW t, Detail!Open(t) \/ Detail!GoTo(t) PROVE DetailView!Ask
  BY <1>2 DEF Detail!Open, Detail!GoTo, Detail!Fetch, Detail!content
<1>3. ASSUME NEW n \in detailAsked, Detail!Over(n), detailShown' \in {detailShown, n}
      PROVE  DetailView!Hear
  BY <1>3 DEF Detail!Over
<1>4. CASE Detail!Leave
  BY <1>4 DEF Detail!Leave
<1>5. CASE Detail!Step
  <2>1. CASE \E t \in Trace : Detail!GoTo(t)
    BY <1>2, <2>1
  <2>2. CASE \E n \in 1..MaxDetailCalls : Detail!Read(n)
    BY <2>2 DEF Detail!Read, Detail!content
  <2>3. CASE \E n \in 1..MaxDetailCalls : Detail!Receive(n)
    BY <1>3, <2>3 DEF Detail!Receive
  <2>4. CASE \E n \in 1..MaxDetailCalls : Detail!Fail(n)
    BY <1>3, <2>4 DEF Detail!Fail
  <2>5. CASE \E s \in Span : Detail!Toggle(s)
    BY <2>5 DEF Detail!Toggle, Detail!calls
  <2> QED
    BY <1>5, <2>1, <2>2, <2>3, <2>4, <2>5 DEF Detail!Step
<1>6. CASE GoToList
  BY <1>4, <1>6 DEF GoToList, detailPage
<1>7. CASE FollowLink \/ \E t \in Trace : OpenAddress(t)
  BY <1>2, <1>7 DEF FollowLink, OpenAddress
<1>8. CASE UNCHANGED detailPage
  BY <1>8 DEF detailPage
<1> QED
  BY <1>4, <1>5, <1>6, <1>7, <1>8 DEF Next, vars, Insert, GoElsewhere

\* What either page shows came with a call of this visit, each call is heard
\* once, and neither page waits for nothing (TraceList.tsx, TraceDetail.tsx).
THEOREM Refinement == Spec => ListView!Fetches /\ DetailView!Fetches
<1>1. Init => ListView!Init /\ DetailView!Init
  BY DEF Init, List!Init, Detail!Init, ListView!Init, ListView!Closed,
     DetailView!Init, DetailView!Closed
<1>2. IInv /\ [Next]_vars => [ListView!Next]_ListView!view
  BY ListFetches
<1>3. IInv /\ [Next]_vars => [DetailView!Next]_DetailView!view
  BY DetailFetches
<1> QED
  BY <1>1, <1>2, <1>3, Invariant, PTL DEF Spec, ListView!Fetches, DetailView!Fetches

=============================================================================
