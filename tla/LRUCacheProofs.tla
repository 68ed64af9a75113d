--------------------------- MODULE LRUCacheProofs ---------------------------
(***************************************************************************)
(* TLAPS proofs about LRUCache, for any keys and values, every capacity    *)
(* (negative ones included) and every TTL.                                 *)
(*                                                                         *)
(* WellFormed is inductive beside the types.  That the cache implements    *)
(* the contract needs to know why an item is missing: the keys before it   *)
(* in the list have been used since it was (Ordered), so that the one at   *)
(* the end is overtaken by all others and by the key that evicts it, and   *)
(* from then on its users can count them (Overtaken).                      *)
(***************************************************************************)
EXTENDS LRUCache, TLAPS, FiniteSetTheorems, SequenceTheorems

Most == IF Capacity > 1 THEN Capacity ELSE 1

\* j stands somewhere before k.
Before(s, j, k) ==
    \E a, b \in 1..Len(s) : a < b /\ s[a] = j /\ s[b] = k

\* An item is the last write of its key.
Agrees == \A k \in Key : items[k] # None => items[k] = written[k]

Ordered == \A j, k \in Key : Before(ll, j, k) => j \in usedSince[k]

\* What is missing and not expired was overtaken.
Overtaken ==
    \A k \in Key : items[k] = None /\ Live(k) =>
        Cardinality(usedSince[k]) >= Capacity

IInv == TypeOK /\ WellFormed /\ Agrees /\ Ordered /\ Overtaken

-----------------------------------------------------------------------------

\* u is s without its element at i.
Drops(u, s, i) ==
    /\ u \in Seq(Key)
    /\ Len(u) = Len(s) - 1
    /\ \A j \in 1..Len(u) : u[j] = s[IF j < i THEN j ELSE j + 1]

LEMMA RemoveDrops ==
    ASSUME NEW s \in Seq(Key), NEW i \in 1..Len(s)
    PROVE  Drops(RemoveAt(s, i), s, i)
<1> DEFINE p == SubSeq(s, 1, i - 1)
           q == SubSeq(s, i + 1, Len(s))
<1>1. Len(s) \in Nat /\ i \in Nat /\ \A j \in 1..Len(s) : s[j] \in Key
  OBVIOUS
<1>2. /\ p \in Seq(Key) /\ Len(p) = i - 1
      /\ \A j \in 1..(i - 1) : p[j] = s[j]
  <2>1. \A j \in 1..(i - 1) : s[j] \in Key
    BY <1>1
  <2> QED
    BY <1>1, <2>1, SubSeqProperties
<1>3. /\ q \in Seq(Key) /\ Len(q) = Len(s) - i
      /\ \A j \in 1..(Len(s) - i) : q[j] = s[i + j]
  <2>1. \A j \in (i + 1)..Len(s) : s[j] \in Key
    BY <1>1
  <2>2. /\ q \in Seq(Key)
        /\ Len(q) = IF i + 1 <= Len(s) THEN Len(s) - (i + 1) + 1 ELSE 0
        /\ \A j \in 1..(Len(s) - (i + 1) + 1) : q[j] = s[i + 1 + j - 1]
    BY <1>1, <2>1, SubSeqProperties
  <2> QED
    BY <1>1, <2>2
<1> HIDE DEF p, q
<1>4. /\ p \o q \in Seq(Key) /\ Len(p \o q) = Len(s) - 1
      /\ \A j \in 1..(Len(s) - 1) : (p \o q)[j] = IF j <= i - 1 THEN p[j] ELSE q[j - (i - 1)]
  <2>1. /\ p \o q \in Seq(Key) /\ Len(p \o q) = Len(p) + Len(q)
        /\ \A j \in 1..(Len(p) + Len(q)) :
              (p \o q)[j] = IF j <= Len(p) THEN p[j] ELSE q[j - Len(p)]
    BY <1>2, <1>3, ConcatProperties
  <2> QED
    BY <1>1, <1>2, <1>3, <2>1
<1>5. \A j \in 1..(Len(s) - 1) : (p \o q)[j] = s[IF j < i THEN j ELSE j + 1]
  BY <1>1, <1>2, <1>3, <1>4
<1>6. RemoveAt(s, i) = p \o q
  BY DEF RemoveAt, p, q
<1> QED
  BY <1>4, <1>5, <1>6 DEF Drops

LEMMA FrontDrops ==
    ASSUME NEW s \in Seq(Key), s # <<>>
    PROVE  Len(s) \in 1..Len(s) /\ Drops(Front(s), s, Len(s))
<1>1. Len(s) \in Nat \ {0} /\ \A j \in 1..(Len(s) - 1) : s[j] \in Key
  BY EmptySeq
<1>2. /\ Front(s) \in Seq(Key) /\ Len(Front(s)) = Len(s) - 1
      /\ \A j \in 1..(Len(s) - 1) : Front(s)[j] = s[j]
  <2> DEFINE n == Len(s) - 1
             f == SubSeq(s, 1, n)
  <2>1. n \in Nat /\ \A j \in 1..n : s[j] \in Key
    BY <1>1
  <2>2. /\ f \in Seq(Key) /\ Len(f) = IF 1 <= n THEN n - 1 + 1 ELSE 0
        /\ \A j \in 1..(n - 1 + 1) : f[j] = s[1 + j - 1]
    <3> HIDE DEF n
    <3> QED
      BY <2>1, SubSeqProperties
  <2>3. Front(s) = f
    BY DEF Front
  <2> HIDE DEF n, f
  <2>4. Len(f) = n /\ \A j \in 1..n : f[j] = s[j]
    BY <2>1, <2>2
  <2> QED
    BY <2>2, <2>3, <2>4 DEF n
<1> QED
  BY <1>1, <1>2 DEF Drops

\* What dropping an element leaves as it was.
LEMMA DropFacts ==
    ASSUME NEW s \in Seq(Key), NEW i \in 1..Len(s), IsInjective(s),
           NEW u, Drops(u, s, i)
    PROVE  /\ IsInjective(u)
           /\ ToSet(u) = ToSet(s) \ {s[i]}
           /\ \A j, k : Before(u, j, k) => Before(s, j, k)
<1>1. /\ Len(s) \in Nat /\ Len(u) = Len(s) - 1 /\ i \in Nat
      /\ DOMAIN s = 1..Len(s) /\ DOMAIN u = 1..Len(u)
      /\ \A j \in 1..Len(u) : u[j] = s[IF j < i THEN j ELSE j + 1]
  BY DEF Drops
<1> DEFINE at(j) == IF j < i THEN j ELSE j + 1
<1>2. \A j \in 1..Len(u) : at(j) \in 1..Len(s) /\ at(j) # i
  BY <1>1
<1>3. \A a, b \in 1..Len(u) : a < b => at(a) < at(b)
  BY <1>1
<1>4. \A j \in 1..Len(s) : j # i => \E h \in 1..Len(u) : at(h) = j
  <2> TAKE j \in 1..Len(s)
  <2>1. CASE j < i
    BY <1>1, <2>1
  <2>2. CASE j > i
    <3>1. j - 1 \in 1..Len(u) /\ at(j - 1) = j
      BY <1>1, <2>2
    <3> QED
      BY <3>1
  <2> QED
    BY <1>1, <2>1, <2>2
<1>5. \A j \in 1..Len(u) : u[j] = s[at(j)]
  BY <1>1
<1>6. \A a, b \in 1..Len(s) : s[a] = s[b] => a = b
  BY <1>1 DEF IsInjective
<1> HIDE DEF at
<1>7. IsInjective(u)
  <2> SUFFICES ASSUME NEW a \in 1..Len(u), NEW b \in 1..Len(u), u[a] = u[b]
               PROVE  a = b
    BY <1>1 DEF IsInjective
  <2>1. at(a) = at(b)
    BY <1>2, <1>5, <1>6
  <2>2. at(a) \in Nat
    BY <1>1, <1>2
  <2> QED
    BY <1>1, <1>3, <2>1, <2>2
<1>8. ToSet(u) = ToSet(s) \ {s[i]}
  <2>1. \A e \in ToSet(u) : e \in ToSet(s) /\ e # s[i]
    BY <1>1, <1>2, <1>5, <1>6 DEF ToSet
  <2>2. \A e \in ToSet(s) : e # s[i] => e \in ToSet(u)
    <3> SUFFICES ASSUME NEW j \in 1..Len(s), s[j] # s[i]
                 PROVE  s[j] \in ToSet(u)
      BY <1>1 DEF ToSet
    <3>1. PICK h \in 1..Len(u) : at(h) = j
      BY <1>4
    <3> QED
      BY <1>1, <1>5, <3>1 DEF ToSet
  <2> QED
    BY <2>1, <2>2
<1>9. \A j, k : Before(u, j, k) => Before(s, j, k)
  BY <1>2, <1>3, <1>5 DEF Before
<1> QED
  BY <1>7, <1>8, <1>9

\* A key put at the front of a list that lacks it.
LEMMA PushFacts ==
    ASSUME NEW u \in Seq(Key), IsInjective(u), NEW k \in Key, k \notin ToSet(u)
    PROVE  LET t == <<k>> \o u IN
           /\ t \in Seq(Key) /\ Len(t) = Len(u) + 1
           /\ IsInjective(t)
           /\ ToSet(t) = ToSet(u) \cup {k}
           /\ \A i, j : Before(t, i, j) =>
                 Before(u, i, j) \/ (i = k /\ j \in ToSet(u))
<1> DEFINE t == <<k>> \o u
<1>1. /\ t \in Seq(Key) /\ Len(t) = Len(u) + 1 /\ Len(u) \in Nat
      /\ t[1] = k /\ \A j \in 1..Len(u) : t[j + 1] = u[j]
  <2>1. <<k>> \in Seq(Key) /\ Len(<<k>>) = 1 /\ <<k>>[1] = k
    OBVIOUS
  <2>2. /\ t \in Seq(Key) /\ Len(t) = 1 + Len(u)
        /\ \A j \in 1..(1 + Len(u)) : t[j] = IF j <= 1 THEN <<k>>[j] ELSE u[j - 1]
    BY <2>1, ConcatProperties
  <2>3. Len(u) \in Nat
    OBVIOUS
  <2> HIDE DEF t
  <2>4. \A j \in 1..Len(u) : t[j + 1] = u[j]
    <3> TAKE j \in 1..Len(u)
    <3>1. j + 1 \in 1..(1 + Len(u)) /\ ~(j + 1 <= 1) /\ (j + 1) - 1 = j
      BY <2>3
    <3> QED
      BY <2>2, <3>1
  <2> QED
    BY <2>1, <2>2, <2>3, <2>4
<1> HIDE DEF t
<1>2. DOMAIN t = 1..Len(t) /\ DOMAIN u = 1..Len(u)
  BY <1>1
<1>3. \A i \in 1..Len(t) : i = 1 \/ (i - 1 \in 1..Len(u) /\ t[i] = u[i - 1])
  <2> TAKE i \in 1..Len(t)
  <2>1. i = 1 \/ (i - 1 \in 1..Len(u) /\ (i - 1) + 1 = i)
    BY <1>1
  <2> QED
    BY <1>1, <2>1
<1>4. \A j \in 1..Len(u) : u[j] # k /\ u[j] \in ToSet(u)
  BY <1>2 DEF ToSet
<1>5. \A a, b \in 1..Len(u) : u[a] = u[b] => a = b
  BY <1>2 DEF IsInjective
<1>6. IsInjective(t)
  <2> SUFFICES ASSUME NEW a \in 1..Len(t), NEW b \in 1..Len(t), t[a] = t[b]
               PROVE  a = b
    BY <1>2 DEF IsInjective
  <2>1. CASE a = 1 \/ b = 1
    BY <1>1, <1>3, <1>4, <2>1
  <2>2. CASE a # 1 /\ b # 1
    <3>1. a - 1 = b - 1
      BY <1>3, <1>5, <2>2
    <3> QED
      BY <1>1, <3>1
  <2> QED
    BY <2>1, <2>2
<1>7. ToSet(t) = ToSet(u) \cup {k}
  <2>1. \A e \in ToSet(t) : e \in ToSet(u) \cup {k}
    <3> SUFFICES ASSUME NEW j \in 1..Len(t) PROVE t[j] \in ToSet(u) \cup {k}
      BY <1>2 DEF ToSet
    <3> QED
      BY <1>1, <1>3, <1>4
  <2>2. \A e \in ToSet(u) : e \in ToSet(t)
    <3> SUFFICES ASSUME NEW j \in 1..Len(u) PROVE u[j] \in ToSet(t)
      BY <1>2 DEF ToSet
    <3>1. j + 1 \in 1..Len(t) /\ t[j + 1] = u[j]
      BY <1>1
    <3> QED
      BY <1>2, <3>1 DEF ToSet
  <2>3. k \in ToSet(t)
    <3>1. 1 \in 1..Len(t)
      BY <1>1
    <3> QED
      BY <1>1, <1>2, <3>1 DEF ToSet
  <2> QED
    BY <2>1, <2>2, <2>3
<1>8. ASSUME NEW i, NEW j, Before(t, i, j)
      PROVE  Before(u, i, j) \/ (i = k /\ j \in ToSet(u))
  <2>1. PICK a \in 1..Len(t), b \in 1..Len(t) : a < b /\ t[a] = i /\ t[b] = j
    BY <1>8 DEF Before
  <2>2. b - 1 \in 1..Len(u) /\ j = u[b - 1]
    BY <1>1, <1>3, <2>1
  <2>3. CASE a = 1
    BY <1>1, <1>4, <2>1, <2>2, <2>3
  <2>4. CASE a # 1
    <3>1. a - 1 \in 1..Len(u) /\ i = u[a - 1] /\ a - 1 < b - 1
      BY <1>1, <1>3, <2>1, <2>4
    <3> QED
      BY <2>2, <3>1 DEF Before
  <2> QED
    BY <2>3, <2>4
<1> QED
  BY <1>1, <1>6, <1>7, <1>8 DEF t

-----------------------------------------------------------------------------

LEMMA BeforeIn ==
    ASSUME NEW s \in Seq(Key), NEW j, NEW k, Before(s, j, k)
    PROVE  j \in ToSet(s) /\ k \in ToSet(s)
BY DEF Before, ToSet

LEMMA ListCardinality ==
    ASSUME NEW s \in Seq(Key), IsInjective(s)
    PROVE  /\ IsFiniteSet(ToSet(s)) /\ Cardinality(ToSet(s)) = Len(s)
           /\ ToSet(s) \subseteq Key /\ Len(s) <= Cardinality(Key)
<1>1. Len(s) \in Nat /\ s \in [1..Len(s) -> Key] /\ DOMAIN s = 1..Len(s)
  BY LenProperties
<1>2. s \in [1..Len(s) -> ToSet(s)] /\ ToSet(s) \subseteq Key
  BY <1>1 DEF ToSet
<1>3. s \in Surjection(1..Len(s), ToSet(s))
  <2>1. \A e \in ToSet(s) : \E i \in 1..Len(s) : s[i] = e
    BY <1>1 DEF ToSet
  <2> QED
    BY <1>2, <2>1 DEF Surjection
<1>4. s \in Injection(1..Len(s), ToSet(s))
  BY <1>2 DEF Injection
<1>5. IsFiniteSet(1..Len(s)) /\ Cardinality(1..Len(s)) = Len(s)
  BY <1>1, FS_Interval
<1>6. IsFiniteSet(ToSet(s)) /\ Cardinality(ToSet(s)) = Len(s)
  BY <1>3, <1>4, <1>5, FS_Surjection
<1>7. Cardinality(ToSet(s)) <= Cardinality(Key)
  BY <1>2, KeyAssumption, FS_Subset
<1> QED
  BY <1>2, <1>6, <1>7

\* A use of k is one more use since that of every other key.
LEMMA UsingFacts ==
    ASSUME TypeOK, NEW k \in Key
    PROVE  /\ Using(k) \in [Key -> SUBSET Key]
           /\ Using(k)[k] = {}
           /\ \A j \in Key \ {k} :
                 /\ Using(k)[j] = usedSince[j] \cup {k}
                 /\ Cardinality(usedSince[j]) \in Nat
                 /\ Cardinality(Using(k)[j]) \in Nat
                 /\ Cardinality(usedSince[j]) <= Cardinality(Using(k)[j])
<1>1. usedSince \in [Key -> SUBSET Key]
  BY DEF TypeOK
<1>2. /\ Using(k) \in [Key -> SUBSET Key] /\ Using(k)[k] = {}
      /\ \A j \in Key \ {k} : Using(k)[j] = usedSince[j] \cup {k}
  BY <1>1 DEF Using
<1>3. ASSUME NEW j \in Key \ {k}
      PROVE  /\ Cardinality(usedSince[j]) \in Nat
             /\ Cardinality(Using(k)[j]) \in Nat
             /\ Cardinality(usedSince[j]) <= Cardinality(Using(k)[j])
  <2>1. /\ usedSince[j] \in SUBSET Key /\ Using(k)[j] \in SUBSET Key
        /\ usedSince[j] \in SUBSET Using(k)[j]
    BY <1>1, <1>2
  <2>2. IsFiniteSet(usedSince[j]) /\ IsFiniteSet(Using(k)[j])
    BY <2>1, KeyAssumption, FS_Subset
  <2> QED
    BY <2>1, <2>2, FS_Subset, FS_CardinalityType
<1> QED
  BY <1>2, <1>3

LEMMA ClockNat == TypeOK => clock \in Nat /\ MaxTime \in Nat /\ TTL \in Nat
BY TimeAssumption DEF TypeOK

\* The item of k taken out of the list.
LEMMA TakenOut ==
    ASSUME IInv, NEW k \in Key, items[k] # None
    PROVE  LET u == RemoveAt(ll, Position(k)) IN
           /\ u \in Seq(Key) /\ Len(u) = Len(ll) - 1
           /\ IsInjective(u)
           /\ ToSet(u) = Cached \ {k}
           /\ \A i, j : Before(u, i, j) => Before(ll, i, j)
<1>1. /\ ll \in Seq(Key) /\ DOMAIN ll = 1..Len(ll)
      /\ IsInjective(ll) /\ ToSet(ll) = Cached
  BY DEF IInv, TypeOK, WellFormed
<1>2. \E i \in DOMAIN ll : ll[i] = k
  BY <1>1 DEF Cached, ToSet
<1>3. Position(k) \in 1..Len(ll) /\ ll[Position(k)] = k
  BY <1>1, <1>2 DEF Position
<1>4. Drops(RemoveAt(ll, Position(k)), ll, Position(k))
  BY <1>1, <1>3, RemoveDrops
<1>5. PICK p, u : /\ p = Position(k) /\ u = RemoveAt(ll, Position(k))
                 /\ p \in 1..Len(ll) /\ Drops(u, ll, p)
  BY <1>3, <1>4
<1>6. /\ IsInjective(u) /\ ToSet(u) = ToSet(ll) \ {ll[p]}
      /\ \A i, j : Before(u, i, j) => Before(ll, i, j)
  BY <1>1, <1>5, DropFacts
<1> QED
  BY <1>1, <1>3, <1>4, <1>5, <1>6 DEF Drops

\* The item of k moved to the front.
LEMMA Moved ==
    ASSUME IInv, NEW k \in Key, items[k] # None
    PROVE  LET t == MoveToFront(k) IN
           /\ t \in Seq(Key) /\ Len(t) = Len(ll)
           /\ IsInjective(t)
           /\ ToSet(t) = Cached
           /\ \A i, j \in Key : Before(t, i, j) => i \in Using(k)[j]
<1>1. PICK u : u = RemoveAt(ll, Position(k))
  OBVIOUS
<1>2. /\ u \in Seq(Key) /\ Len(u) = Len(ll) - 1 /\ IsInjective(u)
      /\ ToSet(u) = Cached \ {k} /\ k \in Cached
      /\ \A i, j : Before(u, i, j) => Before(ll, i, j)
  BY <1>1, TakenOut DEF Cached
<1>3. PICK t : t = <<k>> \o u
  OBVIOUS
<1>4. /\ t \in Seq(Key) /\ Len(t) = Len(u) + 1 /\ IsInjective(t)
      /\ ToSet(t) = ToSet(u) \cup {k}
      /\ \A i, j : Before(t, i, j) => Before(u, i, j) \/ (i = k /\ j \in ToSet(u))
  BY <1>2, <1>3, PushFacts
<1>5. t = MoveToFront(k)
  BY <1>1, <1>3 DEF MoveToFront
<1>6. Len(ll) \in Nat
  BY DEF IInv, TypeOK
<1>7. ASSUME NEW i \in Key, NEW j \in Key, Before(t, i, j)
      PROVE  i \in Using(k)[j]
  <2>1. j \in ToSet(u)
    BY <1>2, <1>4, <1>7, BeforeIn
  <2>2. j # k /\ Using(k)[j] = usedSince[j] \cup {k}
    BY <1>2, <2>1, UsingFacts DEF IInv
  <2> QED
    BY <1>2, <1>4, <1>7, <2>2 DEF IInv, Ordered
<1> QED
  BY <1>2, <1>4, <1>5, <1>6, <1>7

\* Uses only make the missing keys more overtaken.
LEMMA StillOvertaken ==
    ASSUME IInv, NEW k \in Key, usedSince' = Using(k),
           \A j \in Key \ {k} :
               /\ items'[j] = None /\ Live(j)' => items[j] = None /\ Live(j),
           items'[k] # None
    PROVE  Overtaken'
<1> SUFFICES ASSUME NEW j \in Key, items'[j] = None, Live(j)'
             PROVE  Cardinality(usedSince'[j]) >= Capacity
  BY DEF Overtaken
<1>1. j \in Key \ {k} /\ items[j] = None /\ Live(j)
  OBVIOUS
<1>2. Cardinality(usedSince[j]) >= Capacity
  BY <1>1 DEF IInv, Overtaken
<1>3. /\ Cardinality(usedSince[j]) \in Nat /\ Cardinality(Using(k)[j]) \in Nat
      /\ Cardinality(usedSince[j]) <= Cardinality(Using(k)[j])
  BY <1>1, UsingFacts DEF IInv
<1> QED
  BY <1>2, <1>3, CapacityAssumption

-----------------------------------------------------------------------------

LEMMA InitIInv == Init => IInv /\ CInit
<1> SUFFICES ASSUME Init PROVE IInv
  BY DEF Init
<1>1. /\ clock = 0 /\ ll = <<>> /\ gauge = 0 /\ reply = None
      /\ items = [k \in Key |-> None] /\ written = [k \in Key |-> None]
      /\ usedSince = [k \in Key |-> {}]
  BY DEF Init, CInit
<1>2. ll \in Seq(Key) /\ Len(ll) = 0 /\ DOMAIN ll = {}
  BY <1>1
<1>3. Cardinality(Key) \in Nat
  BY KeyAssumption, FS_CardinalityType
<1>4. TypeOK
  BY <1>1, <1>2, <1>3, TimeAssumption DEF TypeOK
<1>5. ToSet(ll) = {} /\ Cached = {} /\ IsInjective(ll)
  BY <1>1, <1>2 DEF ToSet, Cached, IsInjective
<1>6. WellFormed
  BY <1>1, <1>2, <1>5, CapacityAssumption DEF WellFormed
<1>7. Agrees /\ Ordered /\ Overtaken
  BY <1>1, <1>2 DEF Agrees, Ordered, Overtaken, Before, Live
<1> QED
  BY <1>4, <1>6, <1>7 DEF IInv

LEMMA TickKeeps ==
    ASSUME IInv, Tick
    PROVE  IInv' /\ CNext
<1>1. /\ CTick /\ clock \in 0..MaxTime /\ clock < MaxTime /\ clock' = clock + 1
      /\ UNCHANGED <<written, usedSince, reply, items, ll, gauge>>
  BY DEF Tick, CTick, IInv, TypeOK
<1>2. TypeOK'
  BY <1>1, TimeAssumption DEF IInv, TypeOK
<1>3. WellFormed' /\ Agrees' /\ Ordered'
  BY <1>1 DEF IInv, WellFormed, Agrees, Ordered, Before, Cached
<1>4. Overtaken'
  <2> SUFFICES ASSUME NEW k \in Key, items[k] = None, Live(k)'
               PROVE  Cardinality(usedSince[k]) >= Capacity
    BY <1>1 DEF Overtaken
  <2>1. written[k] \in Item /\ clock + 1 < written[k].expireAt
    BY <1>1 DEF Live, IInv, TypeOK
  <2>2. written[k].expireAt \in Int
    BY <2>1, TimeAssumption DEF Item
  <2>3. Live(k)
    BY <1>1, <2>1, <2>2 DEF Live
  <2> QED
    BY <2>3 DEF IInv, Overtaken
<1> QED
  BY <1>1, <1>2, <1>3, <1>4 DEF IInv, CNext

\* A hit is the last write, not expired, and a use.
LEMMA HitKeeps ==
    ASSUME IInv, NEW k \in Key, GetHit(k)
    PROVE  IInv' /\ ReadHit(k)
<1>1. /\ TypeOK /\ items[k] # None /\ clock < items[k].expireAt
      /\ ll' = MoveToFront(k) /\ usedSince' = Using(k)
      /\ reply' = [key |-> k, value |-> items[k].value]
      /\ UNCHANGED <<clock, written, items, gauge>>
      /\ items[k] = written[k] /\ items[k] \in Item
  BY DEF GetHit, IInv, TypeOK, Agrees
<1>2. ReadHit(k)
  BY <1>1 DEF ReadHit, Live
<1>3. /\ ll' \in Seq(Key) /\ Len(ll') = Len(ll) /\ IsInjective(ll')
      /\ ToSet(ll') = Cached
      /\ \A i, j \in Key : Before(ll', i, j) => i \in Using(k)[j]
  BY <1>1, Moved
<1>4. TypeOK'
  <2>1. usedSince' \in [Key -> SUBSET Key]
    BY <1>1, UsingFacts
  <2>2. reply' \in Reply
    BY <1>1 DEF Reply, Item
  <2> QED
    BY <1>1, <1>3, <2>1, <2>2 DEF TypeOK
<1>5. WellFormed'
  BY <1>1, <1>3 DEF IInv, WellFormed, Cached
<1>6. Agrees' /\ Ordered'
  BY <1>1, <1>3 DEF IInv, Agrees, Ordered, Before
<1>7. Overtaken'
  BY <1>1, StillOvertaken DEF Live
<1> QED
  BY <1>2, <1>4, <1>5, <1>6, <1>7 DEF IInv

\* A miss that drops an expired item.
LEMMA ExpiredKeeps ==
    ASSUME IInv, NEW k \in Key, GetExpired(k)
    PROVE  IInv' /\ ReadMiss(k)
<1> DEFINE u == RemoveAt(ll, Position(k))
<1>1. /\ TypeOK /\ items[k] # None /\ clock >= items[k].expireAt
      /\ ll' = u /\ items' = [items EXCEPT ![k] = None]
      /\ gauge' = gauge - 1 /\ gauge = Len(ll)
      /\ reply' = [key |-> k, value |-> None]
      /\ UNCHANGED <<clock, written, usedSince>>
      /\ items[k] = written[k] /\ items[k] \in Item
  BY DEF GetExpired, IInv, TypeOK, Agrees, WellFormed
<1>2. clock \in Nat /\ items[k].expireAt \in Nat
  BY <1>1, ClockNat, TimeAssumption DEF Item
<1>3. ~Live(k) /\ ~Live(k)'
  BY <1>1, <1>2 DEF Live
<1>4. ReadMiss(k)
  BY <1>1, <1>3 DEF ReadMiss, Promised
<1>5. /\ ll' \in Seq(Key) /\ Len(ll') = Len(ll) - 1 /\ IsInjective(ll')
      /\ ToSet(ll') = Cached \ {k} /\ k \in Cached
      /\ \A i, j : Before(ll', i, j) => Before(ll, i, j)
  BY <1>1, TakenOut DEF Cached
<1>6. items' \in [Key -> Item \cup {None}] /\ Cached' = Cached \ {k}
  BY <1>1 DEF TypeOK, Cached
<1>7. Len(ll') \in Nat /\ Len(ll') <= Cardinality(Key) /\ Cardinality(Key) \in Nat
  BY <1>5, ListCardinality, KeyAssumption, FS_CardinalityType
<1>8. TypeOK'
  <2>1. reply' \in Reply
    BY <1>1 DEF Reply
  <2> QED
    BY <1>1, <1>5, <1>6, <1>7, <2>1 DEF TypeOK
<1>9. WellFormed'
  <2>1. Len(ll) \in Nat /\ Len(ll) <= Most
    BY <1>1 DEF IInv, TypeOK, WellFormed, Most
  <2> QED
    BY <1>1, <1>5, <1>6, <2>1, CapacityAssumption DEF WellFormed, Most
<1>10. Agrees' /\ Ordered'
  <2>1. \A j \in Key : items'[j] # None => j # k /\ items'[j] = items[j]
    BY <1>1 DEF TypeOK
  <2>2. Agrees'
    BY <1>1, <2>1 DEF IInv, Agrees
  <2>3. \A i, j \in Key : Before(ll', i, j) => i \in usedSince'[j]
    BY <1>1, <1>5 DEF IInv, Ordered
  <2> QED
    BY <2>2, <2>3 DEF Ordered, Before
<1>11. Overtaken'
  BY <1>1, <1>3 DEF IInv, Overtaken, TypeOK, Live
<1> QED
  BY <1>4, <1>8, <1>9, <1>10, <1>11 DEF IInv

\* A miss of a key that is not there: it is overtaken or it has expired.
LEMMA MissKeeps ==
    ASSUME IInv, NEW k \in Key, GetMiss(k)
    PROVE  IInv' /\ ReadMiss(k)
<1>1. /\ TypeOK /\ items[k] = None /\ reply' = [key |-> k, value |-> None]
      /\ UNCHANGED <<clock, written, usedSince, items, ll, gauge>>
  BY DEF GetMiss, IInv
<1>2. ~Promised(k)
  <2> SUFFICES ASSUME Live(k) PROVE ~(Cardinality(usedSince[k]) < Capacity)
    BY DEF Promised
  <2>1. Cardinality(usedSince[k]) >= Capacity
    BY <1>1 DEF IInv, Overtaken
  <2>2. usedSince[k] \in SUBSET Key
    BY <1>1 DEF TypeOK
  <2>3. Cardinality(usedSince[k]) \in Nat
    BY <2>2, KeyAssumption, FS_Subset, FS_CardinalityType
  <2> QED
    BY <2>1, <2>3, CapacityAssumption
<1>3. ReadMiss(k)
  BY <1>1, <1>2 DEF ReadMiss
<1>4. TypeOK'
  <2>1. reply' \in Reply
    BY <1>1 DEF Reply
  <2> QED
    BY <1>1, <2>1 DEF TypeOK
<1>5. WellFormed' /\ Agrees' /\ Ordered' /\ Overtaken'
  BY <1>1 DEF IInv, WellFormed, Agrees, Ordered, Overtaken, Before, Cached, Live
<1> QED
  BY <1>3, <1>4, <1>5 DEF IInv

LEMMA FreshIsItem ==
    ASSUME TypeOK, NEW v \in Value
    PROVE  Fresh(v) \in Item /\ Fresh(v) # None
<1>1. clock + TTL \in 0..MaxTime + TTL
  BY ClockNat, TimeAssumption DEF TypeOK
<1> QED
  BY <1>1, NoneAssumption DEF Fresh, Item

\* What the three ways of setting a key have in common.
LEMMA WriteFacts ==
    ASSUME IInv, NEW k \in Key, NEW v \in Value, Write(k, v),
           items'[k] = Fresh(v),
           \A j \in Key \ {k} : items'[j] \in {items[j], None}
    PROVE  /\ clock' = clock /\ usedSince' = Using(k) /\ reply' = None
           /\ usedSince' \in [Key -> SUBSET Key]
           /\ written' \in [Key -> Item \cup {None}]
           /\ \A j \in Key \ {k} : written'[j] = written[j] /\ (Live(j)' <=> Live(j))
           /\ items'[k] # None
           /\ Agrees'
<1>1. /\ written' = [written EXCEPT ![k] = Fresh(v)]
      /\ usedSince' = Using(k) /\ reply' = None /\ clock' = clock
  BY DEF Write, Fresh
<1>2. written \in [Key -> Item \cup {None}] /\ Fresh(v) \in Item /\ Fresh(v) # None
  BY FreshIsItem DEF IInv, TypeOK
<1>3. /\ written' \in [Key -> Item \cup {None}] /\ written'[k] = Fresh(v)
      /\ \A j \in Key \ {k} : written'[j] = written[j]
  BY <1>1, <1>2
<1>4. \A j \in Key \ {k} : Live(j)' <=> Live(j)
  BY <1>1, <1>3 DEF Live
<1>5. Agrees'
  BY <1>3 DEF IInv, Agrees
<1>6. usedSince' \in [Key -> SUBSET Key]
  BY <1>1, UsingFacts DEF IInv
<1> QED
  BY <1>1, <1>2, <1>3, <1>4, <1>5, <1>6

LEMMA SetPresentKeeps ==
    ASSUME IInv, NEW k \in Key, NEW v \in Value, SetPresent(k, v)
    PROVE  IInv' /\ Write(k, v)
<1>1. /\ TypeOK /\ items[k] # None /\ Write(k, v) /\ ll' = MoveToFront(k)
      /\ items' = [items EXCEPT ![k] = Fresh(v)] /\ gauge' = gauge
  BY DEF SetPresent, IInv
<1>2. Fresh(v) \in Item /\ Fresh(v) # None
  BY <1>1, FreshIsItem
<1>3. /\ items' \in [Key -> Item \cup {None}] /\ items'[k] = Fresh(v)
      /\ \A j \in Key \ {k} : items'[j] = items[j]
  BY <1>1, <1>2 DEF TypeOK
<1>4. /\ clock' = clock /\ usedSince' = Using(k) /\ reply' = None
      /\ usedSince' \in [Key -> SUBSET Key]
      /\ written' \in [Key -> Item \cup {None}]
      /\ \A j \in Key \ {k} : Live(j)' <=> Live(j)
      /\ items'[k] # None /\ Agrees'
  BY <1>1, <1>3, WriteFacts
<1>5. /\ ll' \in Seq(Key) /\ Len(ll') = Len(ll) /\ IsInjective(ll')
      /\ ToSet(ll') = Cached
      /\ \A i, j \in Key : Before(ll', i, j) => i \in Using(k)[j]
  BY <1>1, Moved
<1>6. TypeOK'
  BY <1>1, <1>3, <1>4, <1>5 DEF TypeOK
<1>7. Cached' = Cached
  BY <1>1, <1>3, <1>4 DEF Cached
<1>8. WellFormed'
  BY <1>1, <1>5, <1>7 DEF IInv, WellFormed
<1>9. Ordered'
  BY <1>4, <1>5 DEF Ordered, Before
<1>10. Overtaken'
  BY <1>3, <1>4, StillOvertaken
<1> QED
  BY <1>1, <1>4, <1>6, <1>8, <1>9, <1>10 DEF IInv

\* A new key when there is a place.
LEMMA SetFreeKeeps ==
    ASSUME IInv, NEW k \in Key, NEW v \in Value, SetNew(k, v), ~Evicts
    PROVE  IInv' /\ Write(k, v)
<1>1. /\ TypeOK /\ items[k] = None /\ Write(k, v) /\ ll' = <<k>> \o ll
      /\ items' = [j \in Key |-> IF j = k THEN Fresh(v) ELSE items[j]]
      /\ gauge' = gauge + 1 /\ gauge = Len(ll)
  BY DEF SetNew, IInv, WellFormed
<1>2. Fresh(v) \in Item /\ Fresh(v) # None
  BY <1>1, FreshIsItem
<1>3. /\ items' \in [Key -> Item \cup {None}] /\ items'[k] = Fresh(v)
      /\ \A j \in Key \ {k} : items'[j] = items[j]
  BY <1>1, <1>2 DEF TypeOK
<1>4. /\ clock' = clock /\ usedSince' = Using(k) /\ reply' = None
      /\ usedSince' \in [Key -> SUBSET Key]
      /\ written' \in [Key -> Item \cup {None}]
      /\ \A j \in Key \ {k} : Live(j)' <=> Live(j)
      /\ items'[k] # None /\ Agrees'
  BY <1>1, <1>3, WriteFacts
<1>5. ll \in Seq(Key) /\ IsInjective(ll) /\ ToSet(ll) = Cached /\ k \notin Cached
  BY <1>1 DEF IInv, TypeOK, WellFormed, Cached
<1>6. /\ ll' \in Seq(Key) /\ Len(ll') = Len(ll) + 1 /\ IsInjective(ll')
      /\ ToSet(ll') = Cached \cup {k}
      /\ \A i, j : Before(ll', i, j) => Before(ll, i, j) \/ (i = k /\ j \in ToSet(ll))
  <2>1. PICK t : t = <<k>> \o ll
    OBVIOUS
  <2>2. /\ t \in Seq(Key) /\ Len(t) = Len(ll) + 1 /\ IsInjective(t)
        /\ ToSet(t) = ToSet(ll) \cup {k}
        /\ \A i, j : Before(t, i, j) => Before(ll, i, j) \/ (i = k /\ j \in ToSet(ll))
    BY <1>5, <2>1, PushFacts
  <2> QED
    BY <1>1, <1>5, <2>1, <2>2
<1>7. Len(ll') <= Cardinality(Key) /\ Cardinality(Key) \in Nat /\ Len(ll) \in Nat
  BY <1>5, <1>6, ListCardinality, KeyAssumption, FS_CardinalityType
<1>8. TypeOK'
  BY <1>1, <1>3, <1>4, <1>6, <1>7 DEF TypeOK
<1>9. Cached' = Cached \cup {k}
  BY <1>3, <1>4 DEF Cached
<1>10. Len(ll') <= Most
  <2>1. ~(Len(ll) >= Capacity) \/ ll = <<>>
    BY DEF Evicts
  <2>2. ll = <<>> => Len(ll) = 0
    OBVIOUS
  <2> QED
    BY <1>6, <1>7, <2>1, <2>2, CapacityAssumption DEF Most
<1>11. WellFormed'
  BY <1>1, <1>6, <1>9, <1>10 DEF WellFormed, Most
<1>12. Ordered'
  <2> SUFFICES ASSUME NEW i \in Key, NEW j \in Key, Before(ll', i, j)
               PROVE  i \in Using(k)[j]
    BY <1>4 DEF Ordered, Before
  <2>1. j \in ToSet(ll)
    BY <1>5, <1>6, BeforeIn
  <2>2. j # k /\ Using(k)[j] = usedSince[j] \cup {k}
    BY <1>1, <1>5, <2>1, UsingFacts
  <2> QED
    BY <1>6, <2>2 DEF IInv, Ordered
<1>13. Overtaken'
  BY <1>3, <1>4, StillOvertaken
<1> QED
  BY <1>1, <1>4, <1>8, <1>11, <1>12, <1>13 DEF IInv

\* A new key in the place of the last: every key of the list but the last was
\* used since the last was, and so is the new one.
LEMMA SetEvictKeeps ==
    ASSUME IInv, NEW k \in Key, NEW v \in Value, SetNew(k, v), Evicts
    PROVE  IInv' /\ Write(k, v)
<1>1. /\ ll \in Seq(Key) /\ ll # <<>> /\ IsInjective(ll) /\ ToSet(ll) = Cached
      /\ TypeOK /\ items[k] = None /\ k \notin Cached /\ Write(k, v)
      /\ gauge' = gauge /\ gauge = Len(ll) /\ Len(ll) >= Capacity
      /\ ll' = <<k>> \o Front(ll)
  BY DEF SetNew, Evicts, IInv, WellFormed, TypeOK, Cached
<1>2. PICK u, last : u = Front(ll) /\ last = Last(ll)
  OBVIOUS
<1>3. /\ Len(ll) \in 1..Len(ll) /\ Len(ll) \in Nat /\ last = ll[Len(ll)]
      /\ Drops(u, ll, Len(ll))
  BY <1>1, <1>2, FrontDrops DEF Last
<1>4. /\ u \in Seq(Key) /\ Len(u) = Len(ll) - 1 /\ IsInjective(u)
      /\ ToSet(u) = Cached \ {last}
      /\ \A i, j : Before(u, i, j) => Before(ll, i, j)
      /\ \A i \in 1..Len(u) : u[i] = ll[i]
  <2>1. /\ IsInjective(u) /\ ToSet(u) = ToSet(ll) \ {ll[Len(ll)]}
        /\ \A i, j : Before(u, i, j) => Before(ll, i, j)
    BY <1>1, <1>3, DropFacts
  <2>2. /\ u \in Seq(Key) /\ Len(u) = Len(ll) - 1
        /\ \A i \in 1..Len(u) : u[i] = ll[IF i < Len(ll) THEN i ELSE i + 1]
    BY <1>3 DEF Drops
  <2>3. \A i \in 1..Len(u) : i < Len(ll)
    BY <1>3, <2>2
  <2> QED
    BY <1>1, <1>3, <2>1, <2>2, <2>3
<1>5. last \in Key /\ last \in Cached /\ last # k
  <2>1. last \in ToSet(ll)
    BY <1>1, <1>3 DEF ToSet
  <2> QED
    BY <1>1, <2>1 DEF Cached
<1>6. items' = [j \in Key |-> IF j = k THEN Fresh(v)
                              ELSE IF j = last THEN None ELSE items[j]]
  BY <1>2 DEF SetNew
<1>7. Fresh(v) \in Item /\ Fresh(v) # None
  BY <1>1, FreshIsItem
<1>8. /\ items' \in [Key -> Item \cup {None}] /\ items'[k] = Fresh(v)
      /\ items'[last] = None
      /\ \A j \in Key \ {k} : items'[j] \in {items[j], None}
      /\ \A j \in Key \ {k, last} : items'[j] = items[j]
  BY <1>1, <1>5, <1>6, <1>7 DEF TypeOK
<1>9. /\ clock' = clock /\ usedSince' = Using(k) /\ reply' = None
      /\ usedSince' \in [Key -> SUBSET Key]
      /\ written' \in [Key -> Item \cup {None}]
      /\ \A j \in Key \ {k} : Live(j)' <=> Live(j)
      /\ items'[k] # None /\ Agrees'
  BY <1>1, <1>8, WriteFacts
<1>10. /\ ll' \in Seq(Key) /\ Len(ll') = Len(ll) /\ IsInjective(ll')
       /\ ToSet(ll') = (Cached \ {last}) \cup {k}
       /\ \A i, j : Before(ll', i, j) => Before(u, i, j) \/ (i = k /\ j \in ToSet(u))
  <2>1. PICK t : t = <<k>> \o u
    OBVIOUS
  <2>2. k \notin ToSet(u)
    BY <1>1, <1>4
  <2>3. /\ t \in Seq(Key) /\ Len(t) = Len(u) + 1 /\ IsInjective(t)
        /\ ToSet(t) = ToSet(u) \cup {k}
        /\ \A i, j : Before(t, i, j) => Before(u, i, j) \/ (i = k /\ j \in ToSet(u))
    BY <1>4, <2>1, <2>2, PushFacts
  <2>4. ll' = t
    BY <1>1, <1>2, <2>1
  <2> QED
    BY <1>3, <1>4, <2>3, <2>4
<1>11. TypeOK'
  BY <1>1, <1>8, <1>9, <1>10 DEF TypeOK
<1>12. Cached' = (Cached \ {last}) \cup {k}
  BY <1>5, <1>8, <1>9 DEF Cached
<1>13. WellFormed'
  BY <1>1, <1>10, <1>12 DEF IInv, WellFormed
<1>14. Ordered'
  <2> SUFFICES ASSUME NEW i \in Key, NEW j \in Key, Before(ll', i, j)
               PROVE  i \in Using(k)[j]
    BY <1>9 DEF Ordered, Before
  <2>1. j \in ToSet(u)
    BY <1>4, <1>10, BeforeIn
  <2>2. j # k /\ Using(k)[j] = usedSince[j] \cup {k}
    BY <1>1, <1>4, <2>1, UsingFacts
  <2> QED
    BY <1>4, <1>10, <2>2 DEF IInv, Ordered
<1>15. Cardinality(Using(k)[last]) >= Capacity
  <2>1. \A e \in ToSet(u) : e \in usedSince[last]
    <3> SUFFICES ASSUME NEW i \in 1..Len(u) PROVE u[i] \in usedSince[last]
      <4>1. DOMAIN u = 1..Len(u)
        BY <1>4
      <4> QED
        BY <4>1 DEF ToSet
    <3>1. u[i] = ll[i] /\ i \in 1..Len(ll) /\ i < Len(ll) /\ u[i] \in Key
      BY <1>3, <1>4
    <3>2. Before(ll, u[i], last)
      BY <1>3, <3>1 DEF Before
    <3> QED
      BY <1>5, <3>1, <3>2 DEF IInv, Ordered
  <2>2. Using(k)[last] = usedSince[last] \cup {k} /\ Using(k)[last] \in SUBSET Key
    BY <1>1, <1>5, UsingFacts
  <2>3. ToSet(u) \cup {k} \in SUBSET Using(k)[last]
    BY <2>1, <2>2
  <2>4. IsFiniteSet(ToSet(u)) /\ Cardinality(ToSet(u)) = Len(ll) - 1
    BY <1>4, ListCardinality
  <2>5. Cardinality(ToSet(u) \cup {k}) = Len(ll)
    <3>1. k \notin ToSet(u)
      BY <1>1, <1>4
    <3>2. Cardinality(ToSet(u) \cup {k}) = Cardinality(ToSet(u)) + 1
      BY <2>4, <3>1, FS_AddElement, Zenon
    <3>3. Len(ll) \in Nat
      BY <1>3
    <3> QED
      BY <2>4, <3>2, <3>3
  <2>6. IsFiniteSet(Using(k)[last])
    BY <2>2, KeyAssumption, FS_Subset
  <2>7. /\ Cardinality(ToSet(u) \cup {k}) <= Cardinality(Using(k)[last])
        /\ Cardinality(Using(k)[last]) \in Nat
    BY <2>3, <2>6, FS_Subset, FS_CardinalityType
  <2> QED
    BY <1>1, <1>3, <2>5, <2>7, CapacityAssumption
<1>16. Overtaken'
  <2> SUFFICES ASSUME NEW j \in Key, items'[j] = None, Live(j)'
               PROVE  Cardinality(Using(k)[j]) >= Capacity
    BY <1>9 DEF Overtaken
  <2>1. CASE j = last
    BY <1>15, <2>1
  <2>2. CASE j # last
    <3>1. j \in Key \ {k} /\ items[j] = None /\ Live(j)
      BY <1>8, <1>9, <2>2
    <3>2. Cardinality(usedSince[j]) >= Capacity
      BY <3>1 DEF IInv, Overtaken
    <3>3. /\ Cardinality(usedSince[j]) \in Nat /\ Cardinality(Using(k)[j]) \in Nat
          /\ Cardinality(usedSince[j]) <= Cardinality(Using(k)[j])
      BY <1>1, <3>1, UsingFacts
    <3> QED
      BY <3>2, <3>3, CapacityAssumption
  <2> QED
    BY <2>1, <2>2
<1> QED
  BY <1>1, <1>9, <1>11, <1>13, <1>14, <1>16 DEF IInv

-----------------------------------------------------------------------------

LEMMA NextIInv == IInv /\ [Next]_vars => IInv' /\ [CNext]_cvars
<1> SUFFICES ASSUME IInv, [Next]_vars PROVE IInv' /\ [CNext]_cvars
  OBVIOUS
<1>1. CASE UNCHANGED vars
  BY <1>1 DEF vars, cvars, IInv, TypeOK, WellFormed, Agrees, Ordered, Overtaken,
     Before, Cached, Live
<1>2. CASE Tick
  BY <1>2, TickKeeps
<1>3. ASSUME NEW k \in Key, Get(k) PROVE IInv' /\ CNext
  BY <1>3, HitKeeps, ExpiredKeeps, MissKeeps DEF Get, CNext
<1>4. ASSUME NEW k \in Key, NEW v \in Value, Set(k, v) PROVE IInv' /\ CNext
  BY <1>4, SetPresentKeeps, SetFreeKeeps, SetEvictKeeps DEF Set, CNext
<1> QED
  BY <1>1, <1>2, <1>3, <1>4 DEF Next

LEMMA Invariant == Spec => []IInv
<1>1. IInv /\ [Next]_vars => IInv'
  BY NextIInv
<1>2. Init => IInv
  BY InitIInv
<1> QED
  BY <1>1, <1>2, PTL DEF Spec

\* The variables keep their types; the gauge is never negative and never beyond
\* the number of keys (lru.go:41-91, collector.go:85-95).
THEOREM TypeCorrect == Spec => []TypeOK
<1>1. IInv => TypeOK
  BY DEF IInv
<1> QED
  BY <1>1, Invariant, PTL

\* Map, list and gauge agree after every operation, and the list keeps within
\* max_items, or to one item if that is less (lru.go:41-113).
THEOREM Agreement == Spec => []WellFormed
<1>1. IInv => WellFormed
  BY DEF IInv
<1> QED
  BY <1>1, Invariant, PTL

\* The cache implements its contract: every step of it is one the contract
\* allows, or one its callers do not see (lru.go:41-91).
THEOREM Implements == Spec => Contract
<1>1. Init => CInit
  BY InitIInv
<1>2. IInv /\ [Next]_vars => [CNext]_cvars
  BY NextIInv
<1> QED
  BY <1>1, <1>2, Invariant, PTL DEF Spec, Contract, CSpec

=============================================================================
