--------------------------- MODULE RegAllocProofs ---------------------------
(***************************************************************************)
(* Proofs about InterfGraph, for every set of functions, every number of   *)
(* registers and any number of calls, and about RegAlloc on top of it, for *)
(* every list of different registers and any sequence of functions.  The   *)
(* first part is about finite sets of numbers, the second about helpers,   *)
(* then there is one lemma per action of InterfGraph, and its theorems;    *)
(* the last parts show that its invariant is kept by the way               *)
(* compile_expression() calls it, and carries over to the mapping.         *)
(***************************************************************************)
EXTENDS RegAlloc, FiniteSetTheorems, SequenceTheorems, TLAPS

-----------------------------------------------------------------------------
(***************************************************************************)
(* Finite sets of numbers.                                                 *)
(***************************************************************************)

\* A set of natural numbers has a least element: the shortest of the
\* intervals that end in one of its members.
LEMMA LeastElement ==
  ASSUME NEW S \in SUBSET Nat, S # {}
  PROVE  \E x \in S : \A y \in S : x <= y
<1> DEFINE Intervals == {0 .. x : x \in S}
<1>1. Intervals \subseteq FiniteSubsetsOf(Nat)
  <2>1. \A x \in S : IsFiniteSet(0 .. x) /\ 0 .. x \in SUBSET Nat
    BY FS_Interval
  <2> QED BY <2>1 DEF FiniteSubsetsOf
<1>2. Intervals # {}
  OBVIOUS
<1>3. IsWellFoundedOn(StrictSubsetOrdering(Nat), FiniteSubsetsOf(Nat))
  BY FS_StrictSubsetOrderingWellFounded
<1>4. PICK U \in Intervals :
        \A V \in Intervals : <<V, U>> \notin StrictSubsetOrdering(Nat)
  <2> HIDE DEF Intervals
  <2> QED BY <1>1, <1>2, <1>3, WFMin
<1>5. PICK x \in S : U = 0 .. x
  OBVIOUS
<1>6. ASSUME NEW y \in S, y < x PROVE FALSE
  <2>1. 0 .. y \in Intervals /\ 0 .. y \in SUBSET Nat /\ 0 .. x \in SUBSET Nat
    OBVIOUS
  <2>2. 0 .. y \subseteq 0 .. x
    BY <1>6
  <2>3. x \in 0 .. x /\ x \notin 0 .. y
    BY <1>6
  <2>4. <<0 .. y, 0 .. x>> \notin StrictSubsetOrdering(Nat)
    BY <2>1, <1>4, <1>5
  <2> HIDE DEF Intervals
  <2> QED BY <2>1, <2>2, <2>3, <2>4 DEF StrictSubsetOrdering
<1> QED BY <1>6

\* A bounded one has a greatest.
LEMMA GreatestElement ==
  ASSUME NEW S \in SUBSET Nat, S # {}, NEW b \in Nat, \A x \in S : x <= b
  PROVE  \E x \in S : \A y \in S : y <= x
<1> DEFINE T == {b - x : x \in S}
<1>1. T \in SUBSET Nat /\ T # {}
  <2>1. \A x \in S : x \in Nat /\ b - x \in Nat
    OBVIOUS
  <2> QED BY <2>1
<1>2. PICK t \in T : \A u \in T : t <= u
  <2> HIDE DEF T
  <2> QED BY <1>1, LeastElement
<1>3. PICK x \in S : t = b - x
  OBVIOUS
<1>4. \A y \in S : b - x <= b - y
  BY <1>2, <1>3
<1>5. \A y \in S : y \in Nat
  OBVIOUS
<1>6. \A y \in S : y <= x
  BY <1>4, <1>5
<1> QED BY <1>6

\* Sets of variable ids are finite.
LEMMA IdsFinite ==
  ASSUME NEW n \in Nat, NEW S \in SUBSET Ids(n)
  PROVE  /\ IsFiniteSet(S)
         /\ Cardinality(S) \in 0 .. n
<1>1. IsFiniteSet(Ids(n)) /\ Cardinality(Ids(n)) = n
  BY FS_Interval DEF Ids
<1> QED BY <1>1, FS_Subset, FS_CardinalityType

LEMMA IdsSubset ==
  ASSUME NEW n \in Nat, NEW S \in SUBSET Ids(n), NEW T \in SUBSET S
  PROVE  Cardinality(T) <= Cardinality(S)
BY IdsFinite, FS_Subset

LEMMA IdsNonEmpty ==
  ASSUME NEW n \in Nat, NEW S \in SUBSET Ids(n)
  PROVE  S # {} <=> Cardinality(S) > 0
BY IdsFinite, FS_EmptySet

LEMMA IdsMonotone ==
  ASSUME NEW m \in Int, NEW n \in Int, m <= n
  PROVE  Ids(m) \subseteq Ids(n)
BY DEF Ids

\* If the members of S take all of the colours 0..c-1 there are at least c of
\* them.
LEMMA AllColorsTaken ==
  ASSUME NEW n \in Nat, NEW S \in SUBSET Ids(n), NEW c \in Nat, NEW m,
         \A d \in Ids(c) : \E u \in S : m[u] = d
  PROVE  c <= Cardinality(S)
<1> DEFINE T == {u \in S : m[u] \in Ids(c)}
<1> DEFINE f == [u \in T |-> m[u]]
<1>1. f \in Surjection(T, Ids(c))
  BY DEF Surjection
<1>2. IsFiniteSet(T) /\ Cardinality(T) <= Cardinality(S) /\ Cardinality(S) \in Nat
  BY IdsFinite, IdsSubset
<1>3. IsFiniteSet(T) /\ Cardinality(T) \in Nat
  BY IdsFinite
<1>4. Cardinality(Ids(c)) <= Cardinality(T)
  <2> HIDE DEF f, T
  <2> QED BY <1>1, <1>2, FS_Surjection
<1>5. Cardinality(Ids(c)) = c
  BY FS_Interval DEF Ids
<1> QED BY <1>2, <1>3, <1>4, <1>5

\* What is left of a stack when its last entry is taken off.
LEMMA AllButLast ==
  ASSUME NEW S, NEW s \in Seq(S), Len(s) \in Nat \ {0}
  PROVE  /\ SubSeq(s, 1, Len(s) - 1) \in Seq(S)
         /\ Len(SubSeq(s, 1, Len(s) - 1)) = Len(s) - 1
         /\ \A p \in 1 .. Len(s) - 1 : SubSeq(s, 1, Len(s) - 1)[p] = s[p]
<1> DEFINE n == Len(s) - 1
<1>1. n \in Nat /\ n - 1 + 1 = n /\ \A p \in 1 .. n : s[p] \in S /\ 1 + p - 1 = p
  OBVIOUS
<1>2. 1 <= n \/ n = 0
  BY <1>1
<1> HIDE DEF n
<1>3. /\ SubSeq(s, 1, n) \in Seq(S)
      /\ Len(SubSeq(s, 1, n)) = IF 1 <= n THEN n - 1 + 1 ELSE 0
      /\ \A p \in 1 .. n - 1 + 1 : SubSeq(s, 1, n)[p] = s[1 + p - 1]
  BY <1>1, SubSeqProperties
<1>4. Len(SubSeq(s, 1, n)) = n
  BY <1>1, <1>2, <1>3
<1>5. \A p \in 1 .. n : SubSeq(s, 1, n)[p] = s[p]
  BY <1>1, <1>3
<1> QED BY <1>3, <1>4, <1>5 DEF n

-----------------------------------------------------------------------------
(***************************************************************************)
(* The helpers of color().                                                 *)
(***************************************************************************)

\* try_add_reuse() answers with a colour no placed neighbour has, or with -1
\* when they take all of them.
LEMMA TryAddReuse ==
  ASSUME NEW id, NEW max \in Nat
  PROVE  /\ try_add_reuse(id, max) \in Ids(max) \cup {-1}
         /\ try_add_reuse(id, max) # -1 =>
              \A u \in Placed(id) : color_map[u] # try_add_reuse(id, max)
         /\ try_add_reuse(id, max) = -1 =>
              \A c \in Ids(max) : \E u \in Placed(id) : color_map[u] = c
<1>1. CASE can_use(id, max) = {}
  BY <1>1 DEF try_add_reuse, can_use
<1>2. CASE can_use(id, max) # {}
  <2>1. can_use(id, max) \in SUBSET Nat
    BY DEF can_use, Ids
  <2>2. \E c \in can_use(id, max) : \A d \in can_use(id, max) : c <= d
    BY <1>2, <2>1, LeastElement
  <2>3. try_add_reuse(id, max) \in can_use(id, max)
    BY <1>2, <2>2, Zenon DEF try_add_reuse
  <2>4. try_add_reuse(id, max) # -1
    BY <2>1, <2>3
  <2> QED BY <2>3, <2>4 DEF can_use
<1> QED BY <1>1, <1>2

\* Degrees are numbers, and only nodes in the graph have one above zero.
LEMMA Degrees ==
  ASSUME TypeOK, NEW v \in Vars
  PROVE  /\ Neighbours(v) \in SUBSET Vars
         /\ interference_nodes(v) \in 0 .. n_vars
         /\ interference_nodes(v) > 0 <=> v \notin removed /\ Neighbours(v) # {}
<1>1. Neighbours(v) \in SUBSET Ids(n_vars) /\ n_vars \in Nat
  BY DEF Neighbours, Vars, TypeOK
<1>2. Cardinality(Neighbours(v)) \in 0 .. n_vars
  BY <1>1, IdsFinite
<1>3. Neighbours(v) # {} <=> Cardinality(Neighbours(v)) > 0
  BY <1>1, IdsNonEmpty
<1> QED BY <1>1, <1>2, <1>3 DEF interference_nodes, Vars

\* The search for a possible spill finds a node when one in the graph has an
\* edge: among those with the most edges, the one with the lowest id.
LEMMA MaxDegreeFound ==
  ASSUME TypeOK, NEW w \in Vars \ removed, Neighbours(w) # {}
  PROVE  MaxDegree \in Vars \ removed /\ MaxDegree # -1
<1> DEFINE degrees == {interference_nodes(v) : v \in Searched}
<1>1. w \in Searched
  BY Degrees DEF Searched
<1>2. degrees \in SUBSET Nat /\ degrees # {} /\ \A d \in degrees : d <= n_vars
  <2>1. \A v \in Searched : interference_nodes(v) \in 0 .. n_vars
    BY Degrees DEF Searched
  <2> QED BY <1>1, <2>1 DEF TypeOK
<1>3. PICK max \in degrees : \A d \in degrees : d <= max
  <2> HIDE DEF degrees
  <2> QED BY <1>2, GreatestElement DEF TypeOK
<1> DEFINE most == {v \in Searched : interference_nodes(v) = max}
<1>4. most \in SUBSET Nat /\ most # {}
  BY <1>3 DEF Searched, Vars, Ids
<1>5. PICK v \in most : \A u \in most : v <= u
  <2> HIDE DEF most
  <2> QED BY <1>4, LeastElement
<1>6. \A u \in Searched :
        \/ interference_nodes(u) < interference_nodes(v)
        \/ interference_nodes(u) = interference_nodes(v) /\ v <= u
  <2> TAKE u \in Searched
  <2>1. interference_nodes(u) \in Nat /\ max \in Nat /\ interference_nodes(u) <= max
    BY <1>2, <1>3
  <2> QED BY <2>1, <1>5
<1>7. MaxDegree \in Searched
  <2>1. v \in Searched
    BY <1>5
  <2> QED BY <2>1, <1>6, Zenon DEF MaxDegree
<1>8. \A u \in Searched : u \in Vars \ removed
  BY Degrees DEF Searched
<1> QED BY <1>7, <1>8 DEF Vars, Ids

-----------------------------------------------------------------------------
(***************************************************************************)
(* The inductive invariant holds at first, and every action preserves it.  *)
(***************************************************************************)

LEMMA InitInvariant ==
  ASSUME Init
  PROVE  IInv
<1> USE DEF Init
<1>1. Ids(0) = {} /\ Stacked = {}
  BY DEF Ids, Stacked
<1>2. TypeOK
  BY <1>1, MaxGenerateAssumption DEF TypeOK, Phases, Vars, EmptyMap
<1>3. GraphCovers /\ RemovedExact
  BY <1>1 DEF GraphCovers, RemovedExact, Running
<1>4. PushedLow /\ Passed /\ PoppedLow /\ PlacedSoFar /\ SpillJustified
  BY DEF PushedLow, Passed, PoppedLow, PlacedSoFar, SpillJustified, Running
<1> QED BY <1>2, <1>3, <1>4 DEF IInv

\* The history variables and the graph change in generate() only.
LEMMA GraphKept ==
  ASSUME GraphCovers, UNCHANGED <<n_vars, graph, history>>
  PROVE  GraphCovers'
BY DEF GraphCovers, history

LEMMA GeneratePreserves ==
  ASSUME IInv, NEW f \in Functions, Generate(f)
  PROVE  IInv'
<1> USE DEF Generate
<1>1. /\ f.n_vars \in Nat /\ f.live \subseteq SUBSET Ids(f.n_vars)
      /\ MaxGenerate \in Nat
  BY FunctionsAssumption, MaxGenerateAssumption
<1>2. removed = {} /\ spills = {} /\ i = 0
  BY DEF IInv, RemovedExact, Running, Stacked
<1>3. Edges(f) \subseteq Ids(f.n_vars) \X Ids(f.n_vars)
  BY DEF Edges
<1>4. TypeOK'
  <2>1. generated' \in 0 .. MaxGenerate
    BY <1>1 DEF IInv, TypeOK
  <2>2. DOMAIN color_map' = {} /\ color_map' \in [{} -> Int]
    BY DEF EmptyMap
  <2> QED BY <1>1, <1>2, <1>3, <2>1, <2>2 DEF IInv, TypeOK, Phases, Vars
<1>5. GraphCovers'
  <2>1. ASSUME NEW e \in graph'
        PROVE  e[1] # e[2] /\ <<e[2], e[1]>> \in graph'
    <3>1. CASE e \in graph
      <4>1. e \in Ids(f.n_vars) \X Ids(f.n_vars)
        BY <1>3
      <4>2. e[1] # e[2] /\ <<e[2], e[1]>> \in graph
        BY <3>1 DEF IInv, GraphCovers
      <4> QED BY <4>1, <4>2
    <3>2. CASE e \in Edges(f)
      BY <3>2 DEF Edges
    <3> QED BY <3>1, <3>2
  <2>2. ASSUME NEW s \in live', NEW u \in s, NEW v \in s, u # v
        PROVE  <<u, v>> \in graph'
    <3>1. s \in f.live /\ u \in Ids(f.n_vars) /\ v \in Ids(f.n_vars)
      BY <1>1
    <3> QED BY <3>1, <2>2 DEF Edges
  <2> QED BY <2>1, <2>2 DEF GraphCovers
<1>6. RemovedExact'
  BY <1>2 DEF RemovedExact, Running, Stacked
<1>7. PushedLow' /\ Passed' /\ PoppedLow' /\ PlacedSoFar' /\ SpillJustified'
  BY DEF PushedLow, Passed, PoppedLow, PlacedSoFar, SpillJustified, Running
<1> QED BY <1>4, <1>5, <1>6, <1>7 DEF IInv

LEMMA EnterPreserves ==
  ASSUME IInv, NEW regs \in Nat, Enter(regs)
  PROVE  IInv'
<1> USE DEF Enter, object, history
<1>1. regs \in Nat
  OBVIOUS
<1>2. removed = {} /\ spills = {} /\ stack = <<>>
  BY DEF IInv, RemovedExact, Running, Stacked
<1>3. TypeOK'
  BY <1>1 DEF IInv, TypeOK, Phases, Vars, EmptyMap
<1>4. GraphCovers'
  BY GraphKept DEF IInv
<1>5. RemovedExact'
  BY <1>1, <1>2 DEF RemovedExact, Running, Stacked
<1>6. PushedLow' /\ Passed'
  BY <1>2 DEF PushedLow, Passed, Ids
<1>7. PoppedLow' /\ PlacedSoFar' /\ SpillJustified'
  BY DEF PoppedLow, PlacedSoFar, SpillJustified
<1> QED BY <1>3, <1>4, <1>5, <1>6, <1>7 DEF IInv

\* Whether the graph falls apart depends on the graph and on k alone.
LEMMA DismantlesKept ==
  ASSUME UNCHANGED <<n_vars, graph, k>>
  PROVE  Dismantles' <=> Dismantles
BY DEF Dismantles, Vars

LEMMA ScanPushPreserves ==
  ASSUME IInv, ScanPush
  PROVE  IInv'
<1> USE DEF ScanPush
<1>1. /\ n_vars \in Nat /\ i \in 0 .. n_vars - 1 /\ i \in Vars /\ found \in Nat
      /\ i \notin removed /\ i \notin Stacked
      /\ stack \in Seq(Vars) /\ Len(stack) \in Nat
  BY DEF IInv, TypeOK, Vars, Ids, RemovedExact, interference_nodes_lt
<1>2. /\ stack' \in Seq(Vars)
      /\ Len(stack') = Len(stack) + 1
      /\ stack'[Len(stack) + 1] = i
      /\ \A p \in 1 .. Len(stack) : stack'[p] = stack[p] /\ stack[p] \in Stacked
  BY <1>1 DEF Stacked
<1>3. TypeOK'
  BY <1>1, <1>2 DEF IInv, TypeOK, Vars, Ids, history
<1>4. GraphCovers'
  BY GraphKept DEF IInv
<1>5. Stacked' = Stacked \cup {i}
  <2>1. 1 .. Len(stack') = 1 .. Len(stack) \cup {Len(stack) + 1}
    BY <1>1, <1>2
  <2>2. Stacked' \subseteq Stacked \cup {i}
    BY <1>2, <2>1 DEF Stacked
  <2>3. Stacked \subseteq Stacked'
    <3>1. \A p \in 1 .. Len(stack) : p \in 1 .. Len(stack') /\ stack[p] = stack'[p]
      BY <1>2, <2>1
    <3> QED BY <3>1 DEF Stacked
  <2>4. i \in Stacked'
    BY <1>2, <2>1 DEF Stacked
  <2> QED BY <2>2, <2>3, <2>4
<1>6. RemovedExact'
  <2>1. \A p, q \in 1 .. Len(stack') : stack'[p] = stack'[q] => p = q
    BY <1>1, <1>2 DEF IInv, RemovedExact
  <2> QED BY <1>1, <1>5, <2>1 DEF IInv, RemovedExact, Running
<1>7. PushedLow'
  <2> SUFFICES ASSUME NEW p \in 1 .. Len(stack')
               PROVE  Cardinality({u \in Vars \ (spills \cup {stack'[q] : q \in 1 .. p}) :
                                     <<stack'[p], u>> \in graph}) < k
    BY DEF PushedLow, Vars
  <2>1. CASE p \in 1 .. Len(stack)
    <3>1. stack'[p] = stack[p] /\ {stack'[q] : q \in 1 .. p} = {stack[q] : q \in 1 .. p}
      BY <1>2, <2>1
    <3> QED BY <2>1, <3>1 DEF IInv, PushedLow
  <2>2. CASE p = Len(stack) + 1
    <3> DEFINE rest == {u \in Vars \ (spills \cup {stack'[q] : q \in 1 .. p}) : <<i, u>> \in graph}
    <3>1. rest \subseteq Neighbours(i)
      <4>1. Stacked' \subseteq {stack'[q] : q \in 1 .. p}
        BY <1>2, <2>2 DEF Stacked
      <4> QED BY <4>1, <1>5 DEF Neighbours, IInv, RemovedExact
    <3>2. Neighbours(i) \in SUBSET Ids(n_vars)
      BY DEF Neighbours, Vars
    <3>3. Cardinality(rest) <= Cardinality(Neighbours(i))
      <4> HIDE DEF rest
      <4> QED BY <1>1, <3>1, <3>2, IdsSubset
    <3>4. Cardinality(Neighbours(i)) < k
      BY DEF interference_nodes_lt
    <3>5. Cardinality(rest) \in Nat /\ Cardinality(Neighbours(i)) \in Nat /\ k \in Nat
      <4> HIDE DEF rest
      <4> QED BY <1>1, <3>1, <3>2, IdsFinite DEF IInv, TypeOK
    <3>6. Cardinality(rest) < k
      <4> HIDE DEF rest
      <4> QED BY <3>3, <3>4, <3>5
    <3> QED BY <1>2, <2>2, <3>6
  <2>3. p \in 1 .. Len(stack) \/ p = Len(stack) + 1
    BY <1>1, <1>2
  <2> QED BY <2>1, <2>2, <2>3
<1>8. Passed'
  BY <1>1 DEF IInv, Passed, Ids
<1>9. PoppedLow' /\ PlacedSoFar' /\ SpillJustified'
  BY DismantlesKept DEF IInv, PoppedLow, PlacedSoFar, SpillJustified, Running
<1> QED BY <1>3, <1>4, <1>6, <1>7, <1>8, <1>9 DEF IInv

LEMMA ScanKeepPreserves ==
  ASSUME IInv, ScanKeep
  PROVE  IInv'
<1> USE DEF ScanKeep, object
<1>1. n_vars \in Nat /\ i \in 0 .. n_vars - 1 /\ i \in Vars /\ left \in Nat /\ k \in Nat
  BY DEF IInv, TypeOK, Vars, Ids
<1>2. TypeOK'
  BY <1>1 DEF IInv, TypeOK, Vars, Ids, history
<1>3. GraphCovers'
  BY GraphKept DEF IInv
<1>4. RemovedExact' /\ PushedLow'
  BY DEF IInv, RemovedExact, PushedLow, Stacked, Vars, Running
<1>5. Passed'
  <2>1. Ids(i + 1) = Ids(i) \cup {i} /\ i \notin Ids(i)
    BY <1>1 DEF Ids
  <2>2. left' = 0 <=> Ids(i + 1) \subseteq removed
    BY <1>1, <2>1 DEF IInv, Passed
  <2>3. i \in removed \/ Cardinality(Neighbours(i)) >= k
    <3>1. Neighbours(i) \in SUBSET Ids(n_vars)
      BY DEF Neighbours, Vars
    <3>2. Cardinality(Neighbours(i)) \in Nat
      BY <1>1, <3>1, IdsFinite
    <3> QED BY <1>1, <3>2 DEF interference_nodes_lt
  <2>4. found = 0 => \A v \in Ids(i + 1) \ removed : Cardinality(Neighbours(v)) >= k
    BY <2>1, <2>3 DEF IInv, Passed
  <2> QED BY <2>2, <2>4 DEF IInv, Passed, Neighbours, Vars
<1>6. PoppedLow' /\ PlacedSoFar' /\ SpillJustified'
  BY DismantlesKept DEF IInv, PoppedLow, PlacedSoFar, SpillJustified, Running
<1> QED BY <1>2, <1>3, <1>4, <1>5, <1>6 DEF IInv

LEMMA NextPassPreserves ==
  ASSUME IInv, NextPass
  PROVE  IInv'
<1> USE DEF NextPass, object
<1>1. TypeOK'
  BY DEF IInv, TypeOK, Vars, history
<1>2. GraphCovers'
  BY GraphKept DEF IInv
<1>3. RemovedExact' /\ PushedLow'
  BY DEF IInv, RemovedExact, PushedLow, Stacked, Vars, Running
<1>4. Passed'
  BY DEF IInv, Passed, Ids
<1>5. PoppedLow' /\ PlacedSoFar' /\ SpillJustified'
  BY DismantlesKept DEF IInv, PoppedLow, PlacedSoFar, SpillJustified, Running
<1> QED BY <1>1, <1>2, <1>3, <1>4, <1>5 DEF IInv

\* When a pass has pushed nothing and something is left, what is left is a
\* graph in which every node has k edges or more.
LEMMA NothingToPush ==
  ASSUME IInv, pc = "scan", i = n_vars, found = 0, left > 0
  PROVE  /\ Vars \ removed # {}
         /\ \A v \in Vars \ removed : Cardinality(Neighbours(v)) >= k
         /\ ~Dismantles
<1>1. Vars \ removed # {}
  BY DEF IInv, Passed, Vars
<1>2. ASSUME NEW v \in Vars \ removed
      PROVE  Cardinality(Neighbours(v)) >= k
  BY DEF IInv, Passed, Vars
<1>3. ~Dismantles
  <2> SUFFICES ASSUME Dismantles PROVE FALSE
    OBVIOUS
  <2>1. PICK v \in Vars \ removed :
          Cardinality({u \in Vars \ removed : <<v, u>> \in graph}) < k
    BY <1>1 DEF Dismantles
  <2>2. Cardinality(Neighbours(v)) < k
    BY <2>1 DEF Neighbours
  <2>3. Neighbours(v) \in SUBSET Ids(n_vars) /\ n_vars \in Nat /\ k \in Nat
    BY DEF IInv, TypeOK, Neighbours, Vars
  <2>4. Cardinality(Neighbours(v)) \in Nat
    BY <2>3, IdsFinite
  <2> QED BY <1>2, <2>2, <2>3, <2>4
<1> QED BY <1>1, <1>2, <1>3

LEMMA PickSpillPreserves ==
  ASSUME IInv, PickSpill
  PROVE  IInv'
<1> USE DEF PickSpill
<1>1. /\ n_vars \in Nat /\ k \in Nat /\ k > 0
      /\ stack \in Seq(Vars) /\ Len(stack) \in Nat
      /\ removed = Stacked \cup spills
  BY DEF IInv, TypeOK, RemovedExact, Running
<1>2. PICK w \in Vars \ removed : Neighbours(w) # {}
  <2>1. PICK w \in Vars \ removed : Cardinality(Neighbours(w)) >= k
    BY NothingToPush
  <2>2. Neighbours(w) \in SUBSET Ids(n_vars)
    BY DEF Neighbours, Vars
  <2>3. Neighbours(w) # {}
    BY <1>1, <2>1, <2>2, IdsNonEmpty, IdsFinite
  <2> QED BY <2>3
<1>3. MaxDegree \in Vars \ removed /\ MaxDegree # -1
  BY <1>2, MaxDegreeFound DEF IInv
<1>4. /\ removed' = removed \cup {MaxDegree}
      /\ spills' = spills \cup {MaxDegree}
      /\ pc' = "scan"
  BY <1>3 DEF RemoveSpill
<1>5. TypeOK'
  BY <1>3, <1>4 DEF IInv, TypeOK, Vars, Phases, history
<1>6. GraphCovers'
  BY GraphKept DEF IInv
<1>7. RemovedExact'
  BY <1>1, <1>3, <1>4 DEF IInv, RemovedExact, Stacked, Running
<1>8. PushedLow'
  <2> SUFFICES ASSUME NEW p \in 1 .. Len(stack)
               PROVE  Cardinality({u \in Vars \ (spills' \cup {stack[q] : q \in 1 .. p}) :
                                     <<stack[p], u>> \in graph}) < k
    BY DEF PushedLow, Vars
  <2> DEFINE before == {u \in Vars \ (spills \cup {stack[q] : q \in 1 .. p}) : <<stack[p], u>> \in graph}
             after  == {u \in Vars \ (spills' \cup {stack[q] : q \in 1 .. p}) : <<stack[p], u>> \in graph}
  <2>1. Cardinality(before) < k
    BY DEF IInv, PushedLow
  <2>2. after \in SUBSET before /\ before \in SUBSET Ids(n_vars)
    BY <1>4 DEF Vars
  <2>3. Cardinality(after) < k
    <3> HIDE DEF before, after
    <3>1. Cardinality(after) <= Cardinality(before)
      BY <1>1, <2>2, IdsSubset
    <3>2. Cardinality(after) \in Nat /\ Cardinality(before) \in Nat
      BY <1>1, <2>2, IdsFinite
    <3> QED BY <1>1, <2>1, <3>1, <3>2
  <2> QED BY <2>3
<1>9. Passed'
  BY <1>4 DEF IInv, Passed, Ids
<1>10. SpillJustified'
  BY <1>4, NothingToPush, DismantlesKept DEF SpillJustified
<1>11. PoppedLow' /\ PlacedSoFar'
  BY <1>4 DEF PoppedLow, PlacedSoFar
<1> QED BY <1>4, <1>5, <1>6, <1>7, <1>8, <1>9, <1>10, <1>11 DEF IInv

LEMMA StageTwoPreserves ==
  ASSUME IInv, StageTwo
  PROVE  IInv'
<1> USE DEF StageTwo, object
<1>1. /\ color = 0 /\ color_map = EmptyMap /\ Vars \ removed = {} /\ k \in Nat
      /\ DOMAIN color_map = {}
  BY DEF IInv, Passed, Vars, TypeOK, EmptyMap
<1>2. TypeOK'
  BY DEF IInv, TypeOK, Vars, Phases, history
<1>3. GraphCovers'
  BY GraphKept DEF IInv
<1>4. RemovedExact' /\ PushedLow'
  BY DEF IInv, RemovedExact, PushedLow, Stacked, Vars, Running
<1>5. Passed' /\ PoppedLow'
  BY <1>1 DEF Passed, PoppedLow
<1>6. PlacedSoFar'
  <2>1. Slots' = 0 /\ 1 .. 0 = {}
    BY DEF Slots
  <2> QED BY <1>1, <2>1 DEF PlacedSoFar, Vars
<1>7. SpillJustified'
  BY <1>1, DismantlesKept DEF IInv, SpillJustified, Running
<1> QED BY <1>2, <1>3, <1>4, <1>5, <1>6, <1>7 DEF IInv

LEMMA StageThreePreserves ==
  ASSUME IInv, StageThree
  PROVE  IInv'
<1> USE DEF StageThree, object
<1>1. k \in Nat /\ color \in 0 .. k
  BY DEF IInv, TypeOK, PoppedLow
<1>2. TypeOK'
  BY DEF IInv, TypeOK, Vars, Phases, history
<1>3. GraphCovers'
  BY GraphKept DEF IInv
<1>4. RemovedExact' /\ PushedLow'
  BY DEF IInv, RemovedExact, PushedLow, Stacked, Vars, Running
<1>5. Passed' /\ PoppedLow'
  BY DEF Passed, PoppedLow
<1>6. PlacedSoFar'
  <2>1. Slots = 0
    BY DEF Slots
  <2>2. Slots' = 0 - color'
    BY DEF Slots
  <2>3. Slots' = 0
    BY <2>2
  <2> QED BY <2>1, <2>3 DEF IInv, PlacedSoFar, Vars
<1>7. SpillJustified'
  BY <1>1, DismantlesKept DEF IInv, SpillJustified, Running
<1> QED BY <1>2, <1>3, <1>4, <1>5, <1>6, <1>7 DEF IInv

LEMMA ReturnPreserves ==
  ASSUME IInv, Return
  PROVE  IInv'
<1> USE DEF Return
<1>1. color \in Int /\ -color >= 0 /\ stack = <<>>
  BY DEF IInv, TypeOK, PlacedSoFar, Slots, RemovedExact
<1>2. TypeOK'
  BY <1>1 DEF IInv, TypeOK, Vars, Phases, history
<1>3. GraphCovers'
  BY GraphKept DEF IInv
<1>4. RemovedExact' /\ PushedLow'
  BY <1>1 DEF IInv, RemovedExact, PushedLow, Stacked, Vars, Running
<1>5. Passed' /\ PoppedLow'
  BY DEF Passed, PoppedLow
<1>6. PlacedSoFar'
  <2>1. Slots = 0 - color /\ Slots' = 0 - color
    BY <1>1 DEF Slots
  <2> QED BY <2>1 DEF IInv, PlacedSoFar, Vars
<1>7. SpillJustified'
  BY <1>1, DismantlesKept DEF IInv, SpillJustified, Running
<1> QED BY <1>2, <1>3, <1>4, <1>5, <1>6, <1>7 DEF IInv

\* One more variable takes a colour that none of its placed neighbours has.
LEMMA ApartExtends ==
  ASSUME NEW id \in Vars, NEW c,
         TypeOK, GraphCovers,
         DOMAIN color_map = Vars \ removed, id \notin DOMAIN color_map,
         \A u, v \in DOMAIN color_map : <<u, v>> \in graph => color_map[u] # color_map[v],
         \A u \in Placed(id) : color_map[u] # c
  PROVE  /\ DOMAIN WithColor(id, c) = DOMAIN color_map \cup {id}
         /\ WithColor(id, c)[id] = c
         /\ \A v \in DOMAIN color_map : WithColor(id, c)[v] = color_map[v]
         /\ \A u, v \in DOMAIN color_map \cup {id} :
              <<u, v>> \in graph => WithColor(id, c)[u] # WithColor(id, c)[v]
<1>1. DOMAIN WithColor(id, c) = DOMAIN color_map \cup {id}
  BY DEF WithColor
<1>2. WithColor(id, c)[id] = c
  BY DEF WithColor
<1>3. \A v \in DOMAIN color_map : WithColor(id, c)[v] = color_map[v]
  BY DEF WithColor
<1>4. ASSUME NEW u \in DOMAIN color_map \cup {id}, NEW v \in DOMAIN color_map \cup {id},
             <<u, v>> \in graph
      PROVE  WithColor(id, c)[u] # WithColor(id, c)[v]
  <2>1. u # v /\ <<v, u>> \in graph
    BY <1>4 DEF GraphCovers
  <2>2. CASE u = id
    <3>1. v \in Placed(id)
      BY <1>4, <2>1, <2>2 DEF Placed
    <3> QED BY <1>2, <1>3, <2>1, <2>2, <3>1
  <2>3. CASE v = id
    <3>1. u \in Placed(id)
      BY <1>4, <2>1, <2>3 DEF Placed
    <3> QED BY <1>2, <1>3, <2>1, <2>3, <3>1
  <2>4. CASE u # id /\ v # id
    BY <1>3, <1>4, <2>4
  <2> QED BY <2>2, <2>3, <2>4
<1> QED BY <1>1, <1>2, <1>3, <1>4

LEMMA PopPreserves ==
  ASSUME IInv, Pop
  PROVE  IInv'
<1> DEFINE id   == stack[Len(stack)]
           c    == try_add_reuse(id, color)
           newc == IF c # -1 THEN c ELSE color
<1>1. /\ n_vars \in Nat /\ k \in Nat /\ color \in 0 .. k
      /\ stack \in Seq(Vars) /\ Len(stack) \in Nat \ {0}
      /\ id \in Vars /\ id \in Stacked /\ id \in removed /\ id \notin spills
  <2>1. stack \in Seq(Vars) /\ stack # <<>>
    BY DEF IInv, TypeOK, Pop
  <2>2. Len(stack) \in Nat \ {0} /\ id \in Vars /\ id \in Stacked
    BY <2>1 DEF Stacked
  <2> QED BY <2>1, <2>2 DEF IInv, TypeOK, PoppedLow, RemovedExact, Pop
<1>2. /\ Len(stack') = Len(stack) - 1
      /\ stack' \in Seq(Vars)
      /\ \A p \in 1 .. Len(stack) - 1 : stack'[p] = stack[p]
  <2>1. stack' = SubSeq(stack, 1, Len(stack) - 1)
    BY DEF Pop
  <2> HIDE DEF id, c, newc
  <2> QED BY <1>1, <2>1, AllButLast
<1>3. DOMAIN color_map = Vars \ removed
  BY DEF IInv, PlacedSoFar, Pop
<1>4. /\ color_map' = WithColor(id, newc)
      /\ color' = IF c # -1 THEN color ELSE color + 1
      /\ pc' = "pop"
  BY <1>3 DEF Pop, Placed
<1>5. removed' = removed \ {id}
  BY DEF Pop
<1>6. Cardinality(Placed(id)) < k
  <2> DEFINE later == {u \in Vars \ (spills \cup {stack[q] : q \in 1 .. Len(stack)}) : <<id, u>> \in graph}
  <2>1. Cardinality(later) < k
    BY <1>1 DEF IInv, PushedLow, Pop
  <2>2. Placed(id) = later
    BY <1>1 DEF Placed, IInv, RemovedExact, Stacked
  <2> QED BY <2>1, <2>2
<1>7. /\ newc \in Ids(color') /\ color' \in 0 .. k /\ color <= color'
      /\ \A u \in Placed(id) : color_map[u] # newc
  <2>1. CASE c # -1
    <3>1. c \in Ids(color) /\ \A u \in Placed(id) : color_map[u] # c
      BY <1>1, <2>1, TryAddReuse
    <3> QED BY <1>1, <1>4, <2>1, <3>1
  <2>2. CASE c = -1
    <3>1. \A d \in Ids(color) : \E u \in Placed(id) : color_map[u] = d
      BY <1>1, <2>2, TryAddReuse
    <3>2. Placed(id) \in SUBSET Ids(n_vars)
      BY DEF Placed, Vars
    <3>3. color <= Cardinality(Placed(id)) /\ Cardinality(Placed(id)) \in Nat
      BY <1>1, <3>1, <3>2, AllColorsTaken, IdsFinite
    <3>4. color + 1 <= k
      BY <1>1, <1>6, <3>3
    <3>5. \A u \in Placed(id) : color_map[u] \in Ids(color)
      BY <1>3 DEF IInv, PoppedLow, Pop, Placed
    <3> QED BY <1>1, <1>4, <2>2, <3>4, <3>5 DEF Ids
  <2> QED BY <2>1, <2>2
<1>8. /\ DOMAIN color_map' = DOMAIN color_map \cup {id}
      /\ color_map'[id] = newc
      /\ \A v \in DOMAIN color_map : color_map'[v] = color_map[v]
      /\ \A u, v \in DOMAIN color_map' : <<u, v>> \in graph => color_map'[u] # color_map'[v]
  <2>1. \A u, v \in DOMAIN color_map : <<u, v>> \in graph => color_map[u] # color_map[v]
    BY DEF IInv, PlacedSoFar, Pop
  <2> HIDE DEF id, c, newc
  <2>2. /\ id \in Vars /\ TypeOK /\ GraphCovers /\ id \notin DOMAIN color_map
        /\ \A u \in Placed(id) : color_map[u] # newc
    BY <1>1, <1>3, <1>7 DEF IInv
  <2>3. /\ DOMAIN WithColor(id, newc) = DOMAIN color_map \cup {id}
        /\ WithColor(id, newc)[id] = newc
        /\ \A v \in DOMAIN color_map : WithColor(id, newc)[v] = color_map[v]
        /\ \A u, v \in DOMAIN color_map \cup {id} :
             <<u, v>> \in graph => WithColor(id, newc)[u] # WithColor(id, newc)[v]
    BY <1>3, <2>1, <2>2, ApartExtends
  <2> QED BY <1>4, <2>3
<1> HIDE DEF id, c, newc
<1>9. \A v \in DOMAIN color_map' : color_map'[v] \in Ids(color')
  <2>1. \A v \in DOMAIN color_map : color_map[v] \in Ids(color)
    BY DEF IInv, PoppedLow, Pop
  <2>2. Ids(color) \subseteq Ids(color')
    <3>1. color \in Int /\ color' \in Int /\ color <= color'
      BY <1>1, <1>7
    <3> QED BY <3>1, IdsMonotone
  <2> QED BY <1>7, <1>8, <2>1, <2>2
<1>10. TypeOK'
  <2>1. color_map' \in [DOMAIN color_map' -> Int]
    <3>1. color_map' = [v \in DOMAIN color_map' |-> color_map'[v]]
      BY <1>4 DEF WithColor
    <3>2. \A v \in DOMAIN color_map' : color_map'[v] \in Int
      BY <1>9 DEF Ids
    <3> QED BY <3>1, <3>2
  <2>2. DOMAIN color_map' \subseteq Vars
    BY <1>1, <1>8 DEF IInv, TypeOK
  <2> QED BY <1>1, <1>2, <1>4, <1>5, <1>7, <2>1, <2>2 DEF IInv, TypeOK, Pop, Vars, Phases, history
<1>11. GraphCovers'
  BY GraphKept DEF IInv, Pop
<1>12. RemovedExact'
  <2>1. Stacked = Stacked' \cup {id} /\ id \notin Stacked'
    <3>1. 1 .. Len(stack) = (1 .. Len(stack')) \cup {Len(stack)} /\ Len(stack) \notin 1 .. Len(stack')
      BY <1>1, <1>2
    <3>2. \A p \in 1 .. Len(stack') : p \in 1 .. Len(stack) /\ stack'[p] = stack[p] /\ stack[p] # id
      BY <1>1, <1>2, <3>1 DEF IInv, RemovedExact, id
    <3>3. id \notin Stacked' /\ Stacked' \subseteq Stacked
      BY <3>2 DEF Stacked
    <3>4. Stacked \subseteq Stacked' \cup {id}
      BY <3>1, <3>2 DEF Stacked, id
    <3> QED BY <1>1, <3>3, <3>4
  <2>2. \A p, q \in 1 .. Len(stack') : stack'[p] = stack'[q] => p = q
    BY <1>1, <1>2 DEF IInv, RemovedExact
  <2> QED BY <1>1, <1>4, <1>5, <2>1, <2>2 DEF IInv, RemovedExact, Pop, Running
<1>13. PushedLow'
  <2> SUFFICES ASSUME NEW p \in 1 .. Len(stack')
               PROVE  Cardinality({u \in Vars \ (spills \cup {stack'[q] : q \in 1 .. p}) :
                                     <<stack'[p], u>> \in graph}) < k
    BY DEF PushedLow, Pop, Vars
  <2>1. p \in 1 .. Len(stack) /\ stack'[p] = stack[p]
    BY <1>1, <1>2
  <2>2. {stack'[q] : q \in 1 .. p} = {stack[q] : q \in 1 .. p}
    <3>1. \A q \in 1 .. p : stack'[q] = stack[q]
      BY <1>1, <1>2
    <3> QED BY <3>1
  <2> QED BY <2>1, <2>2 DEF IInv, PushedLow, Pop
<1>14. Passed' /\ PoppedLow'
  BY <1>4, <1>7, <1>9 DEF Passed, PoppedLow, Pop
<1>15. PlacedSoFar'
  <2>1. Slots' = 0
    BY <1>4 DEF Slots
  <2>2. DOMAIN color_map' = Vars' \ removed'
    BY <1>1, <1>3, <1>5, <1>8 DEF Vars, Pop
  <2>3. \A v \in DOMAIN color_map' : color_map'[v] \in Nat /\ color_map'[v] < k
    BY <1>1, <1>7, <1>9 DEF Ids
  <2>4. k' = k /\ graph' = graph
    BY DEF Pop
  <2> QED BY <1>8, <2>1, <2>2, <2>3, <2>4 DEF PlacedSoFar
<1>16. SpillJustified'
  BY <1>1, <1>4, <1>7, DismantlesKept DEF IInv, SpillJustified, Running, Pop
<1> QED BY <1>4, <1>10, <1>11, <1>12, <1>13, <1>14, <1>15, <1>16 DEF IInv

LEMMA PlacePreserves ==
  ASSUME IInv, NEW id \in Vars, Place(id)
  PROVE  IInv'
<1> DEFINE c    == try_add_reuse(id, k)
           newc == IF c # -1 THEN c ELSE color - 1
<1>1. /\ k \in Nat /\ k > 0 /\ color \in Int /\ 0 - color >= 0 /\ color <= 0
      /\ stack = <<>> /\ id \in spills /\ removed = spills
  BY DEF IInv, TypeOK, RemovedExact, PlacedSoFar, Slots, Place, Running, Stacked
<1>2. DOMAIN color_map = Vars \ removed
  BY DEF IInv, PlacedSoFar, Place
<1>3. /\ color_map' = WithColor(id, newc)
      /\ color' = IF c # -1 THEN color ELSE color - 1
      /\ pc' = "place"
  BY <1>2 DEF Place, Placed, StageThreeColors, NextSlot
<1>4. removed' = removed \ {id} /\ spills' = spills \ {id}
  BY DEF Place, RestoreSpill
<1>5. \/ c # -1 /\ c \in Ids(k) /\ \A u \in Placed(id) : color_map[u] # c
      \/ c = -1 /\ \A d \in Ids(k) : \E u \in Placed(id) : color_map[u] = d
  BY <1>1, TryAddReuse
<1>6. \A v \in DOMAIN color_map : color_map[v] \in Int /\ color_map[v] < k /\ color_map[v] >= color
  BY <1>1 DEF IInv, TypeOK, PlacedSoFar, Place, Slots
<1>7. /\ newc \in Int /\ newc < k /\ newc >= color' /\ color' \in Int /\ color' <= 0
      /\ \A u \in Placed(id) : color_map[u] # newc
  <2>1. CASE c # -1
    BY <1>1, <1>3, <1>5, <2>1 DEF Ids
  <2>2. CASE c = -1
    <3>1. \A u \in Placed(id) : color_map[u] \in Int /\ color_map[u] >= color
      BY <1>2, <1>6 DEF Placed
    <3> QED BY <1>1, <1>3, <2>2, <3>1
  <2> QED BY <2>1, <2>2
<1>8. /\ DOMAIN color_map' = DOMAIN color_map \cup {id}
      /\ color_map'[id] = newc
      /\ \A v \in DOMAIN color_map : color_map'[v] = color_map[v]
      /\ \A u, v \in DOMAIN color_map' : <<u, v>> \in graph => color_map'[u] # color_map'[v]
  <2>1. \A u, v \in DOMAIN color_map : <<u, v>> \in graph => color_map[u] # color_map[v]
    BY DEF IInv, PlacedSoFar, Place
  <2>2. /\ TypeOK /\ GraphCovers /\ id \notin DOMAIN color_map
        /\ \A u \in Placed(id) : color_map[u] # newc
    BY <1>1, <1>2, <1>7 DEF IInv
  <2> HIDE DEF c, newc
  <2>3. /\ DOMAIN WithColor(id, newc) = DOMAIN color_map \cup {id}
        /\ WithColor(id, newc)[id] = newc
        /\ \A v \in DOMAIN color_map : WithColor(id, newc)[v] = color_map[v]
        /\ \A u, v \in DOMAIN color_map \cup {id} :
             <<u, v>> \in graph => WithColor(id, newc)[u] # WithColor(id, newc)[v]
    BY <1>2, <2>1, <2>2, ApartExtends
  <2> QED BY <1>3, <2>3
<1>9. TypeOK'
  <2>1. color_map' \in [DOMAIN color_map' -> Int]
    <3>1. color_map' = [v \in DOMAIN color_map' |-> color_map'[v]]
      BY <1>3 DEF WithColor
    <3>2. \A v \in DOMAIN color_map' : color_map'[v] \in Int
      BY <1>6, <1>7, <1>8
    <3> QED BY <3>1, <3>2
  <2>2. DOMAIN color_map' \subseteq Vars
    BY <1>8 DEF IInv, TypeOK
  <2> HIDE DEF c, newc
  <2> QED BY <1>3, <1>4, <1>7, <2>1, <2>2 DEF IInv, TypeOK, Place, Vars, Phases, history
<1>10. GraphCovers'
  BY GraphKept DEF IInv, Place
<1>11. RemovedExact'
  BY <1>1, <1>3, <1>4 DEF IInv, RemovedExact, Place, Running, Stacked
<1>12. PushedLow' /\ Passed' /\ PoppedLow'
  BY <1>3 DEF PushedLow, Passed, PoppedLow
<1>13. SpillJustified'
  <2>1. Dismantles' <=> Dismantles
    BY DismantlesKept DEF Place
  <2>2. Dismantles => spills = {}
    BY DEF IInv, SpillJustified, Running, Place
  <2> QED BY <1>1, <1>3, <2>1, <2>2 DEF SpillJustified
<1>14. PlacedSoFar'
  <2>1. Slots = 0 - color /\ Slots' = 0 - color'
    BY <1>3 DEF Slots, Place
  <2>2. DOMAIN color_map' = Vars' \ removed'
    BY <1>1, <1>2, <1>4, <1>8 DEF Vars, Place
  <2>3. \A v \in DOMAIN color_map' : color_map'[v] < k /\ color_map'[v] >= color'
    BY <1>1, <1>3, <1>6, <1>7, <1>8
  <2>4. \A s \in 1 .. Slots' : \E v \in DOMAIN color_map' : color_map'[v] = -s
    <3> SUFFICES ASSUME NEW s \in 1 .. Slots'
                 PROVE  \E v \in DOMAIN color_map' : color_map'[v] = -s
      OBVIOUS
    <3>1. CASE s \in 1 .. Slots
      <4>1. PICK v \in DOMAIN color_map : color_map[v] = -s
        BY <3>1 DEF IInv, PlacedSoFar, Place
      <4> QED BY <1>8, <4>1
    <3>2. CASE s \notin 1 .. Slots
      <4>1. s = Slots + 1 /\ c = -1
        BY <1>1, <1>3, <2>1, <3>2
      <4>2. color_map'[id] = color - 1
        BY <1>8, <4>1
      <4>3. -s = color - 1
        BY <1>1, <2>1, <4>1
      <4> QED BY <1>8, <4>2, <4>3
    <3> QED BY <3>1, <3>2
  <2>5. \A u, v \in DOMAIN color_map' : color_map'[u] < 0 /\ color_map'[u] = color_map'[v] => u = v
    <3>1. \A u, v \in DOMAIN color_map : color_map[u] < 0 /\ color_map[u] = color_map[v] => u = v
      BY DEF IInv, PlacedSoFar, Place
    <3>2. newc < 0 => \A v \in DOMAIN color_map : color_map[v] # newc
      BY <1>1, <1>5, <1>6 DEF Ids
    <3> HIDE DEF c, newc
    <3> QED BY <1>8, <3>1, <3>2
  <2>6. ASSUME NEW v \in DOMAIN color_map', color_map'[v] < 0, NEW d \in Ids(k)
        PROVE  \E u \in DOMAIN color_map' : <<v, u>> \in graph /\ color_map'[u] = d
    <3>1. CASE v = id
      <4>1. c = -1
        BY <1>5, <1>8, <2>6, <3>1 DEF Ids
      <4>2. PICK u \in Placed(id) : color_map[u] = d
        BY <1>5, <4>1
      <4>3. u \in DOMAIN color_map /\ <<id, u>> \in graph
        BY <1>2 DEF Placed
      <4> QED BY <1>8, <3>1, <4>2, <4>3
    <3>2. CASE v # id
      <4>1. v \in DOMAIN color_map /\ color_map[v] < 0
        BY <1>8, <2>6, <3>2
      <4>2. PICK u \in DOMAIN color_map : <<v, u>> \in graph /\ color_map[u] = d
        BY <4>1 DEF IInv, PlacedSoFar, Place
      <4> QED BY <1>8, <4>2
    <3> QED BY <3>1, <3>2
  <2>7. Slots' >= 0 /\ k' = k /\ graph' = graph
    <3>1. color' \in Int /\ color' <= 0 /\ Slots' = 0 - color'
      BY <1>7, <2>1
    <3>2. \A x \in Int : x <= 0 => 0 - x >= 0
      OBVIOUS
    <3>3. Slots' >= 0
      BY <3>1, <3>2
    <3> QED BY <3>3 DEF Place
  <2>8. \A v \in DOMAIN color_map' : color_map'[v] < k /\ color_map'[v] >= -Slots'
    BY <1>6, <1>7, <1>8, <2>1, <2>3
  <2> HIDE DEF c, newc
  <2> QED BY <1>8, <2>2, <2>4, <2>5, <2>6, <2>7, <2>8 DEF PlacedSoFar
<1> QED BY <1>3, <1>9, <1>10, <1>11, <1>12, <1>13, <1>14 DEF IInv

\* Every iteration of a call preserves it.
LEMMA IterationPreserves ==
  ASSUME IInv, Step
  PROVE  IInv'
<1>1. ASSUME NEW id \in Vars, Place(id) PROVE IInv'
  BY <1>1, PlacePreserves
<1> QED BY <1>1, ScanPushPreserves, ScanKeepPreserves, NextPassPreserves, PickSpillPreserves,
           StageTwoPreserves, PopPreserves, StageThreePreserves, ReturnPreserves DEF Step

LEMMA StutterPreserves ==
  ASSUME IInv, UNCHANGED vars
  PROVE  IInv'
<1> USE DEF vars, object, locals, history
<1>1. TypeOK' /\ pc' # "failed"
  BY DEF IInv, TypeOK, Vars
<1>2. GraphCovers' /\ RemovedExact'
  BY DEF IInv, GraphCovers, RemovedExact, Stacked
<1>3. PushedLow' /\ Passed' /\ PoppedLow'
  BY DEF IInv, PushedLow, Passed, Neighbours, PoppedLow, Vars
<1>4. PlacedSoFar'
  <2>1. Slots' = Slots
    BY DEF Slots
  <2> QED BY <2>1 DEF IInv, PlacedSoFar, Vars
<1>5. SpillJustified'
  BY DismantlesKept DEF IInv, SpillJustified
<1> QED BY <1>1, <1>2, <1>3, <1>4, <1>5 DEF IInv

LEMMA StepPreserves ==
  ASSUME IInv, [Next]_vars
  PROVE  IInv'
<1>1. ASSUME NEW f \in Functions, Generate(f) PROVE IInv'
  BY <1>1, GeneratePreserves
<1>2. ASSUME NEW regs \in Ks, Enter(regs) PROVE IInv'
  BY <1>2, KsAssumption, EnterPreserves
<1> QED BY <1>1, <1>2, IterationPreserves, StutterPreserves DEF Next

-----------------------------------------------------------------------------
(***************************************************************************)
(* The theorems about InterfGraph.                                         *)
(***************************************************************************)

\* The inductive invariant holds in every reachable state.
THEOREM Invariance == Spec => []IInv
<1>1. Init => IInv
  BY InitInvariant
<1>2. IInv /\ [Next]_vars => IInv'
  BY StepPreserves
<1> QED BY <1>1, <1>2, PTL DEF Spec

\* The members of interf_graph and the locals of color() keep their types.
THEOREM TypeCorrect == Spec => []TypeOK
<1>1. IInv => TypeOK
  BY DEF IInv
<1> QED BY <1>1, Invariance, PTL

\* No internal error is thrown for any graph and any number of registers but 0.
THEOREM NeverFails == Spec => []NoInternalError
<1>1. IInv => NoInternalError
  BY DEF IInv, NoInternalError
<1> QED BY <1>1, Invariance, PTL

\* Variables that are live together never share a register or a stack slot.
THEOREM LiveStayApart == Spec => []LiveApart
<1>1. IInv => LiveApart
  <2> SUFFICES ASSUME IInv, pc = "colored",
                      NEW s \in live, NEW u \in s, NEW v \in s, u # v
               PROVE  color_map[u] # color_map[v]
    BY DEF LiveApart
  <2>1. u \in Vars /\ v \in Vars /\ <<u, v>> \in graph
    BY DEF IInv, TypeOK, GraphCovers
  <2>2. DOMAIN color_map = Vars
    BY DEF IInv, PlacedSoFar, RemovedExact, Running, Stacked
  <2> QED BY <2>1, <2>2 DEF IInv, PlacedSoFar
<1> QED BY <1>1, Invariance, PTL

\* can_use[] is never indexed beyond its end.
THEOREM IndexedInBounds == Spec => []ColorsInBounds
<1>1. IInv => ColorsInBounds
  BY DEF IInv, ColorsInBounds, PoppedLow, PlacedSoFar, Ids, TypeOK
<1> QED BY <1>1, Invariance, PTL

\* The slots handed out are the ones counted, and none is handed out twice.
THEOREM SlotsAreCounted == Spec => []SlotsCounted
<1>1. IInv => SlotsCounted
  <2> SUFFICES ASSUME IInv, pc = "colored" PROVE SlotsCounted
    BY DEF SlotsCounted
  <2>1. DOMAIN color_map = Vars /\ Slots = n_spills
    BY DEF IInv, PlacedSoFar, RemovedExact, Running, Stacked, Slots
  <2>2. \A v \in Vars : color_map[v] \in Int /\ n_spills \in Nat
    BY <2>1 DEF IInv, TypeOK
  <2> QED BY <2>1, <2>2 DEF IInv, PlacedSoFar, SlotsCounted
<1> QED BY <1>1, Invariance, PTL

\* Stack slots are used only for graphs that no order of removal takes apart.
THEOREM SpillsAreNeeded == Spec => []NoNeedlessSpill
<1>1. IInv => NoNeedlessSpill
  BY DEF IInv, NoNeedlessSpill, SpillJustified
<1> QED BY <1>1, Invariance, PTL

\* The object is ready for another generate() or color() whenever one is legal.
THEOREM AlwaysReusable == Spec => []Reusable
<1>1. IInv => Reusable
  BY DEF IInv, Reusable, RemovedExact, Stacked, Running
<1> QED BY <1>1, Invariance, PTL

-----------------------------------------------------------------------------
(***************************************************************************)
(* interf_graph implements GraphColoring.                                  *)
(***************************************************************************)

\* What color() returns is a placement in the sense of the contract.
LEMMA ReturnsPlacement ==
  ASSUME IInv, Return
  PROVE  Contract!IsPlacement(color_map, graph, n_vars, k, 0 - color)
<1>1. /\ DOMAIN color_map = Ids(n_vars) /\ Slots = 0 - color /\ color \in Int
      /\ Contract!Ids(n_vars) = Ids(n_vars) /\ Contract!Ids(k) = Ids(k)
      /\ pc = "place"
  BY DEF IInv, TypeOK, PlacedSoFar, RemovedExact, Stacked, Slots, Vars, Contract!Ids, Ids, Return
<1>2. color_map \in [Ids(n_vars) -> Int] /\ graph \subseteq Ids(n_vars) \X Ids(n_vars)
  BY <1>1 DEF IInv, TypeOK, Vars
<1>3. Contract!Apart(color_map, graph)
  <2> SUFFICES ASSUME NEW e \in graph PROVE color_map[e[1]] # color_map[e[2]]
    BY DEF Contract!Apart
  <2>1. PICK u \in Ids(n_vars), v \in Ids(n_vars) : e = <<u, v>>
    BY <1>2
  <2>2. color_map[u] # color_map[v]
    BY <1>1, <2>1 DEF IInv, PlacedSoFar
  <2> QED BY <2>1, <2>2
<1>4. Contract!SlotsExact(color_map, n_vars, 0 - color)
  <2>1. \A v \in Ids(n_vars) : color_map[v] < 0 => -color_map[v] <= 0 - color
    BY <1>1, <1>2 DEF IInv, PlacedSoFar
  <2> QED BY <1>1, <1>2, <2>1 DEF IInv, PlacedSoFar, Contract!SlotsExact
<1>5. Contract!SpillsForced(color_map, graph, n_vars, k)
  <2>1. \A v \in Ids(n_vars) : color_map[v] < 0 =>
          \A c \in Ids(k) : \E u \in Ids(n_vars) : <<v, u>> \in graph /\ color_map[u] = c
    BY <1>1 DEF IInv, PlacedSoFar
  <2> QED BY <1>1, <2>1, Zenon DEF Contract!SpillsForced
<1>6. \A v \in Ids(n_vars) : color_map[v] < k
  BY <1>1 DEF IInv, PlacedSoFar
<1> QED BY <1>1, <1>2, <1>3, <1>4, <1>5, <1>6 DEF Contract!IsPlacement, Contract!IsAssignment

\* Every step is a step of the contract or leaves what it sees alone.
LEMMA StepSimulation ==
  ASSUME IInv, IInv', [Next]_vars
  PROVE  [Contract!Next]_(Contract!abstractVars)
<1> DEFINE status == IF pc \in Running THEN "busy" ELSE pc
           shown  == IF pc = "colored" THEN color_map ELSE EmptyMap
<1> USE DEF Contract!abstractVars
<1>1. ASSUME NEW f \in Functions, Generate(f) PROVE Contract!Generate(f)
  <2>1. Contract!Interference(f) = Edges(f) /\ Contract!Ids(f.n_vars) = Ids(f.n_vars)
    BY DEF Contract!Interference, Contract!Ids, Edges, Ids
  <2>2. /\ Edges(f) \subseteq graph'
        /\ graph' \subseteq Edges(f) \cup graph
        /\ graph' \subseteq Ids(f.n_vars) \X Ids(f.n_vars)
    BY <1>1 DEF Generate, Edges
  <2>3. status # "busy" /\ status' = "ready" /\ shown' = EmptyMap
    BY <1>1 DEF Generate, Running, IInv, TypeOK, Phases
  <2> QED BY <1>1, <2>1, <2>2, <2>3 DEF Contract!Generate, Generate, EmptyMap
<1>2. ASSUME NEW regs \in Ks, Enter(regs) PROVE Contract!Call(regs)
  BY <1>2 DEF Contract!Call, Enter, Running, EmptyMap, object, history
<1>3. ASSUME Return PROVE Contract!Return
  <2>1. Contract!IsPlacement(color_map, graph, n_vars, k, 0 - color)
    BY <1>3, ReturnsPlacement
  <2>2. n_spills' = 0 - color
    BY <1>3 DEF IInv, TypeOK, Return
  <2>3. status = "busy" /\ status' = "colored" /\ shown' = color_map
    BY <1>3 DEF Return, Running
  <2> QED BY <1>3, <2>1, <2>2, <2>3 DEF Contract!Return, Return, history
<1>4. ASSUME pc \in Running, pc' \in Running,
             UNCHANGED <<n_vars, graph, n_spills, k, generated>>
      PROVE  UNCHANGED Contract!abstractVars
  BY <1>4 DEF Running
<1>5. ASSUME ScanPush \/ ScanKeep \/ NextPass \/ PickSpill \/ StageTwo \/ Pop \/ StageThree
               \/ \E id \in Vars : Place(id)
      PROVE  UNCHANGED Contract!abstractVars
  <2>1. pc' # "failed"
    BY DEF IInv
  <2>2. /\ pc \in Running /\ pc' \in Running
        /\ UNCHANGED <<n_vars, graph, n_spills, k, generated>>
    BY <1>5, <2>1 DEF ScanPush, ScanKeep, NextPass, PickSpill, StageTwo, Pop, StageThree,
       Place, Running, object, history
  <2> QED BY <1>4, <2>2
<1>6. CASE UNCHANGED vars
  BY <1>6 DEF vars, object, locals, history
<1> QED BY <1>1, <1>2, <1>3, <1>5, <1>6 DEF Next, Step, Contract!Next

\* Whatever color() does inside, its callers see the contract only.
THEOREM Implements == Spec => Refines
<1>1. Init => Contract!Init
  BY DEF Init, Contract!Init, Running, EmptyMap
<1>2. IInv /\ IInv' /\ [Next]_vars => [Contract!Next]_(Contract!abstractVars)
  BY StepSimulation
<1> QED BY <1>1, <1>2, Invariance, PTL DEF Spec, Refines, Contract!Spec

-----------------------------------------------------------------------------
(***************************************************************************)
(* The inductive invariant.                                                *)
(***************************************************************************)

\* The registers: those that are left, in their order, and the load/store
\* register, which is none of them.
Registers ==
  /\ reg_avail \in Seq(Nat) /\ Len(reg_avail) <= Len(InitialRegs)
  /\ \A p \in 1 .. Len(reg_avail) : reg_avail[p] = InitialRegs[p]
  /\ temp_reg_idx # -1 =>
       \E p \in Len(reg_avail) + 1 .. Len(InitialRegs) : temp_reg_idx = InitialRegs[p]

\* What the mapping m owes the code generator.
Sound(m) ==
  /\ Vars \subseteq DOMAIN m /\ DOMAIN m \subseteq Nat
  /\ \A v \in DOMAIN m : m[v] \in Int /\ m[v] < Len(reg_avail)
  /\ \A v \in DOMAIN m : m[v] < 0 => v \in Vars /\ -m[v] \in 1 .. n_spills
  /\ \A u, v \in Vars : <<u, v>> \in graph => m[u] # m[v]
  /\ \A s \in 1 .. n_spills : \E v \in Vars : m[v] = -s
  /\ \A u, v \in Vars : m[u] < 0 /\ m[u] = m[v] => u = v

\* Where compile_expression() is, and where the call of color() is.
Calls ==
  /\ stage = "generated" => pc = "ready"
  /\ stage \in {"first", "second"} => pc \in Running \cup {"colored"}
  /\ stage \in {"first", "second", "colored", "compiled"} =>
       k = Len(reg_avail) /\ k > 0
  /\ stage = "second" => temp_reg_idx # -1
  /\ stage \in {"colored", "compiled"} =>
       /\ pc = "colored" /\ Sound(mapping)
       /\ n_spills > 0 => temp_reg_idx # -1

MappingTyped == \A v \in DOMAIN mapping : v \in Nat /\ mapping[v] \in Int

AInv == IInv /\ stage \in Stages /\ Registers /\ Calls /\ MappingTyped

-----------------------------------------------------------------------------
(***************************************************************************)
(* Lemmas.                                                                 *)
(***************************************************************************)

\* What color() returns is sound when it was called with all that is left.
LEMMA ColoringSound ==
  ASSUME IInv, pc = "colored", k = Len(reg_avail)
  PROVE  Sound(color_map)
<1>1. DOMAIN color_map = Vars /\ Slots = n_spills /\ Vars \subseteq Nat /\ n_spills \in Nat
  BY DEF IInv, TypeOK, PlacedSoFar, RemovedExact, Stacked, Slots, Vars, Ids, Running
<1>2. color_map \in [Vars -> Int]
  BY <1>1 DEF IInv, TypeOK
<1>3. \A v \in Vars : color_map[v] < k /\ color_map[v] >= -n_spills
  BY <1>1 DEF IInv, PlacedSoFar
<1>4. \A u, v \in Vars : <<u, v>> \in graph => color_map[u] # color_map[v]
  BY <1>1 DEF IInv, PlacedSoFar
<1>5. /\ \A s \in 1 .. n_spills : \E v \in Vars : color_map[v] = -s
      /\ \A u, v \in Vars : color_map[u] < 0 /\ color_map[u] = color_map[v] => u = v
  BY <1>1 DEF IInv, PlacedSoFar
<1> QED BY <1>1, <1>2, <1>3, <1>4, <1>5 DEF Sound

\* The swap keeps a sound mapping sound, and its slots where they are.
LEMMA SwapSound ==
  ASSUME Sound(mapping), Len(reg_avail) \in Nat \ {0}, n_spills \in Nat,
         NEW id \in Nat
  PROVE  /\ Sound(try_swap_colors(mapping, id, 0))
         /\ DOMAIN try_swap_colors(mapping, id, 0) = DOMAIN mapping \cup {id}
         /\ \A v \in DOMAIN mapping :
              mapping[v] < 0 \/ try_swap_colors(mapping, id, 0)[v] < 0 =>
                try_swap_colors(mapping, id, 0)[v] = mapping[v]
<1> DEFINE known == WithKey(mapping, id)
           old   == known[id]
           new   == try_swap_colors(mapping, id, 0)
<1>1. /\ DOMAIN known = DOMAIN mapping \cup {id}
      /\ \A v \in DOMAIN mapping : known[v] = mapping[v]
      /\ id \notin DOMAIN mapping => known[id] = 0
  BY DEF WithKey
<1>2. Sound(known)
  BY <1>1 DEF Sound
<1>3. CASE old < 0
  <2>1. new = known
    BY <1>3 DEF try_swap_colors, OnStack
  <2> QED BY <1>1, <1>2, <2>1
<1>4. CASE ~(old < 0)
  <2>1. new = Exchanged(known, old, 0)
    BY <1>4 DEF try_swap_colors, OnStack
  <2>2. /\ DOMAIN new = DOMAIN known
        /\ \A v \in DOMAIN known :
             new[v] = IF known[v] = old THEN 0 ELSE IF known[v] = 0 THEN old ELSE known[v]
    BY <2>1 DEF Exchanged
  <2>3. old \in Int /\ old >= 0 /\ old < Len(reg_avail)
    BY <1>1, <1>2, <1>4 DEF Sound
  <2>4. \A v \in DOMAIN known :
          /\ new[v] \in Int /\ new[v] < Len(reg_avail)
          /\ new[v] < 0 \/ known[v] < 0 => new[v] = known[v]
    BY <1>2, <2>2, <2>3 DEF Sound
  <2>5. \A u, v \in DOMAIN known : known[u] # known[v] => new[u] # new[v]
    BY <2>2
  <2>6. ASSUME NEW s \in 1 .. n_spills
        PROVE  \E v \in Vars : new[v] = -s
    <3>1. PICK v \in Vars : known[v] = -s
      BY <1>2 DEF Sound
    <3>2. v \in DOMAIN known /\ known[v] < 0
      BY <1>2, <3>1 DEF Sound
    <3> QED BY <2>4, <3>1, <3>2
  <2>7. ASSUME NEW u \in Vars, NEW v \in Vars, new[u] < 0, new[u] = new[v]
        PROVE  u = v
    <3>1. u \in DOMAIN known /\ v \in DOMAIN known
      BY <1>2 DEF Sound
    <3>2. known[u] = new[u] /\ known[v] = new[v]
      BY <2>4, <2>7, <3>1
    <3> QED BY <1>2, <2>7, <3>2 DEF Sound
  <2>8. Sound(new)
    <3> HIDE DEF new, known
    <3> QED BY <1>2, <2>2, <2>4, <2>5, <2>6, <2>7 DEF Sound
  <2> QED BY <1>1, <2>2, <2>4, <2>8
<1> QED BY <1>3, <1>4

\* Taking out the last register keeps the order of the others.
LEMMA ReserveRegisters ==
  ASSUME Registers, Len(reg_avail) > 0,
         temp_reg_idx' = reg_avail[Len(reg_avail)], reg_avail' = RegsLeft
  PROVE  /\ Registers' /\ temp_reg_idx' # -1
         /\ Len(reg_avail') = Len(reg_avail) - 1
<1>1. reg_avail \in Seq(Nat) /\ Len(reg_avail) \in Nat \ {0}
  BY DEF Registers
<1>2. /\ reg_avail' \in Seq(Nat) /\ Len(reg_avail') = Len(reg_avail) - 1
      /\ \A p \in 1 .. Len(reg_avail) - 1 : reg_avail'[p] = reg_avail[p]
  BY <1>1, AllButLast DEF RegsLeft
<1>3. temp_reg_idx' = InitialRegs[Len(reg_avail)] /\ temp_reg_idx' \in Nat
  BY <1>1 DEF Registers
<1>4. Len(InitialRegs) \in Nat
  BY InitialRegsAssumption
<1> QED BY <1>1, <1>2, <1>3, <1>4 DEF Registers

\* Sound depends on what the object and the registers are, and on no more.
LEMMA SoundKept ==
  ASSUME Sound(mapping), UNCHANGED <<n_vars, graph, n_spills, reg_avail, mapping>>
  PROVE  Sound(mapping)'
BY DEF Sound, Vars

\* Calls of color() end up running, or throwing when there is no register.
LEMMA EnterPhase ==
  ASSUME IInv, NEW regs \in Nat, Enter(regs)
  PROVE  /\ IInv' /\ k' = regs
         /\ pc' # "threw" => pc' \in Running /\ k' > 0
BY EnterPreserves DEF Enter, Running

-----------------------------------------------------------------------------
(***************************************************************************)
(* The actions.                                                            *)
(***************************************************************************)

LEMMA AllocInitInvariant ==
  ASSUME AllocInit
  PROVE  AInv
<1> USE DEF AllocInit
<1>1. IInv
  BY InitInvariant
<1>2. Registers
  BY InitialRegsAssumption DEF Registers
<1> QED BY <1>1, <1>2 DEF AInv, Calls, MappingTyped, Stages, EmptyMap

LEMMA StartCompilePreserves ==
  ASSUME AInv, NEW f \in Functions, StartCompile(f)
  PROVE  AInv'
<1> USE DEF StartCompile
<1>1. IInv' /\ pc' = "ready"
  BY GeneratePreserves DEF AInv, Generate
<1>2. Registers' /\ MappingTyped'
  BY DEF AInv, Registers, MappingTyped
<1> QED BY <1>1, <1>2 DEF AInv, Calls, Stages

LEMMA FirstColorPreserves ==
  ASSUME AInv, FirstColor
  PROVE  AInv'
<1> USE DEF FirstColor
<1>1. Len(reg_avail) \in Nat
  BY DEF AInv, Registers
<1>2. /\ IInv' /\ k' = Len(reg_avail)
      /\ pc' # "threw" => pc' \in Running /\ k' > 0
  BY <1>1, EnterPhase DEF AInv
<1>3. Registers' /\ MappingTyped'
  BY DEF AInv, Registers, MappingTyped
<1> QED BY <1>2, <1>3 DEF AInv, Calls, Stages

LEMMA ColoringPreserves ==
  ASSUME AInv, Coloring
  PROVE  AInv'
<1> USE DEF Coloring, allocator
<1>1. IInv'
  BY IterationPreserves DEF AInv
<1>2. k' = k /\ pc' \in Running \cup {"colored", "failed"}
  BY DEF Step, ScanPush, ScanKeep, NextPass, PickSpill, StageTwo, Pop, StageThree, Place, Return,
         Running
<1>3. pc' # "failed"
  BY <1>1 DEF IInv
<1>4. Registers' /\ MappingTyped'
  BY DEF AInv, Registers, MappingTyped
<1> QED BY <1>1, <1>2, <1>3, <1>4 DEF AInv, Calls, Stages

LEMMA KeepPreserves ==
  ASSUME AInv, KeepFirst \/ KeepSecond
  PROVE  AInv'
<1> USE DEF KeepFirst, KeepSecond
<1>1. /\ pc = "colored" /\ k = Len(reg_avail) /\ k > 0
      /\ n_spills > 0 => temp_reg_idx # -1
  BY DEF AInv, Calls
<1>2. Sound(color_map)
  BY <1>1, ColoringSound DEF AInv
<1>3. UNCHANGED <<n_vars, graph, n_spills, pc, k, reg_avail, temp_reg_idx>> /\ mapping' = color_map
  BY DEF vars, object, locals
<1>4. Sound(mapping)'
  BY <1>2, <1>3 DEF Sound, Vars
<1>5. IInv'
  BY StutterPreserves DEF AInv
<1>6. Registers' /\ MappingTyped'
  BY <1>2, <1>3 DEF AInv, Registers, MappingTyped, Sound
<1> QED BY <1>1, <1>3, <1>4, <1>5, <1>6 DEF AInv, Calls, Stages

LEMMA ReservePreserves ==
  ASSUME AInv, Reserve
  PROVE  AInv'
<1> USE DEF Reserve
<1>1. pc = "colored" /\ k = Len(reg_avail) /\ Len(reg_avail) > 0 /\ Len(reg_avail) \in Nat
  BY DEF AInv, Calls, Registers
<1>2. /\ Registers' /\ temp_reg_idx' # -1
      /\ Len(reg_avail') = Len(reg_avail) - 1
  BY <1>1, ReserveRegisters DEF AInv
<1>3. SecondCount \in Nat /\ SecondCount = Len(reg_avail')
  BY <1>1, <1>2 DEF SecondCount
<1>4. /\ IInv' /\ k' = SecondCount
      /\ pc' # "threw" => pc' \in Running /\ k' > 0
  BY <1>3, EnterPhase DEF AInv
<1>5. MappingTyped'
  <2>1. Sound(color_map)
    BY <1>1, ColoringSound DEF AInv
  <2> QED BY <2>1 DEF MappingTyped, Sound
<1> QED BY <1>2, <1>3, <1>4, <1>5 DEF AInv, Calls, Stages

\* The swap, with what it leaves alone.
LEMMA SwapPreserves ==
  ASSUME AInv, SwapColors
  PROVE  /\ AInv'
         /\ \A v \in DOMAIN mapping : mapping[v] < 0 \/ mapping'[v] < 0 => mapping'[v] = mapping[v]
<1> USE DEF SwapColors
<1>1. /\ pc = "colored" /\ k = Len(reg_avail) /\ k > 0 /\ Sound(mapping)
      /\ Len(reg_avail) \in Nat /\ n_spills \in Nat
      /\ n_spills > 0 => temp_reg_idx # -1
  BY DEF AInv, Calls, Registers, IInv, TypeOK
<1> HIDE DEF SwapColors
<1>2. /\ Sound(try_swap_colors(mapping, 3, 0))
      /\ \A v \in DOMAIN mapping :
           mapping[v] < 0 \/ try_swap_colors(mapping, 3, 0)[v] < 0 =>
             try_swap_colors(mapping, 3, 0)[v] = mapping[v]
  <2>1. Len(reg_avail) \in Nat \ {0} /\ 3 \in Nat
    BY <1>1
  <2> QED BY <1>1, <2>1, SwapSound
<1> USE DEF SwapColors
<1>3. UNCHANGED <<n_vars, graph, n_spills, pc, k, reg_avail, temp_reg_idx>>
  BY DEF vars, object, locals
<1>4. Sound(mapping)'
  BY <1>2, <1>3 DEF Sound, Vars
<1>5. IInv'
  BY StutterPreserves DEF AInv
<1>6. Registers' /\ MappingTyped'
  BY <1>2, <1>3 DEF AInv, Registers, MappingTyped, Sound
<1> QED BY <1>1, <1>2, <1>3, <1>4, <1>5, <1>6 DEF AInv, Calls, Stages

LEMMA AllocStutterPreserves ==
  ASSUME AInv, UNCHANGED allVars
  PROVE  AInv'
<1>1. UNCHANGED vars /\ UNCHANGED allocator
  BY DEF allVars
<1>2. IInv'
  BY <1>1, StutterPreserves DEF AInv
<1>3. UNCHANGED <<n_vars, graph, n_spills, pc, k, stage, reg_avail, temp_reg_idx, mapping>>
  BY <1>1 DEF vars, object, locals, allocator
<1>4. Registers' /\ MappingTyped' /\ stage' \in Stages
  BY <1>3 DEF AInv, Registers, MappingTyped
<1>5. stage \in {"colored", "compiled"} => Sound(mapping)'
  BY <1>3, SoundKept DEF AInv, Calls
<1> QED BY <1>2, <1>3, <1>4, <1>5 DEF AInv, Calls

LEMMA AllocStepPreserves ==
  ASSUME AInv, [AllocNext]_allVars
  PROVE  AInv'
<1>1. ASSUME NEW f \in Functions, StartCompile(f) PROVE AInv'
  BY <1>1, StartCompilePreserves
<1> QED BY <1>1, FirstColorPreserves, ColoringPreserves, KeepPreserves, ReservePreserves,
           SwapPreserves, AllocStutterPreserves DEF AllocNext, Compiling

-----------------------------------------------------------------------------
(***************************************************************************)
(* The theorems about RegAlloc.                                            *)
(***************************************************************************)

\* What holds between the steps of compile_expression(); with it, color()
\* throws no internal error however it is called from there.
THEOREM AllocInvariance == AllocSpec => [](AInv /\ NoInternalError)
<1>1. AllocInit => AInv
  BY AllocInitInvariant
<1>2. AInv /\ [AllocNext]_allVars => AInv'
  BY AllocStepPreserves
<1>3. AInv => NoInternalError
  BY DEF AInv, IInv, NoInternalError
<1> QED BY <1>1, <1>2, <1>3, PTL DEF AllocSpec

\* reg_avail is what is left of the initial list when registers are taken
\* from its end, whatever functions were compiled.
THEOREM AllocTypeCorrect == AllocSpec => []AllocTypeOK
<1>1. AInv => AllocTypeOK
  <2> SUFFICES ASSUME AInv PROVE AllocTypeOK
    OBVIOUS
  <2>1. Len(InitialRegs) \in Nat /\ Len(reg_avail) \in Nat /\ Len(reg_avail) <= Len(InitialRegs)
    BY InitialRegsAssumption DEF AInv, Registers
  <2>2. reg_avail = SubSeq(InitialRegs, 1, Len(reg_avail))
    <3> DEFINE front == SubSeq(InitialRegs, 1, Len(reg_avail))
    <3>1. /\ front \in Seq(Nat) /\ Len(front) = Len(reg_avail)
          /\ \A p \in 1 .. Len(reg_avail) : front[p] = InitialRegs[p]
      BY <2>1, InitialRegsAssumption
    <3>2. \A p \in 1 .. Len(reg_avail) : reg_avail[p] = InitialRegs[p]
      BY DEF AInv, Registers
    <3>3. reg_avail \in Seq(Nat)
      BY DEF AInv, Registers
    <3> HIDE DEF front
    <3> QED BY <3>1, <3>2, <3>3, SeqEqual
  <2>3. temp_reg_idx \in {InitialRegs[p] : p \in 1 .. Len(InitialRegs)} \cup {-1}
    BY <2>1 DEF AInv, Registers
  <2> QED BY <2>1, <2>2, <2>3 DEF AInv, AllocTypeOK, MappingTyped
<1> QED BY <1>1, AllocInvariance, PTL

\* Every colour the code generator looks up has a register.
THEOREM ColorsHaveRegisters == AllocSpec => []RegistersExist
<1>1. AInv => RegistersExist
  BY DEF AInv, RegistersExist, Calls, Sound, Registers
<1> QED BY <1>1, AllocInvariance, PTL

\* The load/store register exists when it is needed, and no variable has it.
THEOREM TempIsExclusive == AllocSpec => []TempExclusive
<1>1. AInv => TempExclusive
  <2> SUFFICES ASSUME AInv, stage = "compiled", NEW w \in Vars, mapping[w] < 0
               PROVE  /\ temp_reg_idx # -1
                      /\ \A v \in Vars : mapping[v] >= 0 => RegOf(mapping[v]) # temp_reg_idx
    BY DEF TempExclusive
  <2>1. Sound(mapping) /\ n_spills \in Nat
    BY DEF AInv, Calls, IInv, TypeOK
  <2>2. temp_reg_idx # -1
    BY <2>1 DEF AInv, Calls, Sound
  <2>3. PICK p \in Len(reg_avail) + 1 .. Len(InitialRegs) : temp_reg_idx = InitialRegs[p]
    BY <2>2 DEF AInv, Registers
  <2>4. ASSUME NEW v \in Vars, mapping[v] >= 0
        PROVE  RegOf(mapping[v]) # temp_reg_idx
    <3>1. mapping[v] + 1 \in 1 .. Len(reg_avail) /\ Len(reg_avail) \in Nat
      BY <2>1, <2>4 DEF Sound, AInv, Registers
    <3>2. RegOf(mapping[v]) = InitialRegs[mapping[v] + 1]
      BY <3>1 DEF RegOf, AInv, Registers
    <3>3. Len(reg_avail) <= Len(InitialRegs) /\ Len(InitialRegs) \in Nat
      BY InitialRegsAssumption DEF AInv, Registers
    <3>4. /\ mapping[v] + 1 \in 1 .. Len(InitialRegs) /\ p \in 1 .. Len(InitialRegs)
          /\ mapping[v] + 1 # p
      BY <3>1, <3>3
    <3>5. InitialRegs[mapping[v] + 1] # InitialRegs[p]
      BY <3>4, InitialRegsAssumption
    <3> QED BY <2>3, <3>2, <3>5
  <2> QED BY <2>2, <2>4
<1> QED BY <1>1, AllocInvariance, PTL

\* No two variables that are live together share a register or a slot, and
\* the frame has every slot, also after the swap.
THEOREM MappingStaysApart == AllocSpec => []MappingApart
<1>1. AInv => MappingApart
  <2> SUFFICES ASSUME AInv, stage = "compiled"
               PROVE  /\ \A s \in live : \A u, v \in s : u # v => mapping[u] # mapping[v]
                      /\ \A v \in Vars : mapping[v] < 0 => -mapping[v] \in 1 .. n_spills
    BY DEF MappingApart
  <2>1. Sound(mapping)
    BY DEF AInv, Calls
  <2>2. ASSUME NEW s \in live, NEW u \in s, NEW v \in s, u # v
        PROVE  mapping[u] # mapping[v]
    <3>1. u \in Vars /\ v \in Vars
      BY DEF AInv, IInv, TypeOK
    <3>2. <<u, v>> \in graph
      BY <2>2 DEF AInv, IInv, GraphCovers
    <3> QED BY <2>1, <3>1, <3>2 DEF Sound
  <2>3. \A v \in Vars : mapping[v] < 0 => -mapping[v] \in 1 .. n_spills
    BY <2>1 DEF Sound
  <2> QED BY <2>2, <2>3
<1> QED BY <1>1, AllocInvariance, PTL

\* The swap leaves the slots alone.
THEOREM SlotsAreKept == AllocSpec => SlotsStay
<1>1. AInv /\ [AllocNext]_allVars =>
        [stage = "colored" /\ stage' = "compiled" =>
           \A v \in DOMAIN mapping : mapping[v] < 0 \/ mapping'[v] < 0 => mapping'[v] = mapping[v]]_allVars
  <2> SUFFICES ASSUME AInv, AllocNext, stage = "colored", stage' = "compiled"
               PROVE  \A v \in DOMAIN mapping :
                        mapping[v] < 0 \/ mapping'[v] < 0 => mapping'[v] = mapping[v]
    OBVIOUS
  <2>1. SwapColors
    BY DEF AllocNext, Compiling, StartCompile, FirstColor, Coloring, KeepFirst, Reserve, KeepSecond
  <2> QED BY <2>1, SwapPreserves
<1> QED BY <1>1, AllocInvariance, PTL DEF AllocSpec, SlotsStay
=============================================================================
