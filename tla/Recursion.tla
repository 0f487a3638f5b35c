----------------------------- MODULE Recursion -----------------------------
(***************************************************************************)
(* Lemmas for proofs by induction and about recursive functions.  They     *)
(* speak of sets and functions only, never of an operator, so that they    *)
(* can be used with any set of numbers and any recursive definition.       *)
(***************************************************************************)
EXTENDS Naturals, WellFoundedInduction, TLAPS

\* A nonempty set of natural numbers has a least one.
LEMMA LeastNumber ==
  ASSUME NEW T, T \subseteq Nat, T # {}
  PROVE  \E n \in T : \A m \in T : n <= m
<1> DEFINE order == OpToRel(<, Nat)
<1>1. IsWellFoundedOn(order, Nat)
  BY NatLessThanWellFounded
<1>2. \A j, k \in Nat : j < k => <<j, k>> \in order
  BY DEF OpToRel
<1> HIDE DEF order
<1>3. PICK n \in T : \A m \in T : <<m, n>> \notin order
  BY <1>1, WFMin
<1>4. ASSUME NEW m \in T PROVE n <= m
  <2>1. n \in Nat /\ m \in Nat
    OBVIOUS
  <2>2. ~(m < n)
    BY <1>2, <1>3, <2>1
  <2> QED BY <2>1, <2>2
<1> QED BY <1>4

\* A set that holds 0, and with a number its successor, holds all of them.
LEMMA AllNumbers ==
  ASSUME NEW T, 0 \in T, \A n \in Nat : n \in T => n + 1 \in T
  PROVE  Nat \subseteq T
<1> SUFFICES ASSUME ~(Nat \subseteq T) PROVE FALSE
  OBVIOUS
<1> DEFINE Others == {n \in Nat : n \notin T}
<1>1. Others \subseteq Nat /\ Others # {}
  OBVIOUS
<1> HIDE DEF Others
<1>2. PICK n \in Others : \A m \in Others : n <= m
  BY <1>1, LeastNumber
<1>3. n \in Nat /\ n \notin T
  BY <1>2 DEF Others
<1>4. n # 0 /\ n - 1 \in Nat
  BY <1>3
<1>5. n - 1 \notin Others
  BY <1>2, <1>3, <1>4
<1>6. n - 1 \in T
  BY <1>4, <1>5 DEF Others
<1>7. (n - 1) + 1 \in T
  BY <1>4, <1>6
<1> QED BY <1>3, <1>7

\* A set of numbers that, if it holds all the numbers below n, holds n.
LEMMA AllNumbersBelow ==
  ASSUME NEW T, \A n \in Nat : (\A m \in Nat : m < n => m \in T) => n \in T
  PROVE  Nat \subseteq T
<1> DEFINE Below == {n \in Nat : \A m \in Nat : m < n => m \in T}
<1>1. 0 \in Below
  OBVIOUS
<1>2. \A n \in Nat : n \in Below => n + 1 \in Below
  <2> SUFFICES ASSUME NEW n \in Nat, n \in Below PROVE n + 1 \in Below
    OBVIOUS
  <2>1. n \in T
    OBVIOUS
  <2>2. \A m \in Nat : m < n + 1 => m < n \/ m = n
    OBVIOUS
  <2> QED BY <2>1, <2>2
<1>3. Nat \subseteq Below
  <2> HIDE DEF Below
  <2> QED BY <1>1, <1>2, AllNumbers
<1> QED BY <1>3

\* F gives, for what a function on S may be, what its recursive definition
\* makes of that; what it makes at x depends on the arguments of lower rank
\* only, and the ranks are below n.
Recursive(S, V, rank, n, F) ==
  /\ [S -> V] # {} /\ F \in [[S -> V] -> [S -> V]]
  /\ n \in Nat /\ rank \in [S -> Nat] /\ \A x \in S : rank[x] < n
  /\ \A g, h \in [S -> V] : \A x \in S :
        (\A y \in S : rank[y] < rank[x] => g[y] = h[y]) => F[g][x] = F[h][x]

\* A recursive definition has a solution.
LEMMA RecursiveFunction ==
  ASSUME NEW S, NEW V, NEW rank, NEW N, NEW F, Recursive(S, V, rank, N, F)
  PROVE  \E f \in [S -> V] : F[f] = f
<1> USE DEF Recursive
<1> DEFINE Fixed(f, n) == \A x \in S : rank[x] < n => F[f][x] = f[x]
           T == {n \in Nat : \E f \in [S -> V] : Fixed(f, n)}
<1>1. 0 \in T
  <2>1. \A f \in [S -> V] : Fixed(f, 0)
    OBVIOUS
  <2> QED BY <2>1
<1>2. \A n \in Nat : n \in T => n + 1 \in T
  <2> SUFFICES ASSUME NEW n \in Nat, n \in T PROVE n + 1 \in T
    OBVIOUS
  <2>1. PICK f \in [S -> V] : Fixed(f, n)
    OBVIOUS
  <2>2. F[f] \in [S -> V]
    OBVIOUS
  <2>3. ASSUME NEW x \in S, rank[x] < n + 1 PROVE F[F[f]][x] = F[f][x]
    <3>1. ASSUME NEW y \in S, rank[y] < rank[x] PROVE F[f][y] = f[y]
      <4>1. rank[y] < n
        BY <2>3, <3>1
      <4> QED BY <2>1, <4>1
    <3> QED BY <2>2, <3>1
  <2>4. Fixed(F[f], n + 1)
    BY <2>3
  <2> QED BY <2>2, <2>4
<1>3. N \in T
  <2> HIDE DEF T
  <2>1. Nat \subseteq T
    BY <1>1, <1>2, AllNumbers
  <2> QED BY <2>1
<1>4. PICK f \in [S -> V] : Fixed(f, N)
  BY <1>3
<1>5. F[f] \in [S -> V] /\ \A x \in S : F[f][x] = f[x]
  BY <1>4
<1> QED BY <1>5
=============================================================================
