-------------------------- MODULE VarScopesProofs --------------------------
(***************************************************************************)
(* Proofs about VarScopes, for any identifiers and any number of functions *)
(* and statements: the maps of a scope stay inverse to each other, what is *)
(* parsed later leaves a finished function alone, and the ids a function   *)
(* uses are its own and its enclosing scopes', apart from each other and   *)
(* below those of its temporaries.                                         *)
(***************************************************************************)
EXTENDS VarScopes, SequenceTheorems, Recursion, TLAPS

-----------------------------------------------------------------------------
(***************************************************************************)
(* The inductive invariant.                                                *)
(***************************************************************************)
IsMap(m) == m = [x \in DOMAIN m |-> m[x]]

\* A var_defs object: its maps are inverse, with ids below var_id.
ScopeOK(s) ==
  /\ s.var_id \in Nat
  /\ IsMap(s.var_map) /\ IsInjective(s.var_map)
  /\ \A name \in DOMAIN s.var_map : s.var_map[name] \in 0 .. s.var_id - 1
  /\ s.rev_var_map = AntiFunction(s.var_map)

\* A sequence of whatever is in it
Listed(s) == s \in Seq({s[j] : j \in 1 .. Len(s)})

\* The scopes, youngest last; the current one is the youngest.
ScopesOK ==
  /\ Listed(scopes)
  /\ var_scope = Len(scopes) /\ var_scope \in Nat \ {0}
  /\ \A j \in 1 .. Len(scopes) : ScopeOK(scopes[j]) /\ scopes[j].parent \in 0 .. j - 1

\* A finished function's scope is older than that of the one being parsed.
ScopesSettled ==
  /\ IsMap(functions)
  /\ \A f \in DOMAIN functions :
       /\ functions[f].var_scope \in 1 .. var_scope
       /\ func # None => functions[f].var_scope < var_scope

\* What FunctionsSettled says of a step
FinishedAlone ==
  \A f \in DOMAIN functions :
    /\ f \in DOMAIN functions' /\ functions'[f] = functions[f]
    /\ scopes'[functions[f].var_scope] = scopes[functions[f].var_scope]

SInv == failed \in BOOLEAN /\ ScopesOK /\ ScopesSettled

\* A scope's ids start where those of the older ones ended: only the youngest
\* is declared in.
IdsRise ==
  \A i, j \in 1 .. Len(scopes) : i < j =>
    /\ scopes[i].var_id <= scopes[j].var_id
    /\ \A name \in DOMAIN scopes[j].var_map : scopes[i].var_id <= scopes[j].var_map[name]

\* One of the k oldest scopes of scs gives the name this id.
Gives(scs, k, name, id) ==
  \E j \in 1 .. k : name \in DOMAIN scs[j].var_map /\ scs[j].var_map[name] = id

\* What a function refers to is in its scope or in an older one.
Resolved(refs, k) == \A r \in refs : Gives(scopes, k, r.name, r.id)

RefsResolved ==
  /\ func # None => Resolved(func.refs, var_scope)
  /\ \A f \in DOMAIN functions : Resolved(functions[f].refs, functions[f].var_scope)

NInv == IdsRise /\ RefsResolved

-----------------------------------------------------------------------------
(***************************************************************************)
(* Maps.                                                                   *)
(***************************************************************************)

\* One more pair, of a key and a value that are new, is added to a map and to
\* its inverse.
LEMMA InverseExtends ==
  ASSUME NEW m, IsMap(m), IsInjective(m), NEW key, key \notin DOMAIN m,
         NEW x, \A y \in DOMAIN m : m[y] # x
  PROVE  /\ IsInjective(With(m, key, x))
         /\ With(AntiFunction(m), x, key) = AntiFunction(With(m, key, x))
<1> DEFINE w == With(m, key, x)
           a == AntiFunction(m)
           b == AntiFunction(w)
<1>1. /\ DOMAIN w = DOMAIN m \cup {key} /\ w[key] = x
      /\ \A y \in DOMAIN m : w[y] = m[y]
  BY DEF With
<1>2. IsInjective(w)
  BY <1>1 DEF IsInjective
<1>3. /\ a = [t \in Range(m) |-> CHOOSE s \in DOMAIN m : t \in Range(m) => m[s] = t]
      /\ b = [t \in Range(w) |-> CHOOSE s \in DOMAIN w : t \in Range(w) => w[s] = t]
  BY DEF AntiFunction, Inverse
<1>4. Range(w) = Range(m) \cup {x} /\ x \notin Range(m)
  BY <1>1 DEF Range
<1>5. \A y \in DOMAIN m : a[m[y]] = y
  <2> SUFFICES ASSUME NEW y \in DOMAIN m PROVE a[m[y]] = y
    OBVIOUS
  <2>1. m[y] \in Range(m)
    BY DEF Range
  <2>2. a[m[y]] = CHOOSE s \in DOMAIN m : m[y] \in Range(m) => m[s] = m[y]
    BY <1>3, <2>1
  <2>3. \A s \in DOMAIN m : (m[y] \in Range(m) => m[s] = m[y]) <=> s = y
    BY <2>1 DEF IsInjective
  <2> HIDE DEF a
  <2> QED BY <2>2, <2>3
<1>6. \A y \in DOMAIN w : b[w[y]] = y
  <2> SUFFICES ASSUME NEW y \in DOMAIN w PROVE b[w[y]] = y
    OBVIOUS
  <2>1. w[y] \in Range(w)
    BY DEF Range
  <2> HIDE DEF w
  <2>2. b[w[y]] = CHOOSE s \in DOMAIN w : w[y] \in Range(w) => w[s] = w[y]
    BY <1>3, <2>1
  <2>3. \A s \in DOMAIN w : (w[y] \in Range(w) => w[s] = w[y]) <=> s = y
    BY <1>2, <2>1 DEF IsInjective
  <2> HIDE DEF b
  <2> QED BY <2>2, <2>3
<1> HIDE DEF w, a, b
<1>7. /\ DOMAIN a = Range(m) /\ DOMAIN b = Range(m) \cup {x}
      /\ b = [t \in DOMAIN b |-> b[t]]
  BY <1>3, <1>4
<1>8. ASSUME NEW t \in Range(m) PROVE b[t] = a[t]
  <2>1. PICK y \in DOMAIN m : t = m[y]
    BY <1>8 DEF Range
  <2> QED BY <1>1, <1>5, <1>6, <2>1
<1>9. b[x] = key
  BY <1>1, <1>6
<1>10. With(a, x, key) = b
  BY <1>4, <1>7, <1>8, <1>9 DEF With
<1> QED BY <1>2, <1>10 DEF w, a, b

\* A declaration keeps a scope in order.
LEMMA DeclaredOK ==
  ASSUME NEW s, ScopeOK(s), NEW name, name \notin DOMAIN s.var_map
  PROVE  ScopeOK(Declared(s, name)) /\ Declared(s, name).parent = s.parent
<1> DEFINE d == Declared(s, name)
           m == With(s.var_map, name, s.var_id)
<1>1. /\ s.var_id \in Nat /\ IsMap(s.var_map) /\ IsInjective(s.var_map)
      /\ \A y \in DOMAIN s.var_map : s.var_map[y] \in 0 .. s.var_id - 1
      /\ s.rev_var_map = AntiFunction(s.var_map)
  BY DEF ScopeOK
<1>2. d = [parent |-> s.parent, var_id |-> s.var_id + 1, var_map |-> m,
           rev_var_map |-> With(s.rev_var_map, s.var_id, name)]
  BY DEF Declared, DeclaredId
<1>3. IsInjective(m) /\ With(s.rev_var_map, s.var_id, name) = AntiFunction(m)
  BY <1>1, InverseExtends
<1>4. /\ IsMap(m)
      /\ \A y \in DOMAIN m : m[y] \in 0 .. s.var_id
  BY <1>1 DEF With, IsMap
<1> HIDE DEF d, m
<1>5. ScopeOK(d)
  BY <1>1, <1>2, <1>3, <1>4 DEF ScopeOK
<1> QED BY <1>2, <1>5 DEF d

\* A new scope starts empty, where its parent's ids end.
LEMMA NewScopeOK ==
  ASSUME NEW p, NEW id \in Nat
  PROVE  ScopeOK([parent |-> p, var_id |-> id, var_map |-> NoMap, rev_var_map |-> NoMap])
<1>1. AntiFunction(NoMap) = NoMap /\ IsInjective(NoMap) /\ IsMap(NoMap)
  BY DEF AntiFunction, Inverse, Range, NoMap, IsInjective, IsMap
<1> QED BY <1>1 DEF ScopeOK, NoMap

\* Something is added behind the others.
LEMMA Appended ==
  ASSUME NEW s, Listed(s), NEW e
  PROVE  /\ Len(Append(s, e)) = Len(s) + 1 /\ Len(s) \in Nat
         /\ \A j \in 1 .. Len(s) : Append(s, e)[j] = s[j]
         /\ Append(s, e)[Len(s) + 1] = e
         /\ Listed(Append(s, e))
<1> DEFINE S == {s[j] : j \in 1 .. Len(s)} \cup {e}
           t == Append(s, e)
           R == {t[j] : j \in 1 .. Len(t)}
<1>1. s \in Seq(S) /\ e \in S /\ Len(s) \in Nat
  <2>1. Len(s) \in Nat
    BY DEF Listed
  <2> QED BY <2>1 DEF Listed
<1> HIDE DEF S
<1>2. /\ t \in Seq(S) /\ Len(t) = Len(s) + 1 /\ t[Len(s) + 1] = e
      /\ \A j \in 1 .. Len(s) : t[j] = s[j]
  BY <1>1
<1> HIDE DEF t
<1>3. t = [j \in 1 .. Len(t) |-> t[j]] /\ \A j \in 1 .. Len(t) : t[j] \in R
  BY <1>1, <1>2
<1> HIDE DEF R
<1>4. t \in Seq(R)
  BY <1>1, <1>2, <1>3
<1> QED BY <1>1, <1>2, <1>4 DEF t, R, Listed

\* A function of the numbers from 1 is a sequence.
LEMMA FunctionListed ==
  ASSUME NEW n \in Nat, NEW t, t = [j \in 1 .. n |-> t[j]]
  PROVE  Len(t) = n /\ Listed(t)
<1> DEFINE R == {t[j] : j \in 1 .. n}
<1>1. \A j \in 1 .. n : t[j] \in R
  OBVIOUS
<1> HIDE DEF R
<1>2. t \in Seq(R) /\ Len(t) = n
  BY <1>1
<1> QED BY <1>2 DEF R, Listed

-----------------------------------------------------------------------------
(***************************************************************************)
(* The lookup.                                                             *)
(***************************************************************************)

\* get_var_id() goes through a scope and its parents: the id it returns is
\* the one that the scope or an older one gives the name.
LEMMA LookupFinds ==
  ASSUME NEW scs, Len(scs) \in Nat,
         \A j \in 1 .. Len(scs) : scs[j].parent \in 0 .. j - 1,
         NEW name, NEW k \in 0 .. Len(scs)
  PROVE  \/ get_var_id(scs, k, name) = -1
         \/ Gives(scs, k, name, get_var_id(scs, k, name))
<1> DEFINE S == 0 .. Len(scs)
           V == {-1} \cup {scs[j].var_map[name] : j \in 1 .. Len(scs)}
           Found(g, i) == IF i = 0 THEN -1
                          ELSE IF name \in DOMAIN scs[i].var_map THEN scs[i].var_map[name]
                          ELSE g[scs[i].parent]
           find == CHOOSE g : g = [i \in S |-> Found(g, i)]
           rank == [i \in S |-> i]
           F == [g \in [S -> V] |-> [i \in S |-> Found(g, i)]]
<1>1. \A i \in S : i # 0 => i \in 1 .. Len(scs) /\ scs[i].parent \in S /\ scs[i].parent < i
  OBVIOUS
<1>2. \A g \in [S -> V] : [i \in S |-> Found(g, i)] \in [S -> V]
  <2> SUFFICES ASSUME NEW g \in [S -> V], NEW i \in S PROVE Found(g, i) \in V
    OBVIOUS
  <2>1. CASE i = 0
    BY <2>1
  <2>2. CASE i # 0
    <3>1. g[scs[i].parent] \in V /\ i \in 1 .. Len(scs)
      <4> HIDE DEF S, V
      <4> QED BY <1>1, <2>2
    <3> QED BY <2>2, <3>1
  <2> QED BY <2>1, <2>2
<1>3. F \in [[S -> V] -> [S -> V]]
  BY <1>2
<1>4. \A g, h \in [S -> V] : \A i \in S :
        (\A y \in S : rank[y] < rank[i] => g[y] = h[y]) => F[g][i] = F[h][i]
  <2> SUFFICES ASSUME NEW g \in [S -> V], NEW h \in [S -> V], NEW i \in S,
                      \A y \in S : rank[y] < rank[i] => g[y] = h[y]
               PROVE  F[g][i] = F[h][i]
    OBVIOUS
  <2>1. CASE i = 0
    BY <2>1
  <2>2. CASE i # 0
    <3>1. rank[scs[i].parent] < rank[i] /\ scs[i].parent \in S
      BY <1>1, <2>2
    <3>2. g[scs[i].parent] = h[scs[i].parent]
      <4> HIDE DEF S, V, rank
      <4> QED BY <3>1
    <3> QED BY <2>2, <3>2
  <2> QED BY <2>1, <2>2
<1>5. Recursive(S, V, rank, Len(scs) + 1, F)
  <2>1. rank \in [S -> Nat] /\ \A i \in S : rank[i] < Len(scs) + 1
    OBVIOUS
  <2>2. [S -> V] # {}
    <3>1. [i \in S |-> -1] \in [S -> V]
      OBVIOUS
    <3> QED BY <3>1
  <2>3. Len(scs) + 1 \in Nat
    OBVIOUS
  <2> HIDE DEF S, V, rank, F, find, Found
  <2> QED BY <1>3, <1>4, <2>1, <2>2, <2>3, Zenon DEF Recursive
<1>6. \E g \in [S -> V] : F[g] = g
  <2> HIDE DEF S, V, rank, F
  <2> QED BY <1>5, RecursiveFunction
<1>7. PICK g \in [S -> V] : g = [i \in S |-> Found(g, i)]
  BY <1>6
<1>8. find = [i \in S |-> Found(find, i)]
  <2> HIDE DEF Found, S
  <2> QED BY <1>7
<1> DEFINE Right(i) == find[i] = -1 \/ Gives(scs, i, name, find[i])
           T == {i \in Nat : i \in S => Right(i)}
<1>9. \A i \in Nat : (\A m \in Nat : m < i => m \in T) => i \in T
  <2> SUFFICES ASSUME NEW i \in S, \A m \in Nat : m < i => m \in T
               PROVE  Right(i)
    OBVIOUS
  <2>1. find[i] = Found(find, i)
    <3> HIDE DEF find, Found
    <3> QED BY <1>8
  <2> HIDE DEF find
  <2>2. CASE i = 0
    BY <2>1, <2>2
  <2>3. CASE i # 0 /\ name \in DOMAIN scs[i].var_map
    BY <2>1, <2>3 DEF Gives
  <2>4. CASE i # 0 /\ name \notin DOMAIN scs[i].var_map
    <3>1. scs[i].parent \in S /\ scs[i].parent < i /\ Right(scs[i].parent)
      BY <1>1, <2>4
    <3>2. find[i] = find[scs[i].parent]
      BY <2>1, <2>4
    <3> QED BY <3>1, <3>2 DEF Gives
  <2> QED BY <2>2, <2>3, <2>4
<1>10. Right(k)
  <2>1. Nat \subseteq T
    <3> HIDE DEF T
    <3> QED BY <1>9, AllNumbersBelow
  <2> QED BY <2>1
<1>11. get_var_id(scs, k, name) = find[k]
  BY DEF get_var_id
<1> QED BY <1>10, <1>11

-----------------------------------------------------------------------------
(***************************************************************************)
(* The actions.                                                            *)
(***************************************************************************)

LEMMA SInitInvariant ==
  ASSUME Init
  PROVE  SInv
<1> DEFINE first == [parent |-> 0, var_id |-> 0, var_map |-> NoMap, rev_var_map |-> NoMap]
<1>1. scopes = Append(<<>>, first)
  BY DEF Init, NewScope, FirstId
<1>2. ScopeOK(first)
  BY NewScopeOK
<1> HIDE DEF first
<1>3. /\ Len(scopes) = 1 /\ scopes[1] = first
      /\ Listed(scopes)
  <2> DEFINE t == Append(<<>>, first)
  <2>1. Listed(<<>>) /\ Len(<<>>) = 0
    BY DEF Listed
  <2>2. Len(t) = 1 /\ t[1] = first /\ Listed(t)
    <3>1. Len(t) = Len(<<>>) + 1 /\ t[Len(<<>>) + 1] = first /\ Listed(t)
      BY <2>1, Appended
    <3> QED BY <2>1, <3>1
  <2> QED BY <1>1, <2>2
<1>4. first.parent = 0
  BY DEF first
<1>5. ScopesOK
  BY <1>2, <1>3, <1>4 DEF ScopesOK, Init
<1>6. ScopesSettled
  BY DEF ScopesSettled, Init, NoMap, IsMap
<1> QED BY <1>5, <1>6 DEF SInv, Init

\* What every step but the declarations and the ends of functions does to
\* the scopes: nothing, or one is added.
LEMMA ScopeAdded ==
  ASSUME SInv, scopes' = NewScope(scopes, var_scope), var_scope' = Len(scopes')
  PROVE  /\ ScopesOK' /\ var_scope' = var_scope + 1
         /\ \A j \in 1 .. var_scope : scopes'[j] = scopes[j]
         /\ scopes'[var_scope + 1].var_id = scopes[var_scope].var_id
         /\ scopes'[var_scope + 1].var_map = NoMap
<1> DEFINE new == [parent |-> var_scope, var_id |-> scopes[var_scope].var_id,
                   var_map |-> NoMap, rev_var_map |-> NoMap]
<1>1. /\ var_scope = Len(scopes) /\ var_scope \in Nat \ {0}
      /\ \A j \in 1 .. Len(scopes) : ScopeOK(scopes[j]) /\ scopes[j].parent \in 0 .. j - 1
      /\ Listed(scopes)
  BY DEF SInv, ScopesOK
<1>2. scopes' = Append(scopes, new)
  BY <1>1 DEF NewScope, FirstId
<1>3. scopes[var_scope].var_id \in Nat
  <2>1. ScopeOK(scopes[var_scope])
    BY <1>1
  <2> QED BY <2>1 DEF ScopeOK
<1>4. /\ ScopeOK(new) /\ new.parent = var_scope
      /\ new.var_id = scopes[var_scope].var_id /\ new.var_map = NoMap
  BY <1>3, NewScopeOK
<1> HIDE DEF new
<1>5. /\ Len(scopes') = Len(scopes) + 1
      /\ \A j \in 1 .. Len(scopes) : scopes'[j] = scopes[j]
      /\ scopes'[Len(scopes) + 1] = new
      /\ Listed(scopes')
  <2> DEFINE t == Append(scopes, new)
  <2>1. /\ Len(t) = Len(scopes) + 1
        /\ \A j \in 1 .. Len(scopes) : t[j] = scopes[j]
        /\ t[Len(scopes) + 1] = new
        /\ Listed(t)
    BY <1>1, Appended
  <2> QED BY <1>2, <2>1
<1>6. \A j \in 1 .. Len(scopes') : ScopeOK(scopes'[j]) /\ scopes'[j].parent \in 0 .. j - 1
  <2> SUFFICES ASSUME NEW j \in 1 .. Len(scopes')
               PROVE  ScopeOK(scopes'[j]) /\ scopes'[j].parent \in 0 .. j - 1
    OBVIOUS
  <2>1. CASE j \in 1 .. Len(scopes)
    BY <1>1, <1>5, <2>1
  <2>2. CASE j = Len(scopes) + 1
    BY <1>1, <1>4, <1>5, <2>2
  <2> QED BY <1>1, <1>5, <2>1, <2>2
<1> QED BY <1>1, <1>4, <1>5, <1>6 DEF ScopesOK

\* A declaration changes the youngest scope only.
LEMMA ScopeChanged ==
  ASSUME SInv, NEW name, name \notin DOMAIN Cur.var_map,
         scopes' = [scopes EXCEPT ![var_scope] = Declared(@, name)], UNCHANGED var_scope
  PROVE  /\ ScopesOK'
         /\ \A j \in 1 .. var_scope - 1 : scopes'[j] = scopes[j]
         /\ scopes'[var_scope] = Declared(scopes[var_scope], name)
<1>1. /\ var_scope = Len(scopes) /\ var_scope \in Nat \ {0}
      /\ \A j \in 1 .. Len(scopes) : ScopeOK(scopes[j]) /\ scopes[j].parent \in 0 .. j - 1
      /\ Listed(scopes)
  BY DEF SInv, ScopesOK
<1> DEFINE new == Declared(scopes[var_scope], name)
<1>2. ScopeOK(new) /\ new.parent = scopes[var_scope].parent
  BY <1>1, DeclaredOK DEF Cur
<1>3. scopes' = [scopes EXCEPT ![var_scope] = new]
  OBVIOUS
<1> HIDE DEF new
<1>4. /\ Len(scopes') = Len(scopes) /\ Listed(scopes')
      /\ \A j \in 1 .. Len(scopes) : scopes'[j] = IF j = var_scope THEN new ELSE scopes[j]
  <2>1. DOMAIN scopes = 1 .. Len(scopes) /\ Len(scopes) \in Nat
    BY <1>1 DEF Listed
  <2>2. /\ scopes' = [j \in 1 .. Len(scopes) |-> scopes'[j]]
        /\ \A j \in 1 .. Len(scopes) : scopes'[j] = IF j = var_scope THEN new ELSE scopes[j]
    BY <1>3, <2>1
  <2> QED BY <2>1, <2>2, FunctionListed
<1>5. \A j \in 1 .. Len(scopes) : ScopeOK(scopes'[j]) /\ scopes'[j].parent \in 0 .. j - 1
  BY <1>1, <1>2, <1>4
<1> QED BY <1>1, <1>4, <1>5 DEF ScopesOK, new

\* Steps that change neither the scopes nor the functions.
LEMMA ScopesAlone ==
  ASSUME SInv, UNCHANGED <<scopes, var_scope, functions>>,
         failed' \in BOOLEAN, func' # None => func # None
  PROVE  SInv' /\ FinishedAlone
BY DEF SInv, ScopesOK, ScopesSettled, FinishedAlone

LEMMA NewFunctionStep ==
  ASSUME SInv, NEW name \in FunctionNames, NewFunction(name)
  PROVE  SInv' /\ FinishedAlone
<1>1. /\ ScopesOK' /\ var_scope' = var_scope + 1
      /\ \A j \in 1 .. var_scope : scopes'[j] = scopes[j]
  BY ScopeAdded DEF NewFunction
<1>2. UNCHANGED <<functions, failed>> /\ var_scope \in Nat
  BY DEF NewFunction, SInv, ScopesOK
<1>3. ScopesSettled'
  BY <1>1, <1>2 DEF SInv, ScopesSettled
<1>4. FinishedAlone
  BY <1>1, <1>2 DEF SInv, ScopesSettled, FinishedAlone
<1> QED BY <1>1, <1>2, <1>3, <1>4 DEF SInv

LEMMA DeclaresStep ==
  ASSUME SInv, NEW name, NEW use, NEW statement, func # None, Declares(name, use, statement)
  PROVE  SInv' /\ FinishedAlone
<1>1. CASE SyntaxError
  BY <1>1, ScopesAlone DEF SyntaxError
<1>2. CASE ~SyntaxError
  <2>1. /\ name \notin DOMAIN Cur.var_map
        /\ scopes' = [scopes EXCEPT ![var_scope] = Declared(@, name)]
        /\ UNCHANGED <<var_scope, functions, failed>>
    BY <1>2 DEF Declares
  <2>2. /\ ScopesOK'
        /\ \A j \in 1 .. var_scope - 1 : scopes'[j] = scopes[j]
    BY <2>1, ScopeChanged
  <2>3. \A f \in DOMAIN functions : functions[f].var_scope \in 1 .. var_scope - 1
    BY DEF SInv, ScopesOK, ScopesSettled
  <2>4. ScopesSettled'
    BY <2>1, <2>3 DEF SInv, ScopesOK, ScopesSettled
  <2>5. FinishedAlone
    BY <2>1, <2>2, <2>3 DEF FinishedAlone
  <2> QED BY <2>1, <2>2, <2>4, <2>5 DEF SInv
<1> QED BY <1>1, <1>2

LEMMA StatementStep ==
  ASSUME SInv, NEW name, NEW use, Assignment(name, use) \/ Return(use)
  PROVE  SInv' /\ FinishedAlone
<1>1. func # None /\ UNCHANGED <<scopes, var_scope, functions>> /\ failed' \in BOOLEAN
  BY DEF Assignment, Return, Parsing, SyntaxError, SInv
<1> QED BY <1>1, ScopesAlone

LEMMA EndFunctionStep ==
  ASSUME SInv, EndFunction
  PROVE  SInv' /\ FinishedAlone
<1>1. CASE SyntaxError
  BY <1>1, ScopesAlone DEF SyntaxError
<1>2. CASE ~SyntaxError
  <2> DEFINE new == [refs |-> func.refs, var_scope |-> var_scope]
             m   == With(functions, func.name, new)
  <2>1. /\ func.name \notin DOMAIN functions
        /\ functions' = m /\ func' = None
        /\ UNCHANGED <<scopes, var_scope, failed>>
    BY <1>2 DEF EndFunction, Taken
  <2>2. /\ DOMAIN m = DOMAIN functions \cup {func.name} /\ IsMap(m)
        /\ m[func.name] = new /\ new.var_scope = var_scope
        /\ \A f \in DOMAIN functions : f # func.name => m[f] = functions[f]
    BY DEF With, IsMap
  <2> HIDE DEF new, m
  <2>3. ScopesOK' /\ var_scope \in Nat \ {0}
    BY <2>1 DEF SInv, ScopesOK
  <2>4. ScopesSettled'
    BY <2>1, <2>2, <2>3 DEF SInv, ScopesSettled
  <2>5. FinishedAlone
    BY <2>1, <2>2 DEF FinishedAlone
  <2> QED BY <2>1, <2>3, <2>4, <2>5 DEF SInv
<1> QED BY <1>1, <1>2

LEMMA FailureStep ==
  ASSUME SInv, BadToken \/ Parse
  PROVE  SInv' /\ FinishedAlone
<1>1. UNCHANGED <<scopes, var_scope, functions>> /\ failed' \in BOOLEAN /\ (func' # None => func # None)
  BY DEF BadToken, SyntaxError, Parse
<1> QED BY <1>1, ScopesAlone

LEMMA SStepPreserves ==
  ASSUME SInv, [Next]_vars
  PROVE  SInv' /\ (FinishedAlone \/ UNCHANGED vars)
<1>1. ASSUME NEW name \in FunctionNames, NewFunction(name) PROVE SInv' /\ FinishedAlone
  BY <1>1, NewFunctionStep
<1>2. ASSUME NEW name \in Names, Parameter(name) PROVE SInv' /\ FinishedAlone
  BY <1>2, DeclaresStep DEF Parameter, Parsing
<1>3. ASSUME NEW name \in Names, NEW use \in Names \cup {None}, VarStatement(name, use)
      PROVE  SInv' /\ FinishedAlone
  BY <1>3, DeclaresStep DEF VarStatement, Parsing
<1>4. ASSUME NEW name \in Names, NEW use \in Names \cup {None}, Assignment(name, use)
      PROVE  SInv' /\ FinishedAlone
  BY <1>4, StatementStep
<1>5. ASSUME NEW use \in Names \cup {None}, Return(use) PROVE SInv' /\ FinishedAlone
  BY <1>5, StatementStep
<1>6. CASE UNCHANGED vars
  BY <1>6, ScopesAlone DEF vars, SInv
<1> QED BY <1>1, <1>2, <1>3, <1>4, <1>5, <1>6, EndFunctionStep, FailureStep DEF Next

-----------------------------------------------------------------------------
(***************************************************************************)
(* The ids.                                                                *)
(***************************************************************************)

\* Scopes that keep what they gave go on giving it.
LEMMA StaysResolved ==
  ASSUME NEW refs, NEW k \in Nat, Resolved(refs, k),
         \A j \in 1 .. k : \A y \in DOMAIN scopes[j].var_map :
           y \in DOMAIN scopes'[j].var_map /\ scopes'[j].var_map[y] = scopes[j].var_map[y]
  PROVE  \A r \in refs : Gives(scopes', k, r.name, r.id)
BY DEF Resolved, Gives

\* The id of an expression's identifier is one of those its scope reaches.
LEMMA UseResolved ==
  ASSUME SInv, NEW use, ~Undeclared(use)
  PROVE  Resolved(Use(use), var_scope)
<1>1. /\ var_scope = Len(scopes) /\ Len(scopes) \in Nat
      /\ \A j \in 1 .. Len(scopes) : scopes[j].parent \in 0 .. j - 1
      /\ var_scope \in 0 .. Len(scopes)
  BY DEF SInv, ScopesOK
<1>2. CASE use = None
  BY <1>2 DEF Use, Resolved
<1>3. CASE use # None
  <2> DEFINE id == get_var_id(scopes, var_scope, use)
  <2>1. id # -1
    BY <1>3 DEF Undeclared
  <2>2. Gives(scopes, var_scope, use, id)
    BY <1>1, <2>1, LookupFinds
  <2> HIDE DEF id
  <2>3. \A r \in {Ref(use, id)} : r.name = use /\ r.id = id
    BY DEF Ref
  <2>4. Resolved({Ref(use, id)}, var_scope)
    BY <2>2, <2>3 DEF Resolved
  <2> QED BY <1>3, <2>4 DEF Use, id
<1> QED BY <1>2, <1>3

\* Steps that leave the scopes and the functions alone, and add to what the
\* function refers to only what its scope reaches.
LEMMA RefsAdded ==
  ASSUME SInv, NInv, UNCHANGED <<scopes, var_scope, functions>>,
         func' # None =>
           func # None /\ \E refs : Resolved(refs, var_scope) /\ func'.refs = func.refs \cup refs
  PROVE  NInv'
<1>1. IdsRise'
  BY DEF NInv, IdsRise
<1>2. func' # None => Resolved(func.refs, var_scope)'
  BY DEF NInv, RefsResolved, Resolved
<1>3. \A f \in DOMAIN functions' : Resolved(functions[f].refs, functions[f].var_scope)'
  BY DEF NInv, RefsResolved, Resolved
<1> QED BY <1>1, <1>2, <1>3 DEF NInv, RefsResolved

LEMMA NInitInvariant ==
  ASSUME Init
  PROVE  NInv
<1>1. Len(scopes) = 1
  <2> DEFINE first == [parent |-> 0, var_id |-> 0, var_map |-> NoMap, rev_var_map |-> NoMap]
  <2>1. scopes = Append(<<>>, first)
    BY DEF Init, NewScope, FirstId
  <2> QED BY <2>1
<1>2. IdsRise
  BY <1>1 DEF IdsRise
<1> QED BY <1>2 DEF NInv, RefsResolved, Init, NoMap

LEMMA NewFunctionIds ==
  ASSUME SInv, NInv, NEW name \in FunctionNames, NewFunction(name)
  PROVE  NInv'
<1>1. /\ ScopesOK' /\ var_scope' = var_scope + 1
      /\ \A j \in 1 .. var_scope : scopes'[j] = scopes[j]
      /\ scopes'[var_scope + 1].var_id = scopes[var_scope].var_id
      /\ scopes'[var_scope + 1].var_map = NoMap
  BY ScopeAdded DEF NewFunction
<1>2. /\ var_scope = Len(scopes) /\ var_scope \in Nat \ {0}
      /\ Len(scopes') = var_scope + 1
      /\ \A j \in 1 .. var_scope : scopes[j].var_id \in Nat
  BY <1>1 DEF SInv, ScopesOK, ScopeOK
<1>3. IdsRise'
  <2> SUFFICES ASSUME NEW i \in 1 .. Len(scopes'), NEW j \in 1 .. Len(scopes'), i < j
               PROVE  /\ scopes'[i].var_id <= scopes'[j].var_id
                      /\ \A y \in DOMAIN scopes'[j].var_map :
                           scopes'[i].var_id <= scopes'[j].var_map[y]
    BY DEF IdsRise
  <2>1. CASE j \in 1 .. var_scope
    BY <1>1, <1>2, <2>1 DEF NInv, IdsRise
  <2>2. CASE j = var_scope + 1
    <3>1. scopes[i].var_id <= scopes[var_scope].var_id /\ i \in 1 .. var_scope
      BY <1>2, <2>2 DEF NInv, IdsRise
    <3> QED BY <1>1, <2>2, <3>1 DEF NoMap
  <2> QED BY <1>2, <2>1, <2>2
<1>4. UNCHANGED functions /\ func'.refs = {}
  BY DEF NewFunction
<1>5. \A f \in DOMAIN functions' : Resolved(functions[f].refs, functions[f].var_scope)'
  <2> SUFFICES ASSUME NEW f \in DOMAIN functions
               PROVE  \A r \in functions[f].refs : Gives(scopes', functions[f].var_scope, r.name, r.id)
    BY <1>4 DEF Resolved
  <2> DEFINE k == functions[f].var_scope
             refs == functions[f].refs
  <2>1. k \in 1 .. var_scope
    BY DEF SInv, ScopesSettled
  <2>2. Resolved(refs, k)
    BY DEF NInv, RefsResolved
  <2> HIDE DEF k, refs
  <2>3. \A r \in refs : Gives(scopes', k, r.name, r.id)
    BY <1>1, <1>2, <2>1, <2>2, StaysResolved
  <2> QED BY <2>3 DEF k, refs
<1> QED BY <1>3, <1>4, <1>5 DEF NInv, RefsResolved, Resolved

LEMMA DeclaresIds ==
  ASSUME SInv, NInv, NEW name, NEW use, NEW statement, func # None, Declares(name, use, statement)
  PROVE  NInv'
<1>1. CASE SyntaxError
  <2>1. Resolved({}, var_scope) /\ func'.refs = func.refs \cup {}
    BY <1>1 DEF SyntaxError, Resolved
  <2> QED BY <1>1, <2>1, RefsAdded DEF SyntaxError
<1>2. CASE ~SyntaxError
  <2>1. /\ ~Undeclared(use) /\ name \notin DOMAIN Cur.var_map
        /\ scopes' = [scopes EXCEPT ![var_scope] = Declared(@, name)]
        /\ Refers({Ref(name, DeclaredId(Cur))} \cup Use(use), statement)
        /\ UNCHANGED <<var_scope, functions, failed>>
    BY <1>2 DEF Declares
  <2>2. /\ ScopesOK'
        /\ \A j \in 1 .. var_scope - 1 : scopes'[j] = scopes[j]
        /\ scopes'[var_scope] = Declared(scopes[var_scope], name)
    BY <2>1, ScopeChanged
  <2>3. /\ var_scope = Len(scopes) /\ var_scope \in Nat \ {0}
        /\ Len(scopes') = var_scope
        /\ \A j \in 1 .. var_scope : scopes[j].var_id \in Nat
    BY <2>1, <2>2 DEF SInv, ScopesOK, ScopeOK
  <2> DEFINE old == scopes[var_scope]
             new == Declared(old, name)
  <2>4. /\ new.var_id = old.var_id + 1
        /\ DOMAIN new.var_map = DOMAIN old.var_map \cup {name}
        /\ new.var_map[name] = old.var_id
        /\ \A y \in DOMAIN old.var_map : new.var_map[y] = old.var_map[y]
    BY <2>1 DEF Declared, DeclaredId, With, Cur
  <2>5. DeclaredId(Cur) = old.var_id
    BY DEF DeclaredId, Cur
  <2> HIDE DEF old, new
  <2>6. IdsRise'
    <3> SUFFICES ASSUME NEW i \in 1 .. Len(scopes'), NEW j \in 1 .. Len(scopes'), i < j
                 PROVE  /\ scopes'[i].var_id <= scopes'[j].var_id
                        /\ \A y \in DOMAIN scopes'[j].var_map :
                             scopes'[i].var_id <= scopes'[j].var_map[y]
      BY DEF IdsRise
    <3>1. i \in 1 .. var_scope - 1 /\ j \in 1 .. var_scope
      BY <2>3
    <3>2. /\ scopes'[i] = scopes[i] /\ scopes[i].var_id \in Nat
          /\ scopes[i].var_id <= scopes[j].var_id
          /\ \A y \in DOMAIN scopes[j].var_map : scopes[i].var_id <= scopes[j].var_map[y]
      BY <2>2, <2>3, <3>1 DEF NInv, IdsRise
    <3>3. CASE j < var_scope
      <4>1. scopes'[j] = scopes[j]
        BY <2>2, <2>3, <3>1, <3>3
      <4> QED BY <3>2, <4>1
    <3>4. CASE j = var_scope
      <4>1. scopes'[j] = new /\ scopes[j] = old /\ old.var_id \in Nat
        BY <2>2, <2>3, <3>4 DEF new, old
      <4>2. scopes[i].var_id <= old.var_id /\ scopes[i].var_id <= new.var_id
        BY <2>4, <3>2, <4>1
      <4>3. ASSUME NEW y \in DOMAIN new.var_map PROVE scopes[i].var_id <= new.var_map[y]
        <5>1. CASE y = name
          BY <2>4, <4>2, <5>1
        <5>2. CASE y \in DOMAIN old.var_map
          BY <2>4, <3>2, <4>1, <5>2
        <5> QED BY <2>4, <5>1, <5>2
      <4>4. scopes'[i] = scopes[i] /\ scopes'[j] = new
        BY <3>2, <4>1
      <4> QED BY <4>2, <4>3, <4>4, Zenon
    <3> QED BY <2>3, <3>1, <3>3, <3>4
  <2>7. \A j \in 1 .. var_scope : \A y \in DOMAIN scopes[j].var_map :
          y \in DOMAIN scopes'[j].var_map /\ scopes'[j].var_map[y] = scopes[j].var_map[y]
    <3> SUFFICES ASSUME NEW j \in 1 .. var_scope
                 PROVE  \A y \in DOMAIN scopes[j].var_map :
                          y \in DOMAIN scopes'[j].var_map /\ scopes'[j].var_map[y] = scopes[j].var_map[y]
      OBVIOUS
    <3>1. CASE j = var_scope
      BY <2>2, <2>4, <3>1 DEF old, new
    <3>2. CASE j \in 1 .. var_scope - 1
      BY <2>2, <3>2
    <3> QED BY <2>3, <3>1, <3>2
  <2>8. \A f \in DOMAIN functions' : Resolved(functions[f].refs, functions[f].var_scope)'
    <3> SUFFICES ASSUME NEW f \in DOMAIN functions
                 PROVE  \A r \in functions[f].refs : Gives(scopes', functions[f].var_scope, r.name, r.id)
      BY <2>1 DEF Resolved
    <3> DEFINE k == functions[f].var_scope
               refs == functions[f].refs
    <3>1. k \in 1 .. var_scope
      BY DEF SInv, ScopesSettled
    <3>2. Resolved(refs, k)
      BY DEF NInv, RefsResolved
    <3> HIDE DEF k, refs
    <3>3. \A r \in refs : Gives(scopes', k, r.name, r.id)
      BY <2>3, <2>7, <3>1, <3>2, StaysResolved
    <3> QED BY <3>3 DEF k, refs
  <2>9. \A r \in func.refs \cup Use(use) : Gives(scopes', var_scope, r.name, r.id)
    <3>1. Resolved(func.refs, var_scope) /\ Resolved(Use(use), var_scope)
      BY <2>1, UseResolved DEF NInv, RefsResolved
    <3>2. Resolved(func.refs \cup Use(use), var_scope)
      BY <3>1 DEF Resolved
    <3> QED BY <2>3, <2>7, <3>2, StaysResolved
  <2>10. \A r \in {Ref(name, DeclaredId(Cur))} : Gives(scopes', var_scope, r.name, r.id)
    <3>1. \A r \in {Ref(name, DeclaredId(Cur))} : r.name = name /\ r.id = old.var_id
      BY <2>5 DEF Ref
    <3>2. name \in DOMAIN scopes'[var_scope].var_map /\ scopes'[var_scope].var_map[name] = old.var_id
      BY <2>2, <2>4 DEF old, new
    <3> QED BY <2>3, <3>1, <3>2 DEF Gives
  <2>11. func'.refs \subseteq func.refs \cup ({Ref(name, DeclaredId(Cur))} \cup Use(use))
    <3> DEFINE more == {Ref(name, DeclaredId(Cur))} \cup Use(use)
    <3> HIDE DEF more
    <3>1. Refers(more, statement)
      BY <2>1 DEF more
    <3>2. func'.refs \subseteq func.refs \cup more
      BY <3>1 DEF Refers
    <3> QED BY <3>2 DEF more
  <2>12. func' # None => Resolved(func.refs, var_scope)'
    BY <2>1, <2>9, <2>10, <2>11 DEF Resolved
  <2> QED BY <2>6, <2>8, <2>12 DEF NInv, RefsResolved
<1> QED BY <1>1, <1>2

LEMMA StatementIds ==
  ASSUME SInv, NInv, NEW name, NEW use, Assignment(name, use) \/ Return(use)
  PROVE  NInv'
<1>1. CASE SyntaxError
  <2>1. Resolved({}, var_scope) /\ func'.refs = func.refs \cup {}
    BY <1>1 DEF SyntaxError, Resolved
  <2>2. func # None
    BY DEF Assignment, Return, Parsing
  <2> QED BY <1>1, <2>1, <2>2, RefsAdded DEF SyntaxError
<1>2. ASSUME NEW refs, Resolved(refs, var_scope), Refers(refs, TRUE), func # None,
             UNCHANGED <<scopes, var_scope, functions, failed>>
      PROVE  NInv'
  <2>1. func' = [func EXCEPT !.refs = func.refs \cup refs, !.reductions = func.reductions + 1,
                             !.statements = func.statements + 1]
    BY <1>2 DEF Refers
  <2>2. func'.refs = func.refs \cup refs \/ func'.refs = func.refs
    BY <2>1
  <2>3. Resolved({}, var_scope) /\ func.refs = func.refs \cup {}
    BY DEF Resolved
  <2> QED BY <1>2, <2>2, <2>3, RefsAdded
<1>3. CASE ~SyntaxError
  <2>1. CASE Assignment(name, use)
    <3>1. /\ ~Undeclared(use) /\ ~Undeclared(name) /\ func # None
          /\ Refers(Use(name) \cup Use(use), TRUE)
          /\ UNCHANGED <<scopes, var_scope, functions, failed>>
      BY <1>3, <2>1 DEF Assignment, Parsing
    <3>2. Resolved(Use(name), var_scope) /\ Resolved(Use(use), var_scope)
      BY <3>1, UseResolved
    <3>3. Resolved(Use(name) \cup Use(use), var_scope)
      BY <3>2 DEF Resolved
    <3> QED BY <1>2, <3>1, <3>3
  <2>2. CASE Return(use)
    <3>1. /\ ~Undeclared(use) /\ func # None /\ Refers(Use(use), TRUE)
          /\ UNCHANGED <<scopes, var_scope, functions, failed>>
      BY <1>3, <2>2 DEF Return, Parsing
    <3>2. Resolved(Use(use), var_scope)
      BY <3>1, UseResolved
    <3> QED BY <1>2, <3>1, <3>2
  <2> QED BY <2>1, <2>2
<1> QED BY <1>1, <1>3

LEMMA EndFunctionIds ==
  ASSUME SInv, NInv, EndFunction
  PROVE  NInv'
<1>1. CASE SyntaxError
  <2>1. Resolved({}, var_scope) /\ func'.refs = func.refs \cup {} /\ func # None
    BY <1>1 DEF SyntaxError, Resolved, EndFunction
  <2> QED BY <1>1, <2>1, RefsAdded DEF SyntaxError
<1>2. CASE ~SyntaxError
  <2> DEFINE new == [refs |-> func.refs, var_scope |-> var_scope]
             m   == With(functions, func.name, new)
  <2>1. /\ functions' = m /\ func' = None /\ func # None
        /\ UNCHANGED <<scopes, var_scope, failed>>
    BY <1>2 DEF EndFunction
  <2>2. /\ DOMAIN m = DOMAIN functions \cup {func.name}
        /\ m[func.name].refs = func.refs /\ m[func.name].var_scope = var_scope
        /\ \A f \in DOMAIN functions : f # func.name => m[f] = functions[f]
    BY DEF With
  <2> HIDE DEF m
  <2>3. IdsRise'
    BY <2>1 DEF NInv, IdsRise
  <2>4. \A f \in DOMAIN m : Resolved(m[f].refs, m[f].var_scope)
    BY <2>1, <2>2 DEF NInv, RefsResolved
  <2>5. \A f \in DOMAIN functions' : Resolved(functions[f].refs, functions[f].var_scope)'
    BY <2>1, <2>4 DEF Resolved
  <2> QED BY <2>1, <2>3, <2>5 DEF NInv, RefsResolved
<1> QED BY <1>1, <1>2

LEMMA FailureIds ==
  ASSUME SInv, NInv, BadToken \/ Parse
  PROVE  NInv'
<1>1. /\ UNCHANGED <<scopes, var_scope, functions>>
      /\ func' # None => func # None /\ func'.refs = func.refs \cup {}
  BY DEF BadToken, SyntaxError, Parse
<1>2. Resolved({}, var_scope)
  BY DEF Resolved
<1> QED BY <1>1, <1>2, RefsAdded

LEMMA NStepPreserves ==
  ASSUME SInv, NInv, [Next]_vars
  PROVE  NInv'
<1>1. ASSUME NEW name \in FunctionNames, NewFunction(name) PROVE NInv'
  BY <1>1, NewFunctionIds
<1>2. ASSUME NEW name \in Names, Parameter(name) PROVE NInv'
  BY <1>2, DeclaresIds DEF Parameter, Parsing
<1>3. ASSUME NEW name \in Names, NEW use \in Names \cup {None}, VarStatement(name, use) PROVE NInv'
  BY <1>3, DeclaresIds DEF VarStatement, Parsing
<1>4. ASSUME NEW name \in Names, NEW use \in Names \cup {None}, Assignment(name, use) PROVE NInv'
  BY <1>4, StatementIds
<1>5. ASSUME NEW use \in Names \cup {None}, Return(use) PROVE NInv'
  BY <1>5, StatementIds
<1>6. CASE UNCHANGED vars
  BY <1>6 DEF vars, NInv, IdsRise, RefsResolved, Resolved
<1> QED BY <1>1, <1>2, <1>3, <1>4, <1>5, <1>6, EndFunctionIds, FailureIds DEF Next

-----------------------------------------------------------------------------
(***************************************************************************)
(* The theorems.                                                           *)
(***************************************************************************)

\* The maps of every scope stay inverse to each other and hold ids below
\* var_id, whatever is declared, in whatever order, in however many files.
THEOREM ScopesTyped == Spec => []ScopesTypeOK
<1>1. Init => SInv
  BY SInitInvariant
<1>2. SInv /\ [Next]_vars => SInv'
  BY SStepPreserves
<1>3. SInv => ScopesTypeOK
  BY DEF SInv, ScopesOK, ScopeOK, ScopesTypeOK
<1> QED BY <1>1, <1>2, <1>3, PTL DEF Spec

\* Nothing that is parsed later adds to a finished function's scope or
\* replaces the function, also in a file after one that failed.
THEOREM FunctionsStaySettled == Spec => FunctionsSettled
<1>1. Init => SInv
  BY SInitInvariant
<1>2. SInv /\ [Next]_vars => SInv'
  BY SStepPreserves
<1>3. SInv /\ [Next]_vars =>
        [\A f \in DOMAIN functions :
           /\ f \in DOMAIN functions' /\ functions'[f] = functions[f]
           /\ scopes'[functions[f].var_scope] = scopes[functions[f].var_scope]]_vars
  BY SStepPreserves DEF FinishedAlone
<1> QED BY <1>1, <1>2, <1>3, PTL DEF Spec, FunctionsSettled

\* The ids a finished function uses are those of its variables, never one
\* that the temporaries get or that live_vars and color_map have no place for.
THEOREM IdsStayBelowTemps == Spec => []IdsBelowTemps
<1>1. Init => SInv /\ NInv
  BY SInitInvariant, NInitInvariant
<1>2. SInv /\ NInv /\ [Next]_vars => (SInv /\ NInv)'
  BY SStepPreserves, NStepPreserves
<1>3. SInv /\ NInv => IdsBelowTemps
  <2> SUFFICES ASSUME SInv, NInv, NEW f \in DOMAIN functions, NEW r \in functions[f].refs
               PROVE  r.id \in 0 .. scopes[functions[f].var_scope].var_id - 1
    BY DEF IdsBelowTemps
  <2> DEFINE k == functions[f].var_scope
  <2>1. k \in 1 .. Len(scopes) /\ Len(scopes) \in Nat
    BY DEF SInv, ScopesOK, ScopesSettled
  <2>2. Gives(scopes, k, r.name, r.id)
    BY DEF NInv, RefsResolved, Resolved
  <2> HIDE DEF k
  <2>3. PICK j \in 1 .. k : r.name \in DOMAIN scopes[j].var_map /\ scopes[j].var_map[r.name] = r.id
    BY <2>2 DEF Gives
  <2>4. ScopeOK(scopes[j]) /\ ScopeOK(scopes[k])
    BY <2>1, <2>3 DEF SInv, ScopesOK
  <2>5. /\ scopes[j].var_id \in Nat /\ scopes[k].var_id \in Nat
        /\ r.id \in 0 .. scopes[j].var_id - 1
    BY <2>3, <2>4 DEF ScopeOK
  <2>6. scopes[j].var_id <= scopes[k].var_id
    BY <2>1, <2>3, <2>5 DEF NInv, IdsRise
  <2>7. r.id \in 0 .. scopes[k].var_id - 1
    BY <2>5, <2>6
  <2> QED BY <2>7 DEF k
<1> QED BY <1>1, <1>2, <1>3, PTL DEF Spec

\* A finished function's variables never share an id, whatever scopes they
\* are from: the slots of the three-address code hold one variable each.
THEOREM NamesStayApart == Spec => []NamesApart
<1>1. Init => SInv /\ NInv
  BY SInitInvariant, NInitInvariant
<1>2. SInv /\ NInv /\ [Next]_vars => (SInv /\ NInv)'
  BY SStepPreserves, NStepPreserves
<1>3. SInv /\ NInv => NamesApart
  <2> SUFFICES ASSUME SInv, NInv, NEW f \in DOMAIN functions,
                      NEW p \in functions[f].refs, NEW q \in functions[f].refs, p.id = q.id
               PROVE  p.name = q.name
    BY DEF NamesApart
  <2> DEFINE k == functions[f].var_scope
  <2>1. k \in 1 .. Len(scopes) /\ Len(scopes) \in Nat
    BY DEF SInv, ScopesOK, ScopesSettled
  <2>2. Gives(scopes, k, p.name, p.id) /\ Gives(scopes, k, q.name, q.id)
    BY DEF NInv, RefsResolved, Resolved
  <2> HIDE DEF k
  <2>3. PICK i \in 1 .. k : p.name \in DOMAIN scopes[i].var_map /\ scopes[i].var_map[p.name] = p.id
    BY <2>2 DEF Gives
  <2>4. PICK j \in 1 .. k : q.name \in DOMAIN scopes[j].var_map /\ scopes[j].var_map[q.name] = q.id
    BY <2>2 DEF Gives
  <2>5. /\ i \in 1 .. Len(scopes) /\ j \in 1 .. Len(scopes)
        /\ ScopeOK(scopes[i]) /\ ScopeOK(scopes[j])
    BY <2>1, <2>3, <2>4 DEF SInv, ScopesOK
  <2>6. /\ scopes[i].var_id \in Nat /\ p.id \in 0 .. scopes[i].var_id - 1
        /\ scopes[j].var_id \in Nat /\ q.id \in 0 .. scopes[j].var_id - 1
    BY <2>3, <2>4, <2>5 DEF ScopeOK
  <2>7. CASE i = j
    BY <2>3, <2>4, <2>5, <2>7 DEF ScopeOK, IsInjective
  <2>8. CASE i < j
    <3>1. scopes[i].var_id <= q.id
      BY <2>4, <2>5, <2>8 DEF NInv, IdsRise
    <3> QED BY <2>6, <3>1
  <2>9. CASE j < i
    <3>1. scopes[j].var_id <= p.id
      BY <2>3, <2>5, <2>9 DEF NInv, IdsRise
    <3> QED BY <2>6, <3>1
  <2> QED BY <2>5, <2>7, <2>8, <2>9
<1> QED BY <1>1, <1>2, <1>3, PTL DEF Spec
=============================================================================
