-------------------------- MODULE LifeTimesProofs --------------------------
(***************************************************************************)
(* Proofs about LifeTimes, for every program over any number of variables. *)
(***************************************************************************)
EXTENDS LifeTimes, TLAPS

LEMMA EntryTypes ==
  ASSUME TypeOK, NEW e \in Indices
  PROVE  /\ Size \in Nat /\ At(e) \in Entry
         /\ Writes(e) \subseteq VarIds /\ Reads(e) \subseteq VarIds
<1>1. entries \in Seq(Entry)
  BY ProgramsAssumption DEF TypeOK
<1>2. Size \in Nat /\ At(e) \in Entry
  BY <1>1 DEF Size, Indices, At
<1> QED BY <1>2 DEF Entry, Operands, Writes, Reads

\* Liveness one entry up: the data-flow equation.
LEMMA LiveBefore ==
  ASSUME TypeOK, NEW e \in Indices, NEW v
  PROVE  LiveAt(v, e) <=> v \in Reads(e) \/ (v \notin Writes(e) /\ LiveAt(v, e + 1))
<1>1. Size \in Nat /\ e \in 0 .. Size - 1
  BY EntryTypes DEF Indices
<1>2. ASSUME LiveAt(v, e), v \notin Reads(e)
      PROVE  v \notin Writes(e) /\ LiveAt(v, e + 1)
  <2>1. PICK r \in Indices :
          e <= r /\ v \in Reads(r) /\ \A w \in e .. r - 1 : v \notin Writes(w)
    BY <1>2 DEF LiveAt
  <2>2. r # e /\ r \in 0 .. Size - 1
    BY <1>2, <2>1 DEF Indices
  <2>3. e \in e .. r - 1 /\ e + 1 <= r /\ \A w \in e + 1 .. r - 1 : w \in e .. r - 1
    BY <1>1, <2>1, <2>2
  <2> QED BY <2>1, <2>3 DEF LiveAt
<1>3. ASSUME v \in Reads(e) PROVE LiveAt(v, e)
  <2>1. e <= e /\ e .. e - 1 = {}
    BY <1>1
  <2> QED BY <1>3, <2>1 DEF LiveAt
<1>4. ASSUME v \notin Writes(e), LiveAt(v, e + 1) PROVE LiveAt(v, e)
  <2>1. PICK r \in Indices :
          e + 1 <= r /\ v \in Reads(r) /\ \A w \in e + 1 .. r - 1 : v \notin Writes(w)
    BY <1>4 DEF LiveAt
  <2>2. e <= r /\ \A w \in e .. r - 1 : w = e \/ w \in e + 1 .. r - 1
    BY <1>1, <2>1 DEF Indices
  <2> QED BY <1>4, <2>1, <2>2 DEF LiveAt
<1> QED BY <1>2, <1>3, <1>4

\* Both read operands open a range that is closed.
LEMMA OperandsReadEffect ==
  ASSUME NEW seen \in [VarIds -> Int], NEW e \in Entry, NEW at \in Nat
  PROVE  OperandsRead(seen, e, at) =
           [v \in VarIds |-> IF v \in {e.b, e.c} \ {-1} /\ seen[v] = -1 THEN at ELSE seen[v]]
<1>1. e.b \in VarIds \cup {-1} /\ e.c \in VarIds \cup {-1} /\ -1 \notin VarIds
  BY DEF Entry, Operands, VarIds
<1> QED BY <1>1 DEF OperandsRead, Opened

\* What one iteration does to last_read and to the live bits.
LEMMA VisitEffect ==
  ASSUME TypeOK, Next
  PROVE  /\ i \in Indices /\ i' = i - 1 /\ entries' = entries
         /\ last_read' = [v \in VarIds |->
              IF v \in Reads(i) /\ (v \in Writes(i) \/ last_read[v] = -1) THEN i
              ELSE IF v \in Writes(i) THEN -1 ELSE last_read[v]]
         /\ live_vars' = [j \in Indices |->
              live_vars[j] \cup {v \in Writes(i) : last_read[v] # -1 /\ j \in i + 1 .. last_read[v]}]
<1>1. i >= 0 /\ i' = i - 1 /\ entries' = entries
  BY DEF Next, VisitWrite, VisitOther
<1>2. i \in Indices
  BY <1>1 DEF TypeOK, Indices, Size
<1>3. At(i) \in Entry /\ i \in Int
  BY <1>2, EntryTypes DEF TypeOK
<1>4. CASE VisitWrite
  <2> DEFINE x    == At(i).a
             seen == Closed(last_read, x)
  <2>1. x \in VarIds /\ x # -1 /\ last_read[x] # -1 /\ Writes(i) = {x} /\ i \in Nat
    BY <1>1, <1>3, <1>4 DEF VisitWrite, Entry, Operands, Writes
  <2>2. seen \in [VarIds -> Int] /\ seen = [v \in VarIds |-> IF v = x THEN -1 ELSE last_read[v]]
    <3>1. \A v \in VarIds : last_read[v] \in Int
      BY DEF TypeOK, Indices
    <3>2. seen = [v \in VarIds |-> IF v = x THEN -1 ELSE last_read[v]]
      <4> HIDE DEF x
      <4>1. last_read = [v \in VarIds |-> last_read[v]]
        BY DEF TypeOK
      <4> QED BY <2>1, <4>1 DEF Closed
    <3> HIDE DEF x, seen
    <3> QED BY <3>1, <3>2
  <2>3. last_read' = [v \in VarIds |-> IF v \in Reads(i) /\ seen[v] = -1 THEN i ELSE seen[v]]
    <3> HIDE DEF seen
    <3>1. last_read' = OperandsRead(seen, At(i), i)
      BY <1>4 DEF VisitWrite, seen
    <3> QED BY <1>3, <2>1, <2>2, <3>1, OperandsReadEffect DEF Reads
  <2>4. live_vars' = [j \in Indices |->
          live_vars[j] \cup {v \in Writes(i) : last_read[v] # -1 /\ j \in i + 1 .. last_read[v]}]
    <3>1. live_vars' = [j \in Indices |->
            IF j \in i + 1 .. last_read[x] THEN live_vars[j] \cup {x} ELSE live_vars[j]]
      BY <1>1, <1>3, <1>4 DEF VisitWrite, Marked, From
    <3> HIDE DEF x
    <3> QED BY <2>1, <3>1
  <2>5. last_read' = [v \in VarIds |->
              IF v \in Reads(i) /\ (v \in Writes(i) \/ last_read[v] = -1) THEN i
              ELSE IF v \in Writes(i) THEN -1 ELSE last_read[v]]
    <3> HIDE DEF x, seen
    <3> QED BY <2>1, <2>2, <2>3
  <2> QED BY <1>1, <1>2, <2>4, <2>5
<1>5. CASE VisitOther
  BY <1>1, <1>2, <1>3, <1>5
     DEF VisitOther, OperandsRead, Opened, Reads, Writes, TypeOK, Entry, Operands, VarIds
<1> QED BY <1>1, <1>2, <1>4, <1>5 DEF Next

\* The pass knows exactly what the part of the program it has seen tells.
IInv == TypeOK /\ VisitedExact

LEMMA InitInvariant ==
  ASSUME Init
  PROVE  IInv
<1>1. entries \in Seq(Entry) /\ Size \in Nat /\ i = Size - 1
  BY ProgramsAssumption DEF Init, Size
<1>2. TypeOK
  BY <1>1 DEF Init, TypeOK, Indices
<1>3. \A v \in VarIds : ~LiveAt(v, i + 1)
  BY <1>1 DEF LiveAt, Indices
<1>4. \A j \in Indices : i + 1 .. j - 1 = {}
  BY <1>1 DEF Indices
<1> QED BY <1>2, <1>3, <1>4 DEF Init, IInv, VisitedExact

LEMMA VisitPreserves ==
  ASSUME IInv, Next
  PROVE  IInv'
<1> DEFINE ToRead(v) == v \in Reads(i) /\ (v \in Writes(i) \/ last_read[v] = -1)
<1>1. /\ i \in Indices /\ i' = i - 1 /\ entries' = entries /\ TypeOK
      /\ Size \in Nat /\ i \in 0 .. Size - 1
      /\ Writes(i) \subseteq VarIds /\ Reads(i) \subseteq VarIds
  BY VisitEffect, EntryTypes DEF IInv, Indices
<1>2. last_read' = [v \in VarIds |->
        IF ToRead(v) THEN i ELSE IF v \in Writes(i) THEN -1 ELSE last_read[v]]
  BY <1>1, VisitEffect
<1>3. live_vars' = [j \in Indices |->
        live_vars[j] \cup {v \in Writes(i) : last_read[v] # -1 /\ j \in i + 1 .. last_read[v]}]
  BY <1>1, VisitEffect
<1>4. /\ Indices' = Indices /\ Size' = Size
      /\ \A v, e : LiveAt(v, e)' <=> LiveAt(v, e)
      /\ \A e : Writes(e)' = Writes(e) /\ Reads(e)' = Reads(e)
  BY <1>1 DEF Indices, Size, LiveAt, Writes, Reads, At
<1>5. TypeOK'
  <2>1. last_read' \in [VarIds -> Indices \cup {-1}]
    BY <1>1, <1>2 DEF TypeOK
  <2>2. live_vars' \in [Indices -> SUBSET VarIds]
    BY <1>1, <1>3 DEF TypeOK
  <2>3. warned' \subseteq VarIds
    <3>1. i + 1 # -1
      BY <1>1
    <3> QED BY <1>1, <3>1 DEF Next, VisitWrite, VisitOther, TypeOK
  <2>4. i' \in -1 .. Size - 1 /\ entries' \in Programs
    BY <1>1 DEF TypeOK
  <2> QED BY <1>4, <2>1, <2>2, <2>3, <2>4 DEF TypeOK
<1>6. ASSUME NEW v \in VarIds, last_read[v] # -1
      PROVE  /\ last_read[v] \in Indices /\ last_read[v] > i /\ v \in Reads(last_read[v])
             /\ \A w \in i + 1 .. last_read[v] - 1 : v \notin Writes(w)
             /\ v \in Writes(last_read[v]) \/ ~LiveAt(v, last_read[v] + 1)
  BY <1>6 DEF IInv, TypeOK, VisitedExact
<1>7. ASSUME NEW v \in VarIds, last_read[v] = -1
      PROVE  ~LiveAt(v, i + 1)
  BY <1>7 DEF IInv, VisitedExact
<1>8. ASSUME NEW j \in Indices, NEW v \in VarIds
      PROVE  v \in live_vars'[j] <=> LiveAt(v, j) /\ \E w \in i .. j - 1 : v \in Writes(w)
  <2>1. v \in live_vars[j] <=> LiveAt(v, j) /\ \E w \in i + 1 .. j - 1 : v \in Writes(w)
    BY DEF IInv, VisitedExact
  <2>2. j \in 0 .. Size - 1
    BY DEF Indices
  <2>3. ASSUME v \in live_vars[j]
        PROVE  LiveAt(v, j) /\ \E w \in i .. j - 1 : v \in Writes(w)
    BY <1>1, <2>1, <2>2, <2>3
  <2>4. ASSUME v \in Writes(i), last_read[v] # -1, j \in i + 1 .. last_read[v]
        PROVE  LiveAt(v, j) /\ \E w \in i .. j - 1 : v \in Writes(w)
    <3>1. \A w \in j .. last_read[v] - 1 : w \in i + 1 .. last_read[v] - 1
      BY <1>1, <1>6, <2>2, <2>4 DEF Indices
    <3>2. j <= last_read[v] /\ i \in i .. j - 1
      BY <1>1, <2>2, <2>4
    <3> QED BY <1>6, <2>4, <3>1, <3>2 DEF LiveAt
  <2>5. ASSUME LiveAt(v, j), NEW w \in i .. j - 1, v \in Writes(w), v \notin live_vars[j]
        PROVE  v \in Writes(i) /\ last_read[v] # -1 /\ j \in i + 1 .. last_read[v]
    <3>1. \A x \in i + 1 .. j - 1 : v \notin Writes(x)
      BY <2>1, <2>5
    <3>2. w = i /\ j >= i + 1
      BY <1>1, <2>2, <2>5, <3>1
    <3>3. PICK r \in Indices :
            j <= r /\ v \in Reads(r) /\ \A x \in j .. r - 1 : v \notin Writes(x)
      BY <2>5 DEF LiveAt
    <3>4. r \in 0 .. Size - 1 /\ i + 1 <= r /\ \A x \in i + 1 .. r - 1 : v \notin Writes(x)
      <4>1. r \in 0 .. Size - 1
        BY DEF Indices
      <4>2. \A x \in i + 1 .. r - 1 : x \in i + 1 .. j - 1 \/ x \in j .. r - 1
        BY <1>1, <2>2, <3>2, <3>3, <4>1
      <4> QED BY <1>1, <2>2, <3>1, <3>2, <3>3, <4>1, <4>2
    <3>5. LiveAt(v, i + 1)
      BY <3>3, <3>4 DEF LiveAt
    <3>6. last_read[v] # -1 /\ last_read[v] \in 0 .. Size - 1 /\ last_read[v] > i
      BY <1>6, <1>7, <3>5 DEF Indices
    <3>7. ASSUME last_read[v] < j PROVE FALSE
      <4>1. last_read[v] \in i + 1 .. r - 1
        BY <1>1, <2>2, <3>3, <3>4, <3>6, <3>7
      <4>2. last_read[v] + 1 <= r /\ \A x \in last_read[v] + 1 .. r - 1 : x \in i + 1 .. r - 1
        BY <1>1, <3>4, <3>6, <4>1
      <4>3. LiveAt(v, last_read[v] + 1)
        BY <3>3, <3>4, <4>2 DEF LiveAt
      <4> QED BY <1>6, <3>4, <3>6, <4>1, <4>3
    <3> QED BY <1>1, <2>2, <2>5, <3>2, <3>6, <3>7
  <2> QED BY <1>3, <2>3, <2>4, <2>5
<1>9. ASSUME NEW v \in VarIds
      PROVE  IF last_read'[v] = -1
             THEN ~LiveAt(v, i)
             ELSE /\ last_read'[v] > i - 1 /\ v \in Reads(last_read'[v])
                  /\ \A w \in i .. last_read'[v] - 1 : v \notin Writes(w)
                  /\ v \in Writes(last_read'[v]) \/ ~LiveAt(v, last_read'[v] + 1)
  <2>1. CASE ToRead(v)
    <3>1. last_read'[v] = i /\ i # -1 /\ i .. i - 1 = {} /\ i > i - 1
      BY <1>1, <1>2, <2>1
    <3> QED BY <1>7, <2>1, <3>1
  <2>2. CASE ~ToRead(v) /\ v \in Writes(i)
    <3>1. last_read'[v] = -1 /\ v \notin Reads(i)
      BY <1>2, <2>2
    <3> QED BY <1>1, <2>2, <3>1, LiveBefore
  <2>3. CASE ~ToRead(v) /\ v \notin Writes(i)
    <3>1. last_read'[v] = last_read[v]
      BY <1>2, <2>3
    <3>2. CASE last_read[v] = -1
      BY <1>1, <1>7, <2>3, <3>1, <3>2, LiveBefore
    <3>3. CASE last_read[v] # -1
      <4>1. last_read[v] \in 0 .. Size - 1 /\ last_read[v] > i
        BY <1>6, <3>3 DEF Indices
      <4>2. \A w \in i .. last_read[v] - 1 : w = i \/ w \in i + 1 .. last_read[v] - 1
        BY <1>1, <4>1
      <4>3. last_read[v] > i - 1
        BY <1>1, <4>1
      <4> QED BY <1>6, <2>3, <3>1, <3>3, <4>2, <4>3
    <3> QED BY <3>2, <3>3
  <2> QED BY <2>1, <2>2, <2>3
<1>10. VisitedExact'
  <2>1. i' + 1 = i /\ i' = i - 1
    BY <1>1
  <2>2. \A j \in Indices : live_vars'[j] =
          {v \in VarIds : LiveAt(v, j) /\ \E w \in i .. j - 1 : v \in Writes(w)}
    <3>1. \A j \in Indices : live_vars'[j] \subseteq VarIds
      BY <1>4, <1>5 DEF TypeOK
    <3> QED BY <1>8, <3>1
  <2>3. \A v : LiveAt(v, i + 1)' <=> LiveAt(v, i)
    BY <1>1, <2>1 DEF LiveAt, Indices, Size, Writes, Reads, At
  <2>4. \A v : LiveAt(v, last_read[v] + 1)' <=> LiveAt(v, last_read'[v] + 1)
    BY <1>1 DEF LiveAt, Indices, Size, Writes, Reads, At
  <2>5. \A v : /\ Reads(last_read[v])' = Reads(last_read'[v])
               /\ Writes(last_read[v])' = Writes(last_read'[v])
    BY <1>1 DEF Writes, Reads, At
  <2>6. (\A j \in Indices :
          live_vars[j] =
            {v \in VarIds : LiveAt(v, j) /\ \E w \in i + 1 .. j - 1 : v \in Writes(w)})'
    <3> SUFFICES ASSUME NEW j \in Indices
                 PROVE  (live_vars[j] =
                          {v \in VarIds : LiveAt(v, j) /\ \E w \in i + 1 .. j - 1 : v \in Writes(w)})'
      BY <1>4
    <3>1. live_vars'[j] \subseteq VarIds
      BY <1>4, <1>5 DEF TypeOK
    <3>2. ASSUME NEW v \in VarIds
          PROVE  v \in live_vars'[j] <=>
                   (LiveAt(v, j) /\ \E w \in i + 1 .. j - 1 : v \in Writes(w))'
      <4>1. (\E w \in i + 1 .. j - 1 : v \in Writes(w))'
              <=> \E w \in i .. j - 1 : v \in Writes(w)
        BY <1>1, <2>1 DEF Writes, At
      <4>2. LiveAt(v, j)' <=> LiveAt(v, j)
        BY <1>1 DEF LiveAt, Indices, Size, Writes, Reads, At
      <4> QED BY <1>8, <4>1, <4>2
    <3> QED BY <3>1, <3>2
  <2>7. (\A v \in VarIds :
          IF last_read[v] = -1
          THEN ~LiveAt(v, i + 1)
          ELSE /\ last_read[v] > i /\ v \in Reads(last_read[v])
               /\ \A w \in i + 1 .. last_read[v] - 1 : v \notin Writes(w)
               /\ v \in Writes(last_read[v]) \/ ~LiveAt(v, last_read[v] + 1))'
    <3> SUFFICES ASSUME NEW v \in VarIds
                 PROVE  (IF last_read[v] = -1
                         THEN ~LiveAt(v, i + 1)
                         ELSE /\ last_read[v] > i /\ v \in Reads(last_read[v])
                              /\ \A w \in i + 1 .. last_read[v] - 1 : v \notin Writes(w)
                              /\ v \in Writes(last_read[v]) \/ ~LiveAt(v, last_read[v] + 1))'
      OBVIOUS
    <3>1. CASE last_read'[v] = -1
      BY <1>9, <2>3, <3>1
    <3>2. CASE last_read'[v] # -1
      <4>1. (\A w \in i + 1 .. last_read[v] - 1 : v \notin Writes(w))'
        <5>1. \A w \in i' + 1 .. last_read'[v] - 1 : v \notin Writes(w)
          BY <1>9, <2>1, <3>2
        <5> QED BY <1>1, <5>1 DEF Writes, At
      <4>2. (last_read[v] > i)' /\ v \in Reads(last_read[v])'
        BY <1>9, <2>1, <2>5, <3>2
      <4>3. v \in Writes(last_read[v])' \/ ~LiveAt(v, last_read[v] + 1)'
        BY <1>9, <2>4, <2>5, <3>2
      <4> QED BY <3>2, <4>1, <4>2, <4>3
    <3> QED BY <3>1, <3>2
  <2> QED BY <2>6, <2>7 DEF VisitedExact
<1> QED BY <1>5, <1>10 DEF IInv

\* Both parts hold of every reachable state, whatever the program.
THEOREM Invariance == Spec => []IInv
<1>1. Init => IInv
  BY InitInvariant
<1>2. IInv /\ [Next]_vars => IInv'
  <2>1. ASSUME IInv, UNCHANGED vars PROVE IInv'
    <3>1. /\ entries' = entries /\ i' = i /\ last_read' = last_read
          /\ live_vars' = live_vars /\ warned' = warned
      BY <2>1 DEF vars
    <3>2. /\ Indices' = Indices /\ Size' = Size
          /\ \A e : Writes(e)' = Writes(e) /\ Reads(e)' = Reads(e)
      BY <3>1 DEF Indices, Size, Writes, Reads, At
    <3>3. \A v, e : LiveAt(v, e)' <=> LiveAt(v, e)
      BY <3>2 DEF LiveAt
    <3>4. TypeOK'
      BY <2>1, <3>1, <3>2 DEF IInv, TypeOK
    <3>5. VisitedExact'
      BY <2>1, <3>1, <3>2, <3>3 DEF IInv, VisitedExact
    <3> QED BY <3>4, <3>5 DEF IInv
  <2> QED BY <2>1, VisitPreserves
<1> QED BY <1>1, <1>2, PTL DEF Spec

\* The indices that calculate_life_times() keeps are in range, and live_vars
\* has a bit for every variable and no other.
THEOREM TypeCorrect == Spec => []TypeOK
<1>1. IInv => TypeOK
  BY DEF IInv
<1> QED BY <1>1, Invariance, PTL

\* At every iteration the bits and last_read are exact for the entries that
\* have been visited.
THEOREM ExactOnTheWay == Spec => []VisitedExact
<1>1. IInv => VisitedExact
  BY DEF IInv
<1> QED BY <1>1, Invariance, PTL

\* After the pass the bits are the live variables that have a value.
THEOREM ExactAtTheEnd == Spec => []Exact
<1>1. IInv => Exact
  BY DEF IInv, VisitedExact, Exact, Done
<1> QED BY <1>1, Invariance, PTL

\* After the pass every value that is read later is live together with the
\* value that a write in between adds, so generate() gives the two an edge.
THEOREM WritesInterfere == Spec => []WriteInterferes
<1>1. ASSUME IInv PROVE WriteInterferes
  <2> SUFFICES ASSUME Done, NEW e \in Indices, NEW v \in Writes(e), NEW u \in VarIds \ {v},
                      LiveAt(v, e + 1), LiveAt(u, e + 1),
                      NEW w \in 0 .. e - 1, u \in Writes(w)
               PROVE  e + 1 \in Indices /\ {u, v} \subseteq live_vars[e + 1]
    BY DEF WriteInterferes
  <2>1. e \in 0 .. Size - 1 /\ Size \in Nat /\ v \in VarIds
    BY <1>1, EntryTypes DEF IInv, Indices
  <2>2. PICK r \in Indices : e + 1 <= r
    BY DEF LiveAt
  <2>3. e + 1 \in Indices /\ e \in 0 .. (e + 1) - 1 /\ w \in 0 .. (e + 1) - 1
    BY <2>1, <2>2 DEF Indices
  <2>4. live_vars[e + 1] =
          {x \in VarIds : LiveAt(x, e + 1) /\ \E y \in 0 .. (e + 1) - 1 : x \in Writes(y)}
    BY <1>1, <2>3 DEF IInv, VisitedExact, Done
  <2> QED BY <2>1, <2>3, <2>4
<1> QED BY <1>1, Invariance, PTL

=============================================================================
