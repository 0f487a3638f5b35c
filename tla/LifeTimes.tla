----------------------------- MODULE LifeTimes -----------------------------
(***************************************************************************)
(* tac::calculate_life_times() and add_live_range() (compiler/tac.cpp):    *)
(* one pass over the three-address code from its last entry to its first,  *)
(* which finds for every entry the variables that are live at it.  The     *)
(* body of the loop is one step.                                           *)
(*                                                                         *)
(* An entry is reduced to the ids of its operands, -1 for an operand that  *)
(* is unused or a constant.  Entries are numbered from 0, as in the code,  *)
(* because -1 stands for "no read seen".                                   *)
(***************************************************************************)
EXTENDS Integers, Sequences

CONSTANTS
  NumVars,      \* next_varid: the variable ids are 0..NumVars-1
  Programs      \* the entry lists the pass is run on

VarIds == 0 .. NumVars - 1
Operands == VarIds \cup {-1}
Entry == [a : Operands, b : Operands, c : Operands]

ASSUME NumVarsAssumption == NumVars \in Nat
ASSUME ProgramsAssumption == Programs \subseteq Seq(Entry)

VARIABLES
  entries,      \* the program, never changed
  i,            \* index of the entry visited next, -1 at the end
  last_read,    \* for every id the read its open range ends in, or -1
  live_vars,    \* for every entry the ids whose bit is set
  warned        \* ids reported as "being used uninitialized"

vars == <<entries, i, last_read, live_vars, warned>>

Size == Len(entries)
Indices == 0 .. Size - 1
At(e) == entries[e + 1]

Writes(e) == {At(e).a} \ {-1}
Reads(e)  == {At(e).b, At(e).c} \ {-1}

-----------------------------------------------------------------------------
(***************************************************************************)
(* Variants of the definitions below, each with one plausible slip.        *)
(***************************************************************************)
FromTheWrite(from) == from - 1
ClosedNever(seen, id) == seen
OneTooFar(seen, id, at) == IF id # -1 /\ seen[id] = -1 THEN [seen EXCEPT ![id] = at + 1] ELSE seen
FirstOperandOnly(seen, e, at) ==
  IF e.b # -1 /\ seen[e.b] = -1 THEN [seen EXCEPT ![e.b] = at] ELSE seen
-----------------------------------------------------------------------------
\* Where add_live_range() starts to mark: at the top for a from of -1.
From(from) == IF from = -1 THEN 0 ELSE from

\* add_live_range(): one more id is live at the entries from .. to.
Marked(id, from, to) ==
  [j \in Indices |-> IF j \in From(from) .. to THEN live_vars[j] \cup {id} ELSE live_vars[j]]

\* last_read[id] = -1
Closed(seen, id) == [seen EXCEPT ![id] = -1]

\* Going backwards, the first read of an open range is its last one.
Opened(seen, id, at) == IF id # -1 /\ seen[id] = -1 THEN [seen EXCEPT ![id] = at] ELSE seen

OperandsRead(seen, e, at) == Opened(Opened(seen, e.b, at), e.c, at)

Init ==
  /\ entries \in Programs
  /\ i = Size - 1
  /\ last_read = [id \in VarIds |-> -1]
  /\ live_vars = [j \in Indices |-> {}]
  /\ warned = {}

\* The entry writes a variable that is read further down.
VisitWrite ==
  /\ i >= 0
  /\ At(i).a # -1 /\ last_read[At(i).a] # -1
  /\ live_vars' = Marked(At(i).a, i + 1, last_read[At(i).a])
  /\ warned' = IF i + 1 = -1 THEN warned \cup {At(i).a} ELSE warned
  /\ last_read' = OperandsRead(Closed(last_read, At(i).a), At(i), i)
  /\ i' = i - 1
  /\ UNCHANGED entries

\* It writes nothing, or what no later entry reads.
VisitOther ==
  /\ i >= 0
  /\ At(i).a # -1 => last_read[At(i).a] = -1
  /\ last_read' = OperandsRead(last_read, At(i), i)
  /\ i' = i - 1
  /\ UNCHANGED <<entries, live_vars, warned>>

Next == VisitWrite \/ VisitOther

Spec == Init /\ [][Next]_vars

Done == i = -1

-----------------------------------------------------------------------------
(***************************************************************************)
(* Properties.                                                             *)
(***************************************************************************)

\* Types of the pass's variables.
TypeOK ==
  /\ entries \in Programs
  /\ i \in -1 .. Size - 1
  /\ last_read \in [VarIds -> Indices \cup {-1}]
  /\ live_vars \in [Indices -> SUBSET VarIds]
  /\ warned \subseteq VarIds

\* What v holds before entry e is read at entry e or later.
LiveAt(v, e) ==
  \E r \in Indices :
    /\ e <= r /\ v \in Reads(r)
    /\ \A w \in e .. r - 1 : v \notin Writes(w)

\* The data-flow definition of liveness, cut off at the first write: the
\* code runs straight down, so the bits are the variables that are live at
\* the entry and have been written before it.
Exact ==
  Done =>
    \A j \in Indices :
      live_vars[j] =
        {v \in VarIds : LiveAt(v, j) /\ \E w \in 0 .. j - 1 : v \in Writes(w)}

\* On the way: the same for the writes that have been visited; and last_read
\* is the end of the range of a variable that is live at the top of them.
VisitedExact ==
  /\ \A j \in Indices :
       live_vars[j] =
         {v \in VarIds : LiveAt(v, j) /\ \E w \in i + 1 .. j - 1 : v \in Writes(w)}
  /\ \A v \in VarIds :
       IF last_read[v] = -1
       THEN ~LiveAt(v, i + 1)
       ELSE /\ last_read[v] > i /\ v \in Reads(last_read[v])
            /\ \A w \in i + 1 .. last_read[v] - 1 : v \notin Writes(w)
            /\ v \in Writes(last_read[v]) \/ ~LiveAt(v, last_read[v] + 1)

\* A value that is read later is not overwritten by a write in between whose
\* own value is read later too: the two variables are live together at the
\* entry after the write, which is what gives them an edge.
WriteInterferes ==
  Done =>
    \A e \in Indices : \A v \in Writes(e) : \A u \in VarIds \ {v} :
      /\ LiveAt(v, e + 1) /\ LiveAt(u, e + 1)
      /\ \E w \in 0 .. e - 1 : u \in Writes(w)
      => e + 1 \in Indices /\ {u, v} \subseteq live_vars[e + 1]
=============================================================================
