-------------------------- MODULE AutoMemoryProofs --------------------------
(***************************************************************************)
(* Proofs about AutoMemory, for every page size, all allocators and        *)
(* accesses: the types, why the process is killed, and that what is stored *)
(* in an allocator stays there, and so the code in a stream is intact.     *)
(***************************************************************************)
EXTENDS AutoMemory, SequenceTheorems, Recursion, TLAPS

-----------------------------------------------------------------------------
(***************************************************************************)
(* The inductive invariants.                                               *)
(***************************************************************************)
\* What is under way
Underway ==
  /\ access # None => access \in Accesses /\ (access.emits => stream # None /\ stream.done < stream.size)
  /\ stream # None =>
       /\ stream \in [alloc : Ids, data_size : Nat, size : Nat, done : Nat]
       /\ stream.done <= stream.size
       /\ stream.data_size + stream.size <= Config[stream.alloc].len

\* The catcher exists exactly while its action can be installed, and SIGTRAP's
\* never is.
Actions ==
  /\ segv \in {"kill", "catch", "dump"} /\ {trap, compiler} \subseteq {None, "kill", "dump"}
  /\ trap # None
  /\ catcher \in {None, "kill", "dump", "gone"}
  /\ segv = "catch" => catcher \in {"kill", "dump"}

Tables ==
  /\ made \subseteq Ids /\ alive \subseteq made
  /\ handlers \in Seq(Ids)
  /\ \A p \in Pages : page[p] = None \/ \E a \in made : page[p] = Config[a].prot
  /\ mem \in [Addresses -> 0 .. 2]

\* A fault is pending only where the page still forbids the access.
Pending == access # None /\ access.faulted => ~Permits(access.kind, PageOf(access.addr))

\* Once the catcher's action is gone for a reason that excuses nothing, the
\* thread is at an access that no allocator has and that does not go through.
Doomed ==
  /\ access # None /\ ~Permits(access.kind, PageOf(access.addr))
  /\ Owners(access.addr) = {}

CInv ==
  /\ Pending
  /\ catcher \in {None, "gone"} => alive = {}
  /\ segv # "catch" /\ catcher \notin {None, "gone"} /\ ~refused /\ ~undone => Doomed
  /\ CrashJustified

MInv == Underway /\ Actions /\ Tables /\ HandlersAlive

\* No two allocators begin at the same address: a handler is removed by it.
StartsDiffer == \A a, b \in Ids : Config[a].start = Config[b].start => a = b

-----------------------------------------------------------------------------
(***************************************************************************)
(* Sequences.                                                              *)
(***************************************************************************)

LEMMA Removed ==
  ASSUME NEW S, NEW s \in Seq(S), NEW j \in 1 .. Len(s)
  PROVE  /\ RemoveAt(s, j) \in Seq(S)
         /\ ToSet(RemoveAt(s, j)) = {s[q] : q \in 1 .. Len(s) \ {j}}
         /\ IsInjective(s) => IsInjective(RemoveAt(s, j))
<1> DEFINE t == RemoveAt(s, j)
<1>1. /\ t \in Seq(S) /\ Len(t) = Len(s) - 1 /\ Len(s) \in Nat
      /\ \A q \in 1 .. Len(s) - 1 : t[q] = IF q < j THEN s[q] ELSE s[q + 1]
  <2> DEFINE l == SubSeq(s, 1, j - 1)
             m == SubSeq(s, j + 1, Len(s))
  <2>1. /\ l \in Seq(S) /\ Len(l) = j - 1 /\ Len(s) \in Nat
        /\ \A q \in 1 .. j - 1 : l[q] = s[q]
    OBVIOUS
  <2>2. /\ m \in Seq(S) /\ Len(m) = Len(s) - j
        /\ \A q \in 1 .. Len(s) - j : m[q] = s[q + j]
    OBVIOUS
  <2>3. t = l \o m
    BY DEF RemoveAt
  <2> HIDE DEF l, m, t
  <2>4. /\ t \in Seq(S) /\ Len(t) = Len(l) + Len(m)
        /\ \A q \in 1 .. Len(l) + Len(m) : t[q] = IF q <= Len(l) THEN l[q] ELSE m[q - Len(l)]
    BY <2>1, <2>2, <2>3, ConcatProperties
  <2>5. Len(l) + Len(m) = Len(s) - 1
    BY <2>1, <2>2
  <2>6. ASSUME NEW q \in 1 .. Len(s) - 1 PROVE t[q] = IF q < j THEN s[q] ELSE s[q + 1]
    <3>1. q \in 1 .. Len(l) + Len(m)
      BY <2>5, <2>6
    <3>2. t[q] = IF q <= Len(l) THEN l[q] ELSE m[q - Len(l)]
      BY <2>4, <3>1
    <3>3. CASE q < j
      BY <2>1, <2>6, <3>2, <3>3
    <3>4. CASE q >= j
      <4>1. q - (j - 1) \in 1 .. Len(s) - j /\ ~ q <= j - 1
        BY <2>1, <2>6, <3>4
      <4>2. t[q] = m[q - (j - 1)]
        BY <2>1, <3>2, <4>1
      <4>3. m[q - (j - 1)] = s[(q - (j - 1)) + j]
        BY <2>2, <4>1
      <4>4. (q - (j - 1)) + j = q + 1
        BY <2>1, <2>6
      <4> QED BY <3>4, <4>2, <4>3, <4>4
    <3> QED BY <2>1, <2>6, <3>3, <3>4
  <2>7. t \in Seq(S) /\ Len(t) = Len(s) - 1 /\ Len(s) \in Nat
    BY <2>1, <2>4, <2>5
  <2> QED BY <2>6, <2>7 DEF t
<1> HIDE DEF t
<1>2. ToSet(t) \subseteq {s[q] : q \in 1 .. Len(s) \ {j}}
  BY <1>1 DEF ToSet
<1>3. {s[q] : q \in 1 .. Len(s) \ {j}} \subseteq ToSet(t)
  <2> SUFFICES ASSUME NEW q \in 1 .. Len(s) \ {j} PROVE \E r \in DOMAIN t : t[r] = s[q]
    BY DEF ToSet
  <2>1. CASE q < j
    BY <1>1, <2>1
  <2>2. CASE q > j
    <3>1. q - 1 \in DOMAIN t /\ t[q - 1] = s[q]
      BY <1>1, <2>2
    <3> QED BY <3>1
  <2> QED BY <1>1, <2>1, <2>2
<1>4. IsInjective(s) => IsInjective(t)
  <2> SUFFICES ASSUME IsInjective(s), NEW p \in DOMAIN t, NEW q \in DOMAIN t, t[p] = t[q]
               PROVE  p = q
    BY DEF IsInjective
  <2> DEFINE at(r) == IF r < j THEN r ELSE r + 1
  <2>1. \A r \in DOMAIN t : at(r) \in DOMAIN s /\ t[r] = s[at(r)]
    BY <1>1
  <2>2. at(p) = at(q)
    BY <2>1 DEF IsInjective
  <2> QED BY <1>1, <2>2
<1> QED BY <1>1, <1>2, <1>3, <1>4 DEF t

LEMMA AddedLast ==
  ASSUME NEW S, NEW s \in Seq(S), NEW e \in S, e \notin ToSet(s)
  PROVE  /\ Append(s, e) \in Seq(S)
         /\ ToSet(Append(s, e)) = ToSet(s) \cup {e}
         /\ IsInjective(s) => IsInjective(Append(s, e))
<1> DEFINE t == Append(s, e)
<1>1. /\ t \in Seq(S) /\ Len(t) = Len(s) + 1 /\ Len(s) \in Nat /\ t[Len(s) + 1] = e
      /\ \A q \in 1 .. Len(s) : t[q] = s[q]
  OBVIOUS
<1> HIDE DEF t
<1>2. DOMAIN t = DOMAIN s \cup {Len(s) + 1} /\ DOMAIN s = 1 .. Len(s)
  BY <1>1
<1>3. ToSet(t) = ToSet(s) \cup {e}
  BY <1>1, <1>2 DEF ToSet
<1>4. IsInjective(s) => IsInjective(t)
  BY <1>1, <1>2 DEF IsInjective, ToSet
<1> QED BY <1>1, <1>3, <1>4 DEF t

\* The handler that is removed is the allocator's own.
LEMMA ErasedOwn ==
  ASSUME StartsDiffer, MInv, NEW a \in alive
  PROVE  /\ Erased(a) \in Seq(Ids)
         /\ ToSet(Erased(a)) = alive \ {a}
         /\ IsInjective(Erased(a))
<1> DEFINE First(j) == /\ Config[handlers[j]].start = Config[a].start
                       /\ \A q \in 1 .. j - 1 : Config[handlers[q]].start # Config[a].start
<1>1. handlers \in Seq(Ids) /\ a \in Ids /\ ToSet(handlers) = alive /\ IsInjective(handlers)
  BY DEF MInv, Tables, HandlersAlive
<1>2. PICK j \in 1 .. Len(handlers) : handlers[j] = a
  BY <1>1 DEF ToSet
<1>3. \A q \in 1 .. Len(handlers) : Config[handlers[q]].start = Config[a].start <=> q = j
  BY <1>1, <1>2 DEF StartsDiffer, IsInjective
<1>4. \A q \in 1 .. Len(handlers) : First(q) <=> q = j
  BY <1>1, <1>3
<1>5. (CHOOSE q \in 1 .. Len(handlers) : First(q)) = j
  <2> HIDE DEF First
  <2> QED BY <1>4
<1>6. Erased(a) = RemoveAt(handlers, j)
  BY <1>5 DEF Erased
<1>7. {handlers[q] : q \in 1 .. Len(handlers) \ {j}} = alive \ {a}
  BY <1>1, <1>2 DEF ToSet, IsInjective
<1> QED BY <1>1, <1>6, <1>7, Removed

\* The handler that is called is of an allocator that exists and has the
\* address; without one no allocator has it.
LEMMA FirstHandler ==
  ASSUME MInv, NEW addr \in Addresses
  PROVE  /\ HandlerOf(addr) # None => HandlerOf(addr) \in Owners(addr)
         /\ HandlerOf(addr) = None => Owners(addr) = {}
<1> DEFINE hits == {i \in 1 .. Len(handlers) : InRange(handlers[i], addr)}
           least(i) == \A j \in hits : i <= j
<1>1. /\ handlers \in Seq(Ids) /\ ToSet(handlers) = alive
      /\ \A a \in Ids : Config[a].start \in Nat /\ Config[a].len \in Nat
  BY MemoryAssumption DEF MInv, Tables, HandlersAlive, Ids
<1>2. \A a \in Ids : InRange(a, addr) <=> addr \in Span(a)
  BY <1>1 DEF InRange, Span, Addresses
<1>3. CASE hits = {}
  <2>1. Owners(addr) = {}
    BY <1>1, <1>2, <1>3 DEF Owners, ToSet
  <2>2. HandlerOf(addr) = None
    BY <1>3 DEF HandlerOf
  <2> QED BY <2>1, <2>2
<1>4. CASE hits # {}
  <2>1. \E i \in hits : least(i)
    <3>1. hits \subseteq Nat
      BY <1>1
    <3> HIDE DEF hits
    <3> QED BY <1>4, <3>1, LeastNumber
  <2>2. PICK i \in hits : HandlerOf(addr) = handlers[i]
    <3> DEFINE first == CHOOSE i \in hits : least(i)
    <3>1. HandlerOf(addr) = handlers[first]
      BY <1>4 DEF HandlerOf
    <3>2. first \in hits
      <4> HIDE DEF hits, least
      <4> QED BY <2>1
    <3> QED BY <3>1, <3>2
  <2>3. handlers[i] \in alive /\ handlers[i] \in Ids
    BY <1>1 DEF ToSet
  <2>4. handlers[i] \in Owners(addr) /\ handlers[i] # None
    BY <1>2, <2>3, NoneAssumption DEF Owners
  <2> QED BY <2>2, <2>4
<1> QED BY <1>3, <1>4
-----------------------------------------------------------------------------
(***************************************************************************)
(* The invariants hold at first, and every action keeps them.              *)
(***************************************************************************)

LEMMA InitHolds ==
  Init => MInv /\ CInv
<1> SUFFICES ASSUME Init PROVE MInv /\ CInv
  OBVIOUS
<1>1. Underway /\ Actions
  BY NoneAssumption DEF Init, Underway, Actions
<1>2. Tables
  BY DEF Init, Tables
<1>3. HandlersAlive
  BY DEF Init, HandlersAlive, ToSet, IsInjective
<1>4. CInv
  BY DEF Init, CInv, Pending, CrashJustified
<1> QED BY <1>1, <1>2, <1>3, <1>4 DEF MInv

\* Pages that are mapped for an allocator keep the tables.
LEMMA MapPagesKeeps ==
  ASSUME MInv, NEW a \in Ids, NEW ps, MapPages(a, ps), made' \subseteq Ids, made \subseteq made', a \in made'
  PROVE  /\ \A p \in Pages : page'[p] = None \/ \E b \in made' : page'[p] = Config[b].prot
         /\ mem' \in [Addresses -> 0 .. 2]
<1>1. \A p \in Pages : page[p] = None \/ \E b \in made : page[p] = Config[b].prot
  BY DEF MInv, Tables
<1>2. \A p \in Pages : page'[p] = IF p \in ps THEN Config[a].prot ELSE page[p]
  BY DEF MapPages
<1>3. mem' = [x \in Addresses |-> IF PageOf(x) \in ps THEN 0 ELSE mem[x]] /\ mem \in [Addresses -> 0 .. 2]
  BY DEF MapPages, MInv, Tables
<1>4. mem' \in [Addresses -> 0 .. 2]
  BY <1>3
<1> QED BY <1>1, <1>2, <1>4

LEMMA NewAllocatorKeeps ==
  ASSUME MInv, CInv, NEW a \in Ids, NewAllocator(a)
  PROVE  MInv' /\ CInv'
<1>1. /\ Idle /\ a \notin made /\ made' = made \cup {a} /\ alive' = alive \cup {a}
      /\ handlers' = Append(handlers, a)
      /\ IF catcher = None THEN catcher' = segv /\ segv' = "catch" ELSE UNCHANGED <<catcher, segv>>
      /\ UNCHANGED <<trap, compiler, access, stream, dead, refused, undone>>
  BY DEF NewAllocator
<1>2. made \subseteq Ids /\ alive \subseteq made /\ handlers \in Seq(Ids) /\ HandlersAlive
  BY DEF MInv, Tables
<1>3. HandlersAlive' /\ handlers' \in Seq(Ids)
  BY <1>1, <1>2, AddedLast DEF HandlersAlive
<1>4. Tables'
  <2>1. PICK done \in SUBSET PreAllocated(a) : MapPages(a, done)
    BY DEF NewAllocator
  <2> QED BY <1>1, <1>2, <1>3, <2>1, MapPagesKeeps DEF Tables
<1>5. Underway'
  BY <1>1 DEF MInv, Underway
<1>6. Actions'
  BY <1>1, NoneAssumption DEF MInv, Actions
<1>7. CInv'
  BY <1>1, NoneAssumption DEF MInv, Actions, CInv, Idle, Pending, Doomed, CrashJustified
<1> QED BY <1>3, <1>4, <1>5, <1>6, <1>7 DEF MInv

LEMMA DeleteAllocatorKeeps ==
  ASSUME StartsDiffer, MInv, CInv, NEW a \in Ids, DeleteAllocator(a)
  PROVE  MInv' /\ CInv'
<1>1. /\ Idle /\ a \in alive /\ alive' = alive \ {a} /\ handlers' = Erased(a)
      /\ UNCHANGED <<made, signals, memory, access, stream, dead, refused>>
  BY DEF DeleteAllocator
<1>2. HandlersAlive' /\ handlers' \in Seq(Ids)
  BY <1>1, ErasedOwn DEF HandlersAlive
<1>3. Tables'
  BY <1>1, <1>2 DEF MInv, Tables, memory
<1>4. Underway' /\ Actions'
  BY <1>1 DEF MInv, Underway, Actions, signals
<1>5. CInv'
  BY <1>1 DEF CInv, Idle, Pending, Doomed, CrashJustified, signals
<1> QED BY <1>2, <1>3, <1>4, <1>5 DEF MInv

\* A tac2x64 takes SIGTRAP, and gives up SIGSEGV.
LEMMA CompilerKeeps ==
  ASSUME MInv, CInv, NewCompiler \/ DeleteCompiler
  PROVE  MInv' /\ CInv'
<1>1. Idle /\ UNCHANGED <<made, alive, handlers, catcher, memory, access, stream, dead, refused>>
  BY DEF NewCompiler, DeleteCompiler
<1>2. Underway' /\ Tables' /\ HandlersAlive'
  BY <1>1 DEF MInv, Underway, Tables, HandlersAlive, memory
<1>3. Actions'
  BY <1>1, NoneAssumption DEF MInv, Actions, NewCompiler, DeleteCompiler
<1>4. CInv'
  BY <1>1 DEF CInv, Idle, Pending, Doomed, CrashJustified, NewCompiler, DeleteCompiler
<1> QED BY <1>2, <1>3, <1>4 DEF MInv

LEMMA ExitKeeps ==
  ASSUME MInv, CInv, Exit
  PROVE  MInv' /\ CInv'
<1>1. /\ Idle /\ alive = {} /\ segv' = catcher /\ catcher' = "gone" /\ catcher # None
      /\ UNCHANGED <<made, alive, handlers, trap, compiler, undone, memory, access, stream, dead, refused>>
  BY DEF Exit
<1>2. Underway' /\ Tables' /\ HandlersAlive'
  BY <1>1 DEF MInv, Underway, Tables, HandlersAlive, memory
<1>3. Actions'
  BY <1>1 DEF MInv, Actions, Idle
<1>4. CInv'
  BY <1>1 DEF CInv, Idle, Pending, CrashJustified
<1> QED BY <1>2, <1>3, <1>4 DEF MInv

LEMMA StreamKeeps ==
  ASSUME MInv, CInv, (\E a \in Ids : OpenStream(a)) \/ \E n \in Sizes : Emit(n)
  PROVE  MInv' /\ CInv'
<1>1. Idle /\ UNCHANGED <<made, alive, handlers, signals, memory, access, dead, refused>>
  BY DEF OpenStream, Emit
<1>2. Tables' /\ HandlersAlive' /\ Actions'
  BY <1>1 DEF MInv, Tables, HandlersAlive, Actions, memory, signals
<1>3. Underway'
  <2>1. CASE \E a \in Ids : OpenStream(a)
    BY <1>1, <2>1, MemoryAssumption DEF OpenStream, Underway, Idle, Ids
  <2>2. CASE \E n \in Sizes : Emit(n)
    BY <1>1, <2>2, UsesAssumption DEF Emit, Fits, MInv, Underway, Idle
  <2> QED BY <2>1, <2>2
<1>4. CInv'
  BY <1>1 DEF CInv, Idle, Pending, Doomed, CrashJustified, signals
<1> QED BY <1>2, <1>3, <1>4 DEF MInv

\* An access begins: of the stream's next byte, or the program's own.
LEMMA StartKeeps ==
  ASSUME MInv, CInv, EmitByte \/ \E t \in Touches : Touch(t)
  PROVE  MInv' /\ CInv'
<1>1. access = None /\ ~dead /\ UNCHANGED <<made, alive, handlers, signals, memory, stream, dead, refused>>
  BY DEF EmitByte, Touch, Idle
<1>2. Tables' /\ HandlersAlive' /\ Actions'
  BY <1>1 DEF MInv, Tables, HandlersAlive, Actions, memory, signals
<1>3. Underway' /\ access'.faulted = FALSE
  <2>1. CASE EmitByte
    <3> DEFINE addr == Config[stream.alloc].start + stream.data_size + stream.done
    <3>1. stream \in [alloc : Ids, data_size : Nat, size : Nat, done : Nat] /\ stream.done < stream.size
          /\ stream.data_size + stream.size <= Config[stream.alloc].len /\ stream # None
      BY <2>1 DEF EmitByte, MInv, Underway
    <3>2. addr \in Addresses
      BY <3>1, MemoryAssumption DEF Addresses, Ids
    <3>3. access' = [addr |-> addr, kind |-> "write", byte |-> 1, emits |-> TRUE, faulted |-> FALSE]
      BY <2>1 DEF EmitByte, Starts
    <3>4. access' \in Accesses /\ access'.faulted = FALSE
      BY <3>2, <3>3 DEF Accesses, AllKinds
    <3> QED BY <1>1, <3>1, <3>4 DEF MInv, Underway
  <2>2. CASE \E t \in Touches : Touch(t)
    <3>1. PICK t \in Touches : Touch(t)
      BY <2>2
    <3>2. access' = [addr |-> t.addr, kind |-> t.kind, byte |-> 2, emits |-> FALSE, faulted |-> FALSE]
      BY <3>1 DEF Touch, Starts
    <3>3. access' \in Accesses /\ access'.faulted = FALSE /\ access'.emits = FALSE
      BY <3>2, UsesAssumption DEF Accesses
    <3> QED BY <1>1, <3>3 DEF MInv, Underway
  <2> QED BY <2>1, <2>2, <1>1 DEF EmitByte, Touch
<1>4. CInv'
  BY <1>1, <1>3 DEF CInv, Pending, Doomed, CrashJustified, signals
<1> QED BY <1>2, <1>3, <1>4 DEF MInv

\* The access is made: not the one of a process that is doomed.
LEMMA CompleteKeeps ==
  ASSUME MInv, CInv, Complete
  PROVE  MInv' /\ CInv'
<1>1. /\ access # None /\ ~dead /\ Permits(access.kind, PageOf(access.addr)) /\ access' = None
      /\ mem' = IF access.kind = "write" THEN [mem EXCEPT ![access.addr] = access.byte] ELSE mem
      /\ stream' = IF access.emits THEN Emitted ELSE stream
      /\ UNCHANGED <<made, alive, handlers, signals, page, dead, refused>>
  BY DEF Complete
<1>2. access \in Accesses
  BY <1>1 DEF MInv, Underway
<1>3. mem' \in [Addresses -> 0 .. 2]
  <2>1. mem \in [Addresses -> 0 .. 2] /\ access.byte \in 0 .. 2
    BY <1>2 DEF MInv, Tables, Accesses
  <2> QED BY <1>1, <2>1
<1>4. Tables' /\ HandlersAlive' /\ Actions'
  BY <1>1, <1>3 DEF MInv, Tables, HandlersAlive, Actions, signals
<1>5. Underway'
  <2>1. CASE ~access.emits
    BY <1>1, <2>1 DEF MInv, Underway
  <2>2. CASE access.emits
    <3>1. stream \in [alloc : Ids, data_size : Nat, size : Nat, done : Nat] /\ stream.done < stream.size
          /\ stream.data_size + stream.size <= Config[stream.alloc].len /\ stream' = Emitted
      BY <1>1, <2>2 DEF MInv, Underway
    <3>2. CASE stream.done + 1 < stream.size
      BY <1>1, <3>1, <3>2 DEF Emitted, Underway
    <3>3. CASE ~(stream.done + 1 < stream.size)
      BY <1>1, <3>1, <3>3 DEF Emitted, Advance, Underway
    <3> QED BY <3>2, <3>3
  <2> QED BY <2>1, <2>2
<1>6. CInv'
  BY <1>1 DEF CInv, Pending, Doomed, CrashJustified, signals
<1> QED BY <1>4, <1>5, <1>6 DEF MInv

\* What an access that goes on, faulted or not, leaves of the invariant
LEMMA SameAccess ==
  ASSUME MInv, access # None, NEW f \in BOOLEAN, access' = [access EXCEPT !.faulted = f],
         UNCHANGED <<made, alive, handlers, stream>>
  PROVE  /\ Underway' /\ HandlersAlive'
         /\ access'.addr = access.addr /\ access'.kind = access.kind /\ access'.faulted = f
         /\ access' \in Accesses /\ access \in Accesses
         /\ access' # None => access # None
<1>1. access \in Accesses
  BY DEF MInv, Underway
<1>2. access' \in Accesses /\ access'.addr = access.addr /\ access'.kind = access.kind
      /\ access'.faulted = f /\ access'.emits = access.emits
  BY <1>1 DEF Accesses
<1>3. Underway' /\ HandlersAlive'
  BY <1>2 DEF MInv, Underway, HandlersAlive
<1> QED BY <1>1, <1>2, <1>3

LEMMA FaultKeeps ==
  ASSUME MInv, CInv, Fault
  PROVE  MInv' /\ CInv'
<1>1. /\ access # None /\ ~dead /\ ~Permits(access.kind, PageOf(access.addr))
      /\ access' = [access EXCEPT !.faulted = TRUE]
      /\ UNCHANGED <<made, alive, handlers, signals, memory, stream, dead, refused>>
  BY DEF Fault
<1>2. Underway' /\ HandlersAlive' /\ access'.addr = access.addr /\ access'.kind = access.kind
      /\ access' \in Accesses /\ access \in Accesses
  BY <1>1, SameAccess
<1>3. Tables' /\ Actions'
  BY <1>1 DEF MInv, Tables, Actions, memory, signals
<1>4. CInv'
  <2>1. (Doomed => Doomed') /\ Pending'
    BY <1>1, <1>2, NoneAssumption DEF Pending, Doomed, Permits, Owners, memory
  <2> QED BY <1>1, <2>1 DEF CInv, CrashJustified, signals
<1> QED BY <1>2, <1>3, <1>4 DEF MInv

\* The process is killed at an access of no allocator, or with an excuse.
LEMMA KilledKeeps ==
  ASSUME MInv, CInv, Killed
  PROVE  MInv' /\ CInv'
<1>1. /\ access # None /\ segv = "kill"
      /\ UNCHANGED <<made, alive, handlers, signals, memory, access, stream, refused>>
  BY DEF Killed, Faulted
<1>2. MInv'
  BY <1>1 DEF MInv, Underway, Tables, HandlersAlive, Actions, memory, signals
<1>3. Owners(access.addr) = {} \/ refused \/ undone
  BY <1>1 DEF CInv, Owners, Doomed
<1>4. CrashJustified'
  BY <1>1, <1>3 DEF CrashJustified, Owners, signals
<1>5. CInv'
  BY <1>1, <1>4 DEF CInv, Pending, Permits, Doomed, Owners, memory, signals
<1> QED BY <1>2, <1>5

\* The registers are printed and the access is tried again.
LEMMA DumpedKeeps ==
  ASSUME MInv, CInv, Dumped
  PROVE  MInv' /\ CInv'
<1>1. /\ access # None /\ ~dead /\ access' = [access EXCEPT !.faulted = FALSE]
      /\ UNCHANGED <<made, alive, handlers, signals, memory, stream, dead, refused>>
  BY DEF Dumped, Faulted, Again
<1>2. /\ Underway' /\ HandlersAlive' /\ access'.addr = access.addr /\ access'.kind = access.kind
      /\ access'.faulted = FALSE /\ access' \in Accesses
  BY <1>1, SameAccess
<1>3. Tables' /\ Actions'
  BY <1>1 DEF MInv, Tables, Actions, memory, signals
<1>4. Doomed => Doomed'
  BY <1>1, <1>2, NoneAssumption DEF Doomed, Permits, Owners, memory
<1>5. CInv'
  BY <1>1, <1>2, <1>4 DEF CInv, Pending, CrashJustified, signals
<1> QED BY <1>2, <1>3, <1>5 DEF MInv

\* A handler maps the page.
LEMMA ServedKeeps ==
  ASSUME MInv, CInv, Served
  PROVE  MInv' /\ CInv'
<1> DEFINE h == HandlerOf(access.addr)
<1>1. /\ access # None /\ ~dead /\ segv = "catch" /\ access' = [access EXCEPT !.faulted = FALSE]
      /\ h # None /\ MapPages(h, Replaced(h, PageOf(AsInt(access.addr))))
      /\ UNCHANGED <<made, alive, handlers, signals, stream, dead, refused>>
  BY DEF Served, Faulted, Again
<1>2. /\ Underway' /\ HandlersAlive' /\ access'.faulted = FALSE /\ access \in Accesses
  BY <1>1, SameAccess
<1>3. h \in made /\ made \subseteq Ids
  BY <1>1, <1>2, FirstHandler DEF Accesses, Owners, MInv, Tables
<1>4. Tables'
  <2> HIDE DEF h
  <2> QED BY <1>1, <1>3, MapPagesKeeps DEF MInv, Tables
<1>5. Actions'
  BY <1>1 DEF MInv, Actions, signals
<1>6. CInv'
  BY <1>1, <1>2 DEF CInv, Pending, CrashJustified, signals
<1> QED BY <1>2, <1>4, <1>5, <1>6 DEF MInv

\* The action that the catcher saved comes back: mmap() has failed, or no
\* handler has the address and then no allocator has it.
LEMMA RestoredKeeps ==
  ASSUME MInv, CInv, HandlerFailed \/ NoHandler
  PROVE  MInv' /\ CInv'
<1>1. /\ access # None /\ access.faulted /\ ~dead /\ segv = "catch" /\ segv' = catcher
      /\ access' = [access EXCEPT !.faulted = FALSE]
      /\ UNCHANGED <<made, alive, handlers, catcher, trap, compiler, undone, memory, stream, dead>>
      /\ refused' \/ HandlerOf(access.addr) = None
  BY DEF HandlerFailed, NoHandler, Faulted, Again
<1>2. /\ Underway' /\ HandlersAlive' /\ access'.addr = access.addr /\ access'.kind = access.kind
      /\ access'.faulted = FALSE /\ access \in Accesses
      /\ access' \in Accesses
  BY <1>1, SameAccess
<1>3. Tables' /\ Actions'
  BY <1>1 DEF MInv, Tables, Actions, memory
<1>4. refused' \/ Owners(access.addr) = {}
  BY <1>1, <1>2, FirstHandler DEF Accesses
<1>5. ~Permits(access.kind, PageOf(access.addr))
  BY <1>1 DEF CInv, Pending
<1>6. access' # None
  BY <1>2, NoneAssumption
<1>7. refused' \/ Doomed'
  BY <1>1, <1>2, <1>4, <1>5, <1>6 DEF Doomed, Permits, Owners, memory
<1>8. CInv'
  BY <1>1, <1>2, <1>7 DEF CInv, Pending, CrashJustified
<1> QED BY <1>2, <1>3, <1>8 DEF MInv
-----------------------------------------------------------------------------
(***************************************************************************)
(* The theorems.                                                           *)
(***************************************************************************)

LEMMA NextKeeps ==
  StartsDiffer /\ MInv /\ CInv /\ [Next]_vars => MInv' /\ CInv'
<1> SUFFICES ASSUME StartsDiffer, MInv, CInv, [Next]_vars
             PROVE  MInv' /\ CInv'
  OBVIOUS
<1>1. CASE \E a \in Ids : NewAllocator(a) \/ DeleteAllocator(a) \/ OpenStream(a)
  BY <1>1, NewAllocatorKeeps, DeleteAllocatorKeeps, StreamKeeps
<1>2. CASE NewCompiler \/ DeleteCompiler
  BY <1>2, CompilerKeeps
<1>3. CASE Exit
  BY <1>3, ExitKeeps
<1>4. CASE \E n \in Sizes : Emit(n)
  BY <1>4, StreamKeeps
<1>5. CASE EmitByte \/ \E t \in Touches : Touch(t)
  BY <1>5, StartKeeps
<1>6. CASE Processor
  BY <1>6, CompleteKeeps, FaultKeeps, KilledKeeps, DumpedKeeps, ServedKeeps, RestoredKeeps DEF Processor
<1>7. CASE UNCHANGED vars
  BY <1>7 DEF vars, MInv, Underway, Actions, Tables, HandlersAlive, CInv, Pending, Permits, Doomed,
              Owners, CrashJustified
<1> QED BY <1>1, <1>2, <1>3, <1>4, <1>5, <1>6, <1>7 DEF Next

LEMMA Invariance ==
  StartsDiffer /\ Spec => [](MInv /\ CInv)
<1> SUFFICES ASSUME StartsDiffer PROVE Spec => [](MInv /\ CInv)
  OBVIOUS
<1>1. Init => MInv /\ CInv
  BY InitHolds
<1>2. MInv /\ CInv /\ [Next]_vars => (MInv /\ CInv)'
  BY NextKeeps
<1> QED BY <1>1, <1>2, PTL DEF Spec

\* The tables, the pages and what is under way have their types, and the
\* instructions in a stream never pass its allocator's end.
THEOREM MemoryTyped ==
  StartsDiffer /\ Spec => []MemoryTypeOK
<1>1. MInv /\ CInv => MemoryTypeOK
  <2> SUFFICES ASSUME MInv PROVE MemoryTypeOK
    OBVIOUS
  <2>1. stream # None => /\ stream.done \in 0 .. stream.size
                         /\ stream.data_size + stream.size \in 0 .. Config[stream.alloc].len
    <3> SUFFICES ASSUME stream # None
                 PROVE  /\ stream.done \in 0 .. stream.size
                        /\ stream.data_size + stream.size \in 0 .. Config[stream.alloc].len
      OBVIOUS
    <3>1. /\ stream.alloc \in Ids /\ stream.data_size \in Nat /\ stream.size \in Nat /\ stream.done \in Nat
          /\ stream.done <= stream.size /\ stream.data_size + stream.size <= Config[stream.alloc].len
      BY DEF MInv, Underway
    <3>2. Config[stream.alloc].len \in Nat
      BY <3>1, MemoryAssumption DEF Ids
    <3> QED BY <3>1, <3>2
  <2> QED BY <2>1 DEF MInv, Underway, Actions, Tables, MemoryTypeOK
<1> QED BY <1>1, Invariance, PTL

\* segv_catcher never calls the handler of an allocator that is gone, and
\* every allocator that exists has exactly one.
THEOREM HandlersFollowAllocators ==
  StartsDiffer /\ Spec => []HandlersAlive
<1>1. MInv => HandlersAlive
  BY DEF MInv
<1> QED BY <1>1, Invariance, PTL

\* A process that is killed was at an address of no allocator, mmap() had
\* failed in a handler, or a tac2x64 had been destroyed.
THEOREM CrashesAreJustified ==
  StartsDiffer /\ Spec => []CrashJustified
<1>1. CInv => CrashJustified
  BY DEF CInv
<1> QED BY <1>1, Invariance, PTL

-----------------------------------------------------------------------------
(***************************************************************************)
(* The invariant of the memory and the streams.                            *)
(***************************************************************************)

\* The pages that are mapped at first are the allocator's.
PreAllocFits == \A a \in Ids : Config[a].pre_alloc \in Nat /\ Config[a].pre_alloc <= Config[a].len

\* Page p is one that the handler of allocator a, or its constructor, may map.
Reaches(a, p) == \E y \in Span(a) : p \in {PageOf(y), PageOf(AsInt(y))}

\* A page was mapped for an allocator that reaches it.
PagesBelong ==
  \A p \in Pages : page[p] # None =>
    \E b \in made : page[p] = Config[b].prot /\ Reaches(b, p)

\* Nothing is stored where nothing is mapped.
StoredIsMapped == \A x \in Addresses : mem[x] # 0 => page[PageOf(x)] # None

\* The stream writes its next byte.
WritesNext ==
  access # None /\ access.emits =>
    /\ access.kind = "write"
    /\ access.addr = Config[stream.alloc].start + stream.data_size + stream.done

\* What is written of the instruction under way counts as well.
Written ==
  stream # None /\ Config[stream.alloc].prot = AllKinds =>
    \A i \in 0 .. stream.data_size + stream.done - 1 :
      Sole(Config[stream.alloc].start + i) => mem[Config[stream.alloc].start + i] # 0

BInv == PagesBelong /\ StoredIsMapped /\ WritesNext /\ Written

\* The step that BytesStay allows
Stays == \A x \in Addresses : mem[x] # 0 /\ mem'[x] = 0 => ~Sole(x) \/ Forbidden(x)

-----------------------------------------------------------------------------
(***************************************************************************)
(* Pages and the allocators they belong to.                                *)
(***************************************************************************)

LEMMA PageOfAddress ==
  ASSUME NEW x \in Addresses
  PROVE  PageOf(x) \in Pages
<1> DEFINE d == x \div PageSize
           q == Top \div PageSize
<1>1. d \in Int /\ q \in Int
  BY MemoryAssumption DEF Addresses
<1>2. x = PageSize * d + (x % PageSize) /\ x % PageSize \in 0 .. PageSize - 1
  BY MemoryAssumption DEF Addresses
<1>3. Top = PageSize * q
  BY MemoryAssumption
<1> HIDE DEF d, q
<1>4. d >= 0
  <2>1. SUFFICES ASSUME d <= -1 PROVE FALSE
    BY <1>1
  <2>2. PageSize * d <= PageSize * (-1)
    BY <1>1, <2>1, MemoryAssumption
  <2> QED BY <1>1, <1>2, <2>2, MemoryAssumption DEF Addresses
<1>5. d < q
  <2>1. SUFFICES ASSUME d >= q PROVE FALSE
    BY <1>1
  <2>2. PageSize * d >= PageSize * q
    BY <1>1, <2>1, MemoryAssumption
  <2> QED BY <1>1, <1>2, <1>3, <2>2, MemoryAssumption DEF Addresses
<1> QED BY <1>1, <1>4, <1>5 DEF d, q, PageOf, Pages

\* A page of its own belongs to every allocator that reaches it: to one.
LEMMA OneReaches ==
  ASSUME NEW x, Sole(x), NEW a \in Ids, NEW b \in Ids, Reaches(a, PageOf(x)), Reaches(b, PageOf(x))
  PROVE  a = b /\ BelongsTo(x, a)
<1>1. PICK c \in Ids : BelongsTo(x, c)
  BY DEF Sole
<1>2. ASSUME NEW d \in Ids, Reaches(d, PageOf(x)) PROVE d = c
  BY <1>1, <1>2 DEF BelongsTo, Reaches
<1> QED BY <1>1, <1>2

LEMMA PreAllocatedReached ==
  ASSUME PreAllocFits, NEW a \in Ids, NEW p \in PreAllocated(a)
  PROVE  Reaches(a, p)
<1>1. PICK k \in Nat : p = PageOf(Config[a].start + PageSize * k) /\ PageSize * k < Config[a].pre_alloc
  BY DEF PreAllocated, PreAllocFits
<1> DEFINE off == PageSize * k
<1>2. off \in Nat /\ off < Config[a].pre_alloc /\ p = PageOf(Config[a].start + off)
  BY <1>1, MemoryAssumption
<1> HIDE DEF off
<1>3. Config[a].start + off \in Span(a)
  BY <1>2, MemoryAssumption DEF PreAllocFits, Span, Ids
<1> QED BY <1>2, <1>3 DEF Reaches

\* Mapping pages that an allocator reaches keeps the first two parts.
LEMMA MappedBelongs ==
  ASSUME MInv, PagesBelong, StoredIsMapped, NEW a \in made', NEW ps, MapPages(a, ps),
         made \subseteq made', \A p \in ps : Reaches(a, p)
  PROVE  PagesBelong' /\ StoredIsMapped'
<1>1. \A p \in Pages : page'[p] = IF p \in ps THEN Config[a].prot ELSE page[p]
  BY DEF MapPages
<1>2. \A x \in Addresses : mem'[x] = IF PageOf(x) \in ps THEN 0 ELSE mem[x]
  BY DEF MapPages
<1>3. PagesBelong'
  BY <1>1 DEF PagesBelong
<1>4. StoredIsMapped'
  BY <1>1, <1>2, PageOfAddress DEF StoredIsMapped
<1> QED BY <1>3, <1>4

\* What MapPages destroys was on a page that it maps again.
LEMMA Destroyed ==
  ASSUME MInv, PagesBelong, StoredIsMapped, NEW a \in Ids, NEW ps, MapPages(a, ps),
         \A p \in ps : Reaches(a, p),
         NEW x \in Addresses, mem[x] # 0, mem'[x] = 0, Sole(x)
  PROVE  a \in made /\ PageOf(x) \in ps /\ page[PageOf(x)] = Config[a].prot /\ page[PageOf(x)] # None
         /\ BelongsTo(x, a)
<1>1. PageOf(x) \in ps
  BY DEF MapPages
<1>2. page[PageOf(x)] # None /\ PageOf(x) \in Pages
  BY PageOfAddress DEF StoredIsMapped
<1>3. PICK b \in made : page[PageOf(x)] = Config[b].prot /\ Reaches(b, PageOf(x))
  BY <1>2 DEF PagesBelong
<1>4. b \in Ids
  BY DEF MInv, Tables
<1>5. a = b /\ BelongsTo(x, a)
  BY <1>1, <1>3, <1>4, OneReaches
<1> QED BY <1>1, <1>2, <1>3, <1>5

\* The bytes of the stream are addresses.
LEMMA StreamAddress ==
  ASSUME MInv, stream # None, NEW i \in 0 .. stream.data_size + stream.done - 1
  PROVE  /\ stream.alloc \in Ids
         /\ Config[stream.alloc].start + i \in Addresses
         /\ Config[stream.alloc].start + i \in Span(stream.alloc)
<1>1. /\ stream.alloc \in Ids /\ stream.data_size \in Nat /\ stream.size \in Nat /\ stream.done \in Nat
      /\ stream.done <= stream.size /\ stream.data_size + stream.size <= Config[stream.alloc].len
  BY DEF MInv, Underway
<1>2. /\ Config[stream.alloc].start \in Nat /\ Config[stream.alloc].len \in Nat /\ Top \in Nat
      /\ Config[stream.alloc].start + Config[stream.alloc].len <= Top
  BY <1>1, MemoryAssumption DEF Ids
<1> QED BY <1>1, <1>2 DEF Addresses, Span

\* A step that leaves the stream alone and loses only what it may keeps the
\* code: its allocator forbids nothing.
LEMMA StaysWritten ==
  ASSUME MInv, Written, Stays, UNCHANGED stream
  PROVE  Written'
<1> SUFFICES ASSUME stream # None, Config[stream.alloc].prot = AllKinds,
                    NEW i \in 0 .. stream.data_size + stream.done - 1,
                    Sole(Config[stream.alloc].start + i), mem'[Config[stream.alloc].start + i] = 0
             PROVE  FALSE
  BY DEF Written
<1> DEFINE x == Config[stream.alloc].start + i
<1>1. stream.alloc \in Ids /\ x \in Addresses /\ x \in Span(stream.alloc)
  BY StreamAddress
<1>2. mem[x] # 0
  BY DEF Written
<1> HIDE DEF x
<1>3. Sole(x) /\ mem'[x] = 0
  BY DEF x
<1>4. Forbidden(x)
  BY <1>1, <1>2, <1>3 DEF Stays
<1>5. PICK a \in Owners(access.addr) :
        access # None /\ PageOf(access.addr) = PageOf(x) /\ access.kind \notin Config[a].prot
  BY <1>4 DEF Forbidden
<1>6. a \in Ids /\ access.addr \in Span(a) /\ access.kind \in AllKinds
  BY <1>5 DEF MInv, Underway, Tables, Owners, Accesses
<1>7. Reaches(a, PageOf(x)) /\ Reaches(stream.alloc, PageOf(x))
  BY <1>1, <1>5, <1>6 DEF Reaches
<1>8. a = stream.alloc
  BY <1>1, <1>3, <1>6, <1>7, OneReaches
<1> QED BY <1>5, <1>6, <1>8
-----------------------------------------------------------------------------
(***************************************************************************)
(* The invariant holds at first, every step keeps it and loses only what   *)
(* it may.                                                                 *)
(***************************************************************************)

LEMMA InitBytes == Init => BInv
  BY DEF Init, BInv, PagesBelong, StoredIsMapped, WritesNext, Written

\* Steps that map nothing, store nothing and begin no byte
LEMMA QuietKeeps ==
  ASSUME MInv, BInv, UNCHANGED <<memory, stream>>, made' = made,
         access' = access \/ access' = None
           \/ \E f \in BOOLEAN : access # None /\ access' = [access EXCEPT !.faulted = f]
  PROVE  BInv' /\ Stays
<1>1. Stays /\ PagesBelong' /\ StoredIsMapped' /\ Written'
  BY DEF Stays, BInv, PagesBelong, StoredIsMapped, Written, memory
<1>2. WritesNext'
  <2>1. CASE access' = access \/ access' = None
    BY <2>1 DEF BInv, WritesNext
  <2>2. CASE \E f \in BOOLEAN : access # None /\ access' = [access EXCEPT !.faulted = f]
    <3>1. access # None /\ access \in Accesses
      BY <2>2 DEF MInv, Underway
    <3>2. access'.addr = access.addr /\ access'.kind = access.kind /\ access'.emits = access.emits
      BY <2>2, <3>1 DEF Accesses
    <3> QED BY <3>1, <3>2 DEF BInv, WritesNext
  <2> QED BY <2>1, <2>2
<1> QED BY <1>1, <1>2 DEF BInv

LEMMA NewAllocatorBytes ==
  ASSUME PreAllocFits, MInv, BInv, NEW a \in Ids, NewAllocator(a)
  PROVE  BInv' /\ Stays
<1>1. PICK ps \in SUBSET PreAllocated(a) : MapPages(a, ps)
  BY DEF NewAllocator
<1>2. \A p \in ps : Reaches(a, p)
  BY PreAllocatedReached
<1>3. a \notin made /\ made' = made \cup {a} /\ access = None /\ UNCHANGED <<access, stream>>
  BY DEF NewAllocator, Idle
<1>4. PagesBelong' /\ StoredIsMapped'
  BY <1>1, <1>2, <1>3, MappedBelongs DEF BInv
<1>5. Stays
  BY <1>1, <1>2, <1>3, Destroyed DEF BInv, Stays
<1>6. Written'
  BY <1>3, <1>5, StaysWritten DEF BInv
<1> QED BY <1>3, <1>4, <1>5, <1>6 DEF BInv, WritesNext

\* The page of a byte that is lost was mapped and forbade the access.
LEMMA ServedBytes ==
  ASSUME MInv, CInv, BInv, Served
  PROVE  BInv' /\ Stays
<1> DEFINE h == HandlerOf(access.addr)
           ps == {PageOf(AsInt(access.addr))}
<1>1. /\ access # None /\ access.faulted /\ access' = [access EXCEPT !.faulted = FALSE]
      /\ h # None /\ MapPages(h, ps) /\ UNCHANGED <<made, stream>>
  BY DEF Served, Faulted, Again, Replaced
<1>2. access \in Accesses /\ h \in Owners(access.addr) /\ h \in made /\ h \in Ids
  BY <1>1, FirstHandler DEF MInv, Underway, Tables, Accesses, Owners
<1> HIDE DEF h
<1>3. access.addr \in Span(h) /\ \A p \in ps : Reaches(h, p)
  BY <1>2 DEF Owners, Reaches
<1> HIDE DEF ps
<1>4. PagesBelong' /\ StoredIsMapped'
  BY <1>1, <1>2, <1>3, MappedBelongs DEF BInv
<1>5. Stays
  <2> SUFFICES ASSUME NEW x \in Addresses, mem[x] # 0, mem'[x] = 0, Sole(x) PROVE Forbidden(x)
    BY DEF Stays
  <2>1. /\ PageOf(x) \in ps /\ page[PageOf(x)] = Config[h].prot /\ page[PageOf(x)] # None
        /\ BelongsTo(x, h)
    BY <1>1, <1>2, <1>3, Destroyed DEF BInv
  <2>2. PageOf(AsInt(access.addr)) = PageOf(x)
    BY <2>1 DEF ps
  <2>3. AsInt(access.addr) = access.addr
    BY <1>3, <2>1, <2>2 DEF BelongsTo
  <2>4. ~Permits(access.kind, PageOf(access.addr))
    BY <1>1 DEF CInv, Pending
  <2>5. access.kind \notin Config[h].prot
    BY <2>1, <2>2, <2>3, <2>4 DEF Permits
  <2> QED BY <1>1, <1>2, <2>2, <2>3, <2>5 DEF Forbidden
<1>6. Written'
  BY <1>1, <1>5, StaysWritten DEF BInv
<1>7. access'.addr = access.addr /\ access'.kind = access.kind /\ access'.emits = access.emits
  BY <1>1, <1>2 DEF Accesses
<1>8. WritesNext'
  BY <1>1, <1>7 DEF BInv, WritesNext
<1> QED BY <1>4, <1>5, <1>6, <1>8 DEF BInv

\* A stream begins, or an instruction: the last one is complete.
LEMMA StreamBytes ==
  ASSUME MInv, BInv, (\E a \in Ids : OpenStream(a)) \/ \E n \in Sizes : Emit(n)
  PROVE  BInv' /\ Stays
<1>1. access = None /\ UNCHANGED <<made, memory, access>>
  BY DEF OpenStream, Emit, Idle
<1>2. Stays /\ PagesBelong' /\ StoredIsMapped' /\ WritesNext'
  BY <1>1 DEF Stays, BInv, PagesBelong, StoredIsMapped, WritesNext, memory
<1>3. Written'
  <2>1. CASE \E a \in Ids : OpenStream(a)
    <3>1. stream'.data_size = 0 /\ stream'.done = 0
      BY <2>1 DEF OpenStream
    <3> QED BY <3>1 DEF Written
  <2>2. CASE \E n \in Sizes : Emit(n)
    <3>1. /\ stream # None /\ stream'.alloc = stream.alloc /\ stream'.data_size = stream.data_size
          /\ stream'.done = 0 /\ mem' = mem
      BY <1>1, <2>2 DEF Emit, memory
    <3>2. stream.data_size \in Nat /\ stream.done \in Nat
      BY <3>1 DEF MInv, Underway
    <3> QED BY <3>1, <3>2 DEF BInv, Written
  <2> QED BY <2>1, <2>2
<1> QED BY <1>2, <1>3 DEF BInv

LEMMA StartBytes ==
  ASSUME MInv, BInv, EmitByte \/ \E t \in Touches : Touch(t)
  PROVE  BInv' /\ Stays
<1>1. UNCHANGED <<made, memory, stream>>
  BY DEF EmitByte, Touch
<1>2. Stays /\ PagesBelong' /\ StoredIsMapped' /\ Written'
  BY <1>1 DEF Stays, BInv, PagesBelong, StoredIsMapped, Written, memory
<1>3. WritesNext'
  BY <1>1 DEF EmitByte, Touch, Starts, WritesNext
<1> QED BY <1>2, <1>3 DEF BInv

\* A byte is stored where the page permits it; it is the stream's next one or
\* the stream stays as it is.
LEMMA CompleteBytes ==
  ASSUME MInv, BInv, Complete
  PROVE  BInv' /\ Stays
<1>1. /\ access # None /\ Permits(access.kind, PageOf(access.addr)) /\ access' = None
      /\ mem' = IF access.kind = "write" THEN [mem EXCEPT ![access.addr] = access.byte] ELSE mem
      /\ stream' = IF access.emits THEN Emitted ELSE stream
      /\ UNCHANGED <<made, page>>
  BY DEF Complete
<1>2. access \in Accesses /\ mem \in [Addresses -> 0 .. 2]
  BY <1>1 DEF MInv, Underway, Tables
<1>3. access.addr \in Addresses /\ access.byte # 0
  BY <1>2 DEF Accesses
<1>4. \A x \in Addresses : mem'[x] = IF access.kind = "write" /\ x = access.addr THEN access.byte ELSE mem[x]
  BY <1>1, <1>2, <1>3
<1>5. Stays
  BY <1>3, <1>4 DEF Stays
<1>6. PagesBelong' /\ StoredIsMapped' /\ WritesNext'
  BY <1>1, <1>4 DEF BInv, PagesBelong, StoredIsMapped, WritesNext, Permits
<1>7. Written'
  <2>1. CASE ~access.emits
    BY <1>1, <1>5, <2>1, StaysWritten DEF BInv
  <2>2. CASE access.emits
    <3>1. /\ stream # None /\ stream \in [alloc : Ids, data_size : Nat, size : Nat, done : Nat]
          /\ stream.done < stream.size /\ stream' = Emitted
      BY <1>1, <2>2 DEF MInv, Underway
    <3>2. /\ access.kind = "write"
          /\ access.addr = Config[stream.alloc].start + (stream.data_size + stream.done)
      <4>1. Config[stream.alloc].start \in Nat
        BY <3>1, MemoryAssumption DEF Ids
      <4> QED BY <1>1, <2>2, <3>1, <4>1 DEF BInv, WritesNext
    <3>3. /\ stream'.alloc = stream.alloc /\ stream'.data_size \in Nat /\ stream'.done \in Nat
          /\ stream'.data_size + stream'.done = stream.data_size + stream.done + 1
      <4>1. CASE stream.done + 1 < stream.size
        BY <3>1, <4>1 DEF Emitted
      <4>2. CASE ~(stream.done + 1 < stream.size)
        BY <3>1, <4>2 DEF Emitted, Advance
      <4> QED BY <4>1, <4>2
    <3>4. ASSUME Config[stream.alloc].prot = AllKinds,
                 NEW i \in 0 .. stream.data_size + stream.done,
                 Sole(Config[stream.alloc].start + i)
          PROVE  mem'[Config[stream.alloc].start + i] # 0
      <4>1. CASE i = stream.data_size + stream.done
        BY <1>3, <1>4, <3>2, <4>1
      <4>2. CASE i # stream.data_size + stream.done
        <5>1. i \in 0 .. stream.data_size + stream.done - 1
          BY <3>1, <4>2
        <5>2. Config[stream.alloc].start + i \in Addresses
          BY <3>1, <5>1, StreamAddress
        <5>3. mem[Config[stream.alloc].start + i] # 0
          BY <3>1, <3>4, <5>1 DEF BInv, Written
        <5> QED BY <1>3, <1>4, <5>2, <5>3
      <4> QED BY <4>1, <4>2
    <3>5. stream'.data_size + stream'.done - 1 = stream.data_size + stream.done
      BY <3>1, <3>3
    <3> QED BY <3>3, <3>4, <3>5 DEF Written
  <2> QED BY <2>1, <2>2
<1> QED BY <1>5, <1>6, <1>7 DEF BInv

LEMMA StepBytes ==
  ASSUME PreAllocFits, MInv, CInv, BInv, [Next]_vars
  PROVE  BInv' /\ Stays
<1>1. CASE \E a \in Ids : NewAllocator(a)
  BY <1>1, NewAllocatorBytes
<1>2. CASE Served
  BY <1>2, ServedBytes
<1>3. CASE (\E a \in Ids : OpenStream(a)) \/ \E n \in Sizes : Emit(n)
  BY <1>3, StreamBytes
<1>4. CASE EmitByte \/ \E t \in Touches : Touch(t)
  BY <1>4, StartBytes
<1>5. CASE Complete
  BY <1>5, CompleteBytes
<1>6. CASE (\E a \in Ids : DeleteAllocator(a)) \/ NewCompiler \/ DeleteCompiler \/ Exit \/ Killed
           \/ UNCHANGED vars
  BY <1>6, QuietKeeps DEF DeleteAllocator, NewCompiler, DeleteCompiler, Exit, Killed, vars, memory
<1>7. CASE Fault \/ Dumped \/ HandlerFailed \/ NoHandler
  BY <1>7, QuietKeeps DEF Fault, Dumped, HandlerFailed, NoHandler, Faulted, Again
<1> QED BY <1>1, <1>2, <1>3, <1>4, <1>5, <1>6, <1>7 DEF Next, Processor

-----------------------------------------------------------------------------
(***************************************************************************)
(* The theorems.                                                           *)
(***************************************************************************)

LEMMA BytesInvariance ==
  StartsDiffer /\ PreAllocFits /\ Spec => [](MInv /\ CInv /\ BInv)
<1> SUFFICES ASSUME StartsDiffer, PreAllocFits PROVE Spec => [](MInv /\ CInv /\ BInv)
  OBVIOUS
<1>1. Init => BInv
  BY InitBytes
<1>2. MInv /\ CInv /\ BInv /\ [Next]_vars => BInv'
  BY StepBytes
<1>3. Spec => [](MInv /\ CInv)
  BY Invariance
<1> QED BY <1>1, <1>2, <1>3, PTL DEF Spec

\* auto_allocator::handler() maps a fresh page over what is there, and yet no
\* step loses a byte of a page that one allocator has for itself, unless it
\* serves an access that the allocator forbids.
THEOREM StoredBytesStay ==
  StartsDiffer /\ PreAllocFits /\ Spec => BytesStay
<1> SUFFICES ASSUME StartsDiffer, PreAllocFits PROVE Spec => BytesStay
  OBVIOUS
<1>1. MInv /\ CInv /\ BInv /\ [Next]_vars
        => [\A x \in Addresses : mem[x] # 0 /\ mem'[x] = 0 => ~Sole(x) \/ Forbidden(x)]_vars
  BY StepBytes DEF Stays
<1>2. Spec => [](MInv /\ CInv /\ BInv)
  BY BytesInvariance
<1> QED BY <1>1, <1>2, PTL DEF Spec, BytesStay

\* Every byte below data_size of a stream is in its allocator, whatever faults
\* there were while it was written and since.
THEOREM CodeStaysIntact ==
  StartsDiffer /\ PreAllocFits /\ Spec => []CodeIntact
<1> SUFFICES ASSUME StartsDiffer, PreAllocFits PROVE Spec => []CodeIntact
  OBVIOUS
<1>1. MInv /\ BInv => CodeIntact
  <2> SUFFICES ASSUME MInv, BInv, stream # None, Config[stream.alloc].prot = AllKinds,
                      NEW i \in 0 .. stream.data_size - 1, Sole(Config[stream.alloc].start + i)
               PROVE  mem[Config[stream.alloc].start + i] # 0
    BY DEF CodeIntact
  <2>1. stream.data_size \in Nat /\ stream.done \in Nat
    BY DEF MInv, Underway
  <2>2. i \in 0 .. stream.data_size + stream.done - 1
    BY <2>1
  <2> QED BY <2>2 DEF BInv, Written
<1>2. Spec => [](MInv /\ CInv /\ BInv)
  BY BytesInvariance
<1> QED BY <1>1, <1>2, PTL
=============================================================================
