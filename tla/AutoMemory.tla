----------------------------- MODULE AutoMemory -----------------------------
(***************************************************************************)
(* Memory that is mapped when it is touched: segv_catcher, auto_allocator  *)
(* (memory/), the instruction_stream that writes code into an allocator    *)
(* (arch/instructionstream.h), and the signal actions that the catcher and *)
(* tac2x64 install.  One thread; the processor executes an access or       *)
(* raises a fault, the kernel delivers it, and the access is tried again.  *)
(***************************************************************************)
EXTENDS Integers, Sequences, SequencesExt

CONSTANTS
  PageSize,    \* bytes in a page
  Top,         \* addresses are 0 .. Top - 1
  IntRange,    \* number of values of an int
  Config,      \* allocators: [start, len, prot, pre_alloc] by id
  Touches,     \* the program's own accesses, [addr, kind]
  Sizes,       \* sizes of instructions
  None

ASSUME MemoryAssumption ==
  /\ PageSize \in Nat \ {0} /\ Top \in Nat /\ IntRange \in Nat
  /\ Top % PageSize = 0 /\ IntRange % (2 * PageSize) = 0
  /\ \A a \in DOMAIN Config :
       /\ Config[a].start \in Nat /\ Config[a].len \in Nat
       /\ Config[a].start + Config[a].len <= Top

Ids       == DOMAIN Config
Addresses == 0 .. Top - 1
AllKinds  == {"read", "write", "run"}
Accesses  == [addr : Addresses, kind : AllKinds, byte : {1, 2}, emits : BOOLEAN, faulted : BOOLEAN]

ASSUME UsesAssumption == Touches \subseteq [addr : Addresses, kind : AllKinds] /\ Sizes \subseteq Nat
ASSUME NoneAssumption ==
  None \notin Ids \cup {"kill", "catch", "dump", "gone"} /\ None \notin Accesses

Pages     == 0 .. Top \div PageSize - 1
Span(a)   == Config[a].start .. Config[a].start + Config[a].len - 1

VARIABLES
  made, alive,  \* allocators that were constructed, and that still exist
  handlers,     \* segv_catcher's handlers, a sequence of allocators
  catcher,      \* the action segv_catcher saved, None before it exists, and
                \* "gone" once it is destroyed
  segv, trap,   \* the actions of SIGSEGV and SIGTRAP: "kill", "catch" or "dump"
  compiler,     \* the action tac2x64 saved, or None while there is no tac2x64
  page,         \* the protection of every page, None if it is not mapped
  mem,          \* the contents, 0 on a fresh page
  access,       \* the access the thread is making, or None
  stream,       \* [alloc, data_size, size, done] or None: done of size bytes of
                \* an instruction are written
  dead,         \* the process was killed
  refused,      \* an mmap() failed while a fault was handled
  undone        \* a tac2x64 was destroyed

vars == <<made, alive, handlers, catcher, segv, trap, compiler, page, mem, access, stream,
          dead, refused, undone>>

signals == <<catcher, segv, trap, compiler, undone>>
memory  == <<page, mem>>
-----------------------------------------------------------------------------
(***************************************************************************)
(* Variants of the definitions below, each with one plausible slip.        *)
(***************************************************************************)
NextPage(a, p) == {q \in Pages : q = p + 1}
WholeAllocator(a, p) == {q \in Pages : \E x \in Span(a) : x \div PageSize = q}
FirstErased(a) == Tail(handlers)
OneAhead(n) == n + 1
StartExcluded(a, addr) == addr > Config[a].start /\ addr < Config[a].start + Config[a].len
-----------------------------------------------------------------------------
PageOf(addr) == addr \div PageSize

\* std::function<bool(int)> passes an address as an int; a negative one is
\* beyond the addresses that can be mapped.
AsInt(addr) == addr % IntRange
Mappable(addr) == AsInt(addr) < IntRange \div 2

Permits(kind, p) == page[p] # None /\ kind \in page[p]

InRange(a, addr) == addr >= Config[a].start /\ addr < Config[a].start + Config[a].len

\* What an mmap() of one byte with MAP_FIXED replaces.
Replaced(a, p) == {p}

MapPages(a, ps) ==
  /\ page' = [p \in Pages |-> IF p \in ps THEN Config[a].prot ELSE page[p]]
  /\ mem' = [x \in Addresses |-> IF PageOf(x) \in ps THEN 0 ELSE mem[x]]

Idle == access = None /\ ~dead /\ catcher # "gone" /\ (stream # None => stream.size = stream.done)

Init ==
  /\ made = {} /\ alive = {} /\ handlers = <<>>
  /\ catcher = None /\ segv = "kill" /\ trap = "kill" /\ compiler = None
  /\ page = [p \in Pages |-> None] /\ mem = [x \in Addresses |-> 0]
  /\ access = None /\ stream = None
  /\ dead = FALSE /\ refused = FALSE /\ undone = FALSE

\* The pages of start, start + psize, ... below start + pre_alloc
PreAllocated(a) ==
  {PageOf(Config[a].start + PageSize * k) :
     k \in {n \in 0 .. Config[a].pre_alloc : PageSize * n < Config[a].pre_alloc}}

\* auto_allocator(): the first one makes the catcher.  The results of the
\* calls that map the first pages are not looked at.
NewAllocator(a) ==
  /\ Idle /\ a \notin made
  /\ made' = made \cup {a} /\ alive' = alive \cup {a}
  /\ handlers' = Append(handlers, a)
  /\ IF catcher = None THEN catcher' = segv /\ segv' = "catch" ELSE UNCHANGED <<catcher, segv>>
  /\ \E done \in SUBSET PreAllocated(a) : MapPages(a, done)
  /\ UNCHANGED <<trap, compiler, access, stream, dead, refused, undone>>

\* remove_handler(start): the first one with this start
Erased(a) ==
  RemoveAt(handlers,
    CHOOSE i \in 1 .. Len(handlers) :
      /\ Config[handlers[i]].start = Config[a].start
      /\ \A j \in 1 .. i - 1 : Config[handlers[j]].start # Config[a].start)

\* ~auto_allocator(): the pages stay mapped, and the stream goes on.
DeleteAllocator(a) ==
  /\ Idle /\ a \in alive
  /\ alive' = alive \ {a}
  /\ handlers' = Erased(a)
  /\ UNCHANGED <<made, signals, memory, access, stream, dead, refused>>

\* tac2x64(): SIGTRAP's action is saved.
NewCompiler ==
  /\ Idle /\ compiler = None
  /\ compiler' = trap
  /\ trap' = "dump"
  /\ UNCHANGED <<made, alive, handlers, catcher, segv, memory, access, stream, dead, refused, undone>>

\* ~tac2x64(): the saved action becomes SIGSEGV's.
DeleteCompiler ==
  /\ Idle /\ compiler # None
  /\ segv' = compiler
  /\ compiler' = None /\ undone' = TRUE
  /\ UNCHANGED <<made, alive, handlers, catcher, trap, memory, access, stream, dead, refused>>

\* main() has returned, its objects are gone, and ~segv_catcher() restores the
\* action it found.  Nothing runs after it.
Exit ==
  /\ Idle /\ catcher # None /\ alive = {} /\ compiler = None
  /\ segv' = catcher /\ catcher' = "gone"
  /\ UNCHANGED <<made, alive, handlers, trap, compiler, undone, memory, access, stream, dead, refused>>

\* instruction_stream(allocator): the address and the size are copied.
OpenStream(a) ==
  /\ Idle /\ stream = None /\ a \in alive
  /\ stream' = [alloc |-> a, data_size |-> 0, size |-> 0, done |-> 0]
  /\ UNCHANGED <<made, alive, handlers, signals, memory, access, dead, refused>>

Fits(n) == n + stream.data_size <= Config[stream.alloc].len

\* operator<<: an instruction that does not fit throws and changes nothing.
Emit(n) ==
  /\ Idle /\ stream # None /\ Fits(n)
  /\ stream' = [alloc |-> stream.alloc, data_size |-> stream.data_size, size |-> n, done |-> 0]
  /\ UNCHANGED <<made, alive, handlers, signals, memory, access, dead, refused>>

\* data_size after an instruction of n bytes
Advance(n) == n

Starts(addr, kind, x, emits) ==
  access' = [addr |-> addr, kind |-> kind, byte |-> x, emits |-> emits, faulted |-> FALSE]

\* emit_to() writes the next byte.
EmitByte ==
  /\ access = None /\ ~dead /\ stream # None /\ stream.done < stream.size
  /\ Starts(Config[stream.alloc].start + stream.data_size + stream.done, "write", 1, TRUE)
  /\ UNCHANGED <<made, alive, handlers, signals, memory, stream, dead, refused>>

\* The code that uses the allocators reads, writes or runs what is there.
Touch(t) ==
  /\ Idle
  /\ Starts(t.addr, t.kind, 2, FALSE)
  /\ UNCHANGED <<made, alive, handlers, signals, memory, stream, dead, refused>>

Emitted ==
  IF stream.done + 1 < stream.size THEN [stream EXCEPT !.done = @ + 1]
  ELSE [alloc |-> stream.alloc, data_size |-> stream.data_size + Advance(stream.size),
        size |-> 0, done |-> 0]

Complete ==
  /\ access # None /\ ~access.faulted /\ ~dead
  /\ Permits(access.kind, PageOf(access.addr))
  /\ mem' = IF access.kind = "write" THEN [mem EXCEPT ![access.addr] = access.byte] ELSE mem
  /\ stream' = IF access.emits THEN Emitted ELSE stream
  /\ access' = None
  /\ UNCHANGED <<made, alive, handlers, signals, page, dead, refused>>

Fault ==
  /\ access # None /\ ~access.faulted /\ ~dead
  /\ ~Permits(access.kind, PageOf(access.addr))
  /\ access' = [access EXCEPT !.faulted = TRUE]
  /\ UNCHANGED <<made, alive, handlers, signals, memory, stream, dead, refused>>

Faulted == access # None /\ access.faulted /\ ~dead
Again == access' = [access EXCEPT !.faulted = FALSE]

\* The first handler whose range has the address, or None
HandlerOf(addr) ==
  LET hits == {i \in 1 .. Len(handlers) : InRange(handlers[i], addr)}
  IN  IF hits = {} THEN None ELSE handlers[CHOOSE i \in hits : \A j \in hits : i <= j]

Killed ==
  /\ Faulted /\ segv = "kill"
  /\ dead' = TRUE
  /\ UNCHANGED <<made, alive, handlers, signals, memory, access, stream, refused>>

\* tac2x64::handler(): prints the registers
Dumped ==
  /\ Faulted /\ segv = "dump"
  /\ Again
  /\ UNCHANGED <<made, alive, handlers, signals, memory, stream, dead, refused>>

\* segv_catcher::handler() and auto_allocator::handler(): the page is mapped.
Served ==
  /\ Faulted /\ segv = "catch"
  /\ LET h == HandlerOf(access.addr)
     IN  h # None /\ Mappable(access.addr) /\ MapPages(h, Replaced(h, PageOf(AsInt(access.addr))))
  /\ Again
  /\ UNCHANGED <<made, alive, handlers, signals, stream, dead, refused>>

\* The handler failed: mmap() may, and does if the address is not mappable.
HandlerFailed ==
  /\ Faulted /\ segv = "catch" /\ HandlerOf(access.addr) # None
  /\ segv' = catcher /\ refused' = TRUE
  /\ Again
  /\ UNCHANGED <<made, alive, handlers, catcher, trap, compiler, undone, memory, stream, dead>>

NoHandler ==
  /\ Faulted /\ segv = "catch" /\ HandlerOf(access.addr) = None
  /\ segv' = catcher
  /\ Again
  /\ UNCHANGED <<made, alive, handlers, catcher, trap, compiler, undone, memory, stream, dead, refused>>

Processor == Complete \/ Fault \/ Killed \/ Dumped \/ Served \/ HandlerFailed \/ NoHandler

Next ==
  \/ \E a \in Ids : NewAllocator(a) \/ DeleteAllocator(a) \/ OpenStream(a)
  \/ NewCompiler \/ DeleteCompiler
  \/ Exit
  \/ \E n \in Sizes : Emit(n)
  \/ EmitByte
  \/ \E t \in Touches : Touch(t)
  \/ Processor

Spec == Init /\ [][Next]_vars

\* The processor goes on, and the thread writes the bytes of an instruction.
FairSpec == Spec /\ WF_vars(Processor) /\ WF_vars(EmitByte)

-----------------------------------------------------------------------------
(***************************************************************************)
(* Properties.                                                             *)
(***************************************************************************)

\* Types of the tables, the pages and what is under way.
MemoryTypeOK ==
  /\ made \subseteq Ids /\ alive \subseteq made
  /\ handlers \in Seq(Ids)
  /\ {segv, trap} \subseteq {"kill", "catch", "dump"} /\ {catcher, compiler} \subseteq {None, "kill", "dump", "gone"}
  /\ \A p \in Pages : page[p] = None \/ \E a \in made : page[p] = Config[a].prot
  /\ mem \in [Addresses -> 0 .. 2]
  /\ access # None => access \in Accesses
  /\ stream # None => /\ stream.done \in 0 .. stream.size
                    /\ stream.data_size + stream.size \in 0 .. Config[stream.alloc].len

\* The page of x belongs to an allocator, and to no other one, also of those
\* whose addresses are too large for an int.
BelongsTo(x, a) ==
  /\ \E y \in Span(a) : PageOf(y) = PageOf(x)
  /\ \A y \in Span(a) : PageOf(AsInt(y)) = PageOf(x) => AsInt(y) = y
  /\ \A b \in Ids \ {a} : \A y \in Span(b) : PageOf(x) \notin {PageOf(y), PageOf(AsInt(y))}

Sole(x) == \E a \in Ids : BelongsTo(x, a)

\* The allocators that exist and have the address
Owners(addr) == {a \in alive : addr \in Span(a)}

\* An access on the page of x that the page's allocator forbids.
Forbidden(x) ==
  /\ access # None /\ PageOf(access.addr) = PageOf(x)
  /\ \E a \in Owners(access.addr) : access.kind \notin Config[a].prot

\* auto_allocator::handler() maps a fresh page whatever was there; what is
\* stored in an allocator is still not lost, unless its page is shared with
\* another allocator or an access that its protection forbids is served.
BytesStay ==
  [][\A x \in Addresses :
       mem[x] # 0 /\ mem'[x] = 0 => ~Sole(x) \/ Forbidden(x)]_vars

\* The code in the stream is all there: every byte below data_size was written
\* and has survived the faults that its writing, running and reading raised.
CodeIntact ==
  stream # None /\ Config[stream.alloc].prot = AllKinds =>
    \A i \in 0 .. stream.data_size - 1 :
      LET x == Config[stream.alloc].start + i IN Sole(x) => mem[x] # 0

\* A handler belongs to an allocator that exists: none calls a destroyed one,
\* and every allocator has its handler.
HandlersAlive == ToSet(handlers) = alive /\ IsInjective(handlers)

\* The process is killed only by an address of no allocator, when mmap()
\* fails, or after a tac2x64 is destroyed.
CrashJustified == dead => Owners(access.addr) = {} \/ refused \/ undone

\* "Handler failed -> crash" and "No handler found -> crash"
\* (segvcatcher.cpp:55 and :63): without the last exception.
CrashAsDocumented == dead => Owners(access.addr) = {} \/ refused

Servable ==
  /\ access # None /\ segv = "catch"
  /\ access.addr < IntRange \div 2
  /\ \E a \in Owners(access.addr) : access.kind \in Config[a].prot

\* An access that its allocator permits is made, at an address that is an int,
\* whatever is or is not mapped there; or mmap() fails.
AccessServed == Servable ~> (access = None \/ refused)
=============================================================================
