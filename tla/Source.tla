------------------------------- MODULE Source -------------------------------
(***************************************************************************)
(* What the author of a function is promised, with the whole compiler      *)
(* hidden: it is compiled and called, and the call returns what the        *)
(* statements say.  main() does this for one function; a program that goes *)
(* on using its tac2x64 does it for several, one after the other.  A call  *)
(* is excused when its function copies a variable, for which there is no   *)
(* code, or reads one of another function, or when one of the hazards      *)
(* CodeGen names was met on the way: then nothing is promised of it.       *)
(***************************************************************************)
EXTENDS Language

CONSTANTS
  Files,         \* sequences of functions
  Arguments,
  NumRegisters   \* length of reg_avail of a new tac2x64

VARIABLES file, at, status, args, result, excused

sourceVars == <<file, at, status, args, result, excused>>

Function == file[at]

Init ==
  /\ file \in Files
  /\ at = 1
  /\ status = "waiting" /\ args = <<>> /\ result = NoReturn /\ excused = FALSE

\* A function costs the compiler at most one register, so it can run out of
\* them no sooner than at the function with the number of the last register.
Reject ==
  /\ status = "waiting" /\ at >= NumRegisters
  /\ status' = "rejected"
  /\ UNCHANGED <<file, at, args, result, excused>>

Call ==
  /\ status = "waiting"
  /\ status' = "called"
  /\ args' \in Arguments
  /\ excused' = ~Supported(Function)
  /\ UNCHANGED <<file, at, result>>

Excuse ==
  /\ status = "called"
  /\ excused' = TRUE
  /\ UNCHANGED <<file, at, status, args, result>>

\* A function without a return leaves it open what it returns.
Answer ==
  /\ status = "called"
  /\ status' = "returned"
  /\ result' \in Values
  /\ excused \/ Meant(Function, args) \in {NoReturn, result'}
  /\ UNCHANGED <<file, at, args, excused>>

\* A fault is a division without a quotient; in an excused call the division
\* may also go through with a quotient it should not have.
Fault ==
  /\ status = "called"
  /\ excused' \in {excused, TRUE}
  /\ status' \in IF excused' THEN {"trapped", "undefined"} ELSE {"trapped"}
  /\ excused' \/ Meant(Function, args) = Stuck
  /\ UNCHANGED <<file, at, args, result>>

\* The same tac2x64 is given another function, which main() does not do.
Proceed ==
  /\ status \in {"returned", "rejected"} /\ at < Len(file)
  /\ at' = at + 1
  /\ status' = "waiting" /\ args' = <<>> /\ result' = NoReturn /\ excused' = FALSE
  /\ UNCHANGED file

Next == Reject \/ Call \/ Excuse \/ Answer \/ Fault \/ Proceed

Spec == Init /\ [][Next]_sourceVars
=============================================================================
