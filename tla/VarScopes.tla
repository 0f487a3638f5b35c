----------------------------- MODULE VarScopes -----------------------------
(***************************************************************************)
(* Identifiers while files are parsed: var_defs (parser/vardefs.cpp), the  *)
(* driver that keeps the current scope and the functions                   *)
(* (parser/driver.cpp), and the actions of the grammar that call it        *)
(* (parser/parser.yy).  A step is the reduction of one rule; what an       *)
(* expression adds to a rule is the identifier it uses, or none.           *)
(***************************************************************************)
EXTENDS Integers, Sequences, FiniteSets, Functions

CONSTANTS
  Names,          \* identifiers of variables
  FunctionNames,  \* identifiers of functions
  None,           \* an expression that is a number; no function
  MaxFunctions,   \* bound on the functions that are begun
  MaxReductions   \* bound on the parameters and statements of a function

ASSUME NoneAssumption == None \notin Names \cup FunctionNames

VARIABLES
  scopes,     \* the var_defs objects made so far, by age
  var_scope,  \* the driver's current one, an index of scopes
  func,       \* the function being parsed, or None
  functions,  \* the driver's functions by name
  failed      \* a syntax_error ended the parse

vars == <<scopes, var_scope, func, functions, failed>>

Cur == scopes[var_scope]
-----------------------------------------------------------------------------
(***************************************************************************)
(* Variants of the definitions below, each with one plausible slip.        *)
(***************************************************************************)
StartsAtZero(scs, p) == 0
IncrementedFirst(scope) == scope.var_id + 1
NeverTaken(name) == FALSE
-----------------------------------------------------------------------------
NoMap == [x \in {} |-> x]

With(map, key, x) == [k \in DOMAIN map \cup {key} |-> IF k = key THEN x ELSE map[k]]

\* var_defs(parent): a scope without a parent has parent 0.
FirstId(scs, p) == IF p = 0 THEN 0 ELSE scs[p].var_id

NewScope(scs, p) ==
  Append(scs, [parent |-> p, var_id |-> FirstId(scs, p), var_map |-> NoMap, rev_var_map |-> NoMap])

\* get_var_id(identifier): -1 stands for the exception.
get_var_id(scs, k, name) ==
  LET find[i \in 0 .. Len(scs)] ==
        IF i = 0 THEN -1
        ELSE IF name \in DOMAIN scs[i].var_map THEN scs[i].var_map[name]
        ELSE find[scs[i].parent]
  IN  find[k]

\* The id decl_var_id() gives.
DeclaredId(scope) == scope.var_id

Declared(scope, name) ==
  LET id == DeclaredId(scope)
  IN  [parent |-> scope.parent, var_id |-> scope.var_id + 1,
       var_map |-> With(scope.var_map, name, id),
       rev_var_map |-> With(scope.rev_var_map, id, name)]

Init ==
  /\ scopes = NewScope(<<>>, 0)
  /\ var_scope = 1
  /\ func = None
  /\ functions = NoMap
  /\ failed = FALSE

Parsing == func # None /\ ~failed /\ func.reductions < MaxReductions

\* "identifier" { drv.new_var_scope(); }
NewFunction(name) ==
  /\ func = None /\ ~failed /\ Len(scopes) <= MaxFunctions
  /\ scopes' = NewScope(scopes, var_scope)
  /\ var_scope' = Len(scopes')
  /\ func' = [name |-> name, refs |-> {}, statements |-> 0, reductions |-> 0]
  /\ UNCHANGED <<functions, failed>>

\* The identifiers that were resolved, and to what
Refers(refs, statement) ==
  func' = [func EXCEPT !.refs = @ \cup refs, !.reductions = @ + 1,
                       !.statements = IF statement THEN @ + 1 ELSE @]

Ref(name, id) == [name |-> name, id |-> id]

SyntaxError == failed' = TRUE /\ UNCHANGED <<scopes, var_scope, func, functions>>

\* The expression's identifier is looked up when the expression is reduced.
Undeclared(use) == use # None /\ get_var_id(scopes, var_scope, use) = -1
Use(use) == IF use = None THEN {} ELSE {Ref(use, get_var_id(scopes, var_scope, use))}

\* decl_var_id(name), after the use was resolved
Declares(name, use, statement) ==
  IF Undeclared(use) \/ name \in DOMAIN Cur.var_map THEN SyntaxError
  ELSE /\ scopes' = [scopes EXCEPT ![var_scope] = Declared(@, name)]
       /\ Refers({Ref(name, DeclaredId(Cur))} \cup Use(use), statement)
       /\ UNCHANGED <<var_scope, functions, failed>>

\* parameter: "identifier"; parameters come before the statements.
Parameter(name) == Parsing /\ func.statements = 0 /\ Declares(name, None, FALSE)

\* "var" "identifier" ";" and "var" "identifier" "=" exp ";"
VarStatement(name, use) == Parsing /\ Declares(name, use, TRUE)

\* "identifier" "=" exp ";"
Assignment(name, use) ==
  /\ Parsing
  /\ IF Undeclared(use) \/ Undeclared(name) THEN SyntaxError
     ELSE Refers(Use(name) \cup Use(use), TRUE) /\ UNCHANGED <<scopes, var_scope, functions, failed>>

\* "return" exp ";"
Return(use) ==
  /\ Parsing
  /\ IF Undeclared(use) THEN SyntaxError
     ELSE Refers(Use(use), TRUE) /\ UNCHANGED <<scopes, var_scope, functions, failed>>

\* add_function() throws for a name that has a function.
Taken(name) == name \in DOMAIN functions

\* "}": the function is made with the current scope, destroy_var_scope() is
\* called, which changes nothing, and add_function() stores the function.
EndFunction ==
  /\ func # None /\ ~failed /\ func.statements > 0
  /\ IF Taken(func.name) THEN SyntaxError
     ELSE /\ functions' = With(functions, func.name, [refs |-> func.refs, var_scope |-> var_scope])
          /\ func' = None
          /\ UNCHANGED <<scopes, var_scope, failed>>

\* A token that no rule accepts
BadToken == ~failed /\ SyntaxError

\* driver::parse() after a failure, for another file: the parser is new, the
\* scope and the functions are what the failed one left.  After a success it
\* would change nothing.
Parse ==
  /\ failed
  /\ failed' = FALSE /\ func' = None
  /\ UNCHANGED <<scopes, var_scope, functions>>

Next ==
  \/ \E name \in FunctionNames : NewFunction(name)
  \/ \E name \in Names : Parameter(name)
  \/ \E name \in Names, use \in Names \cup {None} : VarStatement(name, use)
  \/ \E name \in Names, use \in Names \cup {None} : Assignment(name, use)
  \/ \E use \in Names \cup {None} : Return(use)
  \/ EndFunction
  \/ BadToken
  \/ Parse

Spec == Init /\ [][Next]_vars

-----------------------------------------------------------------------------
(***************************************************************************)
(* Properties.                                                             *)
(***************************************************************************)

\* The maps of a scope are inverse to each other and hold ids below var_id.
ScopesTypeOK ==
  /\ var_scope \in 1 .. Len(scopes) /\ failed \in BOOLEAN
  /\ \A k \in 1 .. Len(scopes) :
       /\ scopes[k].parent \in 0 .. k - 1
       /\ scopes[k].rev_var_map = AntiFunction(scopes[k].var_map)
       /\ \A name \in DOMAIN scopes[k].var_map : scopes[k].var_map[name] \in 0 .. scopes[k].var_id - 1

\* The ids a finished function uses are below its scope's var_id, where the
\* ids of the temporaries start and which sizes live_vars and color_map.
IdsBelowTemps ==
  \A f \in DOMAIN functions :
    \A r \in functions[f].refs : r.id \in 0 .. scopes[functions[f].var_scope].var_id - 1

\* In a finished function, variables of different names have different ids,
\* also when one of them is an enclosing scope's.
NamesApart ==
  \A f \in DOMAIN functions :
    \A p, q \in functions[f].refs : p.id = q.id => p.name = q.name

\* A finished function's variables are settled: what is parsed later neither
\* adds to its scope nor replaces the function.
FunctionsSettled ==
  [][\A f \in DOMAIN functions :
       /\ f \in DOMAIN functions' /\ functions'[f] = functions[f]
       /\ scopes'[functions[f].var_scope] = scopes[functions[f].var_scope]]_vars

\* A scope is destroyed at the end of its function (parser.yy:70): a function
\* uses its own variables only.
OwnVariablesOnly ==
  \A f \in DOMAIN functions :
    \A r \in functions[f].refs :
      \E name \in DOMAIN scopes[functions[f].var_scope].var_map :
        scopes[functions[f].var_scope].var_map[name] = r.id
=============================================================================
