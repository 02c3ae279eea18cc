-------------------------------- MODULE Calls --------------------------------
(***************************************************************************)
(* A call of a function, from its text to its execution.  Three parts of   *)
(* the program decide which argument a parameter gets: the node mapper,    *)
(* which everything that analyses a call asks; the validators, which are   *)
(* to reject a call that cannot be bound; and the generator, which reorders *)
(* the arguments and names some of them before Python binds them by its    *)
(* own rules.                                                              *)
(*                                                                         *)
(* Parameters are numbered from 1 in the order of their declaration.  The  *)
(* value of an argument is its position in the call.                       *)
(***************************************************************************)
EXTENDS Naturals, Sequences, FiniteSetsExt, Sorting

CONSTANTS
    MaxParameters,   \* bound on the number of parameters
    MaxArguments,    \* bound on the number of arguments
    Positional,      \* an argument without a name
    Undefined,       \* no parameter, or no value
    Default,         \* the default value of a parameter
    Unchecked        \* the diagnostics of a call before its validation

ASSUME CallsAssumption ==
    /\ MaxParameters \in Nat /\ MaxArguments \in Nat
    /\ Positional # Undefined /\ Unchecked # {}
    /\ {Positional, Undefined, Default} \cap Nat = {}

\* A function: which of its parameters have a default value, whether its body
\* refers to a data declaration, and whether it is declared 'per' a time unit.
Callee ==
    [optional : UNION {[1 .. n -> BOOLEAN] : n \in 0 .. MaxParameters},
     readsData : BOOLEAN, perUnit : BOOLEAN]

\* An argument is positional, or names a parameter, or an unknown one.
Argument == 1 .. MaxParameters \cup {Positional, Undefined}

\* 'per' a time unit may precede the receiver of the call.
Call ==
    [args : UNION {[1 .. n -> Argument] : n \in 0 .. MaxArguments}, unit : BOOLEAN]

VARIABLES
    callee,    \* the function
    call,      \* the call
    errors,    \* the errors the validators report, or Unchecked
    program,   \* the generated arguments, or <<>> with generated = FALSE
    generated, \* has the program been generated?
    outcome    \* what Python makes of the call

vars == <<callee, call, errors, program, generated, outcome>>

Parameters == DOMAIN callee.optional
Arguments == DOMAIN call.args
Required == {p \in Parameters : ~callee.optional[p]}
IsNamed(i) == call.args[i] # Positional

-----------------------------------------------------------------------------
(* The node mapper.                                                        *)

ArgumentToParameter(i) ==
    CASE IsNamed(i)                                -> call.args[i]
      [] ~IsNamed(i) /\ \E j \in 1 .. i - 1 : IsNamed(j) -> Undefined
      [] OTHER -> IF i \in Parameters THEN i ELSE Undefined

ArgumentsOf(p) == {i \in Arguments : ArgumentToParameter(i) = p}

CallToParameterValue(p) ==
    CASE ArgumentsOf(p) # {}                         -> Min(ArgumentsOf(p))
      [] ArgumentsOf(p) = {} /\ callee.optional[p]   -> Default
      [] OTHER                                       -> Undefined

\* Mutant: the last argument wins.
ParametersToLastArguments ==
    [p \in {p \in Parameters : ArgumentsOf(p) # {}} |-> Max(ArgumentsOf(p))]

\* The loop over the arguments keeps the first one of every parameter.
ParametersToArguments ==
    LET after[n \in 0 .. Len(call.args)] ==
            IF n = 0
            THEN [p \in {} |-> Undefined]
            ELSE LET p == ArgumentToParameter(n)
                 IN  IF p \in Parameters /\ p \notin DOMAIN after[n - 1]
                     THEN [q \in DOMAIN after[n - 1] \cup {p} |->
                              IF q = p THEN n ELSE after[n - 1][q]]
                     ELSE after[n - 1]
    IN  after[Len(call.args)]

-----------------------------------------------------------------------------
(* The validators.  A diagnostic is a code and the node it is about.       *)

PositionalAfterNamed ==
    {[code |-> "positional-after-named", node |-> i] :
        i \in {i \in Arguments : ~IsNamed(i) /\ \E j \in 1 .. i - 1 : IsNamed(j)}}

TooManyArguments ==
    IF Len(call.args) > Len(callee.optional)
    THEN {[code |-> "too-many-arguments", node |-> 0]} ELSE {}

\* Mutant: only named arguments set a parameter a second time.
ParameterNamedMultipleTimes ==
    {[code |-> "duplicate-parameter", node |-> i] :
        i \in {i \in Arguments :
                 /\ IsNamed(i) /\ call.args[i] # Undefined
                 /\ \E j \in 1 .. i - 1 : call.args[j] = call.args[i]}}

ParameterSetMultipleTimes ==
    {[code |-> "duplicate-parameter", node |-> i] :
        i \in {i \in Arguments :
                 /\ ArgumentToParameter(i) # Undefined
                 /\ \E j \in 1 .. i - 1 : ArgumentToParameter(j) = ArgumentToParameter(i)}}

\* Mutant: the number of arguments is compared, not what they set.
TooFewArguments ==
    IF Len(call.args) < Cardinality(Required)
    THEN {[code |-> "missing-required-parameter", node |-> 0]} ELSE {}

RequiredParametersNotSet ==
    IF \E p \in Required : ArgumentsOf(p) = {}
    THEN {[code |-> "missing-required-parameter", node |-> 0]} ELSE {}

RequiredAfterOptional ==
    {[code |-> "required-after-optional", node |-> p] :
        p \in {p \in Required : \E q \in 1 .. p - 1 : callee.optional[q]}}

\* The linker reports the names it cannot resolve.
LinkingErrors ==
    {[code |-> "linking-error", node |-> i] : i \in {i \in Arguments : call.args[i] = Undefined}}

Errors ==
    UNION {PositionalAfterNamed, TooManyArguments, ParameterSetMultipleTimes,
           RequiredParametersNotSet, RequiredAfterOptional, LinkingErrors}

-----------------------------------------------------------------------------
(* The generator.                                                          *)

\* Mutant: the arguments stay in the order of the call.
ArgumentsAsWritten ==
    SortedSeq({i \in Arguments : ArgumentToParameter(i) # Undefined}, LAMBDA i, j : i < j)

\* Arguments without a parameter are dropped, the others are put in the order
\* of the parameters; the sort is stable.
SortArguments ==
    SortedSeq({i \in Arguments : ArgumentToParameter(i) # Undefined},
              LAMBDA i, j : \/ ArgumentToParameter(i) < ArgumentToParameter(j)
                            \/ /\ ArgumentToParameter(i) = ArgumentToParameter(j)
                               /\ i < j)

\* Only the arguments of optional parameters get a name.
GenerateArgument(i) ==
    LET p == ArgumentToParameter(i)
    IN  [keyword |-> IF p \in Parameters /\ callee.optional[p] THEN p ELSE Positional,
         value |-> i]

GeneratePlainCall ==
    LET sorted == SortArguments IN [k \in DOMAIN sorted |-> GenerateArgument(sorted[k])]

\* The parameters of the generated function: the data it reads, as parameter
\* 0 and without a default, then its own parameters.  The parameter timeunit
\* comes last and has a default.
Header ==
    (IF callee.readsData THEN <<0>> ELSE <<>>) \o [p \in Parameters |-> p]

HasDefault(p) == p # 0 /\ callee.optional[p]

-----------------------------------------------------------------------------
(* Python.                                                                 *)

\* ', timeunit = ...' is appended to the arguments even if there are none.
IsSyntaxError ==
    \/ call.unit /\ program = <<>>
    \/ \E i, j \in DOMAIN program :
           i < j /\ program[i].keyword # Positional
                 /\ (program[j].keyword = Positional \/ program[j].keyword = program[i].keyword)
    \/ \E k, l \in DOMAIN Header : k < l /\ HasDefault(Header[k]) /\ ~HasDefault(Header[l])

\* The positions in the header that an actual parameter is bound to.
Bound(a) == {k \in DOMAIN Header : IF program[a].keyword = Positional
                                   THEN k = a ELSE Header[k] = program[a].keyword}
BoundTo(k) == {a \in DOMAIN program : k \in Bound(a)}

IsTypeError ==
    \/ \E a \in DOMAIN program : Bound(a) = {}
    \/ \E k \in DOMAIN Header :
           \/ Cardinality(BoundTo(k)) > 1
           \/ BoundTo(k) = {} /\ ~HasDefault(Header[k])
    \/ call.unit /\ ~callee.perUnit

Binding ==
    [p \in Parameters |->
        LET k == CHOOSE k \in DOMAIN Header : Header[k] = p
        IN  IF BoundTo(k) = {} THEN Default ELSE program[Min(BoundTo(k))].value]

\* The body of a function per time unit assigns its result only if there is
\* a time unit.
Execution ==
    CASE IsSyntaxError                                -> [kind |-> "SyntaxError"]
      [] ~IsSyntaxError /\ IsTypeError                -> [kind |-> "TypeError"]
      [] OTHER -> IF callee.perUnit /\ ~call.unit
                  THEN [kind |-> "UnboundLocalError"]
                  ELSE [kind |-> "returns", binding |-> Binding]

-----------------------------------------------------------------------------

Init ==
    /\ callee \in Callee
    /\ call \in Call
    /\ \A i \in Arguments : call.args[i] \in Parameters \cup {Positional, Undefined}
    /\ errors = Unchecked
    /\ program = <<>>
    /\ generated = FALSE
    /\ outcome = [kind |-> "notRun"]

Validate ==
    /\ errors = Unchecked
    /\ errors' = Errors
    /\ UNCHANGED <<callee, call, program, generated, outcome>>

\* Code is generated only for documents without errors.
Generate ==
    /\ errors = {}
    /\ ~generated
    /\ program' = GeneratePlainCall
    /\ generated' = TRUE
    /\ UNCHANGED <<callee, call, errors, outcome>>

Run ==
    /\ generated
    /\ outcome.kind = "notRun"
    /\ outcome' = Execution
    /\ UNCHANGED <<callee, call, errors, program, generated>>

Next == Validate \/ Generate \/ Run

Spec == Init /\ [][Next]_vars

-----------------------------------------------------------------------------
(* Properties.                                                             *)

IsRun == outcome.kind # "notRun"

\* A call that the validators accept is bound by Python, and every parameter
\* gets the value that the analyses take it to have, whatever mix of
\* positional and named arguments is written.  Functions that read data, and
\* calls whose time unit does not fit the function, are left out here.
AcceptedCallsBind ==
    (/\ IsRun
     /\ ~callee.readsData
     /\ callee.perUnit = call.unit
     /\ call.unit => call.args # <<>>)
        => /\ outcome.kind = "returns"
           /\ \A p \in Parameters : outcome.binding[p] = CallToParameterValue(p)

\* The two mappings of the node mapper agree on every call, including those
\* with errors, which the analyses see while the call is being written.
MappingsAgree ==
    /\ DOMAIN ParametersToArguments = {p \in Parameters : ArgumentsOf(p) # {}}
    /\ \A p \in DOMAIN ParametersToArguments :
           CallToParameterValue(p) = ParametersToArguments[p]

\* What the documentation of calls allows: positional arguments first, by
\* position, then names, each parameter at most once, no required one missing.
WellFormed ==
    \E n \in 0 .. Len(call.args) :
        LET named == {call.args[i] : i \in n + 1 .. Len(call.args)}
        IN  /\ n <= Len(callee.optional)
            /\ \A i \in 1 .. n : call.args[i] = Positional
            /\ named \subseteq n + 1 .. Len(callee.optional)
            /\ Cardinality(named) = Len(call.args) - n
            /\ Required \subseteq 1 .. n \cup named

\* The validators together accept exactly the well-formed calls of functions
\* whose optional parameters come last.
AcceptsWellFormed ==
    errors # Unchecked =>
        (errors = {} <=> WellFormed /\ \A p \in Required : 1 .. p \subseteq Required)

-----------------------------------------------------------------------------
(* What the documentation says and the code does not do.                   *)

\* "The first argument is assigned to the first parameter, the second argument
\* is assigned to the second parameter and so forth."
ArgumentsByPosition ==
    IsRun /\ ~callee.perUnit /\ ~call.unit =>
        \A i \in Arguments : ~IsNamed(i) =>
            outcome.kind = "returns" /\ outcome.binding[i] = i
=============================================================================
