------------------------------ MODULE CallGraph ------------------------------
(***************************************************************************)
(* The call graph computer (class TTSLCallGraphComputer), on top of the    *)
(* partial evaluator, and the validator that reports recursive calls.  A   *)
(* graph is computed by a depth-first search over synthetic calls, that    *)
(* is, evaluated callables with the values of their parameters as far as   *)
(* these are callables.  The calls in default values that apply, and       *)
(* callables that are passed as arguments, are taken to be executed.  The  *)
(* bodies of functions are not searched, and are left out of the program.  *)
(*                                                                         *)
(* Graphs that are computed without substitutions are cached until the     *)
(* next update of the workspace.  They are computed from answers of the    *)
(* evaluator, whose cache fills up along the way.                          *)
(***************************************************************************)
EXTENDS PartialEvaluator

CONSTANTS
    NoGraph,    \* the graph before the first query
    Contexts    \* the substitutions with which graphs are asked for

VARIABLES
    graphs,    \* the cache, a function from calls and functions to graphs
    graph      \* what the last query returned, if it was about a graph

graphVars == <<vars, graphs, graph>>

\* A callable that is not known is Unknown.
Graph(root, children, isRecursive) ==
    [root |-> root, children |-> children, isRecursive |-> isRecursive]

-----------------------------------------------------------------------------
(* Synthetic calls.                                                        *)

\* The expressions inside an expression, from left to right.
Inside(n) ==
    LET node == program[n]
    IN  SetToSortSeq(Operands(n) \cup IF node.kind = "call" THEN Range(node.args) ELSE {}, <)

RECURSIVE GetAllContainedCalls(_)
GetAllContainedCalls(n) ==
    (IF program[n].kind = "call" THEN <<n>> ELSE <<>>)
        \o FlattenSeq([i \in DOMAIN Inside(n) |-> GetAllContainedCalls(Inside(n)[i])])

GetEvaluatedCallable(n, subs, c) ==
    LET Filtered(r) == Result(IF r.value.kind = "callable" THEN r.value ELSE Unknown, r.cache)
    IN  Filtered(Evaluated(n, subs, c))

\* An argument is remembered even if it is not a callable, so that the default
\* value of its parameter is out of play; a default value is remembered if it
\* is a callable.
GetParameterSubstitutionsAfterCall(f, args, subs, c) ==
    LET Bind(bound, p, r) ==
            Result(IF p \notin DOMAIN args /\ r.value = Unknown THEN bound
                   ELSE Set(bound, p, r.value),
                   r.cache)
        ValueOf(p, bound, cNow) ==
            IF p \in DOMAIN args THEN GetEvaluatedCallable(args[p], subs, cNow)
            ELSE IF program[p].default # NoDefault
            THEN GetEvaluatedCallable(program[p].default, bound, cNow)
            ELSE Result(Unknown, cNow)
    IN  FoldLeft(LAMBDA acc, p : Bind(acc.value, p, ValueOf(p, acc.value, acc.cache)),
                 Result(NoSubstitutions, c),
                 IF f = Unknown THEN <<>> ELSE program[f.callable].parameters)

SyntheticCall(f, subs) == [callable |-> f, substitutions |-> subs]

CreateSyntheticCallForCall(call, subs, c) ==
    LET CallOf(f, after) == Result(SyntheticCall(f, after.value), after.cache)
        Apply(f) == CallOf(f.value, GetParameterSubstitutionsAfterCall(
                                        f.value, program[call].args, subs, f.cache))
    IN  Apply(GetEvaluatedCallable(program[call].receiver, subs, c))

\* A function that is passed along has been created without substitutions.
CreateSyntheticCallForEvaluatedCallable(f) == SyntheticCall(f, NoSubstitutions)

\* The synthetic calls of a sequence of calls, after those in acc.
CreateSyntheticCalls(calls, subs, acc) ==
    LET AppendTo(so, r) == Result(Append(so, r.value), r.cache)
    IN  FoldLeft(LAMBDA so, call :
                     AppendTo(so.value, CreateSyntheticCallForCall(call, subs, so.cache)),
                 acc, calls)

\* The callable that a default value is, if it is one, after the calls in acc.
CallableAsDefaultValue(default, subs, acc) ==
    LET AppendTo(so, r) ==
            Result(IF r.value = Unknown THEN so
                   ELSE Append(so, CreateSyntheticCallForEvaluatedCallable(r.value)),
                   r.cache)
    IN  AppendTo(acc.value, GetEvaluatedCallable(default, subs, acc.cache))

\* Mutant: of the calls inside a default value, only the outermost counts.
FirstCallInDefaultValue(p, subs, acc) ==
    LET default == program[p].default
        calls == GetAllContainedCalls(default)
    IN  IF default = NoDefault \/ p \in DOMAIN subs THEN acc
        ELSE IF calls # <<>> THEN CreateSyntheticCalls(<<Head(calls)>>, subs, acc)
        ELSE CallableAsDefaultValue(default, subs, acc)

\* A default value executes the calls inside it, or else itself if it is a
\* callable.
CallsInDefaultValue(p, subs, acc) ==
    LET default == program[p].default
        calls == GetAllContainedCalls(default)
    IN  IF default = NoDefault \/ p \in DOMAIN subs THEN acc
        ELSE IF calls # <<>> THEN CreateSyntheticCalls(calls, subs, acc)
        ELSE CallableAsDefaultValue(default, subs, acc)

CallablesInSubstitutions(subs) ==
    LET callables == SelectSeq(SetToSortSeq(DOMAIN subs, <), LAMBDA p : subs[p].kind = "callable")
    IN  [i \in DOMAIN callables |-> CreateSyntheticCallForEvaluatedCallable(subs[callables[i]])]

GetExecutedCallsInCallable(f, subs, c) ==
    LET WithCallables(r) == Result(r.value \o CallablesInSubstitutions(subs), r.cache)
    IN  WithCallables(FoldLeft(LAMBDA acc, p : CallsInDefaultValue(p, subs, acc),
                               Result(<<>>, c), program[f].parameters))

-----------------------------------------------------------------------------
(* The search.                                                             *)

\* The graph of a callable, given the graphs of the calls it executes.
GraphOf(f, children) ==
    Result(Graph(f, children.value,
                 \E i \in DOMAIN children.value : children.value[i].isRecursive),
           children.cache)

RECURSIVE GetCallGraphWithRecursionCheck(_, _, _)

\* The graphs of a sequence of synthetic calls, given with the cache.
GetChildren(calls, visited) ==
    LET AppendTo(graphsSoFar, r) == Result(Append(graphsSoFar, r.value), r.cache)
    IN  FoldLeft(LAMBDA acc, call :
                     AppendTo(acc.value, GetCallGraphWithRecursionCheck(call, visited, acc.cache)),
                 Result(<<>>, calls.cache), calls.value)

\* Mutant: functions are compared, whatever they are called with.
GetCallGraphOfFunctions(call, visited, c) ==
    LET f == call.callable
        subs == call.substitutions
    IN  CASE f = Unknown -> Result(Graph(Unknown, <<>>, FALSE), c)
          [] f # Unknown /\ \E other \in visited : other.callable = f -> Result(Graph(f, <<>>, TRUE), c)
          [] OTHER -> GraphOf(f, GetChildren(GetExecutedCallsInCallable(f.callable, subs, c),
                                             visited \cup {call}))

GetCallGraphWithRecursionCheck(call, visited, c) ==
    LET f == call.callable
        subs == call.substitutions
    IN  CASE f = Unknown                     -> Result(Graph(Unknown, <<>>, FALSE), c)
          [] f # Unknown /\ call \in visited -> Result(Graph(f, <<>>, TRUE), c)
          [] OTHER -> GraphOf(f, GetChildren(GetExecutedCallsInCallable(f.callable, subs, c),
                                             visited \cup {call}))

DoGetCallGraph(n, subs, c) ==
    LET GraphOfCall(call) == GetCallGraphWithRecursionCheck(call.value, {}, call.cache)
    IN  IF program[n].kind = "call" THEN GraphOfCall(CreateSyntheticCallForCall(n, subs, c))
        ELSE GraphOf(Callable(n), GetChildren(GetExecutedCallsInCallable(n, subs, c), {}))

\* The callables of a graph, depth-first and in pre-order.
RECURSIVE StreamCalledCallables(_)
StreamCalledCallables(g) ==
    <<g.root>> \o FlattenSeq([i \in DOMAIN g.children |-> StreamCalledCallables(g.children[i])])

-----------------------------------------------------------------------------
(* Queries, of which callMustNotBeRecursive is one, and updates.           *)

Callers == {n \in Node : program[n].kind \in {"call", "function"}}

\* A graph is returned and, if remember is TRUE, cached.
Answer(n, r, remember) ==
    /\ graph' = r.value
    /\ cache' = r.cache
    /\ graphs' = IF remember THEN Set(graphs, n, r.value) ELSE graphs

\* Mutant: the condition for the cache is negated.
GetCallGraphCachingContexts(n, subs) ==
    /\ queries < MaxQueries
    /\ queries' = queries + 1
    /\ query' = [node |-> n, substitutions |-> subs]
    /\ answer' = NoAnswer
    /\ Answer(n, DoGetCallGraph(n, subs, cache), subs # NoSubstitutions)
    /\ UNCHANGED program

GetCallGraph(n, subs) ==
    /\ queries < MaxQueries
    /\ queries' = queries + 1
    /\ query' = [node |-> n, substitutions |-> subs]
    /\ answer' = NoAnswer
    /\ IF subs = NoSubstitutions /\ n \in DOMAIN graphs
       THEN graph' = graphs[n] /\ UNCHANGED <<graphs, cache>>
       ELSE Answer(n, DoGetCallGraph(n, subs, cache), subs = NoSubstitutions)
    /\ UNCHANGED program

\* Other services ask the evaluator.
Evaluate(n, subs) ==
    /\ Query(n, subs)
    /\ graph' = NoGraph
    /\ UNCHANGED graphs

\* Mutant: the graphs outlive the program.
ClearValuesOnUpdate ==
    /\ Update
    /\ graph' = NoGraph
    /\ UNCHANGED graphs

ClearCachesOnUpdate ==
    /\ Update
    /\ graphs' = Empty
    /\ graph' = NoGraph

GraphInit ==
    /\ Init
    /\ graphs = Empty
    /\ graph = NoGraph

GraphNext ==
    \/ \E n \in Callers, subs \in Contexts : GetCallGraph(n, subs)
    \/ \E n \in Compound : Evaluate(n, NoSubstitutions)
    \/ ClearCachesOnUpdate

GraphSpec == GraphInit /\ [][GraphNext]_graphVars

-----------------------------------------------------------------------------
(* Reference definitions: a relation on synthetic calls instead of a       *)
(* search, and an execution that is cut off instead of a check.            *)

CallsOf(call) ==
    IF call.callable = Unknown THEN {}
    ELSE ToSet(GetExecutedCallsInCallable(call.callable.callable, call.substitutions, Empty).value)

RECURSIVE CallsFrom(_, _)
CallsFrom(seen, calls) ==
    IF calls \subseteq seen THEN seen
    ELSE CallsFrom(seen \cup calls, UNION {CallsOf(call) : call \in calls \ seen})

\* The synthetic calls that a node makes itself, and those it leads to.
FirstCalls(n, subs) ==
    IF program[n].kind = "call" THEN {CreateSyntheticCallForCall(n, subs, Empty).value}
    ELSE ToSet(GetExecutedCallsInCallable(n, subs, Empty).value)
AllCalls(n, subs) == CallsFrom({}, FirstCalls(n, subs))

\* Whether the execution of a call ends once its arguments are evaluated, with
\* at most fuel calls under way at a time.  It executes the default values of
\* parameters without arguments; the bodies of functions are left out, as the
\* graph leaves them out.
RECURSIVE Returns(_, _, _)
Returns(n, env, fuel) ==
    LET args == program[n].args
        Executed(f) == {program[p].default :
                            p \in {p \in ToSet(program[f].parameters) :
                                     p \notin DOMAIN args /\ program[p].default # NoDefault}}
        Ends(f, bound) ==
            /\ fuel > 0
            /\ \A m \in Executed(f) : \A call \in ToSet(GetAllContainedCalls(m)) :
                   Returns(call, bound.value, fuel - 1)
        Run(f) == f.kind = "callable" =>
                      Ends(f.callable,
                           ParameterSubstitutionsAfterCall(f.callable, args, env, {}, Empty))
    IN  Run(Evaluated(program[n].receiver, env, Empty).value)

\* No call is hidden: a default value that is a callable contains no calls,
\* which would be passed over as if an argument had been given.
DefaultsHideNoCalls ==
    \A p \in ParameterNode :
        /\ program[p].default # NoDefault
        /\ GetAllContainedCalls(program[p].default) # <<>>
        => GetEvaluatedCallable(program[p].default, NoSubstitutions, Empty).value = Unknown

-----------------------------------------------------------------------------
(* Properties.                                                             *)

\* Graphs are cached for calls and functions of the program in the editor, and
\* the graph of the last query is, unless it was asked for with substitutions.
GraphTypeOK ==
    /\ DOMAIN graphs \subseteq Callers
    /\ graph # NoGraph /\ query.substitutions = NoSubstitutions =>
           query.node \in DOMAIN graphs /\ graphs[query.node] = graph

\* The graph is the one a fresh server would compute, whatever was asked of it
\* and of the evaluator before, and whichever program was open, as far as that
\* holds for the evaluator.
GraphsIgnoreHistory ==
    graph # NoGraph =>
        \/ graph = DoGetCallGraph(query.node, query.substitutions, Empty).value
        \/ ~CyclesAreCalls

\* A call is recursive iff it leads to a synthetic call that leads to itself,
\* on whichever branch, and the graph names all callables it leads to.
RecursionIsACycle ==
    graph # NoGraph /\ CyclesAreCalls =>
        LET Describes(calls) ==
                /\ graph.isRecursive = \E call \in calls : call \in CallsFrom({}, CallsOf(call))
                /\ ToSet(StreamCalledCallables(graph)) =
                       {call.callable : call \in calls}
                       \cup IF program[query.node].kind = "call" THEN {} ELSE {Callable(query.node)}
        IN  Describes(AllCalls(query.node, query.substitutions))

Unreported ==
    /\ graph # NoGraph
    /\ program[query.node].kind = "call"
    /\ ~graph.isRecursive
    /\ Unknown \notin ToSet(StreamCalledCallables(graph))

\* More calls than this are never under way unless one is under way twice.
Fuel == Cardinality(AllCalls(query.node, query.substitutions))

\* A call whose callees are all known and which is not reported ends, as far as
\* default values and callables that are passed along are concerned.
UnreportedCallsReturn ==
    Unreported /\ DefaultsHideNoCalls => Returns(query.node, query.substitutions, Fuel)
=============================================================================
