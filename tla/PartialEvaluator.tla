--------------------------- MODULE PartialEvaluator ---------------------------
(***************************************************************************)
(* The partial evaluator (class TTSLPartialEvaluator).  It computes what   *)
(* an expression evaluates to as far as that is known before the program   *)
(* runs: parameters have the values of given substitutions, or none.  The  *)
(* values without substitutions are cached, node by node, while a query is *)
(* under way, and the cache lives until the next update of the workspace.  *)
(* A recursion check ends the evaluation of calls that lead to themselves  *)
(* through default values of parameters.                                   *)
(*                                                                         *)
(* A program is a function from its nodes to records with the field kind.  *)
(* A reference, a type cast, an argument and a placeholder only pass on    *)
(* the value of another node: a reference to a parameter or a function     *)
(* stands for the declaration itself, the others are nodes of the kind     *)
(* "forward".  Numbers are integers; fractions and strings are left out.   *)
(***************************************************************************)
EXTENDS Integers, FiniteSetsExt, SequencesExt

CONSTANTS
    Programs,       \* the programs that may be open at first
    Menu,           \* the programs an edit may lead to
    Values,         \* the values that are substituted for parameters
    NoDefault,      \* the default value of a required parameter
    NoAnswer,       \* the answer before the first query
    MaxQueries      \* bound on the number of queries

ASSUME EvaluatorAssumption ==
    /\ MaxQueries \in Nat
    /\ Menu \subseteq Programs

VARIABLES
    program,   \* the program in the editor
    cache,     \* the cache, a function from nodes to values
    query,     \* the last query, of a node with substitutions
    answer,    \* what the last query returned
    queries    \* number of queries so far

vars == <<program, cache, query, answer, queries>>

Node == DOMAIN program
ParameterNode == {n \in Node : program[n].kind = "parameter"}

-----------------------------------------------------------------------------
(* Values (model.ts).  Their equality is the method equals.                *)

Unknown == [kind |-> "unknown"]
Null == [kind |-> "null"]
Bool(b) == [kind |-> "boolean", boolean |-> b]
Number(i) == [kind |-> "int", int |-> i]
ListOf(vs) == [kind |-> "list", elements |-> vs]
MapOf(ks, vs) == [kind |-> "map", keys |-> ks, values |-> vs]
Callable(n) == [kind |-> "callable", callable |-> n]
NamedTuple(results) == [kind |-> "tuple", results |-> results]

IsConstant(v) == v.kind \in {"null", "boolean", "int"}

\* Mutant: containers count, whatever is in them.
IsFullyEvaluatedOutside(v) == v.kind \notin {"unknown", "callable"}

RECURSIVE IsFullyEvaluated(_)
IsFullyEvaluated(v) ==
    CASE v.kind \in {"unknown", "callable"} -> FALSE
      [] v.kind = "list"  -> \A i \in DOMAIN v.elements : IsFullyEvaluated(v.elements[i])
      [] v.kind = "map"   -> \A i \in DOMAIN v.keys :
                                 IsFullyEvaluated(v.keys[i]) /\ IsFullyEvaluated(v.values[i])
      [] v.kind = "tuple" -> \A r \in DOMAIN v.results : IsFullyEvaluated(v.results[r])
      [] OTHER            -> TRUE

\* A tuple of one result is that result.
Unwrap(v) ==
    IF v.kind = "tuple" /\ Cardinality(DOMAIN v.results) = 1
    THEN v.results[CHOOSE r \in DOMAIN v.results : TRUE]
    ELSE v

GetElementByIndex(v, i) ==
    IF i + 1 \in DOMAIN v.elements THEN v.elements[i + 1] ELSE Unknown

GetLastValueForKey(v, key) ==
    LET matching == {i \in DOMAIN v.keys : v.keys[i] = key}
    IN  IF matching = {} THEN Unknown ELSE v.values[Max(matching)]

-----------------------------------------------------------------------------
(* Operators on values that are known.                                     *)

\* Division of whole numbers drops the fraction, towards zero.
Quotient(a, b) ==
    LET abs(x) == IF x < 0 THEN -x ELSE x
    IN  IF (a < 0) = (b < 0) THEN abs(a) \div abs(b) ELSE -(abs(a) \div abs(b))

Arithmetic(op, a, b) ==
    CASE op = "+" -> Number(a + b)
      [] op = "-" -> Number(a - b)
      [] op = "*" -> Number(a * b)
      [] op = "/" -> IF b = 0 THEN Unknown ELSE Number(Quotient(a, b))
      [] op = "<" -> Bool(a < b)
      [] op = ">" -> Bool(a > b)

\* The operators that need the values of both operands.
Strict(op, left, right) ==
    CASE left = Unknown \/ right = Unknown          -> Unknown
      [] op \in {"==", "!="} /\ left # Unknown /\ right # Unknown
                                                    -> Bool((left = right) = (op = "=="))
      [] op \notin {"==", "!="} /\ left.kind = "int" /\ right.kind = "int"
                                                    -> Arithmetic(op, left.int, right.int)
      [] OTHER                                      -> Unknown

ShortCircuits(op, left) ==
    \/ left = Unknown
    \/ op = "or" /\ left = Bool(TRUE)
    \/ op = "and" /\ left = Bool(FALSE)
    \/ op = "?:" /\ IsConstant(left) /\ left # Null

\* The other operators, once they do not short-circuit.
Lazy(op, left, right) ==
    CASE op = "?:" /\ left = Null                      -> right
      [] op = "?:" /\ left # Null /\ right # Unknown   -> left
      [] op # "?:" /\ left.kind = "boolean" /\ right.kind = "boolean" ->
             Bool(IF op = "or" THEN left.boolean \/ right.boolean
                  ELSE left.boolean /\ right.boolean)
      [] OTHER                                         -> Unknown

Prefix(op, v) ==
    CASE op = "not" /\ v.kind = "boolean" -> Bool(~v.boolean)
      [] op = "-" /\ v.kind = "int"       -> Number(-v.int)
      [] OTHER                            -> Unknown

-----------------------------------------------------------------------------
(* Evaluation.  An evaluation of node n with substitutions subs returns a  *)
(* value and the cache it leaves behind; visited holds the evaluations     *)
(* that are under way.                                                     *)

NoSubstitutions == <<>>
Empty == <<>>
Set(map, key, value) ==
    [k \in DOMAIN map \cup {key} |-> IF k = key THEN value ELSE map[k]]

Result(v, c) == [value |-> v, cache |-> c]

RECURSIVE DoEvaluateWithRecursionCheck(_, _, _, _)
RECURSIVE EvaluateWithRecursionCheck(_, _, _, _)

\* Mutant: the value with substitutions replaces the one in the cache.
EvaluateAndRemember(n, subs, visited, c) ==
    LET nowVisited == visited \cup {<<n, subs>>}
        Remember(r) == Result(r.value, Set(r.cache, n, r.value))
        Substitute(computed) ==
            IF IsFullyEvaluated(computed.value) \/ subs = NoSubstitutions THEN computed
            ELSE Remember(DoEvaluateWithRecursionCheck(n, subs, nowVisited, computed.cache))
    IN  IF <<n, subs>> \in visited THEN Result(Unknown, c)
        ELSE Substitute(
                 IF n \in DOMAIN c THEN Result(c[n], c)
                 ELSE Remember(DoEvaluateWithRecursionCheck(n, NoSubstitutions, nowVisited, c)))

\* Mutant: values that are not known are not cached.
EvaluateCachingKnown(n, subs, visited, c) ==
    LET nowVisited == visited \cup {<<n, subs>>}
        Remember(r) ==
            IF IsFullyEvaluated(r.value) THEN Result(r.value, Set(r.cache, n, r.value)) ELSE r
        Substitute(computed) ==
            IF IsFullyEvaluated(computed.value) \/ subs = NoSubstitutions THEN computed
            ELSE DoEvaluateWithRecursionCheck(n, subs, nowVisited, computed.cache)
    IN  IF <<n, subs>> \in visited THEN Result(Unknown, c)
        ELSE Substitute(
                 IF n \in DOMAIN c THEN Result(c[n], c)
                 ELSE Remember(DoEvaluateWithRecursionCheck(n, NoSubstitutions, nowVisited, c)))

\* The node is evaluated without substitutions first, and only that value is
\* cached.
EvaluateWithRecursionCheck(n, subs, visited, c) ==
    LET nowVisited == visited \cup {<<n, subs>>}
        Remember(r) == Result(r.value, Set(r.cache, n, r.value))
        Substitute(computed) ==
            IF IsFullyEvaluated(computed.value) \/ subs = NoSubstitutions THEN computed
            ELSE DoEvaluateWithRecursionCheck(n, subs, nowVisited, computed.cache)
    IN  IF <<n, subs>> \in visited THEN Result(Unknown, c)
        ELSE Substitute(
                 IF n \in DOMAIN c THEN Result(c[n], c)
                 ELSE Remember(DoEvaluateWithRecursionCheck(n, NoSubstitutions, nowVisited, c)))

\* The nodes of a sequence, from left to right.
EvaluateAll(ns, subs, visited, c) ==
    LET AppendTo(vs, r) == Result(Append(vs, r.value), r.cache)
    IN  FoldLeft(LAMBDA acc, n :
                     AppendTo(acc.value, EvaluateWithRecursionCheck(n, subs, visited, acc.cache)),
                 Result(<<>>, c), ns)

\* A parameter is bound to the value of its argument, or else of its default
\* value, which may refer to the parameters before it.  Unknown values bind
\* nothing.
ParameterSubstitutionsAfterCall(f, args, subs, visited, c) ==
    LET Bind(bound, p, r) ==
            Result(IF r.value = Unknown THEN bound ELSE Set(bound, p, r.value), r.cache)
        ValueOf(p, bound, cNow) ==
            IF p \in DOMAIN args
            THEN EvaluateWithRecursionCheck(args[p], subs, visited, cNow)
            ELSE IF program[p].default # NoDefault
            THEN EvaluateWithRecursionCheck(program[p].default, bound, visited, cNow)
            ELSE Result(Unknown, cNow)
    IN  FoldLeft(LAMBDA acc, p : Bind(acc.value, p, ValueOf(p, acc.value, acc.cache)),
                 Result(NoSubstitutions, c), program[f].parameters)

\* The value of a call is the tuple of the function's results.
EvaluateCallableCall(f, args, subs, visited, c) ==
    LET results == program[f].results
        ResultsOf(rs) ==
            Result(NamedTuple([r \in ToSet(results) |->
                                  rs.value[CHOOSE i \in DOMAIN results : results[i] = r]]),
                   rs.cache)
        Execute(bound) == EvaluateAll(results, bound.value, visited, bound.cache)
    IN  ResultsOf(Execute(ParameterSubstitutionsAfterCall(f, args, subs, visited, c)))

EvaluateCall(node, subs, visited, c) ==
    LET Apply(v, cNow) ==
            CASE v.kind = "callable" ->
                   EvaluateCallableCall(v.callable, node.args, subs, visited, cNow)
              [] v = Null /\ node.nullSafe -> Result(Null, cNow)
              [] OTHER                     -> Result(Unknown, cNow)
        To(receiver) == Apply(Unwrap(receiver.value), receiver.cache)
    IN  To(EvaluateWithRecursionCheck(node.receiver, subs, visited, c))

EvaluateIndexedAccess(node, subs, visited, c) ==
    LET Element(v, key, cNow) ==
            CASE v.kind = "list" ->
                   Result(IF key.kind = "int" THEN GetElementByIndex(v, key.int) ELSE Unknown, cNow)
              [] OTHER -> Result(GetLastValueForKey(v, key), cNow)
        At(v, index) == Element(v, Unwrap(index.value), index.cache)
        AccessTo(v, cNow) ==
            CASE v.kind \in {"list", "map"} ->
                   At(v, EvaluateWithRecursionCheck(node.index, subs, visited, cNow))
              [] v = Null /\ node.nullSafe -> Result(Null, cNow)
              [] OTHER                     -> Result(Unknown, cNow)
        To(receiver) == AccessTo(Unwrap(receiver.value), receiver.cache)
    IN  To(EvaluateWithRecursionCheck(node.receiver, subs, visited, c))

EvaluateInfixOperation(node, subs, visited, c) ==
    LET Combine(v, right) ==
            Result(IF node.op \in {"or", "and", "?:"} THEN Lazy(node.op, v, right.value)
                   ELSE Strict(node.op, v, right.value),
                   right.cache)
        WithLeft(left) ==
            IF ShortCircuits(node.op, left.value) THEN left
            ELSE Combine(left.value,
                         EvaluateWithRecursionCheck(node.right, subs, visited, left.cache))
    IN  WithLeft(EvaluateWithRecursionCheck(node.left, subs, visited, c))

\* A parenthesized expression is evaluated by evaluating itself.
DoEvaluateWithRecursionCheck(n, subs, visited, c) ==
    LET node == program[n]
        Evaluate(m) == EvaluateWithRecursionCheck(m, subs, visited, c)
        Negated(r) == Result(Prefix(node.op, r.value), r.cache)
        Listed(r) == Result(ListOf(r.value), r.cache)
        Mapped(r) == LET Half(o) == [i \in DOMAIN node.keys |-> r.value[2 * i - o]]
                     IN  Result(MapOf(Half(1), Half(0)), r.cache)
        entries == FlattenSeq([i \in DOMAIN node.keys |-> <<node.keys[i], node.values[i]>>])
    IN  CASE node.kind = "literal"       -> Result(node.value, c)
          [] node.kind = "function"      -> Result(Callable(n), c)
          [] node.kind = "parameter"     -> Result(IF n \in DOMAIN subs THEN subs[n] ELSE Unknown, c)
          [] node.kind = "result"        -> Result(Unknown, c)
          [] node.kind = "aggregation"   -> Result(Unknown, c)
          [] node.kind = "forward"       -> Evaluate(node.expression)
          [] node.kind = "parenthesized" -> Evaluate(n)
          [] node.kind = "prefix"        -> Negated(Evaluate(node.operand))
          [] node.kind = "infix"         -> EvaluateInfixOperation(node, subs, visited, c)
          [] node.kind = "list"          -> Listed(EvaluateAll(node.elements, subs, visited, c))
          [] node.kind = "map"           -> Mapped(EvaluateAll(entries, subs, visited, c))
          [] node.kind = "call"          -> EvaluateCall(node, subs, visited, c)
          [] node.kind = "access"        -> EvaluateIndexedAccess(node, subs, visited, c)

-----------------------------------------------------------------------------
(* Queries and updates.                                                    *)

\* What evaluate(n, subs) returns if the cache is c.
Evaluated(n, subs, c) ==
    LET Unwrapped(r) == Result(Unwrap(r.value), r.cache)
    IN  Unwrapped(EvaluateWithRecursionCheck(n, subs, {}, c))

Substitutions ==
    UNION {[ps -> Values] : ps \in SUBSET ParameterNode}

\* The nodes whose values are not known at sight.
Compound == {n \in Node : program[n].kind \notin {"literal", "parameter", "function", "result"}}

Query(n, subs) ==
    /\ queries < MaxQueries
    /\ queries' = queries + 1
    /\ query' = [node |-> n, substitutions |-> subs]
    /\ LET Answer(r) == answer' = r.value /\ cache' = r.cache
       IN  Answer(Evaluated(n, subs, cache))
    /\ UNCHANGED program

\* An update of the workspace empties the cache.
Update ==
    /\ program' \in Menu \ {program}
    /\ cache' = Empty
    /\ query' = [node |-> 0, substitutions |-> NoSubstitutions]
    /\ answer' = NoAnswer
    /\ UNCHANGED queries

Init ==
    /\ program \in Programs
    /\ cache = Empty
    /\ query = [node |-> 0, substitutions |-> NoSubstitutions]
    /\ answer = NoAnswer
    /\ queries = 0

Next == (\E n \in Compound : \E subs \in Substitutions : Query(n, subs)) \/ Update

Spec == Init /\ [][Next]_vars

-----------------------------------------------------------------------------
(* What a program means: its values at run time, where every parameter has *)
(* a value and every call and aggregation returns one.  The operators are  *)
(* those of Python and numpy, as the generator uses them: a list is an     *)
(* array, a quotient is exact, and true and false are also the numbers 1   *)
(* and 0.  A whole number is the same as an integer and as a fraction.  An *)
(* operation that raises an error, such as a division by zero, means       *)
(* Unknown, and so does one on values that the type checker rejects.       *)

Fraction(n, d) == [kind |-> "fraction", numerator |-> n, denominator |-> d]

\* The outcome of numpy's operations on whole arrays, whose elements do not matter.
Array == [kind |-> "array"]

IsNumber(v) == v.kind \in {"boolean", "int", "fraction"}
IsContainer(v) == v.kind \in {"list", "map", "array"}

\* A number as numerator and denominator.
Ratio(v) ==
    CASE v.kind = "boolean"  -> <<IF v.boolean THEN 1 ELSE 0, 1>>
      [] v.kind = "int"      -> <<v.int, 1>>
      [] v.kind = "fraction" -> <<v.numerator, v.denominator>>

FromRatio(n, d) ==
    LET divisor == Max({k \in 1 .. d : n % k = 0 /\ d % k = 0})
    IN  IF n % d = 0 THEN Number(n \div d) ELSE Fraction(n \div divisor, d \div divisor)

PythonArithmetic(op, left, right) ==
    LET n == Ratio(left)[1]
        d == Ratio(left)[2]
        m == Ratio(right)[1]
        e == Ratio(right)[2]
    IN  CASE op = "+" -> FromRatio(n * e + m * d, d * e)
          [] op = "-" -> FromRatio(n * e - m * d, d * e)
          [] op = "*" -> FromRatio(n * m, d * e)
          [] op = "/" -> IF m = 0 THEN Unknown
                         ELSE IF m < 0 THEN FromRatio((-n) * e, d * (-m))
                         ELSE FromRatio(n * e, d * m)
          [] op = "<" -> Bool(n * e < m * d)
          [] op = ">" -> Bool(n * e > m * d)

\* Values that == takes for the same key of a dictionary.
SameKey(v, w) == v = w \/ (IsNumber(v) /\ IsNumber(w) /\ Ratio(v) = Ratio(w))

\* Arrays are compared element by element.  Dictionaries of values other than
\* arrays are equal if they map the same keys to the same values.
PythonEquals(v, w) ==
    LET In(map, key) == {i \in DOMAIN map.keys : SameKey(map.keys[i], key)}
        Has(map, key, value) ==
            In(map, key) # {} /\ SameKey(map.values[Max(In(map, key))], value)
        Includes(a, b) == \A i \in DOMAIN a.keys :
                              Has(b, a.keys[i], a.values[Max(In(a, a.keys[i]))])
    IN  CASE v.kind \in {"list", "array"} \/ w.kind \in {"list", "array"} -> Array
          [] v.kind = "map" /\ w.kind = "map" ->
                 IF \E x \in Range(v.values) \cup Range(w.values) : IsContainer(x)
                 THEN Unknown ELSE Bool(Includes(v, w) /\ Includes(w, v))
          [] OTHER -> Bool(SameKey(v, w))

\* Neither a container nor one of null, false and zero.
Truthy(v) == IF IsNumber(v) THEN Ratio(v)[1] # 0 ELSE v # Null

\* The operators, eager_or, eager_and and eager_elvis among them, on known values.
PythonInfix(op, left, right) ==
    CASE op = "?:" -> IF left = Null THEN right ELSE left
      [] op \in {"or", "and"} ->
             IF IsContainer(left) THEN Unknown
             ELSE IF Truthy(left) = (op = "or") THEN left ELSE right
      [] op = "==" -> PythonEquals(left, right)
      [] op = "!=" -> LET same == PythonEquals(left, right)
                      IN  IF same.kind = "boolean" THEN Bool(~same.boolean) ELSE same
      [] OTHER     -> IF IsNumber(left) /\ IsNumber(right)
                      THEN PythonArithmetic(op, left, right) ELSE Unknown

PythonPrefix(op, v) ==
    CASE op = "not" -> IF IsContainer(v) THEN Unknown ELSE Bool(~Truthy(v))
      [] op = "-"   -> IF IsNumber(v) THEN PythonArithmetic("*", Number(-1), v) ELSE Unknown

RECURSIVE Leaves(_)
Leaves(v) == IF v.kind = "list" THEN UNION {Leaves(x) : x \in Range(v.elements)} ELSE {v}

RECURSIVE Shape(_)
Shape(v) ==
    IF v.kind # "list" THEN <<>>
    ELSE <<Len(v.elements)>> \o (IF v.elements = <<>> THEN <<>> ELSE Shape(v.elements[1]))

RECURSIVE AsNumbers(_)
AsNumbers(v) ==
    CASE v.kind = "list"    -> ListOf([i \in DOMAIN v.elements |-> AsNumbers(v.elements[i])])
      [] v.kind = "boolean" -> Number(Ratio(v)[1])
      [] OTHER              -> v

\* Elements of an array are all of the same shape.  If they are all numbers and
\* not all booleans, then the booleans among them become numbers.
ArrayOf(vs) ==
    LET list == ListOf(vs)
    IN  IF Cardinality({Shape(v) : v \in Range(vs)}) > 1 THEN Unknown
        ELSE IF /\ \A v \in Leaves(list) : IsNumber(v)
                /\ \E v \in Leaves(list) : v.kind # "boolean"
        THEN AsNumbers(list) ELSE list

\* Keys of a dictionary must be hashable.
DictionaryOf(ks, vs) ==
    IF \E key \in Range(ks) : IsContainer(key) THEN Unknown ELSE MapOf(ks, vs)

\* Indices of an array count from its end if they are negative; of equal keys of
\* a dictionary, the last one counts.
PythonIndex(v, key) ==
    LET index == IF key.int < 0 THEN Len(v.elements) + key.int ELSE key.int
        matching == {i \in DOMAIN v.keys : SameKey(v.keys[i], key)}
    IN  CASE v.kind = "list" ->
               IF key.kind = "int" THEN GetElementByIndex(v, index)
               ELSE IF key.kind \in {"boolean", "null", "list", "array"} THEN Array ELSE Unknown
          [] v.kind = "map" ->
               IF IsContainer(key) \/ matching = {} THEN Unknown ELSE v.values[Max(matching)]
          [] OTHER -> Unknown

Operands(n) ==
    LET node == program[n]
    IN  CASE node.kind \in {"forward", "parenthesized"} -> {node.expression}
          [] node.kind = "prefix" -> {node.operand}
          [] node.kind = "infix"  -> {node.left, node.right}
          [] node.kind = "list"   -> ToSet(node.elements)
          [] node.kind = "map"    -> ToSet(node.keys) \cup ToSet(node.values)
          [] node.kind = "call"   -> {node.receiver}
          [] node.kind = "access" -> {node.receiver, node.index}
          [] OTHER                -> {}

RECURSIVE Parts(_)
Parts(n) == {n} \cup UNION {Parts(m) : m \in Operands(n)}

\* The values of what is not known before the program runs.
Environment(n) ==
    [{m \in Parts(n) : program[m].kind \in {"parameter", "call", "aggregation"}} -> Values]

\* A function without results returns None.
RECURSIVE Meaning(_, _)
Meaning(n, env) ==
    LET node == program[n]
        Of(m) == Meaning(m, env)
        All(ns) == [i \in DOMAIN ns |-> Of(ns[i])]
        Defined(ns, v) == IF \E m \in ns : Of(m) = Unknown THEN Unknown ELSE v
        safe == Of(node.receiver) = Null /\ node.nullSafe
        callee == Of(node.receiver)
    IN  CASE node.kind = "literal"   -> node.value
          [] node.kind = "function"  -> Callable(n)
          [] node.kind = "result"    -> Unknown
          [] node.kind \in {"parameter", "aggregation"} -> env[n]
          [] node.kind \in {"forward", "parenthesized"} -> Of(node.expression)
          [] OTHER -> Defined(Operands(n),
               CASE node.kind = "prefix" -> PythonPrefix(node.op, Of(node.operand))
                 [] node.kind = "infix"  -> PythonInfix(node.op, Of(node.left), Of(node.right))
                 [] node.kind = "list"   -> ArrayOf(All(node.elements))
                 [] node.kind = "map"    -> DictionaryOf(All(node.keys), All(node.values))
                 [] node.kind = "access" ->
                        IF safe THEN Null ELSE PythonIndex(Of(node.receiver), Of(node.index))
                 [] node.kind = "call"   ->
                        IF callee.kind = "callable"
                        THEN IF program[callee.callable].results = <<>> THEN Null ELSE env[n]
                        ELSE IF safe THEN Null ELSE Unknown)

-----------------------------------------------------------------------------
(* Properties.                                                             *)

\* The cache holds values of nodes of the program, that of the last query
\* included, even if it is unknown.
TypeOK ==
    /\ program \in Programs
    /\ DOMAIN cache \subseteq Node
    /\ queries \in 0 .. MaxQueries
    /\ answer # NoAnswer => query.node \in DOMAIN cache

\* The nodes whose evaluation is part of the evaluation of n.  A receiver that is
\* not the name of a function may be any.
EvaluatedFor(n) ==
    LET node == program[n]
        callees == IF program[node.receiver].kind = "function" THEN {node.receiver}
                   ELSE {f \in Node : program[f].kind = "function"}
        unset == UNION {ToSet(program[f].parameters) : f \in callees} \ DOMAIN node.args
    IN  Operands(n) \cup
        IF node.kind = "call"
        THEN Range(node.args) \cup ({program[p].default : p \in unset} \ {NoDefault})
        ELSE {}

RECURSIVE EvaluatedFrom(_, _)
EvaluatedFrom(seen, ns) ==
    IF ns \subseteq seen THEN seen
    ELSE EvaluatedFrom(seen \cup ns, UNION {EvaluatedFor(n) : n \in ns \ seen})

\* Only calls lead to themselves.  Their values do not depend on the values of
\* their arguments.
CyclesAreCalls ==
    \A n \in Node : n \in EvaluatedFrom({}, EvaluatedFor(n)) => program[n].kind = "call"

\* A query is answered as if it were the first one, whatever was asked before,
\* with whatever substitutions, from within whatever cycle of calls, and
\* whichever program was open before.  If an expression other than a call leads
\* to itself, as in f(p = [g, f()][0]), then the recursion check makes it
\* unknown in the middle of its own evaluation, and that stays in the cache.
AnswersIgnoreHistory ==
    answer # NoAnswer =>
        \/ answer = Evaluated(query.node, query.substitutions, Empty).value
        \/ ~CyclesAreCalls

IsFinal == answer # NoAnswer /\ IsFullyEvaluated(answer)

\* Booleans next to numbers, which Python confuses.
Confusable(vs) ==
    LET kinds == {v.kind : v \in UNION {Leaves(v) : v \in vs}}
    IN  "boolean" \in kinds /\ kinds \cap {"int", "fraction"} # {}

\* The operations that Python performs in another way than the evaluator: it
\* does not drop the fraction of a quotient, compares containers in its own way,
\* takes true for 1 and false for 0, and has no empty tuple of results.
DivergesInPython(n, env) ==
    LET node == program[n]
        Of(m) == Meaning(m, env)
    IN  CASE node.kind = "infix"  -> \/ node.op = "/" /\ Of(n).kind = "fraction"
                                     \/ /\ node.op \in {"==", "!="}
                                        /\ \/ IsContainer(Of(node.left))
                                           \/ IsContainer(Of(node.right))
                                           \/ Confusable({Of(node.left), Of(node.right)})
          [] node.kind = "list"   -> Confusable({Of(m) : m \in ToSet(node.elements)})
          [] node.kind = "map"    -> Confusable({Of(m) : m \in ToSet(node.keys)})
          [] node.kind = "call"   -> /\ Of(node.receiver).kind = "callable"
                                     /\ program[Of(node.receiver).callable].results = <<>>
          [] OTHER                -> FALSE

\* The answer is the value at run time, whatever is not known stands for, if the
\* program has one and no operation diverges.
HoldsAtRunTime ==
    \A env \in Environment(query.node) :
        /\ \A p \in DOMAIN env \cap DOMAIN query.substitutions : env[p] = query.substitutions[p]
        /\ Meaning(query.node, env) # Unknown
        /\ \A n \in Parts(query.node) : ~DivergesInPython(n, env)
        => answer = Meaning(query.node, env)

\* Values that are compared, or looked up, are known entirely or not at all.
ComparesKnownValues ==
    \A n \in Parts(query.node) : program[n].kind \in {"infix", "access"} =>
        \A m \in Operands(n) :
            LET v == EvaluateWithRecursionCheck(m, NoSubstitutions, {}, Empty).value
            IN  v = Unknown \/ IsFullyEvaluated(v)

\* A fully evaluated answer is the value that the generated program computes, if
\* it does not come from comparing values, or looking into values, that are known
\* in part, or from an operation of which the generator makes another one.
AnswersAreFinal == IsFinal /\ ComparesKnownValues => HoldsAtRunTime
=============================================================================
