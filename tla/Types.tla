-------------------------------- MODULE Types --------------------------------
(***************************************************************************)
(* The type computer (class TTSLTypeComputer) with its cache, and the      *)
(* validators that judge the types of one document: those of               *)
(* validation/types.ts, the null safety of chained expressions, and the    *)
(* hints on style that rest on types.                                      *)
(*                                                                         *)
(* A program is a sequence of nodes, which are records with the field kind. *)
(* A node of the kind "declared" is a parameter, constant, result, or data *)
(* with a stated type, "forward" a placeholder or a reference, which has   *)
(* the type of another node, and "element" the variable of a foreach loop. *)
(* Template strings have the type of strings, the only property of theirs  *)
(* that matters here.                                                      *)
(***************************************************************************)
EXTENDS TypeModel, FiniteSetsExt, SequencesExt

CONSTANTS
    Programs,       \* the programs that may be open at first
    Menu,           \* the programs an edit may lead to
    NoNode,         \* a default value that is not there
    NoAnswer,       \* the answer before the first query
    NotValidated,   \* the diagnostics before the program is validated
    MaxQueries,     \* bound on the number of queries and edits
    TextOf(_)       \* the text of a type, as a sequence of its parts

\* The nodes a computation may ask for.
Parts(node) ==
    CASE node.kind = "forward"    -> {node.target}
      [] node.kind = "element"    -> {node.list}
      [] node.kind = "list"       -> ToSet(node.elements)
      [] node.kind = "dictionary" -> ToSet(node.keys) \cup ToSet(node.values)
      [] node.kind \in {"call", "access"} -> {node.receiver}
      [] node.kind = "infix"      -> {node.left, node.right}
      [] node.kind = "minus"      -> {node.operand}
      [] node.kind = "predefined" -> {node.object}
      [] node.kind = "parenthesized" -> {node.expression}
      [] OTHER                    -> {}

\* Other nodes whose types the checks of a node look at.
OnlyChecked(node) ==
    CASE node.kind = "call"   -> DOMAIN node.args \cup Range(node.args)
      [] node.kind = "access" -> {node.index}
      [] node.kind = "not"    -> {node.operand}
      [] node.kind = "cast"   -> {node.expression}
      [] node.kind = "declared" /\ node.default # NoNode -> {node.default}
      [] OTHER -> {}

\* Programs are finite, and nodes are numbered behind the nodes whose types they
\* have or are computed from.  There is such an order whenever the computation
\* comes to an end.
IsProgram(p) ==
    /\ Len(p) \in Nat
    /\ DOMAIN p = 1 .. Len(p)
    /\ \A n \in DOMAIN p : Parts(p[n]) \subseteq 1 .. n - 1 /\ OnlyChecked(p[n]) \subseteq DOMAIN p

ASSUME TypesAssumption ==
    /\ MaxQueries \in Nat
    /\ Menu \subseteq Programs
    /\ \A p \in Programs : IsProgram(p)

VARIABLES
    program,       \* the program in the editor
    nodeTypes,     \* the cache, a function from nodes to types
    question,      \* the node of the last query
    answer,        \* the type it was given
    diagnostics,   \* pairs of a check and a node
    queries        \* number of queries and edits so far

vars == <<program, nodeTypes, question, answer, diagnostics, queries>>

Node == DOMAIN program
Empty == <<>>

\* Nodes with parts of their own; the type of any other is the one it states.
IsCompound(n) ==
    program[n].kind \notin {"declared", "function", "forward", "int", "float", "string", "boolean", "null"}

-----------------------------------------------------------------------------
(* The computation of types.                                               *)

\* A text without its first question mark.
WithoutFirstMark(text) ==
    LET marks == {i \in DOMAIN text : text[i] = "?"}
    IN  IF marks = {} THEN text ELSE RemoveAt(text, Min(marks))

Includes(text, part) == \E i \in DOMAIN text : IsPrefix(part, SubSeq(text, i, Len(text)))

TypeOfElvis(left, right) ==
    CASE ~left.nullable -> left
      [] left.nullable /\ Includes(TextOf(right), WithoutFirstMark(TextOf(left))) -> right
      [] left.nullable /\ ~Includes(TextOf(right), WithoutFirstMark(TextOf(left)))
            /\ right.kind = "nothing" -> left
      [] OTHER -> AnyType(right.nullable)

TypesOfLiterals == [int |-> IntType(FALSE), float |-> FloatType(FALSE), string |-> StringType(FALSE),
                    boolean |-> BooleanType(FALSE), null |-> NothingType(TRUE)]

\* What is computed for a node asks for the types of its parts: those in the cache
\* are taken from there, the others are computed.
Asked(n, c, computed) == IF n \in DOMAIN c THEN c[n] ELSE computed[n]
AskedInOrder(nodes, c, computed) == [i \in DOMAIN nodes |-> Asked(nodes[i], c, computed)]

\* The receiver refers to something that is no function.
CallsNoFunction(call) ==
    /\ program[call.receiver].kind = "forward"
    /\ program[program[call.receiver].target].kind # "function"

TypeOfCall(call, c, computed) ==
    LET receiverType == Asked(call.receiver, c, computed)
    IN  IF CallsNoFunction(call) THEN UnknownType
        ELSE TypeOfAccess(receiverType, receiverType, call.isNullSafe)

TypeOfInfixOperation(node, c, computed) ==
    LET left == Asked(node.left, c, computed)
        right == Asked(node.right, c, computed)
    IN  CASE node.operator \in {"+", "/"} -> TypeOfArithmetic({left, right})
          [] node.operator = "?:" -> TypeOfElvis(left, right)
          [] OTHER -> BooleanType(FALSE)

ComputeTypeOf(n, c, computed) ==
    LET node == program[n]
        TypeOfPart(m) == Asked(m, c, computed)
        SupertypeOf(nodes) == LowestCommonSupertype(AskedInOrder(nodes, c, computed))
    IN  CASE node.kind \in DOMAIN TypesOfLiterals -> TypesOfLiterals[node.kind]
          [] node.kind \in {"declared", "function", "cast"} -> node.type
          [] node.kind = "forward" -> TypeOfPart(node.target)
          [] node.kind = "element" -> ElementsOf(TypeOfPart(node.list))
          [] node.kind = "list" -> ListType(SupertypeOf(node.elements), FALSE)
          [] node.kind = "dictionary" ->
                 DictionaryType(SupertypeOf(node.keys), SupertypeOf(node.values), FALSE)
          [] node.kind = "call" -> TypeOfCall(node, c, computed)
          [] node.kind = "access" -> TypeOfIndexedAccess(TypeOfPart(node.receiver), node.isNullSafe)
          [] node.kind = "infix" -> TypeOfInfixOperation(node, c, computed)
          [] node.kind = "not" -> BooleanType(FALSE)
          [] node.kind = "minus" -> TypeOfArithmetic({TypeOfPart(node.operand)})
          [] node.kind = "predefined" -> TypeOfPredefinedFunction(node.name, TypeOfPart(node.object))
          [] node.kind = "parenthesized" -> computed[node.expression]

\* The types of all nodes as they are computed, given those in the cache.  An
\* expression in parentheses is computed without asking the cache.
ComputedTypes(c) ==
    LET computed[n \in Node] == ComputeTypeOf(n, c, computed)
    IN  computed

TypeOf(n, c) == Asked(n, c, ComputedTypes(c))

\* The nodes whose types a computation asks for, one after the other.  The right
\* operand of an elvis operation is asked only if the left one may be null.
AskedFor(n, c) ==
    LET node == program[n]
    IN  CASE node.kind = "forward"    -> {node.target}
          [] node.kind = "element"    -> {node.list}
          [] node.kind = "list"       -> ToSet(node.elements)
          [] node.kind = "dictionary" -> ToSet(node.keys) \cup ToSet(node.values)
          [] node.kind = "call"       -> IF CallsNoFunction(node) THEN {} ELSE {node.receiver}
          [] node.kind = "access"     -> {node.receiver}
          [] node.kind = "infix" ->
                 CASE node.operator \in {"+", "/"} -> {node.left, node.right}
                   [] node.operator = "?:" ->
                          {node.left} \cup IF TypeOf(node.left, c).nullable THEN {node.right} ELSE {}
                   [] OTHER -> {}
          [] node.kind = "minus"      -> {node.operand}
          [] node.kind = "predefined" -> {node.object}
          [] OTHER                    -> {}

\* The nodes whose types a computation adds to the cache: those it asks for and
\* finds missing, with what their computations add.
AddedBy(c) ==
    LET added[n \in Node] ==
            IF program[n].kind = "parenthesized" THEN added[program[n].expression]
            ELSE UNION {{m} \cup added[m] : m \in AskedFor(n, c) \ DOMAIN c}
    IN  added

\* The nodes whose types are in the cache after those of some nodes were asked
\* for.
CachedAfter(nodes, c) ==
    DOMAIN c \cup UNION {{n} \cup AddedBy(c)[n] : n \in nodes \ DOMAIN c}

Remember(nodes, c) == [n \in CachedAfter(nodes, c) |-> TypeOf(n, c)]

-----------------------------------------------------------------------------
(* Checks, as the nodes they report, with the types of the nodes at hand.  *)

OfKind(kind) == {n \in Node : program[n].kind = kind}
Chained == OfKind("call") \cup OfKind("access")
InfixWith(operators) == {n \in OfKind("infix") : program[n].operator \in operators}

CalledFunction(call) ==
    LET receiver == program[program[call].receiver]
    IN  IF receiver.kind = "forward" THEN receiver.target ELSE program[call].receiver

\* The last condition holds for every type, so that nothing is reported.
ArgumentTypesDoNotMatch(types) ==
    {n \in OfKind("call") :
        \E p \in DOMAIN program[n].args :
            LET argumentType == types[program[n].args[p]]
            IN  ~(argumentType = types[p] \/ IsInstanceOfAnyType(types[p]))}

ReceiverIsNotCallable == {n \in OfKind("call") : program[CalledFunction(n)].kind # "function"}

ReceiverIsNotAccessible(types) ==
    {n \in OfKind("access") : ~CanBeAccessedByIndex(types[program[n].receiver])}

IndexIsNotInt(types) ==
    {n \in OfKind("access") :
        types[program[n].receiver].kind = "list" /\ types[program[n].index].kind # "int"}

OperandHasWrongType(types) ==
    {n \in InfixWith({"or"}) :
        types[program[n].left].kind # "boolean" \/ types[program[n].right].kind # "boolean"}
    \cup {n \in InfixWith({"<", "+", "/"}) :
        ~IsNumeric(types[program[n].left]) \/ ~IsNumeric(types[program[n].right])}
    \cup {n \in OfKind("not") : types[program[n].operand].kind # "boolean"}
    \cup {n \in OfKind("minus") : ~IsNumeric(types[program[n].operand])}

ListContainsLists(types) ==
    {n \in OfKind("list") : \E m \in ToSet(program[n].elements) : types[m].kind = "list"}

KeyIsDictionary(types) ==
    {n \in OfKind("dictionary") : \E m \in ToSet(program[n].keys) : types[m].kind = "dictionary"}

DefaultValueDoesNotMatch(types) ==
    {n \in OfKind("declared") :
        program[n].default # NoNode /\ types[program[n].default] # types[n]}

CastIsNotNeeded(types) == {n \in OfKind("cast") : types[program[n].expression] # UnknownType}

\* Mutant: only calls are examined.
CallIsNotNullSafe(types) ==
    {n \in OfKind("call") : ~program[n].isNullSafe /\ CanBeNull(types[program[n].receiver])}

IsNotNullSafe(types) ==
    {n \in Chained :
        LET receiverType == types[program[n].receiver]
        IN  /\ ~program[n].isNullSafe
            /\ receiverType # UnknownType /\ CanBeNull(receiverType)
            /\ program[n].kind = "call" \/ CanBeAccessedByIndex(receiverType)}

\* Mutant: it is the right operand that is asked.
RightOperandIsNeeded(types) == {n \in InfixWith({"?:"}) : ~CanBeNull(types[program[n].right])}

ElvisIsNotNeeded(types) == {n \in InfixWith({"?:"}) : ~CanBeNull(types[program[n].left])}

NullSafetyIsNotNeeded(types) ==
    {n \in Chained :
        LET receiverType == types[program[n].receiver]
        IN  /\ program[n].isNullSafe
            /\ receiverType # UnknownType /\ ~CanBeNull(receiverType)
            /\ program[n].kind = "call" \/ CanBeAccessedByIndex(receiverType)}

Errors(types) ==
    ArgumentTypesDoNotMatch(types) \cup ReceiverIsNotCallable \cup ReceiverIsNotAccessible(types)
        \cup IndexIsNotInt(types) \cup OperandHasWrongType(types) \cup ListContainsLists(types)
        \cup KeyIsDictionary(types) \cup DefaultValueDoesNotMatch(types)
        \cup CastIsNotNeeded(types) \cup IsNotNullSafe(types)

Diagnostics(types) ==
    [errors |-> Errors(types), elvis |-> ElvisIsNotNeeded(types),
     nullSafety |-> NullSafetyIsNotNeeded(types)]

\* The checks ask for the types of operands, receivers, indices of lists, keys,
\* values, default values, arguments and parameters.
CheckedNodes(c) ==
    LET In(n) ==
            LET node == program[n]
            IN  CASE node.kind = "call" ->
                         {node.receiver} \cup DOMAIN node.args \cup Range(node.args)
                  [] node.kind = "access" ->
                         {node.receiver} \cup IF TypeOf(node.receiver, c).kind = "list"
                                              THEN {node.index} ELSE {}
                  [] node.kind = "infix"      -> {node.left, node.right}
                  [] node.kind = "list"       -> ToSet(node.elements)
                  [] node.kind = "dictionary" -> ToSet(node.keys) \cup ToSet(node.values)
                  [] node.kind \in {"not", "minus"} -> {node.operand}
                  [] node.kind = "cast"       -> {node.expression}
                  [] node.kind = "declared" /\ node.default # NoNode -> {n, node.default}
                  [] OTHER -> {}
    IN  UNION {In(n) : n \in Node}

-----------------------------------------------------------------------------
(* The server: queries, validation, and edits.                             *)

Init ==
    /\ program \in Programs
    /\ nodeTypes = Empty
    /\ question = NoAnswer
    /\ answer = NoAnswer
    /\ diagnostics = NotValidated
    /\ queries = 0

ComputeType(n) ==
    /\ queries < MaxQueries
    /\ queries' = queries + 1
    /\ question' = n
    /\ answer' = TypeOf(n, nodeTypes)
    /\ nodeTypes' = Remember({n}, nodeTypes)
    /\ UNCHANGED <<program, diagnostics>>

Validate ==
    /\ diagnostics = NotValidated
    /\ diagnostics' = Diagnostics([n \in Node |-> TypeOf(n, nodeTypes)])
    /\ nodeTypes' = Remember(CheckedNodes(nodeTypes), nodeTypes)
    /\ UNCHANGED <<program, question, answer, queries>>

\* Mutant: the types of the old program are kept.
UpdateKeepingTypes ==
    /\ queries < MaxQueries
    /\ queries' = queries + 1
    /\ program' \in Menu \ {program}
    /\ question' = NoAnswer
    /\ answer' = NoAnswer
    /\ diagnostics' = NotValidated
    /\ UNCHANGED nodeTypes

Update ==
    /\ queries < MaxQueries
    /\ queries' = queries + 1
    /\ program' \in Menu \ {program}
    /\ nodeTypes' = Empty
    /\ question' = NoAnswer
    /\ answer' = NoAnswer
    /\ diagnostics' = NotValidated

Next ==
    \/ \E n \in Node : IsCompound(n) /\ ComputeType(n)
    \/ Validate
    \/ Update

Spec == Init /\ [][Next]_vars

-----------------------------------------------------------------------------
(* Properties.                                                             *)

FreshTypes == [n \in Node |-> TypeOf(n, Empty)]

\* The cache belongs to the program in the editor, and whoever is asked for is
\* in it together with all that its type was computed from.
TypeOK ==
    /\ DOMAIN nodeTypes \subseteq Node
    /\ answer # NoAnswer => question \in DOMAIN nodeTypes
    /\ \A n \in DOMAIN nodeTypes : AddedBy(Empty)[n] \subseteq DOMAIN nodeTypes

\* Answers and diagnostics are those of a fresh server.
TypesIgnoreHistory ==
    /\ answer # NoAnswer => answer = TypeOf(question, Empty)
    /\ diagnostics # NotValidated => diagnostics = Diagnostics(FreshTypes)
=============================================================================
