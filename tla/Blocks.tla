-------------------------------- MODULE Blocks --------------------------------
(***************************************************************************)
(* The body of one function: the local part of the scope provider, which   *)
(* links its references, the generator of blocks and statements with the   *)
(* slicer, and an execution of the generated Python function, in which a   *)
(* name stands for one variable wherever it is assigned.                   *)
(*                                                                         *)
(* A body consists of numbered statements and of numbered blocks, which    *)
(* are sequences of them, block 1 being that of the function.  Parameters  *)
(* are statements of the kind "parameter".  An expression is the set of    *)
(* names it refers to, all of which are local, and whether it is an        *)
(* aggregation; its value is told by the statement that assigned it, and   *)
(* of its text only whether it is a single word.  The blocks are kept      *)
(* apart from the body as it was written, since the slicer reverses them.  *)
(***************************************************************************)
EXTENDS Naturals, FiniteSetsExt, SequencesExt

CONSTANTS
    Bodies,          \* records of statements and blocks
    NoBlock,         \* the else block of a conditional statement without one
    NoStatement,     \* the definition or iteration of a loop without one
    NoWord,          \* the text of an expression that is not a single word
    Unresolved,      \* what a reference with a linking error is linked to
    Unbound,         \* the writer of a variable that is not bound
    MaxGenerations   \* bound on the number of times the file is generated

VARIABLES
    body,          \* the function as it was written
    blocks,        \* the statements of each block, in their order
    links,         \* what each reference is linked to
    lines,         \* the generated code of each block
    todo,          \* what is left to execute of the generated function
    env,           \* the statement that assigned each bound variable last
    reads,         \* the references that the last step evaluated
    generations    \* for which placeholders the file was generated, if for some

vars == <<body, blocks, links, lines, todo, env, reads, generations>>

program == body.statements
Statement == DOMAIN program
Block == DOMAIN body.blocks
OfKind(kind) == {s \in Statement : program[s].kind = kind}

-----------------------------------------------------------------------------
(* Containers.                                                             *)

NestedBlocks(node) ==
    CASE node.kind = "if" -> {node.block, node.elseBlock} \ {NoBlock}
      [] node.kind \in {"while", "for", "foreach", "timespan"} -> {node.block}
      [] OTHER -> {}

\* The assignments in the parentheses of a loop.
Header(node) ==
    IF node.kind = "for" THEN {node.definition, node.iteration} \ {NoStatement} ELSE {}

\* A body is a tree, whose statements and blocks are numbered from the outside
\* to the inside.
IsBody(tree) ==
    LET Statements == DOMAIN tree.statements
        Blocks == DOMAIN tree.blocks
        Node(s) == tree.statements[s]
        Has(b, s) == s \in ToSet(tree.blocks[b])
    IN  /\ \E last \in Statements : Statements \subseteq 1 .. last
        /\ \E last \in Blocks : Blocks \subseteq 1 .. last
        /\ 1 \in Blocks
        /\ tree.blocks \in [Blocks -> Seq(Statements)]
        /\ \A b \in Blocks : b # 1 <=> \E s \in Statements : b \in NestedBlocks(Node(s))
        /\ \A b, c \in Blocks : \A i \in DOMAIN tree.blocks[b], j \in DOMAIN tree.blocks[c] :
               tree.blocks[b][i] = tree.blocks[c][j] => b = c /\ i = j
        /\ \A s \in Statements :
               /\ Node(s).kind \in {"parameter", "declare", "assign", "expression", "return",
                                    "if", "while", "for", "foreach", "timespan"}
               /\ Node(s).kind # "parameter" =>
                      \/ \E b \in Blocks : Has(b, s)
                      \/ \E l \in Statements : s \in Header(Node(l))
               /\ NestedBlocks(Node(s)) \subseteq Blocks
               /\ Header(Node(s)) \subseteq Statements
               /\ Node(s).kind = "parameter" => \A b \in Blocks : ~Has(b, s)
               /\ Node(s).kind = "if" => Node(s).block # NoBlock /\ Node(s).block # Node(s).elseBlock
               /\ Node(s).kind = "for" =>
                      Node(s).definition = NoStatement \/ Node(s).definition # Node(s).iteration
               /\ \A h \in Header(Node(s)) :
                      Node(h).kind \in {"declare", "assign"} /\ s < h /\ \A b \in Blocks : ~Has(b, h)
               /\ \A b \in NestedBlocks(Node(s)) : \A t \in ToSet(tree.blocks[b]) : s < t
               /\ \A b \in Blocks : Has(b, s) => \A c \in NestedBlocks(Node(s)) : b < c
        /\ \A s, t \in Statements :
               s # t => /\ NestedBlocks(Node(s)) \cap NestedBlocks(Node(t)) = {}
                        /\ Header(Node(s)) \cap Header(Node(t)) = {}

ASSUME BlocksAssumption ==
    /\ MaxGenerations \in Nat
    /\ Unresolved \notin Nat /\ Unbound \notin Nat /\ NoStatement \notin Nat
    /\ \A tree \in Bodies : IsBody(tree)

Loops(s) == {l \in OfKind("for") : s \in Header(program[l])}

\* The block around a statement, which for a header is that of its loop.
ContainingBlock(s) == CHOOSE b \in Block : ToSet(body.blocks[b]) \cap ({s} \cup Loops(s)) # {}

\* The statement whose scope is around that of another: the loop of a header,
\* or else the one whose block it is in.
Outer(s) ==
    Loops(s) \cup {o \in Statement : \E b \in NestedBlocks(program[o]) : s \in ToSet(body.blocks[b])}

-----------------------------------------------------------------------------
(* Scopes.                                                                 *)

\* The variable of a loop, as seen from its condition or list.
LoopVariable(s) ==
    CASE program[s].kind = "for" -> {program[s].definition} \cap OfKind("declare")
      [] program[s].kind = "foreach" -> {s}
      [] OTHER -> {}

\* All placeholders of the block if the statement itself is not one of it.
PlaceholdersUpToStatement(s) ==
    LET all == body.blocks[ContainingBlock(s)]
    IN  OfKind("declare") \cap {all[i] : i \in {i \in DOMAIN all : \A j \in 1 .. i : all[j] # s}}

Visible(s) == OfKind("parameter") \cup LoopVariable(s) \cup PlaceholdersUpToStatement(s)

LocalDeclarations(s) ==
    LET local[t \in Statement] == Visible(t) \cup UNION {local[o] : o \in Outer(t)}
    IN  local[s]

Named(declarations, name) == {d \in declarations : program[d].name = name}

\* The first element of a list that is in a set.
FirstIn(list, S) == list[Min({i \in DOMAIN list : list[i] \in S})]

\* Parameters hide the variable of a loop, which hides the placeholders.
VisibleTarget(s, name) ==
    LET parameters == Named(OfKind("parameter"), name)
        variable == Named(LoopVariable(s), name)
        placeholders == Named(PlaceholdersUpToStatement(s), name)
    IN  CASE parameters # {} -> Min(parameters)
          [] parameters = {} /\ variable # {} -> Min(variable)
          [] parameters = {} /\ variable = {} /\ placeholders # {} ->
                 FirstIn(body.blocks[ContainingBlock(s)], placeholders)
          [] OTHER -> Unresolved

\* Mutant: the outermost declaration is taken.
OutermostTarget(s, name) ==
    LET target[t \in Statement] ==
            LET outer == IF Outer(t) = {} THEN Unresolved ELSE target[Min(Outer(t))]
            IN  IF outer = Unresolved THEN VisibleTarget(t, name) ELSE outer
    IN  target[s]

Target(s, name) ==
    LET target[t \in Statement] ==
            IF VisibleTarget(t, name) # Unresolved \/ Outer(t) = {} THEN VisibleTarget(t, name)
            ELSE target[Min(Outer(t))]
    IN  target[s]

\* An assignment refers to its target, unless it is a declaration.
References(s) ==
    IF program[s].kind = "parameter" THEN {}
    ELSE program[s].reads \cup IF program[s].kind = "assign" THEN {program[s].name} ELSE {}

Link == [s \in Statement |-> [n \in References(s) |-> Target(s, n)]]

HasLinkingErrors == \E s \in Statement : \E n \in References(s) : links[s][n] = Unresolved

-----------------------------------------------------------------------------
(* The slicer.                                                             *)

ReferencedPlaceholders(s) == {links[s][n] : n \in References(s)} \cap OfKind("declare")

\* Mutant: references inside the kept statements are not followed.
SliceOfTargetsOnly(statements, targets) == SelectSeq(statements, LAMBDA s : s \in targets)

\* Only declarations can be kept, from the last one to the first.
ComputeBackwardSlice(statements, targets) ==
    LET slice[i \in 1 .. Len(statements) + 1] ==
            IF i = Len(statements) + 1 THEN [statements |-> <<>>, targets |-> targets]
            ELSE LET s == statements[i]
                     later == slice[i + 1]
                 IN  IF s \in later.targets
                     THEN [statements |-> <<s>> \o later.statements,
                           targets    |-> later.targets \cup ReferencedPlaceholders(s)]
                     ELSE later
    IN  slice[1].statements

\* The first placeholder of a block with the name, if there is one.
GetPlaceholderByName(b, name) ==
    LET named == Named(ToSet(blocks[b]) \cap OfKind("declare"), name)
    IN  IF named = {} THEN {} ELSE {FirstIn(blocks[b], named)}

TargetsIn(b, names) == UNION {GetPlaceholderByName(b, n) : n \in names}

StatementsToGenerate(b, names) ==
    IF TargetsIn(b, names) = {} THEN blocks[b] ELSE ComputeBackwardSlice(blocks[b], TargetsIn(b, names))

-----------------------------------------------------------------------------
(* The generated program: statements of Python with the statement they     *)
(* were generated for.  The code in a compound statement is that of the    *)
(* blocks of its source.                                                   *)

Python(op, source, names) == [op |-> op, source |-> source, names |-> names, again |-> FALSE]
Simple(op, source) == Python(op, source, {})
Assign(s) == Python("assign", s, {program[s].name})
Pass == Simple("pass", NoStatement)

GenerateStatement(s) ==
    LET node == program[s]
    IN  CASE node.kind \in {"declare", "assign"} -> <<Assign(s)>>
          [] node.kind \in {"expression", "return", "if", "while"} -> <<Simple(node.kind, s)>>
          [] node.kind = "timespan" -> <<Simple("if", s)>>
          [] node.kind = "for" /\ node.definition = NoStatement -> <<Simple("while", s)>>
          [] node.kind = "for" /\ node.definition # NoStatement ->
                 <<Assign(node.definition), Simple("while", s)>>
          [] node.kind = "foreach" -> <<Python("for", s, {node.name})>>

GenerateStatements(statements) ==
    LET upTo[i \in 0 .. Len(statements)] ==
            IF i = 0 THEN <<>> ELSE upTo[i - 1] \o GenerateStatement(statements[i])
    IN  upTo[Len(statements)]

\* The iteration of the loop whose block it is, if there is one.
Iteration(b) ==
    {s \in Statement : \E l \in OfKind("for") : b = program[l].block /\ s = program[l].iteration}

IterationOf(b) == Min(Iteration(b))

\* The last line of the statements of a block: the block it is in, and whether
\* it is empty, as it is after a conditional without an else, in which case the
\* iteration of the loop is written there.
LastLine(b, names) ==
    LET last[c \in Block] ==
            LET statements == StatementsToGenerate(c, names)
                node == program[Last(statements)]
                inner == IF node.kind = "if" THEN node.elseBlock ELSE node.block
            IN  IF statements = <<>> \/ NestedBlocks(node) = {} THEN [block |-> c, empty |-> FALSE]
                ELSE IF inner = NoBlock THEN [block |-> c, empty |-> TRUE]
                ELSE IF last[inner].empty /\ Iteration(inner) # {} THEN [block |-> inner, empty |-> FALSE]
                ELSE last[inner]
    IN  last[b]

\* The blocks of the loops whose iteration continues the last line of a block.
Continuing(b, names) ==
    {c \in Block : Iteration(c) # {} /\ LastLine(c, names) = [block |-> b, empty |-> FALSE]}

\* The word that a line of code ends with, if there is nothing else in it or
\* to the right of it.
LastWord(code) ==
    CASE code.op = "pass" -> "pass"
      [] code.op \in {"assign", "expression"} -> program[code.source].word
      [] OTHER -> NoWord

\* The name in an iteration becomes one with the word before it, and its value
\* is assigned to all names of the line.  After anything but a word it is not
\* a program.
Continue(code, continuing) ==
    LET WordBefore(c) ==
            LET inner == {d \in continuing : c < d}
            IN  IF inner = {} THEN LastWord(code) ELSE program[IterationOf(Min(inner))].word
    IN  IF \E c \in continuing : WordBefore(c) = NoWord THEN Simple("malformed", code.source)
        ELSE Python("joined", IterationOf(Min(continuing)),
                    code.names \cup {WordBefore(c) \o program[IterationOf(c)].name : c \in continuing})

GenerateBlock(b, names) ==
    LET statements == StatementsToGenerate(b, names)
        code == IF statements = <<>> THEN <<Pass>> ELSE GenerateStatements(statements)
        written == IF Iteration(b) # {} /\ LastLine(b, names).empty
                   THEN Append(code, Assign(IterationOf(b))) ELSE code
        continuing == Continuing(b, names)
    IN  IF continuing = {} THEN written
        ELSE Append(Front(written), Continue(Last(written), continuing))

\* The blocks that are part of the generated function.
GeneratedBlocks(names) ==
    LET isGenerated[b \in Block] ==
            \/ b = 1
            \/ \E c \in Block : \E s \in ToSet(StatementsToGenerate(c, names)) :
                   b \in NestedBlocks(program[s]) /\ isGenerated[c]
    IN  {b \in Block : isGenerated[b]}

\* No program can be run that has this in it.
IsMalformed(code) == \E i \in DOMAIN code : code[i].op = "malformed"

\* Mutant: the slice takes the place of the statements.
GenerateSlicesOnly(names) ==
    /\ todo = <<>>
    /\ Len(generations) < MaxGenerations
    /\ generations' = Append(generations, names)
    /\ blocks' = [b \in Block |-> StatementsToGenerate(b, names)]
    /\ UNCHANGED <<body, links, lines, todo, env, reads>>

\* The file is generated, possibly for the placeholders of some names only, and
\* the function is called.  The slicer reverses the blocks it works on.
Generate(names) ==
    /\ todo = <<>>
    /\ Len(generations) < MaxGenerations
    /\ ~HasLinkingErrors
    /\ generations' = Append(generations, names)
    /\ lines' = [b \in Block |-> GenerateBlock(b, names)]
    /\ \A b \in GeneratedBlocks(names) : ~IsMalformed(lines'[b])
    /\ todo' = lines'[1]
    /\ blocks' = [b \in Block |->
                      IF b \in GeneratedBlocks(names) /\ TargetsIn(b, names) # {}
                      THEN Reverse(blocks[b]) ELSE blocks[b]]
    /\ env' = [n \in {program[s].name : s \in OfKind("parameter")} |-> Min(Named(OfKind("parameter"), n))]
    /\ reads' = {}
    /\ UNCHANGED <<body, links>>

-----------------------------------------------------------------------------
(* The execution of the generated function.                                *)

Reads(code) ==
    {[source |-> code.source, name |-> n, again |-> code.again,
      writer |-> IF n \in DOMAIN env THEN env[n] ELSE Unbound] : n \in program[code.source].reads}

Bind(names, s) == env' = [n \in DOMAIN env \cup names |-> IF n \in names THEN s ELSE env[n]]

\* The code that may follow a condition.
Branches(node) ==
    {lines[b] : b \in NestedBlocks(node)}
        \cup IF node.kind = "timespan" \/ node.elseBlock = NoBlock THEN {<<>>} ELSE {}

\* What follows the first statement; a list is evaluated once.
Execute ==
    /\ todo # <<>>
    /\ LET code == Head(todo)
           rest == Tail(todo)
           Again == <<[code EXCEPT !.again = TRUE]>>
           Round == lines[program[code.source].block] \o Again \o rest
       IN  /\ reads' = IF code.op = "pass" \/ (code.op = "for" /\ code.again) THEN {} ELSE Reads(code)
           /\ \/ code.op \in {"pass", "expression"} /\ todo' = rest /\ UNCHANGED env
              \/ code.op \in {"assign", "joined"} /\ todo' = rest /\ Bind(code.names, code.source)
              \/ code.op = "return" /\ todo' = <<>> /\ UNCHANGED env
              \/ /\ code.op = "if"
                 /\ \E branch \in Branches(program[code.source]) : todo' = branch \o rest
                 /\ UNCHANGED env
              \/ code.op \in {"while", "for"} /\ todo' = rest /\ UNCHANGED env
              \/ code.op = "while" /\ todo' = Round /\ UNCHANGED env
              \/ code.op = "for" /\ todo' = Round /\ Bind(code.names, code.source)
    /\ UNCHANGED <<body, blocks, links, lines, generations>>

Init ==
    /\ body \in Bodies
    /\ blocks = body.blocks
    /\ links = Link
    /\ lines = [b \in Block |-> <<>>]
    /\ todo = <<>>
    /\ env = <<>>
    /\ reads = {}
    /\ generations = <<>>

Names == {program[s].name : s \in OfKind("declare")}

Next ==
    \/ \E names \in SUBSET Names : Generate(names)
    \/ Execute

Spec == Init /\ [][Next]_vars

-----------------------------------------------------------------------------
(* The check that a grouped function aggregates (validation/aggregation).  *)

\* What has been found after each of the statements of a block, where inBlock
\* tells what is found in a nested block, given what was found before it.
Found(b, prev, inBlock) ==
    LET statements == blocks[b]
        After(node, found) ==
            IF node.kind = "if"
            THEN /\ inBlock[node.block][found]
                 /\ IF node.elseBlock = NoBlock THEN found ELSE inBlock[node.elseBlock][found]
            ELSE IF NestedBlocks(node) # {} THEN inBlock[node.block][found]
            ELSE found
        upTo[i \in 0 .. Len(statements)] ==
            IF i = 0 THEN prev \/ \E s \in ToSet(statements) : program[s].aggregates
            ELSE After(program[statements[i]], upTo[i - 1])
    IN  upTo[Len(statements)]

\* Mutant: an aggregation in one of the branches is enough.
HasAggregationInSomeBranch(b, prev) ==
    LET has[c \in Block] ==
            \E s \in ToSet(blocks[c]) :
                program[s].aggregates \/ \E inner \in NestedBlocks(program[s]) : has[inner]
    IN  prev \/ has[b]

\* What was found before, prev, is handed to the nested blocks in their order.
HasAggregation(b, prev) ==
    LET has[c \in Block] == [found \in BOOLEAN |-> Found(c, found, has)]
    IN  has[b][prev]

\* How the execution of a block may end when no aggregation was evaluated in
\* it: at its end or with a return.
WaysAround(b) ==
    LET ways[c \in Block] ==
            LET statements == body.blocks[c]
                Takes(node, way) ==
                    /\ ~node.aggregates
                    /\ \/ \E inner \in NestedBlocks(node) : way \in ways[inner]
                       \/ way = "return" /\ node.kind = "return"
                       \/ way = "end" /\ node.kind \notin {"return", "if"}
                       \/ way = "end" /\ node.kind = "if" /\ node.elseBlock = NoBlock
                IsReached(i) == \A j \in 1 .. i - 1 : Takes(program[statements[j]], "end")
            IN  {way \in {"end", "return"} :
                    \/ way = "end" /\ IsReached(Len(statements) + 1)
                    \/ /\ way = "return"
                       /\ \E i \in DOMAIN statements : IsReached(i) /\ Takes(program[statements[i]], way)}
    IN  ways[b]

CanAvoidAggregation(b) == WaysAround(b) # {}

-----------------------------------------------------------------------------
(* What the scope provider and the generator do not promise.               *)

DeclarationsIn(b) ==
    LET statements == ToSet(body.blocks[b])
    IN  (statements \cap (OfKind("declare") \cup OfKind("foreach")))
            \cup UNION {LoopVariable(l) : l \in statements \cap OfKind("for")}

\* The first declaration of a name in a block hides the others, a parameter
\* hides them all, and from its header a loop's variable is hidden by those of
\* the block.
DeclaresOncePerBlock ==
    \A b \in Block : \A s, t \in DeclarationsIn(b) \cup OfKind("parameter") :
        program[s].name = program[t].name => s = t

\* From the header of a loop all placeholders of the block around it can be
\* seen, and its own variable, but not all have a value yet.
HeadersLookBack ==
    /\ \A l \in OfKind("for") : \A s \in Header(program[l]) : \A n \in References(s) :
           \/ links[s][n] \in PlaceholdersUpToStatement(l) \cup OfKind("parameter")
           \/ s = program[l].iteration /\ links[s][n] = program[l].definition
           \/ \E o \in Outer(l) : links[s][n] \in LocalDeclarations(o)
    /\ \A l \in OfKind("foreach") : \A n \in References(l) : links[l][n] # l

\* A line that was continued by the iteration of a loop assigns variables that
\* nothing refers to.
JoinedNamesGoUnread ==
    \A b \in Block : \A code \in ToSet(lines[b]) : code.op = "joined" =>
        \A s \in Statement : code.names \cap program[s].reads = {}

\* The check of grouped functions looks for statements that aggregate, or
\* assign what they aggregate, and for nothing inside of another expression.
AggregationsAreStatements ==
    \A s \in Statement : program[s].aggregates =>
        /\ program[s].kind \in {"declare", "assign", "expression"}
        /\ \E b \in Block : s \in ToSet(body.blocks[b])

\* It takes the block of a loop or of a timespan for executed,
SkipsNoAggregation ==
    \A s \in OfKind("while") \cup OfKind("for") \cup OfKind("foreach") \cup OfKind("timespan") :
        CanAvoidAggregation(program[s].block)

\* and no statement for the last one of a call.
ReturnsAtTheEnd == \A s \in OfKind("return") : body.blocks[1] # <<>> /\ s = Last(body.blocks[1])

\* The slicer has not been at work before the function was generated.
IsIntact == \A i \in 1 .. Len(generations) - 1 : generations[i] = {}

\* The assignment whose expression the evaluator takes for a placeholder.
EvaluatedAssignment(s) == s

DeclarationOf(s) == IF program[s].kind = "assign" THEN links[s][program[s].name] ELSE s

-----------------------------------------------------------------------------
(* Properties.                                                             *)

\* No generation loses a statement, references lead to declarations of their
\* names, and the variables of the function are assigned by its statements.
TypeOK ==
    /\ \A b \in Block : ToSet(blocks[b]) = ToSet(body.blocks[b])
    /\ \A s \in Statement : \A n \in References(s) :
           links[s][n] = Unresolved \/ program[links[s][n]].name = n
    /\ Range(env) \subseteq Statement
    /\ Len(generations) <= MaxGenerations

\* The generated function, and any slice of it, never reads a variable that is
\* not bound.
ReadsAreBound ==
    HeadersLookBack /\ IsIntact => \A r \in reads : r.writer # Unbound

\* Of the declarations that are visible at a reference it is linked to the one
\* whose value it reads.  One that is not visible there may have overwritten the
\* variable of the same name.
ReadsFollowLinks ==
    DeclaresOncePerBlock /\ HeadersLookBack /\ IsIntact /\ JoinedNamesGoUnread => \A r \in reads :
        LET declaration == DeclarationOf(r.writer)
        IN  r.writer # Unbound /\ declaration \in LocalDeclarations(r.source)
            => links[r.source][r.name] = declaration

\* No grouped function is rejected that aggregates on every way through its
\* body; and none is accepted that need not, unless it does so in a loop or a
\* timespan only, or returns before.
GroupedFunctionsAggregate ==
    AggregationsAreStatements =>
        /\ ~CanAvoidAggregation(1) => HasAggregation(1, FALSE)
        /\ SkipsNoAggregation /\ ReturnsAtTheEnd /\ CanAvoidAggregation(1) => ~HasAggregation(1, FALSE)

-----------------------------------------------------------------------------
(* What the documentation says and the code does not do.                   *)

\* "The condition is checked before each iteration and the increment is executed
\* after each iteration."
IncrementsFollowIterations ==
    \A r \in reads :
        LET node == program[r.source]
        IN  /\ r.again /\ node.kind = "for"
            /\ node.iteration # NoStatement /\ program[node.iteration].name = r.name
            => r.writer = node.iteration

\* "This snipped overwrites the value of x with 20": for the evaluator the value
\* of a placeholder always is that of the expression it is declared with.
EvaluatedPlaceholdersAreCurrent ==
    DeclaresOncePerBlock /\ HeadersLookBack /\ IsIntact => \A r \in reads :
        LET declaration == links[r.source][r.name]
        IN  /\ program[declaration].kind = "declare"
            /\ r.writer # Unbound /\ DeclarationOf(r.writer) = declaration
            => r.writer = EvaluatedAssignment(declaration)
===============================================================================
