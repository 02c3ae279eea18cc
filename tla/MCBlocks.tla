------------------------------- MODULE MCBlocks -------------------------------
(***************************************************************************)
(* Small bodies for TLC: a statement, a compound statement with one or two *)
(* nested blocks, and another statement.                                   *)
(***************************************************************************)
EXTENDS Blocks

Declare(name, names) ==
    [kind |-> "declare", name |-> name, reads |-> names, word |-> NoWord, aggregates |-> FALSE]
AssignTo(name, names) == [Declare(name, names) EXCEPT !.kind = "assign"]
Use(names) == [kind |-> "expression", reads |-> names, word |-> NoWord, aggregates |-> FALSE]
Aggregate == [Use({}) EXCEPT !.aggregates = TRUE]
\* The expression is a single reference.
Plain(statement, name) == [statement EXCEPT !.reads = {name}, !.word = name]
Return(names) == [kind |-> "return", reads |-> names, aggregates |-> FALSE]
Parameter(name) == [kind |-> "parameter", name |-> name, reads |-> {}, aggregates |-> FALSE]

Branch(names, block, else) ==
    [kind |-> "if", reads |-> names, block |-> block, elseBlock |-> else, aggregates |-> FALSE]
If(names, else) == Branch(names, 2, else)
While(names, block) == [kind |-> "while", reads |-> names, block |-> block, aggregates |-> FALSE]
LoopOver(names, definition, iteration, block) ==
    [kind |-> "for", definition |-> definition, iteration |-> iteration, reads |-> names, block |-> block,
     aggregates |-> FALSE]
For(names, definition, iteration) == LoopOver(names, definition, iteration, 2)
Foreach(name, names, block) ==
    [kind |-> "foreach", name |-> name, reads |-> names, block |-> block, aggregates |-> FALSE]
Timespan == [kind |-> "timespan", reads |-> {}, block |-> 2, aggregates |-> FALSE]

\* Statements 1 to 3 are the body, 4 to 7 are in nested blocks, 8 is a parameter,
\* and 9 to 11 are the iterations and the definition of a loop.
Body(first, compound, last, four, five, six, seven, inner) ==
    [statements |-> <<first, compound, last, four, five, six, seven, Parameter("p"),
                      AssignTo("i", {"i"}), Declare("i", {"p"}), Plain(AssignTo("y", {}), "i")>>,
     blocks |-> <<<<1, 2, 3>>, inner[1], inner[2], inner[3]>>]

First == {Declare("x", {"p"}), Declare("y", {}), Declare("i", {}), Aggregate}
Compound ==
    {If({"x"}, 3), If({"p"}, NoBlock), While({"x"}, 2), For({"i", "x"}, 10, 9), For({"i", "x"}, 10, NoStatement),
     For({"x"}, NoStatement, 9),
     Foreach("x", {"y"}, 2), Foreach("y", {"y"}, 2), Foreach("i", {"x"}, 2), Timespan}
End == {Declare("x", {"y"}), AssignTo("x", {"y"}), Declare("y", {"x"}), Use({"x"}), Return({"y"}), Aggregate}
Nested == {Declare("x", {"x"}), Plain(Declare("y", {}), "p"), Plain(AssignTo("x", {}), "p"), Use({"i", "x"}), Aggregate}
Nested2 == {Declare("i", {"y"}), Declare("x", {}), Use({"x", "y"}), Return({"x"}), Aggregate}
NestedLoop == {While({"x"}, 4), Foreach("x", {"x"}, 4), Branch({"p"}, 4, NoBlock), LoopOver({"i"}, NoStatement, 11, 4)}

\* A body without the blocks and statements that are not part of it.
RECURSIVE BlocksFrom(_, _)
BlocksFrom(tree, b) ==
    {b} \cup UNION {UNION {BlocksFrom(tree, inner) : inner \in NestedBlocks(tree.statements[s])} : s \in ToSet(tree.blocks[b])}
Pruned(tree) ==
    LET bs == BlocksFrom(tree, 1)
        ss == UNION {ToSet(tree.blocks[b]) : b \in bs}
        headers == UNION {Header(tree.statements[s]) : s \in ss}
    IN  [statements |-> [s \in ss \cup headers \cup {8} |-> tree.statements[s]],
         blocks     |-> [b \in bs |-> tree.blocks[b]]]

\* The nested blocks: the second one is that of an else, and the third one that
\* of a loop in the first one.
Inner == {<< <<4, 5, 7>>, <<6>>, <<>> >>, << <<>>, <<4, 6>>, <<>> >>, << <<5, 7>>, <<4>>, <<>> >>}

MCBodies ==
    {Pruned(Body(f, c, e, n, m, Aggregate, Plain(Declare("y", {}), "x"), inner)) :
        f \in First, c \in Compound, e \in End, n \in Nested, m \in Nested2, inner \in Inner}
    \cup {Pruned(Body(f, c, e, n, l, Use({"x"}), m, << <<4, 5>>, <<6>>, <<7>> >>)) :
        f \in First, c \in Compound, e \in End, n \in Nested, l \in NestedLoop, m \in Nested}

MCLoops == {Pruned(Body(Declare("y", {}), For({"i"}, 10, 9), e, Aggregate, Use({"i"}), Aggregate, Use({"x"}), << <<>>, <<>>, <<>> >>)) :
               e \in End}
MCAssignments == {Pruned(Body(Declare("x", {}), c, e, n, Use({"x"}), Aggregate, Use({"x"}), << <<4>>, <<>>, <<>> >>)) :
               c \in Compound, e \in End, n \in Nested}
===============================================================================
