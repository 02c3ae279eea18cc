------------------------------- MODULE MCTypes -------------------------------
(***************************************************************************)
(* Small programs for TLC: declarations, operands, one expression over the *)
(* operands, and a second one that contains the first.                     *)
(***************************************************************************)
EXTENDS TypeSoundness

Declared(type, default) == [kind |-> "declared", type |-> type, default |-> default]
Function(type) == [kind |-> "function", type |-> type]
Forward(target) == [kind |-> "forward", target |-> target]
Literal(kind) == [kind |-> kind]

\* Nodes 1 to 5 are declarations, 6 to 16 the operands.
Fixed == <<
    Declared(IntType(TRUE), NoNode),
    Declared(ListType(IntType(FALSE), TRUE), NoNode),
    Declared(DictionaryType(StringType(FALSE), IntType(FALSE), FALSE), NoNode),
    Function(IntType(TRUE)),
    Function(ListType(StringType(FALSE), FALSE)),
    Forward(1), Forward(2), Forward(3), Literal("int"), Literal("null"), Literal("string"),
    Literal("float"), Literal("boolean"), Forward(4), Forward(5), Forward(1)>>

Functions == {14, 15}
First == 17
Second == 18

List(elements) == [kind |-> "list", elements |-> elements]
Dictionary(keys, values) == [kind |-> "dictionary", keys |-> keys, values |-> values]
Call(receiver, args, safe) ==
    [kind |-> "call", receiver |-> receiver, args |-> args, isNullSafe |-> safe]
AccessTo(receiver, index, safe) ==
    [kind |-> "access", receiver |-> receiver, index |-> index, isNullSafe |-> safe]
InfixOf(operator, left, right) ==
    [kind |-> "infix", operator |-> operator, left |-> left, right |-> right]
Unary(kind, operand) == [kind |-> kind, operand |-> operand]

Operators == {"or", "==", "===", "<", "+", "/", "?:"}

Over(m, n) ==
    {InfixOf(op, m, n) : op \in Operators}
        \cup {AccessTo(m, n, safe) : safe \in BOOLEAN}
        \cup {List(<<m, n>>), Dictionary(<<m>>, <<n>>), Dictionary(<<9, 11>>, <<m, n>>)}

OverOne(m) ==
    {Unary("not", m), Unary("minus", m), Forward(m), List(<<m>>), List(<<>>),
     [kind |-> "parenthesized", expression |-> m], [kind |-> "cast", type |-> IntType(FALSE), expression |-> m],
     [kind |-> "element", list |-> m], Call(m, (1 :> m), TRUE),
     Declared(IntType(TRUE), m)}

OverDeclarations ==
    {Call(f, args, safe) : f \in Functions, args \in {<<>>, (1 :> 11)}, safe \in BOOLEAN}
        \cup {[kind |-> "predefined", name |-> name, object |-> d] : name \in {"len", "keys", "values"}, d \in {2, 3}}

FirstExpressions ==
    UNION {Over(m, n) : m \in {6, 7, 8, 9, 10}, n \in {7, 9, 10, 11}}
        \cup UNION {OverOne(m) : m \in 6 .. 13} \cup OverDeclarations

SecondExpressions ==
    UNION {Over(First, n) \cup Over(n, First) : n \in {7, 9, 10}}
        \cup Over(First, First) \cup OverOne(First)

MCPrograms == {Fixed \o <<e, d>> : e \in FirstExpressions, d \in SecondExpressions}

MCMenu ==
    {Fixed \o <<e, d>> : e \in {List(<<9>>), InfixOf("+", 9, 9)}, d \in {AccessTo(First, 9, FALSE)}}
=============================================================================
