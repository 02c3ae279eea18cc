-------------------------- MODULE MCPartialEvaluator --------------------------
(***************************************************************************)
(* Small programs for TLC.  Nodes 1 to 3 are expressions that are chosen;  *)
(* the others are the same in all programs: a parameter p, literals, and   *)
(*     function f(p, q = f(p)) -> r     function g() -> r, called by q     *)
(***************************************************************************)
EXTENDS PartialEvaluator

MCValues == {Number(1), Null}

P == 4
One == 5
Nothing == 6
Zero == 7
True == 8
Two == 14
F == 9
CallOfF == 11

Literal(v) == [kind |-> "literal", value |-> v]
Parameter(default) == [kind |-> "parameter", default |-> default]
Infix(op, l, r) == [kind |-> "infix", op |-> op, left |-> l, right |-> r]
Operation(op, x) == [kind |-> "prefix", op |-> op, operand |-> x]
List(xs) == [kind |-> "list", elements |-> xs]
Map(ks, vs) == [kind |-> "map", keys |-> ks, values |-> vs]
Forward(x) == [kind |-> "forward", expression |-> x]
Parenthesized(x) == [kind |-> "parenthesized", expression |-> x]
Call(f, args, safe) == [kind |-> "call", receiver |-> f, args |-> args, nullSafe |-> safe]
Access(x, i, safe) == [kind |-> "access", receiver |-> x, index |-> i, nullSafe |-> safe]

With(p, x) == [k \in {p} |-> x]

Context ==
    << Parameter(NoDefault), Literal(Number(1)), Literal(Null), Literal(Number(0)),
       Literal(Bool(TRUE)),
       [kind |-> "function", parameters |-> <<P, 10>>, results |-> <<12>>],
       Parameter(CallOfF), Call(F, With(P, P), FALSE), [kind |-> "result"],
       [kind |-> "function", parameters |-> <<>>, results |-> <<>>], Literal(Number(2)) >>

Program(a, b, c) == <<a, b, c>> \o Context

\* Expressions of leaves.
Small ==
    {Infix("/", One, x) : x \in {P, Zero, Two}}
    \cup {Infix("==", x, One) : x \in {P, One}}
    \cup {Infix(op, True, P) : op \in {"or", "and"}}
    \cup {Infix("?:", x, P) : x \in {One, Nothing}}
    \cup {List(<<x, One>>) : x \in {P, Zero, True}}
    \cup {Map(<<One, x>>, <<Zero, y>>) : x \in {One, P, True}, y \in {P, True}}
    \cup {Operation("-", One), Operation("not", True)}
    \cup {Forward(P), Forward(Nothing), Parenthesized(One), [kind |-> "aggregation"]}
    \cup {Call(F, With(P, x), FALSE) : x \in {P, One}}
    \cup {Call(F, With(P, One), FALSE), Call(Nothing, Empty, TRUE), Call(13, Empty, FALSE)}

\* Expressions of the expressions in nodes 2 and 3.
Large ==
    {Infix(op, 2, 3) : op \in {"==", "<", "and", "?:"}}
    \cup {List(<<2, 3>>), Map(<<2>>, <<3>>), Access(2, 3, TRUE), Access(3, 2, FALSE),
          Call(F, With(P, 2), FALSE)}

MCMenu ==
    {Program(Infix("==", 2, 3), Forward(Nothing), Forward(One)),
     Program(List(<<2, 3>>), Call(F, With(P, One), FALSE), Forward(P))}

MCPrograms ==
    MCMenu \cup
    {Program(a, b, c) : a \in Large, b \in Small,
        c \in {Forward(One), List(<<P, Zero>>), Infix("?:", 2, One),
               Call(F, With(10, 2), FALSE), Map(<<Zero, P>>, <<One, Zero>>)}}
=============================================================================
