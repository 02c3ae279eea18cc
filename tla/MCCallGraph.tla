----------------------------- MODULE MCCallGraph -----------------------------
(***************************************************************************)
(* Small programs for TLC.  Node 1 is the call a query starts from; nodes  *)
(* 2 and 3 are expressions and 4 a call for them, all of which are chosen. *)
(* The functions are                                                       *)
(*     f(p, q = d)     g(r = e)     h()                                    *)
(* where d and e are among the nodes 2 and 3 and references.               *)
(***************************************************************************)
EXTENDS CallGraph

One == 5
Index == 6
F == 7
P == 8
Q == 9
G == 10
R == 11
H == 12

MCValues == {}

Literal(v) == [kind |-> "literal", value |-> v]
Parameter(default) == [kind |-> "parameter", default |-> default]
Function(ps) == [kind |-> "function", parameters |-> ps, results |-> <<>>]
List(xs) == [kind |-> "list", elements |-> xs]
Call(f, args) == [kind |-> "call", receiver |-> f, args |-> args, nullSafe |-> FALSE]
Access(x, i) == [kind |-> "access", receiver |-> x, index |-> i, nullSafe |-> FALSE]

With(p, x) == [k \in {p} |-> x]

MCContexts == {NoSubstitutions, With(P, Callable(G)), With(P, Unknown)}

Program(call, two, three, four, d, e) ==
    << call, two, three, four, Literal(Number(1)), Literal(Number(0)),
       Function(<<P, Q>>), Parameter(NoDefault), Parameter(d),
       Function(<<R>>), Parameter(e), Function(<<>>) >>

Questions == {Call(F, With(P, One)), Call(F, With(P, G)), Call(G, Empty)}

Calls == {Call(F, With(P, P)), Call(G, Empty), Call(G, With(R, P))}

\* Node 13 is a list of a function and a call, from which the index 0 takes the
\* function; without the value of p, nothing is known.
Expressions ==
    {Call(F, With(P, 4)), Call(G, With(R, 4)), Call(R, Empty), Access(13, P), Access(13, Index)}

MCPrograms ==
    {Append(Program(call, two, three, four, 2, 3), List(<<H, 4>>)) :
        call \in Questions, two \in Calls, three \in Expressions,
        four \in {Call(G, Empty), Call(F, With(P, G))}}
    \cup {Append(Program(call, two, Call(R, Empty), Call(G, Empty), 2, F), List(<<H, 4>>)) :
        call \in Questions, two \in Calls}

MCMenu ==
    {Append(Program(Call(F, With(P, One)), Call(G, Empty), three, Call(G, Empty), 2, 3),
            List(<<H, 4>>)) : three \in {Call(R, Empty), Access(13, Index)}}
=============================================================================
