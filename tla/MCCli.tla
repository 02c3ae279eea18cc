-------------------------------- MODULE MCCli --------------------------------
(***************************************************************************)
(* Three documents in one directory for TLC.                               *)
(***************************************************************************)
EXTENDS Cli

Text(package, functions, problems, tidy) ==
    [package |-> package, functions |-> functions, problems |-> problems, tidy |-> tidy]

Good == Text("p", {"f"}, {}, TRUE)
Untidy == Text("p", {"f", "simulate"}, {"warning"}, FALSE)
Broken == Text("p", {}, {"syntax"}, FALSE)
Wrong == Text("p", {"f"}, {"error"}, FALSE)
Empty == Text(NoPackage, {}, {}, TRUE)

\* a.ttsl, 'a b.ttsl' and b.ttsl: gen_a_b.py is the module of the second one
\* and would be the entry point of a function b of the first one.
MCBaseName == <<<<"a">>, <<"a", " ", "b">>, <<"b">>>>
CallsB == Text("p", {"b"}, {}, TRUE)

MCTexts == <<{Good, Untidy, CallsB}, {Good, Wrong}, {Good, Broken, Empty}>>

File(d) == [kind |-> "file", documents |-> {d}]
Directory(ds) == [kind |-> "directory", documents |-> ds]
Bad(kind) == [kind |-> kind, documents |-> {}]

MCCommandLines ==
    {[name |-> "check", strict |-> s, paths |-> <<File(2), Directory({1, 3})>>] : s \in BOOLEAN}
    \cup {[name |-> n, strict |-> FALSE, paths |-> p] :
             n \in {"format", "generate"},
             p \in {<<Directory({1, 2, 3})>>, <<File(3), File(1)>>, <<File(1), Bad("missing")>>,
                    <<Bad("foreign"), File(1)>>, <<Bad("special")>>}}
=============================================================================
