----------------------------- MODULE MCWorkspace -----------------------------
(***************************************************************************)
(* Small workspaces for TLC: a builtin file in TTSL.lang and two user      *)
(* documents, each with a few texts an edit may give it.                   *)
(***************************************************************************)
EXTENDS Rename

P == <<"p">>
PSub == <<"p", "s">>
Q == <<"q">>
Lang == <<"TTSL", "lang">>
Root == <<"TTSL">>
TTSLtax == <<"TTSLtax">>
Malformed == <<"p", "">>

MCSegment == {"p", "s", "q", "TTSL", "TTSLtax", "lang", ""}
MCPackage == {P, PSub, Q, Lang, TTSLtax, Malformed}
MCName == {"f", "g", "x", "core", "new"}
MCPrefixedByRoot == {Lang, TTSLtax}

Text(package, declarations, imports, references) ==
    [package |-> package, declarations |-> declarations,
     imports |-> imports, references |-> references]
Decl(name, visibility) == [name |-> name, visibility |-> visibility]
From(package, name, alias) == [package |-> package, name |-> name, alias |-> alias]

Core == Text(Lang, {Decl("core", "public")}, {}, {})

\* Declarations of f in package p with each visibility, and without a package.
PublicF == Text(P, {Decl("f", "public")}, {}, {})
InternalF == Text(P, {Decl("f", "packageprivate"), Decl("g", "public")}, {}, {"g"})
PrivateF == Text(P, {Decl("f", "private")}, {}, {"core"})
NoPackageF == Text(NoPackage, {Decl("f", "public")}, {}, {"f", "core"})
SubF == Text(PSub, {Decl("f", "public")}, {}, {"f"})
MalformedF == Text(Malformed, {Decl("f", "public")}, {}, {"f"})

\* Users of f in the same package and in another one.
UsesF == Text(P, {Decl("g", "public")}, {}, {"f", "g"})
ClashesWithF == Text(P, {Decl("f", "public"), Decl("core", "public")}, {}, {"core"})
ImportsAll == Text(Q, {Decl("g", "public")}, {From(P, Everything, NoAlias)}, {"f"})
ImportsFAsX == Text(Q, {}, {From(P, "f", "x")}, {"x"})
ImportsOwn == Text(P, {}, {From(P, "f", "x"), From(PSub, "f", NoAlias)}, {"x", "f"})

MCMenu ==
    [d \in Document |->
        CASE d = "lib" -> {}
          [] d = "a" -> {PublicF, InternalF, PrivateF, SubF, NoPackageF, Absent}
          [] d = "b" -> {UsesF, ClashesWithF, ImportsAll, ImportsFAsX, ImportsOwn, MalformedF, Absent}]
MCInitial ==
    [d \in Document |->
        CASE d = "lib" -> {Core}
          [] d = "a" -> {PublicF, InternalF}
          [] d = "b" -> {UsesF, ImportsAll, Absent}]
=============================================================================
