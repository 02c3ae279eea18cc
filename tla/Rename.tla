-------------------------------- MODULE Rename --------------------------------
(***************************************************************************)
(* The rename provider (class TTSLRenameProvider) on top of the workspace: *)
(* the edits that give a declaration a new name, in the document of the    *)
(* declaration and in all that refer to it, and the links the workspace    *)
(* has once they are applied.                                              *)
(***************************************************************************)
EXTENDS Workspace

CONSTANT NoRequest

VARIABLE request    \* the rename that is answered, or NoRequest

Request == [target : Description, newName : Name]

-----------------------------------------------------------------------------
(* The edits of the request.                                               *)

\* Mutant: aliases are overlooked.
MustBeRenamedAnywhere(d, name) == name \in Name

\* A reference in the document of the declaration is always renamed, and one
\* in another document unless it has the alias of an import of the declaration.
MustBeRenamed(d, name) ==
    \/ d = request.target.uri
    \/ \A l \in links[d].imports :
           ~(l.target = request.target /\ l.import.alias = name)

RenamedReference(d, l) ==
    IF l.target = request.target /\ MustBeRenamed(d, l.name) THEN request.newName ELSE l.name

RenamedImport(l) ==
    IF l.target = request.target THEN [l.import EXCEPT !.name = request.newName] ELSE l.import

RenamedDeclaration(x) ==
    IF x = request.target THEN [x EXCEPT !.name = request.newName] ELSE x

\* The module in d after the edits: all that links to the target is edited, and
\* all that is not linked stays as it is.
RenamedText(d) ==
    LET unlinkedImports ==
            {imp \in text[d].imports : \A l \in links[d].imports : l.import # imp}
        unlinkedReferences ==
            {n \in text[d].references : \A l \in links[d].targets : l.name # n}
        declares(decl) ==
            /\ d = request.target.uri
            /\ decl.name = request.target.name /\ decl.visibility = request.target.visibility
    IN  [text[d] EXCEPT
            !.declarations =
                {IF declares(decl) THEN [decl EXCEPT !.name = request.newName] ELSE decl :
                     decl \in text[d].declarations},
            !.imports = unlinkedImports \cup {RenamedImport(l) : l \in links[d].imports},
            !.references =
                unlinkedReferences \cup {RenamedReference(d, l) : l \in links[d].targets}]

RenamedTexts == [d \in Document |-> IF Exists(d) THEN RenamedText(d) ELSE Absent]

\* The workspace after the edits have been applied and indexed.
RenamedIndex == [d \in Document |-> IF Exists(d) THEN Exports(d, RenamedText(d)) ELSE {}]

RenamedTree == TreeOf(Listed(UNION {RenamedIndex[d] : d \in Document}))

After == INSTANCE ScopeProvider WITH
    text <- RenamedTexts,
    exported <- RenamedIndex,
    packageContents <- RenamedTree,
    packageNames <- {},
    scopeCache <- [d \in Document |-> Uncached],
    coreCache <- Uncached

\* The workspace as it is, with empty caches.
Now == INSTANCE ScopeProvider WITH
    scopeCache <- [d \in Document |-> Uncached],
    coreCache <- Uncached

-----------------------------------------------------------------------------
(* Requests.                                                               *)

\* The client asks for a new name of a declaration of document d, there or at
\* one of its references.  The handler awaits nothing: the workspace it reads is
\* that of the request, and is left as it was.
Rename(d) ==
    /\ request = NoRequest
    /\ phase = "Idle"
    /\ Exists(d)
    /\ \E b \in GlobalDeclarationsInSameFile(d), name \in Name :
           request' = [target |-> b.target, newName |-> name]
    /\ UNCHANGED vars

\* The edits have been sent; whether the client applies them is its affair.
Respond ==
    /\ request # NoRequest
    /\ request' = NoRequest
    /\ UNCHANGED vars

RenameInit == Init /\ request = NoRequest

RenameNext ==
    \/ request = NoRequest /\ Next /\ UNCHANGED request
    \/ \E d \in Document : Rename(d)
    \/ Respond

RenameSpec == RenameInit /\ [][RenameNext]_<<vars, request>>

\* The builder goes on, as in FairSpec; no client has to ask for anything.
FairRenameSpec == RenameSpec /\ WF_vars(Build)

-----------------------------------------------------------------------------
(* Properties.                                                             *)

\* Nothing in the workspace has the name.
IsFresh(name) ==
    \A d \in {d \in Document : Exists(d)} :
        /\ name \notin text[d].references
        /\ \A decl \in text[d].declarations : decl.name # name
        /\ \A imp \in text[d].imports : name \notin {imp.name, imp.alias}

\* No reference has a choice.
IsUnambiguous ==
    \A d \in Document :
        /\ \A l, k \in links[d].imports : l.import = k.import => l = k
        /\ \A l, k \in links[d].targets : l.name = k.name => l = k

\* No document has been deleted since the tree was built, and nothing would be
\* linked differently by now: a link stays when a declaration that comes first
\* in its scope is added elsewhere.
TreeIsComplete == \A d \in Document : Served(d) = Offered(d)
LinksAreFresh == \A d \in {d \in Document : Exists(d)} : links[d] = Now!LinksOf(d)

RenamedLinks(d) ==
    [imports |-> {[import |-> RenamedImport(l), target |-> RenamedDeclaration(l.target)] :
                      l \in links[d].imports},
     targets |-> {[name |-> RenamedReference(d, l), target |-> RenamedDeclaration(l.target)] :
                      l \in links[d].targets}]

\* The request is one for a declaration of the user, which is to be given a name
\* that is new to the workspace.
IsRenaming ==
    /\ request # NoRequest
    /\ request.target.uri \notin Builtin
    /\ IsFresh(request.newName)

\* After a declaration of the user is given a name that is new to the workspace,
\* every import and every reference, by whichever name or alias, is linked to the
\* declaration it was linked to before, and what was unresolved remains so.
RenameKeepsLinks ==
    IsRenaming /\ TreeIsComplete /\ LinksAreFresh /\ IsUnambiguous =>
        \A d \in {d \in Document : Exists(d)} : After!LinksOf(d) = RenamedLinks(d)
=============================================================================
