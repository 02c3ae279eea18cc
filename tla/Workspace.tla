------------------------------ MODULE Workspace ------------------------------
(***************************************************************************)
(* The workspace of the language server: the incremental, interruptible    *)
(* document builder, the package manager that listens to it, the scope     *)
(* provider with its caches, and the validators that read the package      *)
(* manager.                                                                *)
(*                                                                         *)
(* The builder is Langium's.  An update resets changed documents, forgets  *)
(* deleted ones, unlinks the documents they affect, tells the listeners    *)
(* of the update (the workspace caches), and then takes every document     *)
(* whose build is incomplete through the phases, one document at a time.   *)
(* A new update may arrive between any two of those steps and cancels the  *)
(* build it finds.  Parsing is part of the indexing step of a document.    *)
(***************************************************************************)
EXTENDS ScopeProvider

CONSTANTS
    Builtin,          \* the documents loadAdditionalDocuments adds
    Initial,          \* Initial[d]: the texts d may have when it is opened
    Menu,             \* Menu[d]: the modules an edit may put into d, and
                      \* Absent if the document may be deleted
    PrefixedByRoot,   \* the packages whose name starts with the text 'TTSL'
    MaxUpdates        \* bound on the number of updates

ASSUME WorkspaceAssumption ==
    /\ Builtin \subseteq Document
    /\ \A d \in Builtin : Menu[d] = {}
    /\ \A d \in Document : Initial[d] \cup Menu[d] \subseteq Module \cup {Absent}
    /\ MaxUpdates \in Nat

\* No document of a user states the package of the core declarations.  Nothing
\* rejects one that does, and then coreDeclarationCache, filled by a completion
\* request in the middle of a build, may bring back what an edit removed.
ASSUME CoreAssumption ==
    \A d \in Document \ Builtin : \A t \in Initial[d] \cup Menu[d] :
        t # Absent => t.package # LangPackage

VARIABLES
    state,           \* state[d]: how far the builder has taken document d
    referenceIndex,  \* referenceIndex[d]: the other documents that the index
                     \* manager knows references of d to lead to
    diagnostics,     \* diagnostics[d]: the errors and warnings reported on d
    phase,           \* the phase the builder is in
    building,        \* the documents whose build has not been completed
    validating,      \* does the current build validate documents?
    updates          \* number of updates so far

builderVars == <<phase, building, validating, updates>>
vars == <<managerVars, scopeVars, text, state, referenceIndex, diagnostics, builderVars>>

Phases ==
    {"IndexedContent", "ComputedScopes", "Linked", "IndexedReferences", "Validated", "Idle"}
States == (Phases \ {"Idle"}) \cup {"Absent", "Changed"}
LinkedStates == {"Linked", "IndexedReferences", "Validated"}

Rank(s) == CASE s = "Absent"            -> 0
             [] s = "Changed"           -> 1
             [] s = "IndexedContent"    -> 2
             [] s = "ComputedScopes"    -> 3
             [] s = "Linked"            -> 4
             [] s = "IndexedReferences" -> 5
             [] s = "Validated"         -> 6
             [] s = "Idle"              -> 7

NextPhase == CASE phase = "IndexedContent"    -> "ComputedScopes"
               [] phase = "ComputedScopes"    -> "Linked"
               [] phase = "Linked"            -> "IndexedReferences"
               [] phase = "IndexedReferences" -> "Validated"
               [] phase = "Validated"         -> "Idle"

Exists(d) == text[d] # Absent

-----------------------------------------------------------------------------
(* The validators that compare a document with the rest of the workspace.  *)

\* Mutant: internal declarations of other files are overlooked.
PublicDeclarationsToDifferFrom(p) ==
    IF p \in PrefixedByRoot
    THEN GetDeclarationsInPackageOrSubpackage(RootPackage, TRUE)
    ELSE GetDeclarationsInPackage(p, TRUE)

DeclarationsToDifferFrom(p) ==
    IF p \in PrefixedByRoot
    THEN GetDeclarationsInPackageOrSubpackage(RootPackage, FALSE)
    ELSE GetDeclarationsInPackage(p, FALSE)

UniqueInPackageErrors(d) ==
    {[code |-> "name/duplicate", name |-> decl.name] : decl \in
        {decl \in text[d].declarations :
            /\ d \notin Builtin
            /\ \E e \in DeclarationsToDifferFrom(text[d].package) :
                   e.name = decl.name /\ e.uri # d /\ e.uri \notin Builtin}}

\* Mutant: the comparison of the package names is the wrong way round.
CoreDeclarationErrorsInCore(d) ==
    {[code |-> "name/core-declaration", name |-> decl.name] : decl \in
        {decl \in text[d].declarations :
            /\ text[d].package = LangPackage
            /\ \E e \in GetDeclarationsInPackage(LangPackage, FALSE) : e.name = decl.name}}

CoreDeclarationErrors(d) ==
    {[code |-> "name/core-declaration", name |-> decl.name] : decl \in
        {decl \in text[d].declarations :
            /\ text[d].package # LangPackage
            /\ \E e \in GetDeclarationsInPackage(LangPackage, FALSE) : e.name = decl.name}}

ImportErrors(d) ==
    {[code |-> "import/missing-package", package |-> imp.package] : imp \in
        {imp \in text[d].imports : ~HasPackage(imp.package)}}
    \cup
    {[code |-> "import/empty-package", package |-> imp.package] : imp \in
        {imp \in text[d].imports : GetDeclarationsInPackage(imp.package, FALSE) = {}}}

Diagnostics(d) == UniqueInPackageErrors(d) \cup CoreDeclarationErrors(d) \cup ImportErrors(d)

-----------------------------------------------------------------------------
(* The document builder.                                                   *)

\* The first build: the workspace folder and the builtin files, unvalidated.
Init ==
    /\ ManagerInit
    /\ text \in [Document -> UNION {Initial[d] : d \in Document}]
    /\ \A d \in Document : text[d] \in Initial[d]
    /\ state = [d \in Document |-> IF Exists(d) THEN "Changed" ELSE "Absent"]
    /\ links = [d \in Document |-> Unlinked]
    /\ referenceIndex = [d \in Document |-> {}]
    /\ diagnostics = [d \in Document |-> {}]
    /\ scopeCache = [d \in Document |-> Uncached]
    /\ coreCache = Uncached
    /\ phase = "IndexedContent"
    /\ building = {d \in Document : Exists(d)}
    /\ validating = FALSE
    /\ updates = 0

\* A document that is not itself touched is relinked if one of its references
\* is unresolved, or if the index knows one to lead to a touched document.  What
\* the index knows may be older than the links of the document.
ShouldRelink(d, touched) ==
    /\ d \notin touched
    /\ \/ state[d] \in LinkedStates /\ HasLinkingError(d)
       \/ referenceIndex[d] \cap touched # {}

\* The options of builds that follow an update: validation is on.
UpdateBuildOptions == [validation |-> TRUE]

\* Mutant: the documents of a cancelled build are forgotten.
StartBuildAfresh(reset) ==
    /\ building' = {d \in reset : text'[d] # Absent}
    /\ phase' = "IndexedContent"
    /\ validating' = UpdateBuildOptions.validation
    /\ updates' = updates + 1

\* An update builds what it reset and what a cancelled build left unfinished.
StartBuild(reset) ==
    /\ building' = {d \in building \cup reset : text'[d] # Absent}
    /\ phase' = "IndexedContent"
    /\ validating' = UpdateBuildOptions.validation
    /\ updates' = updates + 1

\* DocumentBuilder.update up to the point where it can be interrupted: the
\* documents in the domain of new get new texts, or are deleted.
Update(new) ==
    LET touched == DOMAIN new
        relinked == {d \in Document : ShouldRelink(d, touched)}
        reset == touched \cup relinked
    IN  /\ text' = [d \in Document |-> IF d \in touched THEN new[d] ELSE text[d]]
        /\ state' = [d \in Document |->
                       IF d \in touched
                       THEN IF new[d] = Absent THEN "Absent" ELSE "Changed"
                       ELSE IF d \in relinked /\ state[d] \in LinkedStates
                       THEN "ComputedScopes" ELSE state[d]]
        /\ exported' = [d \in Document |->
                          IF d \in touched /\ new[d] = Absent THEN {} ELSE exported[d]]
        /\ referenceIndex' = [d \in Document |->
                                IF d \in touched /\ new[d] = Absent
                                THEN {} ELSE referenceIndex[d]]
        /\ links' = [d \in Document |-> IF d \in reset THEN Unlinked ELSE links[d]]
        /\ diagnostics' = [d \in Document |-> IF d \in reset THEN {} ELSE diagnostics[d]]
        /\ ClearCaches
        /\ StartBuild(reset)
        /\ UNCHANGED <<packageNames, packageContents>>

\* The client edits, creates or deletes documents.  The server holds updates
\* back until the first build is done.
Edit ==
    /\ updates < MaxUpdates
    /\ validating \/ phase = "Idle"
    /\ \E touched \in SUBSET {d \in Document : Menu[d] # {}} \ {{}} :
           \E new \in [touched -> UNION {Menu[d] : d \in touched}] :
               /\ \A d \in touched : new[d] \in Menu[d] \ {text[d]}
               /\ Update(new)

\* The builder processes document d in the current phase.
Pending(d) ==
    /\ d \in building
    /\ phase # "Idle"
    /\ Rank(state[d]) < Rank(phase)
    /\ phase = "Validated" => validating

Process(d, p) ==
    /\ phase = p
    /\ Pending(d)
    /\ state' = [state EXCEPT ![d] = p]
    /\ UNCHANGED <<text, builderVars>>

Index(d) ==
    /\ Process(d, "IndexedContent")
    /\ IndexDocument(d, text[d])
    /\ UNCHANGED <<scopeVars, referenceIndex, diagnostics>>

ComputeScopes(d) ==
    /\ Process(d, "ComputedScopes")
    /\ UNCHANGED <<managerVars, scopeVars, referenceIndex, diagnostics>>

Link(d) ==
    /\ Process(d, "Linked")
    /\ LinkDocument(d)
    /\ UNCHANGED <<managerVars, referenceIndex, diagnostics>>

\* The declarations of other documents that the references of d are linked to.
AnswersOf(d) == {e \in LinkTargets(d) : e.uri # d}

IndexReferences(d) ==
    /\ Process(d, "IndexedReferences")
    /\ referenceIndex' = [referenceIndex EXCEPT ![d] = {e.uri : e \in AnswersOf(d)}]
    /\ UNCHANGED <<managerVars, scopeVars, diagnostics>>

Validate(d) ==
    /\ Process(d, "Validated")
    /\ diagnostics' = [diagnostics EXCEPT ![d] = Diagnostics(d)]
    /\ UNCHANGED <<managerVars, scopeVars, referenceIndex>>

PhaseDone == phase # "Idle" /\ \A d \in building : ~Pending(d)

\* notifyBuildPhase: listeners hear of a phase only if a document is in it.
Announced == phase = "IndexedContent" /\ \E d \in building : state[d] = "IndexedContent"

FinishPhase ==
    /\ PhaseDone
    /\ IF Announced THEN BuildPackageStructures ELSE UNCHANGED managerVars
    /\ phase' = NextPhase
    /\ building' = IF phase = "Validated" THEN {} ELSE building
    /\ UNCHANGED <<scopeVars, text, state, referenceIndex, diagnostics, validating, updates>>

\* A completion request on a document that is up to date, while the builder
\* may be busy with others: it needs the scopes and changes nothing else.
Complete(d) ==
    /\ state[d] = "Validated"
    /\ FillCaches(d, links[d].imports)
    /\ UNCHANGED <<managerVars, links, text, state, referenceIndex, diagnostics, builderVars>>

Build ==
    \/ \E d \in Document :
           Index(d) \/ ComputeScopes(d) \/ Link(d) \/ IndexReferences(d) \/ Validate(d)
    \/ FinishPhase

Next ==
    \/ Build
    \/ Edit
    \/ \E d \in Document : Complete(d)

Spec == Init /\ [][Next]_vars

\* The server works through its queue: a build that is not cancelled goes on.
FairSpec == Spec /\ WF_vars(Build)

-----------------------------------------------------------------------------
(* Properties.                                                             *)

Diagnostic ==
    [code : {"name/duplicate", "name/core-declaration"}, name : Name]
    \cup [code : {"import/missing-package", "import/empty-package"}, package : Package]

\* The variables hold what the code's fields can hold.
TypeOK ==
    /\ ManagerTypeOK
    /\ state \in [Document -> States]
    /\ referenceIndex \in [Document -> SUBSET Document]
    /\ diagnostics \in [Document -> SUBSET Diagnostic]
    /\ phase \in Phases
    /\ building \subseteq Document
    /\ validating \in BOOLEAN
    /\ updates \in 0 .. MaxUpdates
    /\ \A d \in Document : state[d] = "Absent" <=> text[d] = Absent
    /\ \A d \in building : Exists(d)
    /\ ScopeTypeOK

\* The declarations of document d that the package tree holds in package p.
Held(d, p) == {e \in GetDeclarationsInPackage(p, FALSE) : e.uri = d}

\* Once the builder has computed the scopes of a document, the package tree
\* holds exactly the declarations its current text exports, whichever builds
\* were cancelled before and whatever was edited or deleted meanwhile.
PackageTreeMatchesIndex ==
    \A d \in Document : Rank(state[d]) >= Rank("ComputedScopes") =>
        \A p \in Package :
            Held(d, p) = {e \in Listed(Exports(d, text[d])) : e.package = p}

\* A declaration that is not public is never linked from another package,
\* whichever layer of the scope or kind of import led to it.
InternalStaysInPackage ==
    \A d \in Document : \A e \in LinkTargets(d) :
        e.visibility # "public" => e.package = text[d].package

\* What is unresolved in document d, a lookup that bypasses all caches does not
\* find either.
ErrorsAreJustified(d) ==
    /\ \A imp \in QualifiedImports(d) :
           \/ \E l \in links[d].imports : l.import = imp
           \/ \A e \in ScopeForImportedDeclaration(d, imp) : e.name # imp.name
    /\ \A n \in text[d].references :
           \/ \E l \in links[d].targets : l.name = n
           \/ Resolve(<<Bindings(CoreDeclarations), GlobalDeclarationsInSameFile(d)>>
                         \o GlobalScopeForNode(d, links[d].imports), n) = {}

\* When the builder rests, a reference is unresolved only if there is nothing it
\* could be linked to.
NoStaleLinkingErrors ==
    phase = "Idle" => \A d \in {d \in Document : Exists(d)} : ErrorsAreJustified(d)

\* Two documents of the same package that declare the same name.  A package
\* whose name merely starts with the text of the root package, such as TTSLtax,
\* is compared with the wrong declarations.
Clash(c, d, n) ==
    /\ c # d
    /\ Exists(c) /\ Exists(d)
    /\ text[c].package = text[d].package
    /\ text[c].package # NoPackage /\ IsValidPackageName(text[c].package)
    /\ text[c].package \in PrefixedByRoot => IsPrefix(RootPackage, text[c].package)
    /\ \E x \in text[c].declarations, y \in text[d].declarations :
           x.name = n /\ y.name = n

\* When the builder rests, every clash of a validated document is reported on
\* one of the two documents, in whatever order they were edited and built.
DuplicatesReported ==
    phase = "Idle" => \A c, d \in Document \ Builtin : \A n \in Name :
        Clash(c, d, n) /\ "Validated" \in {state[c], state[d]} =>
            [code |-> "name/duplicate", name |-> n] \in diagnostics[c] \cup diagnostics[d]

\* When the builder rests, a validated document of the user whose own declaration
\* of a name is out of reach, because references to the name lead elsewhere, has
\* an error on that declaration.
HiddenDeclarationsReported ==
    phase = "Idle" => \A d \in Document \ Builtin : state[d] = "Validated" =>
        \A l \in links[d].targets :
            (l.target.uri # d /\ \E decl \in text[d].declarations : decl.name = l.name)
                => [code |-> "name/core-declaration", name |-> l.name] \in diagnostics[d]

\* Every edited document is validated in the end (or deleted), however often
\* its build is cancelled by other edits.
ChangedIsValidated ==
    \A d \in Document :
        (state[d] = "Changed" /\ validating) ~> state[d] \in {"Validated", "Absent"}

\* What the current text of d offers to others, through the package tree.
Offered(d) == IF Exists(d) THEN Listed(Exports(d, text[d])) ELSE {}

Served(d) == UNION {Held(d, p) : p \in Package}
Answered == {d \in Document : state[d] \in LinkedStates}
Registered == {d \in Document : state[d] \in {"IndexedReferences", "Validated"}}

View == INSTANCE PackageView WITH
    Declaration <- Description,
    documents <- {d \in Document : Exists(d)},
    declared <- [d \in Document |-> Offered(d)],
    served <- [d \in Document |-> Served(d)],
    answered <- Answered,
    registered <- Registered,
    answers <- [d \in Document |-> AnswersOf(d)]

\* The workspace is a package view: builds, phases and caches are its way to
\* keep the copy in the tree up to date before anyone is linked to it.
ImplementsView == View!Spec

\* The links of d to declarations that the text of another document does not
\* contain (any more), although the document exists.
StaleLinks(d) == {e \in AnswersOf(d) : Exists(e.uri) /\ e \notin Offered(e.uri)}

\* A reference becomes stale in one way only: by an update that comes after it
\* was linked and before it was indexed, when the builder does not yet know that
\* the update affects it.  No reference is linked to something stale, whichever
\* cache or tree it is looked up in, and one that was indexed does not survive
\* an update of the document it leads to.
LinksGoStaleUnindexedOnly ==
    [][\A d \in Document :
           StaleLinks(d)' \subseteq StaleLinks(d) \/ state[d] = "Linked"]_vars
=============================================================================
