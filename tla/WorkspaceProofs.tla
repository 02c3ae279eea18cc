--------------------------- MODULE WorkspaceProofs ---------------------------
(***************************************************************************)
(* Proofs about the workspace, for every set of documents, every text they *)
(* may have, any number of updates and any order of builds, cancellations  *)
(* and completion requests.  In this order:                                *)
(*   - the types of its variables, and that the package tree agrees with   *)
(*     the documents it is derived from;                                   *)
(*   - that references never lead to internal declarations of another      *)
(*     package;                                                            *)
(*   - that the workspace implements the package view: a document is       *)
(*     linked only to declarations that are up to date at that time;       *)
(*   - what a user sees when the builder rests: the errors and diagnostics *)
(*     of the documents;                                                   *)
(*   - that a rename keeps all links: the tree and the index that the      *)
(*     edits lead to hold the same declarations as before, renamed; so do  *)
(*     the layers of every scope, binding by binding; and as the new name  *)
(*     is bound nowhere else, each edited reference resolves to the        *)
(*     renamed declaration, and all others to what they resolved to.       *)
(***************************************************************************)
EXTENDS Rename, SequenceTheorems, TLAPS

-----------------------------------------------------------------------------
(* The package tree.                                                       *)

LEMMA PrefixOfItself ==
    ASSUME NEW p \in Package
    PROVE  p \in Prefixes(p)
<1>1. p \in Seq(Segment)
    BY PackageAssumption
<1>2. Len(p) \in 0 .. Len(p) /\ p = SubSeq(p, 1, Len(p))
    BY <1>1
<1>. QED
    BY <1>2 DEF Prefixes

LEMMA PrefixesArePaths ==
    ASSUME NEW p \in Package
    PROVE  Prefixes(p) \subseteq Path
BY DEF Path

\* What a module exports are descriptions of declarations of its document.
LEMMA ExportsAreDescriptions ==
    ASSUME NEW d \in Document, NEW m \in Module
    PROVE  /\ Exports(d, m) \subseteq Description
           /\ \A e \in Exports(d, m) : e.uri = d
BY DEF Exports, Module, Description

\* The tree holds the exports of document d.
Agrees(d) ==
    \A p \in Package : Held(d, p) = {e \in Listed(exported[d]) : e.package = p}

\* Every description of the index belongs to the document it is filed under.
IndexIsFiled == \A d \in Document : \A e \in exported[d] : e.uri = d

\* Building the package structures makes the tree agree with every document.
LEMMA BuildingAgrees ==
    ASSUME ManagerTypeOK, IndexIsFiled, BuildPackageStructures, NEW d \in Document
    PROVE  Agrees(d)'
<1>. DEFINE elements == Listed(UNION {exported[x] : x \in Document})
            paths == {<<>>} \cup UNION {Prefixes(e.package) : e \in elements}
<1>1. packageContents' = [path \in paths |-> {e \in elements : e.package = path}]
    BY DEF BuildPackageStructures, TreeOf
<1>2. exported' = exported
    BY DEF BuildPackageStructures, TreeOf
<1>. SUFFICES ASSUME NEW p \in Package
              PROVE  Held(d, p)' = {e \in Listed(exported[d]) : e.package = p}
    BY <1>2 DEF Agrees, Listed, IsValidPackageName
<1>3. p # NoPackage
    BY PackageAssumption
<1>4. {e \in elements : e.package = p /\ e.uri = d} = {e \in Listed(exported[d]) : e.package = p}
    BY DEF Listed, IndexIsFiled
<1>5. CASE p \in paths
    <2>1. packageContents'[p] = {e \in elements : e.package = p}
        BY <1>1, <1>5
    <2>2. GetDeclarationsInPackage(p, FALSE)' = {e \in elements : e.package = p}
        BY <2>1, <1>1, <1>3, <1>5 DEF GetDeclarationsInPackage, FilterDescriptions, HasContents
    <2>. QED
        BY <2>2, <1>4 DEF Held
<1>6. CASE p \notin paths
    <2>1. {e \in elements : e.package = p} = {}
        BY <1>6, PrefixOfItself
    <2>2. GetDeclarationsInPackage(p, FALSE)' = {}
        BY <1>1, <1>6 DEF GetDeclarationsInPackage, FilterDescriptions, HasContents
    <2>. QED
        BY <2>1, <2>2, <1>4 DEF Held
<1>. QED
    BY <1>5, <1>6

-----------------------------------------------------------------------------
(* Types.                                                                  *)

LEMMA QueriesReturnDescriptions ==
    ASSUME ManagerTypeOK, NEW p, NEW hide
    PROVE  /\ GetDeclarationsInPackage(p, hide) \subseteq Description
           /\ GetDeclarationsInPackageOrSubpackage(p, hide) \subseteq Description
BY DEF ManagerTypeOK, GetDeclarationsInPackage, FilterDescriptions, HasContents,
       GetDeclarationsInPackageOrSubpackage

LEMMA BuildingKeepsManagerTypes ==
    ASSUME ManagerTypeOK, BuildPackageStructures
    PROVE  ManagerTypeOK'
<1>. DEFINE elements == Listed(UNION {exported[d] : d \in Document})
            paths == {<<>>} \cup UNION {Prefixes(e.package) : e \in elements}
<1>1. \A e \in elements : e \in Description /\ e.package \in Package
    BY DEF ManagerTypeOK, Listed, Description
<1>2. exported' = exported /\ packageNames' = {e.package : e \in elements}
    BY DEF BuildPackageStructures, TreeOf
<1>3. packageContents' = [path \in paths |-> {e \in elements : e.package = path}]
    BY DEF BuildPackageStructures, TreeOf
<1>4. paths \subseteq Path
    BY <1>1, PrefixesArePaths DEF Path
<1>5. packageNames' \subseteq Package
    BY <1>1, <1>2
<1>6. /\ DOMAIN packageContents' \subseteq Path
      /\ \A path \in DOMAIN packageContents' : packageContents'[path] \subseteq Description
    BY <1>1, <1>3, <1>4
<1>. QED
    BY <1>2, <1>5, <1>6 DEF ManagerTypeOK

LEMMA BindingsAreTyped ==
    ASSUME NEW S, S \subseteq Description
    PROVE  Bindings(S) \subseteq Binding
BY DEF Bindings, Binding, Description

LEMMA ImportLinksAreTyped ==
    ASSUME ManagerTypeOK, NEW d \in Document, text[d] \in Module
    PROVE  ImportLinks(d) \subseteq ImportLink
<1>1. QualifiedImports(d) \subseteq QualifiedImport
    BY DEF QualifiedImports, QualifiedImport, Module
<1>2. \A imp : ScopeForImportedDeclaration(d, imp) \subseteq Description
    BY QueriesReturnDescriptions DEF ScopeForImportedDeclaration
<1>. QED
    BY <1>1, <1>2 DEF ImportLinks, ImportLink

LEMMA GlobalScopeIsTyped ==
    ASSUME ManagerTypeOK, ScopeTypeOK, NEW d \in Document, text[d] \in Module,
           NEW importLinks \in SUBSET ImportLink
    PROVE  GetGlobalScope(d, importLinks) \in [1 .. 3 -> SUBSET Binding]
<1>1. ExplicitlyImportedDeclarations(d, importLinks) \subseteq Binding
    <2>1. {[name |-> VisibleName(l.import), target |-> l.target] : l \in importLinks}
              \subseteq Binding
        BY DEF Binding, ImportLink, QualifiedImport, VisibleName
    <2>2. UNION {GetDeclarationsInPackage(imp.package, TRUE) : imp \in WildcardImports(d)}
              \subseteq Description
        BY QueriesReturnDescriptions
    <2>. QED
        BY <2>1, <2>2, BindingsAreTyped DEF ExplicitlyImportedDeclarations
<1>2. Bindings(DeclarationsInSamePackage(d)) \subseteq Binding
    BY QueriesReturnDescriptions, BindingsAreTyped DEF DeclarationsInSamePackage
<1>3. Bindings(BuiltinDeclarations) \subseteq Binding
    BY QueriesReturnDescriptions, BindingsAreTyped DEF BuiltinDeclarations
<1>4. GlobalScopeForNode(d, importLinks) \in [1 .. 3 -> SUBSET Binding]
    BY <1>1, <1>2, <1>3 DEF GlobalScopeForNode
<1>. QED
    BY <1>4 DEF GetGlobalScope, Get, ScopeTypeOK

\* A function on 1 .. n is a sequence, and conversely.
LEMMA LayersAreASequence ==
    ASSUME NEW S, NEW n \in Nat, NEW f \in [1 .. n -> S]
    PROVE  f \in Seq(S) /\ Len(f) = n
<1>1. f \in Seq(S)
    BY SeqDef
<1>2. DOMAIN f = 1 .. Len(f) /\ Len(f) \in Nat
    BY <1>1, LenProperties
<1>. QED
    BY <1>1, <1>2

LEMMA ScopeIsTyped ==
    ASSUME ManagerTypeOK, ScopeTypeOK, NEW d \in Document, text[d] \in Module,
           NEW importLinks \in SUBSET ImportLink
    PROVE  ScopeForReferenceTarget(d, importLinks) \in [1 .. 5 -> SUBSET Binding]
<1>1. Bindings(GetCoreDeclarations) \in SUBSET Binding
    BY QueriesReturnDescriptions, BindingsAreTyped
       DEF GetCoreDeclarations, Get, CoreDeclarations, ScopeTypeOK
<1>2. GlobalDeclarationsInSameFile(d) \in SUBSET Binding
    BY BindingsAreTyped DEF GlobalDeclarationsInSameFile, Module, Description
<1>. DEFINE inner == <<Bindings(GetCoreDeclarations), GlobalDeclarationsInSameFile(d)>>
            outer == GetGlobalScope(d, importLinks)
<1>3. outer \in [1 .. 3 -> SUBSET Binding]
    BY GlobalScopeIsTyped
<1>4. inner \in Seq(SUBSET Binding) /\ Len(inner) = 2
    BY <1>1, <1>2
<1>5. ScopeForReferenceTarget(d, importLinks) = inner \o outer
    BY DEF ScopeForReferenceTarget
<1>. HIDE DEF inner, outer
<1>6. outer \in Seq(SUBSET Binding) /\ Len(outer) = 3
    BY <1>3, LayersAreASequence
<1>7. inner \o outer \in Seq(SUBSET Binding) /\ Len(inner \o outer) = 5
    <2>1. /\ inner \o outer \in Seq(SUBSET Binding)
          /\ Len(inner \o outer) = Len(inner) + Len(outer)
        BY <1>4, <1>6, ConcatProperties, Zenon
    <2>. QED
        BY <2>1, <1>4, <1>6
<1>. QED
    BY <1>5, <1>7, LenProperties

LEMMA LinksAreTyped ==
    ASSUME ManagerTypeOK, ScopeTypeOK, NEW d \in Document, text[d] \in Module
    PROVE  LinksOf(d) \in [imports : SUBSET ImportLink, targets : SUBSET Binding]
<1>1. ImportLinks(d) \in SUBSET ImportLink
    BY ImportLinksAreTyped
<1>2. \A n : Resolve(ScopeForReferenceTarget(d, ImportLinks(d)), n) \subseteq Description
    BY <1>1, ScopeIsTyped DEF Resolve, Binding
<1>3. text[d].references \subseteq Name
    BY DEF Module
<1>. QED
    BY <1>1, <1>2, <1>3 DEF LinksOf, Binding

LEMMA FilledCachesAreTyped ==
    ASSUME ManagerTypeOK, ScopeTypeOK, NEW d \in Document, text[d] \in Module,
           NEW importLinks \in SUBSET ImportLink, FillCaches(d, importLinks)
    PROVE  /\ DOMAIN scopeCache' = Document
           /\ \A x \in Document :
                  scopeCache'[x] # Uncached => scopeCache'[x] \in [1 .. 3 -> SUBSET Binding]
           /\ coreCache' # Uncached => coreCache' \subseteq Description
<1>1. GetGlobalScope(d, importLinks) \in [1 .. 3 -> SUBSET Binding]
    BY GlobalScopeIsTyped
<1>2. GetCoreDeclarations \subseteq Description
    BY QueriesReturnDescriptions DEF GetCoreDeclarations, Get, CoreDeclarations, ScopeTypeOK
<1>. QED
    BY <1>1, <1>2 DEF FillCaches, ScopeTypeOK

LEMMA TypesInitially == Init => TypeOK
<1>. SUFFICES ASSUME Init PROVE TypeOK
    OBVIOUS
<1>1. text \in [Document -> Module \cup {Absent}]
    BY WorkspaceAssumption DEF Init
<1>2. ManagerTypeOK
    BY DEF Init, ManagerInit, ManagerTypeOK, Path
<1>3. ScopeTypeOK
    BY <1>1 DEF Init, ScopeTypeOK, Unlinked
<1>4. /\ state \in [Document -> States]
      /\ referenceIndex \in [Document -> SUBSET Document]
      /\ diagnostics \in [Document -> SUBSET Diagnostic]
      /\ phase \in Phases
      /\ \A d \in Document : state[d] = "Absent" <=> text[d] = Absent
    BY DEF Init, States, Phases, Exists
<1>5. building \subseteq Document /\ \A d \in building : Exists(d)
    BY DEF Init
<1>6. validating \in BOOLEAN
    BY DEF Init
<1>7. updates \in 0 .. MaxUpdates
    <2>1. MaxUpdates \in Nat
        BY WorkspaceAssumption
    <2>. QED
        BY <2>1 DEF Init
<1>. QED
    BY <1>1, <1>2, <1>3, <1>4, <1>5, <1>6, <1>7 DEF TypeOK

LEMMA EditKeepsTypes == TypeOK /\ Edit => TypeOK'
<1>. SUFFICES ASSUME TypeOK, Edit PROVE TypeOK'
    OBVIOUS
<1>1. PICK touched \in SUBSET {d \in Document : Menu[d] # {}} \ {{}} :
           \E new \in [touched -> UNION {Menu[d] : d \in touched}] :
               /\ \A d \in touched : new[d] \in Menu[d] \ {text[d]}
               /\ Update(new)
    BY DEF Edit
<1>2. PICK new \in [touched -> UNION {Menu[d] : d \in touched}] :
               /\ \A d \in touched : new[d] \in Menu[d] \ {text[d]}
               /\ Update(new)
    BY <1>1
<1>3. DOMAIN new = touched /\ touched \subseteq Document
    BY <1>2
<1>4. \A d \in touched : new[d] \in Module \cup {Absent}
    BY <1>2, <1>3, WorkspaceAssumption
<1>. DEFINE relinked == {d \in Document : ShouldRelink(d, touched)}
            reset == touched \cup relinked
<1>5. text' = [d \in Document |-> IF d \in touched THEN new[d] ELSE text[d]]
    BY <1>2, <1>3 DEF Update
<1>6. text' \in [Document -> Module \cup {Absent}]
    BY <1>4, <1>5 DEF TypeOK, ScopeTypeOK
<1>7. state' = [d \in Document |->
                   IF d \in touched
                   THEN IF new[d] = Absent THEN "Absent" ELSE "Changed"
                   ELSE IF d \in relinked /\ state[d] \in LinkedStates
                   THEN "ComputedScopes" ELSE state[d]]
    BY <1>2, <1>3 DEF Update
<1>8. state' \in [Document -> States]
    BY <1>7 DEF TypeOK, States, Phases
<1>9. \A d \in Document : state'[d] = "Absent" <=> text'[d] = Absent
    BY <1>5, <1>7 DEF TypeOK, LinkedStates
<1>10. ManagerTypeOK'
    BY <1>2 DEF Update, TypeOK, ManagerTypeOK
<1>11. ScopeTypeOK'
    BY <1>2, <1>6 DEF Update, TypeOK, ScopeTypeOK, ClearCaches, Unlinked
<1>12. /\ building' = {d \in building \cup reset : text'[d] # Absent}
       /\ phase' = "IndexedContent"
       /\ validating' = TRUE
       /\ updates' = updates + 1
    BY <1>2, <1>3 DEF Update, StartBuild, UpdateBuildOptions
<1>13. /\ building' \subseteq Document
       /\ \A d \in building' : text'[d] # Absent
    BY <1>3, <1>12 DEF TypeOK
<1>14. updates' \in 0 .. MaxUpdates
    BY <1>12, WorkspaceAssumption DEF TypeOK, Edit
<1>15. /\ diagnostics' \in [Document -> SUBSET Diagnostic]
       /\ referenceIndex' \in [Document -> SUBSET Document]
    BY <1>2 DEF Update, TypeOK
<1>. QED
    BY <1>6, <1>8, <1>9, <1>10, <1>11, <1>12, <1>13, <1>14, <1>15 DEF TypeOK, Phases, Exists

\* What the builder's steps on a document have in common.
LEMMA ProcessKeepsTypes ==
    ASSUME TypeOK, NEW d \in Document, NEW p \in Phases, Process(d, p)
    PROVE  /\ text[d] \in Module
           /\ state' \in [Document -> States]
           /\ \A x \in Document : state'[x] = "Absent" <=> text'[x] = Absent
           /\ building' \subseteq Document /\ \A x \in building' : Exists(x)'
           /\ phase' \in Phases /\ validating' \in BOOLEAN /\ updates' \in 0 .. MaxUpdates
<1>1. p \in States \ {"Absent"}
    BY DEF Process, Pending, Phases, States
<1>2. text[d] # Absent /\ state[d] # "Absent"
    BY DEF Process, Pending, TypeOK, Exists
<1>3. text[d] \in Module
    BY <1>2 DEF TypeOK, ScopeTypeOK
<1>4. state' = [state EXCEPT ![d] = p] /\ text' = text /\ UNCHANGED builderVars
    BY DEF Process
<1>. QED
    BY <1>1, <1>2, <1>3, <1>4 DEF TypeOK, builderVars, Exists

LEMMA DiagnosticsAreTyped ==
    ASSUME NEW d \in Document, text[d] \in Module
    PROVE  Diagnostics(d) \subseteq Diagnostic
<1>1. UniqueInPackageErrors(d) \subseteq Diagnostic
    BY DEF UniqueInPackageErrors, Module, Diagnostic
<1>2. CoreDeclarationErrors(d) \subseteq Diagnostic
    <2>1. \A x \in CoreDeclarationErrors(d) : \E decl \in text[d].declarations :
              x = [code |-> "name/core-declaration", name |-> decl.name]
        BY DEF CoreDeclarationErrors
    <2>2. \A decl \in text[d].declarations : decl.name \in Name
        BY DEF Module
    <2>. QED
        BY <2>1, <2>2 DEF Diagnostic
<1>3. ImportErrors(d) \subseteq Diagnostic
    <2>1. \A x \in ImportErrors(d) : \E imp \in text[d].imports :
              \/ x = [code |-> "import/missing-package", package |-> imp.package]
              \/ x = [code |-> "import/empty-package", package |-> imp.package]
        BY DEF ImportErrors
    <2>2. \A imp \in text[d].imports : imp.package \in Package
        BY DEF Module
    <2>. QED
        BY <2>1, <2>2 DEF Diagnostic
<1>. QED
    BY <1>1, <1>2, <1>3 DEF Diagnostics

LEMMA BuildKeepsTypes == TypeOK /\ Build => TypeOK'
<1>. SUFFICES ASSUME TypeOK, Build PROVE TypeOK'
    OBVIOUS
<1>1. ASSUME NEW d \in Document, Index(d) PROVE TypeOK'
    <2>1. Process(d, "IndexedContent") /\ "IndexedContent" \in Phases
        BY <1>1 DEF Index, Phases
    <2>2. ManagerTypeOK'
        BY <1>1, <2>1, ProcessKeepsTypes, ExportsAreDescriptions
           DEF Index, IndexDocument, TypeOK, ManagerTypeOK
    <2>3. ScopeTypeOK'
        BY <1>1, <2>1 DEF Index, Process, TypeOK, ScopeTypeOK, scopeVars
    <2>. QED
        BY <1>1, <2>1, <2>2, <2>3, ProcessKeepsTypes DEF TypeOK, Index
<1>2. ASSUME NEW d \in Document, ComputeScopes(d) PROVE TypeOK'
    <2>1. Process(d, "ComputedScopes") /\ "ComputedScopes" \in Phases
        BY <1>2 DEF ComputeScopes, Phases
    <2>2. ManagerTypeOK' /\ ScopeTypeOK'
        BY <1>2, <2>1 DEF ComputeScopes, Process, TypeOK, ManagerTypeOK, ScopeTypeOK,
                          managerVars, scopeVars
    <2>. QED
        BY <1>2, <2>1, <2>2, ProcessKeepsTypes DEF TypeOK, ComputeScopes
<1>3. ASSUME NEW d \in Document, Link(d) PROVE TypeOK'
    <2>1. Process(d, "Linked") /\ "Linked" \in Phases
        BY <1>3 DEF Link, Phases
    <2>2. text[d] \in Module
        BY <2>1, ProcessKeepsTypes
    <2>3. ManagerTypeOK'
        BY <1>3 DEF Link, TypeOK, ManagerTypeOK, managerVars
    <2>4. LinksOf(d) \in [imports : SUBSET ImportLink, targets : SUBSET Binding]
        BY <2>2, LinksAreTyped DEF TypeOK
    <2>5. /\ DOMAIN scopeCache' = Document
          /\ \A x \in Document :
                 scopeCache'[x] # Uncached => scopeCache'[x] \in [1 .. 3 -> SUBSET Binding]
          /\ coreCache' # Uncached => coreCache' \subseteq Description
        <3>1. CASE UNCHANGED <<scopeCache, coreCache>>
            BY <3>1 DEF TypeOK, ScopeTypeOK
        <3>2. CASE FillCaches(d, ImportLinks(d))
            BY <3>2, <2>2, FilledCachesAreTyped, ImportLinksAreTyped DEF TypeOK
        <3>. QED
            BY <1>3, <3>1, <3>2 DEF Link, LinkDocument
    <2>6. ScopeTypeOK'
        BY <1>3, <2>1, <2>4, <2>5 DEF Link, LinkDocument, Process, TypeOK, ScopeTypeOK
    <2>. QED
        BY <1>3, <2>1, <2>3, <2>6, ProcessKeepsTypes DEF TypeOK, Link
<1>4. ASSUME NEW d \in Document, Validate(d) PROVE TypeOK'
    <2>1. Process(d, "Validated") /\ "Validated" \in Phases
        BY <1>4 DEF Validate, Phases
    <2>2. ManagerTypeOK' /\ ScopeTypeOK'
        BY <1>4, <2>1 DEF Validate, Process, TypeOK, ManagerTypeOK, ScopeTypeOK,
                          managerVars, scopeVars
    <2>3. diagnostics' \in [Document -> SUBSET Diagnostic]
        BY <1>4, <2>1, ProcessKeepsTypes, DiagnosticsAreTyped DEF Validate, TypeOK
    <2>. QED
        BY <1>4, <2>1, <2>2, <2>3, ProcessKeepsTypes DEF TypeOK, Validate
<1>5. ASSUME NEW d \in Document, IndexReferences(d) PROVE TypeOK'
    <2>1. Process(d, "IndexedReferences") /\ "IndexedReferences" \in Phases
        BY <1>5 DEF IndexReferences, Phases
    <2>2. ManagerTypeOK' /\ ScopeTypeOK'
        BY <1>5, <2>1 DEF IndexReferences, Process, TypeOK, ManagerTypeOK, ScopeTypeOK,
                          managerVars, scopeVars
    <2>3. referenceIndex' \in [Document -> SUBSET Document]
        <3>1. {e.uri : e \in AnswersOf(d)} \subseteq Document
            BY DEF AnswersOf, LinkTargets, TypeOK, ScopeTypeOK, ImportLink, Binding, Description
        <3>. QED
            BY <1>5, <3>1 DEF IndexReferences, TypeOK
    <2>. QED
        BY <1>5, <2>1, <2>2, <2>3, ProcessKeepsTypes DEF TypeOK, IndexReferences
<1>6. ASSUME FinishPhase PROVE TypeOK'
    <2>1. ManagerTypeOK'
        BY <1>6, BuildingKeepsManagerTypes DEF FinishPhase, TypeOK, ManagerTypeOK, managerVars
    <2>2. ScopeTypeOK'
        BY <1>6 DEF FinishPhase, TypeOK, ScopeTypeOK, scopeVars
    <2>3. phase' \in Phases
        BY <1>6 DEF FinishPhase, PhaseDone, NextPhase, TypeOK, Phases
    <2>. QED
        BY <1>6, <2>1, <2>2, <2>3 DEF FinishPhase, TypeOK, Exists
<1>. QED
    BY <1>1, <1>2, <1>3, <1>4, <1>5, <1>6 DEF Build

LEMMA CompleteKeepsTypes ==
    ASSUME TypeOK, NEW d \in Document, Complete(d)
    PROVE  TypeOK'
<1>1. text[d] \in Module
    BY DEF Complete, TypeOK, ScopeTypeOK
<1>2. links[d].imports \in SUBSET ImportLink
    BY DEF TypeOK, ScopeTypeOK
<1>3. /\ DOMAIN scopeCache' = Document
      /\ \A x \in Document :
             scopeCache'[x] # Uncached => scopeCache'[x] \in [1 .. 3 -> SUBSET Binding]
      /\ coreCache' # Uncached => coreCache' \subseteq Description
    BY <1>1, <1>2, FilledCachesAreTyped DEF Complete, TypeOK
<1>. QED
    BY <1>3 DEF Complete, TypeOK, ManagerTypeOK, ScopeTypeOK, managerVars, builderVars, Exists

\* The variables of the workspace hold what the fields of the code can hold.
THEOREM TypeCorrect == Spec => []TypeOK
<1>1. Init => TypeOK
    BY TypesInitially
<1>2. TypeOK /\ [Next]_vars => TypeOK'
    <2>1. TypeOK /\ UNCHANGED vars => TypeOK'
        BY DEF TypeOK, ManagerTypeOK, ScopeTypeOK, Exists, vars, managerVars, scopeVars,
               builderVars
    <2>. QED
        BY <2>1, EditKeepsTypes, BuildKeepsTypes, CompleteKeepsTypes DEF Next
<1>. QED
    BY <1>1, <1>2, PTL DEF Spec

-----------------------------------------------------------------------------
(* The package tree agrees with the documents.                             *)

Settled == {"ComputedScopes", "Linked", "IndexedReferences", "Validated"}

\* The index holds the exports of the current text of every indexed document.
IndexIsCurrent ==
    \A d \in Document :
        /\ state[d] \in Settled \cup {"IndexedContent"} => exported[d] = Exports(d, text[d])
        /\ state[d] = "Absent" => exported[d] = {}

\* Documents outside the current build have been through all phases before;
\* once the indexing phase is over, the tree agrees with those inside it; once
\* the linking phase is over, those are linked, and then their references known.
BuildIsOrderly ==
    /\ \A d \in Document :
           d \notin building => state[d] \in {"Absent", "IndexedReferences", "Validated"}
    /\ phase # "IndexedContent" =>
           \A d \in building : state[d] # "Changed" /\ Agrees(d)
    /\ phase \in {"IndexedReferences", "Validated", "Idle"} =>
           \A d \in building : state[d] \in LinkedStates
    /\ phase \in {"Validated", "Idle"} =>
           \A d \in building : state[d] \in {"IndexedReferences", "Validated"}

TreeInv ==
    /\ IndexIsFiled
    /\ IndexIsCurrent
    /\ BuildIsOrderly
    /\ \A d \in Document : state[d] \in Settled => Agrees(d)

LEMMA AgreesIsStable ==
    ASSUME NEW d \in Document, exported'[d] = exported[d],
           UNCHANGED packageContents, Agrees(d)
    PROVE  Agrees(d)'
BY DEF Agrees, Held, GetDeclarationsInPackage, FilterDescriptions, HasContents, Listed,
       IsValidPackageName

LEMMA TreeInvInitially == Init => TreeInv
BY DEF Init, ManagerInit, TreeInv, IndexIsFiled, IndexIsCurrent, BuildIsOrderly, Settled,
       Exists

LEMMA EditKeepsTreeInv ==
    ASSUME TypeOK, TreeInv, NEW touched \in SUBSET Document,
           NEW new \in [touched -> Module \cup {Absent}], Update(new)
    PROVE  TreeInv'
<1>. DEFINE relinked == {d \in Document : ShouldRelink(d, touched)}
            reset == touched \cup relinked
<1>1. /\ text' = [d \in Document |-> IF d \in touched THEN new[d] ELSE text[d]]
      /\ state' = [d \in Document |->
                     IF d \in touched
                     THEN IF new[d] = Absent THEN "Absent" ELSE "Changed"
                     ELSE IF d \in relinked /\ state[d] \in LinkedStates
                   THEN "ComputedScopes" ELSE state[d]]
      /\ exported' = [d \in Document |->
                        IF d \in touched /\ new[d] = Absent THEN {} ELSE exported[d]]
      /\ building' = {d \in building \cup reset : text'[d] # Absent}
      /\ phase' = "IndexedContent"
      /\ UNCHANGED packageContents
    BY DEF Update, StartBuild
<1>3. IndexIsFiled'
    BY <1>1 DEF TreeInv, IndexIsFiled
<1>4. IndexIsCurrent'
    BY <1>1 DEF TreeInv, IndexIsCurrent, Settled, LinkedStates
<1>5. BuildIsOrderly'
    <2>1. ASSUME NEW d \in Document, d \notin building'
          PROVE  state'[d] \in {"Absent", "IndexedReferences", "Validated"}
        <3>1. CASE text'[d] = Absent
            BY <1>1, <3>1 DEF TypeOK, ScopeTypeOK, LinkedStates
        <3>2. CASE text'[d] # Absent
            <4>1. d \notin building /\ d \notin reset
                BY <1>1, <2>1, <3>2
            <4>. QED
                BY <1>1, <4>1 DEF TreeInv, BuildIsOrderly
        <3>. QED
            BY <3>1, <3>2
    <2>. QED
        BY <1>1, <2>1 DEF BuildIsOrderly
<1>6. ASSUME NEW d \in Document, state'[d] \in Settled
      PROVE  Agrees(d)'
    <2>1. d \notin touched /\ state[d] \in Settled
        BY <1>1, <1>6 DEF Settled, LinkedStates
    <2>2. exported'[d] = exported[d] /\ Agrees(d)
        BY <1>1, <2>1 DEF TreeInv
    <2>. QED
        BY <1>1, <2>2, AgreesIsStable
<1>. QED
    BY <1>3, <1>4, <1>5, <1>6 DEF TreeInv

LEMMA IndexKeepsTreeInv ==
    ASSUME TypeOK, TreeInv, NEW d \in Document, Index(d)
    PROVE  TreeInv'
<1>1. /\ phase = "IndexedContent" /\ d \in building
      /\ state' = [state EXCEPT ![d] = "IndexedContent"]
      /\ exported' = [exported EXCEPT ![d] = Exports(d, text[d])]
      /\ UNCHANGED <<text, phase, building, packageContents>>
    BY DEF Index, IndexDocument, Process, Pending, builderVars
<1>2. text[d] \in Module
    BY ProcessKeepsTypes DEF Index, Phases
<1>3. IndexIsFiled' /\ IndexIsCurrent'
    BY <1>1, <1>2, ExportsAreDescriptions
       DEF TypeOK, ManagerTypeOK, TreeInv, IndexIsFiled, IndexIsCurrent, Settled
<1>4. BuildIsOrderly'
    BY <1>1 DEF TypeOK, TreeInv, BuildIsOrderly
<1>5. ASSUME NEW x \in Document, state'[x] \in Settled
      PROVE  Agrees(x)'
    <2>1. x # d /\ exported'[x] = exported[x] /\ Agrees(x)
        BY <1>1, <1>5 DEF TypeOK, ManagerTypeOK, TreeInv, Settled
    <2>. QED
        BY <1>1, <2>1, AgreesIsStable
<1>. QED
    BY <1>3, <1>4, <1>5 DEF TreeInv

\* The later steps on a document leave index and tree alone.
LEMMA LaterStepsKeepTreeInv ==
    ASSUME TypeOK, TreeInv, NEW d \in Document, NEW p \in Settled, Process(d, p),
           UNCHANGED managerVars
    PROVE  TreeInv'
<1>1. /\ phase = p /\ d \in building
      /\ state' = [state EXCEPT ![d] = p]
      /\ UNCHANGED <<text, phase, building, exported, packageContents>>
    BY DEF Process, Pending, builderVars, managerVars
<1>2. /\ Agrees(d)
      /\ state[d] \in Settled \cup {"IndexedContent"}
    BY <1>1 DEF TreeInv, BuildIsOrderly, TypeOK, States, Phases, Settled, Exists
<1>3. \A x \in Document : Agrees(x) => Agrees(x)'
    BY <1>1, AgreesIsStable
<1>4. IndexIsFiled' /\ IndexIsCurrent'
    BY <1>1, <1>2 DEF TypeOK, TreeInv, IndexIsFiled, IndexIsCurrent, Settled
<1>5. BuildIsOrderly'
    BY <1>1, <1>3 DEF TypeOK, TreeInv, BuildIsOrderly, Settled, LinkedStates
<1>6. \A x \in Document : state'[x] \in Settled => Agrees(x)'
    BY <1>1, <1>2, <1>3 DEF TypeOK, TreeInv
<1>. QED
    BY <1>4, <1>5, <1>6 DEF TreeInv

LEMMA FinishPhaseKeepsTreeInv ==
    ASSUME TypeOK, TreeInv, FinishPhase
    PROVE  TreeInv'
<1>1. /\ UNCHANGED <<text, state>>
      /\ phase' = NextPhase
      /\ building' = IF phase = "Validated" THEN {} ELSE building
    BY DEF FinishPhase
<1>2. exported' = exported
    BY DEF FinishPhase, BuildPackageStructures, managerVars
<1>3. \A d \in Document : Agrees(d) => Agrees(d)'
    <2>1. CASE BuildPackageStructures
        BY <2>1, BuildingAgrees DEF TypeOK, TreeInv
    <2>2. CASE UNCHANGED managerVars
        BY <2>2, AgreesIsStable DEF managerVars
    <2>. QED
        BY <2>1, <2>2 DEF FinishPhase
<1>4. IndexIsFiled' /\ IndexIsCurrent'
    BY <1>1, <1>2 DEF TreeInv, IndexIsFiled, IndexIsCurrent
<1>5. \A d \in Document : state'[d] \in Settled => Agrees(d)'
    BY <1>1, <1>3 DEF TreeInv
<1>6. ASSUME NEW d \in building, phase = "IndexedContent"
      PROVE  state[d] # "Changed" /\ Agrees(d)'
    <2>1. ~Pending(d) /\ d \in Document
        BY <1>6 DEF FinishPhase, PhaseDone, TypeOK
    <2>2. state[d] \in Settled \cup {"IndexedContent"}
        BY <1>6, <2>1 DEF Pending, Rank, TypeOK, States, Phases, Settled, Exists
    <2>3. CASE Announced
        <3>1. BuildPackageStructures
            BY <2>3 DEF FinishPhase
        <3>. QED
            BY <2>1, <2>2, <3>1, BuildingAgrees DEF TypeOK, TreeInv, Settled
    <2>4. CASE ~Announced
        <3>1. state[d] \in Settled
            BY <1>6, <2>2, <2>4 DEF Announced
        <3>. QED
            BY <2>1, <3>1, <1>3 DEF TreeInv, Settled
    <2>. QED
        BY <2>3, <2>4
<1>7. ASSUME phase \in {"Linked", "IndexedReferences", "Validated"}, NEW d \in building
      PROVE  state[d] \in LinkedStates
    <2>1. ~Pending(d) /\ d \in Document
        BY <1>7 DEF FinishPhase, PhaseDone, TypeOK
    <2>2. CASE phase = "Linked"
        BY <2>1, <2>2 DEF Pending, Rank, TypeOK, States, Phases, LinkedStates, Exists
    <2>3. CASE phase \in {"IndexedReferences", "Validated"}
        BY <2>3 DEF TreeInv, BuildIsOrderly
    <2>. QED
        BY <1>7, <2>2, <2>3
<1>9. ASSUME phase \in {"IndexedReferences", "Validated"}, NEW d \in building
      PROVE  state[d] \in {"IndexedReferences", "Validated"}
    <2>1. ~Pending(d) /\ d \in Document
        BY <1>9 DEF FinishPhase, PhaseDone, TypeOK
    <2>2. CASE phase = "IndexedReferences"
        BY <1>7, <2>1, <2>2 DEF Pending, Rank, LinkedStates
    <2>3. CASE phase = "Validated"
        BY <2>3 DEF TreeInv, BuildIsOrderly
    <2>. QED
        BY <1>9, <2>2, <2>3
<1>8. BuildIsOrderly'
    BY <1>1, <1>3, <1>6, <1>7, <1>9
       DEF BuildIsOrderly, TreeInv, TypeOK, Phases, NextPhase, FinishPhase, PhaseDone
<1>. QED
    BY <1>4, <1>5, <1>8 DEF TreeInv

LEMMA BuildKeepsTreeInv ==
    ASSUME TypeOK, TreeInv, Build
    PROVE  TreeInv'
<1>1. ASSUME NEW d \in Document, Index(d)
      PROVE  TreeInv'
    BY <1>1, IndexKeepsTreeInv
<1>2. ASSUME NEW d \in Document,
             ComputeScopes(d) \/ Link(d) \/ IndexReferences(d) \/ Validate(d)
      PROVE  TreeInv'
    <2>1. PICK p \in Settled : Process(d, p)
        BY <1>2 DEF ComputeScopes, Link, IndexReferences, Validate, Settled
    <2>2. UNCHANGED managerVars
        BY <1>2 DEF ComputeScopes, Link, IndexReferences, Validate
    <2>. QED
        BY <2>1, <2>2, LaterStepsKeepTreeInv
<1>. QED
    BY <1>1, <1>2, FinishPhaseKeepsTreeInv DEF Build

\* Steps that touch neither documents, index, tree nor builder.
LEMMA OtherStepsKeepTreeInv ==
    ASSUME TypeOK, TreeInv, UNCHANGED <<managerVars, text, state, builderVars>>
    PROVE  TreeInv'
<1>1. UNCHANGED <<exported, packageContents, text, state, phase, building>>
    BY DEF managerVars, builderVars
<1>2. \A d \in Document : Agrees(d) => Agrees(d)'
    BY <1>1, AgreesIsStable
<1>3. IndexIsFiled' /\ IndexIsCurrent'
    BY <1>1 DEF TreeInv, IndexIsFiled, IndexIsCurrent
<1>4. BuildIsOrderly'
    <2>1. building \subseteq Document
        BY DEF TypeOK
    <2>. QED
        BY <1>1, <1>2, <2>1 DEF TreeInv, BuildIsOrderly
<1>. QED
    BY <1>1, <1>2, <1>3, <1>4 DEF TreeInv

LEMMA TreeInvIsKept == TypeOK /\ TreeInv /\ [Next]_vars => TreeInv'
<1>1. ASSUME TypeOK, TreeInv, Edit
      PROVE  TreeInv'
    <2>1. PICK touched \in SUBSET Document :
              \E new \in [touched -> Module \cup {Absent}] : Update(new)
        BY <1>1, WorkspaceAssumption DEF Edit
    <2>. QED
        BY <1>1, <2>1, EditKeepsTreeInv
<1>2. ASSUME TypeOK, TreeInv, NEW d \in Document, Complete(d)
      PROVE  TreeInv'
    BY <1>2, OtherStepsKeepTreeInv DEF Complete, FillCaches
<1>3. ASSUME TypeOK, TreeInv, UNCHANGED vars
      PROVE  TreeInv'
    BY <1>3, OtherStepsKeepTreeInv DEF vars
<1>. QED
    BY <1>1, <1>2, <1>3, BuildKeepsTreeInv DEF Next

\* The package tree holds exactly the declarations that the current texts of
\* the documents export, from the moment their scopes are computed.
THEOREM PackageTreeCorrect == Spec => []PackageTreeMatchesIndex
<1>1. Init => TreeInv
    BY TreeInvInitially
<1>2. TypeOK /\ TreeInv => PackageTreeMatchesIndex
    <2>1. ASSUME TypeOK, TreeInv, NEW d \in Document, Rank(state[d]) >= Rank("ComputedScopes")
          PROVE  state[d] \in Settled /\ Agrees(d) /\ exported[d] = Exports(d, text[d])
        <3>1. state[d] \in Settled
            BY <2>1 DEF TypeOK, States, Phases, Rank, Settled
        <3>. QED
            BY <2>1, <3>1 DEF TreeInv, IndexIsCurrent
    <2>. QED
        BY <2>1 DEF PackageTreeMatchesIndex, Agrees, Held
<1>. QED
    BY <1>1, <1>2, TreeInvIsKept, TypeCorrect, PTL DEF Spec

-----------------------------------------------------------------------------
(* What may be seen.                                                       *)

\* May document d refer to the declaration that e describes?
IsVisible(d, e) == e.visibility = "public" \/ e.package = text[d].package

VisibleBinding(d) == {b \in Binding : IsVisible(d, b.target)}

\* A node of the tree holds declarations of its own package.
TreeIsFiled ==
    \A path \in DOMAIN packageContents : \A e \in packageContents[path] : e.package = path

\* Neither the caches nor the links have anything that may not be seen.
CachesAreVisible ==
    /\ \A d \in Document : scopeCache[d] # Uncached =>
           \A i \in 1 .. 3 : scopeCache[d][i] \subseteq VisibleBinding(d)
    /\ coreCache # Uncached => \A e \in coreCache : e.visibility = "public"

VisibilityInv == TreeIsFiled /\ CachesAreVisible /\ InternalStaysInPackage

-----------------------------------------------------------------------------
(* Scopes.                                                                 *)

\* A query that hides internal declarations returns public ones only, and one
\* of a package only declarations of the package.
LEMMA QueriesRespectVisibility ==
    ASSUME TreeIsFiled, NEW p
    PROVE  /\ \A e \in GetDeclarationsInPackage(p, TRUE) : e.visibility = "public"
           /\ \A e \in GetDeclarationsInPackageOrSubpackage(p, TRUE) : e.visibility = "public"
           /\ \A hide : \A e \in GetDeclarationsInPackage(p, hide) : e.package = p
BY DEF TreeIsFiled, GetDeclarationsInPackage, GetDeclarationsInPackageOrSubpackage,
       FilterDescriptions, HasContents

LEMMA ImportLinksAreVisible ==
    ASSUME TreeIsFiled, NEW d \in Document, NEW l \in ImportLinks(d)
    PROVE  IsVisible(d, l.target)
<1>1. PICK imp \in QualifiedImports(d) : l.target \in ScopeForImportedDeclaration(d, imp)
    BY DEF ImportLinks
<1>2. l.target \in GetDeclarationsInPackage(imp.package, imp.package # text[d].package)
    BY <1>1 DEF ScopeForImportedDeclaration
<1>3. CASE imp.package = text[d].package
    BY <1>2, <1>3, QueriesRespectVisibility DEF IsVisible
<1>4. CASE imp.package # text[d].package
    <2>1. l.target \in GetDeclarationsInPackage(imp.package, TRUE)
        BY <1>2, <1>4
    <2>. QED
        BY <2>1, QueriesRespectVisibility DEF IsVisible
<1>. QED
    BY <1>3, <1>4

\* Bindings of visible descriptions.
LEMMA BindingsAreVisible ==
    ASSUME NEW d \in Document, NEW S, S \subseteq Description, \A e \in S : IsVisible(d, e)
    PROVE  Bindings(S) \subseteq VisibleBinding(d)
<1>1. \A b \in Bindings(S) : b.target \in S
    BY DEF Bindings
<1>. QED
    BY <1>1, BindingsAreTyped DEF VisibleBinding

LEMMA GlobalScopeIsVisible ==
    ASSUME ManagerTypeOK, ScopeTypeOK, TreeIsFiled, CachesAreVisible,
           NEW d \in Document, text[d] \in Module,
           NEW importLinks \in SUBSET ImportLink,
           \A l \in importLinks : IsVisible(d, l.target)
    PROVE  \A i \in 1 .. 3 : GetGlobalScope(d, importLinks)[i] \subseteq VisibleBinding(d)
<1>1. ExplicitlyImportedDeclarations(d, importLinks) \subseteq VisibleBinding(d)
    <2>1. {[name |-> VisibleName(l.import), target |-> l.target] : l \in importLinks}
              \subseteq VisibleBinding(d)
        <3>1. ASSUME NEW l \in importLinks
              PROVE  [name |-> VisibleName(l.import), target |-> l.target] \in Binding
            BY DEF Binding, ImportLink, QualifiedImport, VisibleName
        <3>. QED
            BY <3>1 DEF VisibleBinding
    <2>2. Bindings(UNION {GetDeclarationsInPackage(imp.package, TRUE) :
                              imp \in WildcardImports(d)}) \subseteq VisibleBinding(d)
        <3>. DEFINE S == UNION {GetDeclarationsInPackage(imp.package, TRUE) :
                                    imp \in WildcardImports(d)}
        <3>1. S \subseteq Description
            BY QueriesReturnDescriptions
        <3>2. \A e \in S : e.visibility = "public"
            BY QueriesRespectVisibility
        <3>3. \A e \in S : IsVisible(d, e)
            BY <3>2 DEF IsVisible
        <3>. HIDE DEF S
        <3>4. Bindings(S) \subseteq VisibleBinding(d)
            BY <3>1, <3>3, BindingsAreVisible
        <3>. QED
            BY <3>4 DEF S
    <2>. QED
        BY <2>1, <2>2 DEF ExplicitlyImportedDeclarations
<1>2. Bindings(DeclarationsInSamePackage(d)) \subseteq VisibleBinding(d)
    BY QueriesReturnDescriptions, QueriesRespectVisibility, BindingsAreVisible
       DEF DeclarationsInSamePackage, IsVisible
<1>3. Bindings(BuiltinDeclarations) \subseteq VisibleBinding(d)
    BY QueriesReturnDescriptions, QueriesRespectVisibility, BindingsAreVisible
       DEF BuiltinDeclarations, IsVisible
<1>4. \A i \in 1 .. 3 : GlobalScopeForNode(d, importLinks)[i] \subseteq VisibleBinding(d)
    BY <1>1, <1>2, <1>3 DEF GlobalScopeForNode
<1>. QED
    BY <1>4 DEF GetGlobalScope, Get, CachesAreVisible

\* Everything in the scope of a reference may be seen.
LEMMA ScopeIsVisible ==
    ASSUME ManagerTypeOK, ScopeTypeOK, TreeIsFiled, CachesAreVisible,
           NEW d \in Document, text[d] \in Module,
           NEW importLinks \in SUBSET ImportLink,
           \A l \in importLinks : IsVisible(d, l.target)
    PROVE  LET scope == ScopeForReferenceTarget(d, importLinks)
           IN  \A i \in DOMAIN scope : scope[i] \subseteq VisibleBinding(d)
<1>. DEFINE inner == <<Bindings(GetCoreDeclarations), GlobalDeclarationsInSameFile(d)>>
            outer == GetGlobalScope(d, importLinks)
<1>1. Bindings(GetCoreDeclarations) \subseteq VisibleBinding(d)
    <2>1. GetCoreDeclarations \subseteq Description
        BY QueriesReturnDescriptions
           DEF GetCoreDeclarations, Get, CoreDeclarations, ScopeTypeOK
    <2>2. \A e \in GetCoreDeclarations : e.visibility = "public"
        BY QueriesRespectVisibility
           DEF GetCoreDeclarations, Get, CoreDeclarations, CachesAreVisible
    <2>. QED
        BY <2>1, <2>2, BindingsAreVisible DEF IsVisible
<1>2. GlobalDeclarationsInSameFile(d) \subseteq VisibleBinding(d)
    BY BindingsAreVisible DEF GlobalDeclarationsInSameFile, Module, Description, IsVisible
<1>3. inner \in Seq(SUBSET VisibleBinding(d))
    BY <1>1, <1>2
<1>4. outer \in [1 .. 3 -> SUBSET VisibleBinding(d)]
    BY GlobalScopeIsTyped, GlobalScopeIsVisible
<1>5. ScopeForReferenceTarget(d, importLinks) = inner \o outer
    BY DEF ScopeForReferenceTarget
<1>. HIDE DEF inner, outer
<1>6. outer \in Seq(SUBSET VisibleBinding(d))
    BY <1>4, LayersAreASequence
<1>7. inner \o outer \in Seq(SUBSET VisibleBinding(d))
    BY <1>3, <1>6, ConcatProperties, Zenon
<1>. QED
    BY <1>5, <1>7, LenProperties

LEMMA LinksAreVisible ==
    ASSUME ManagerTypeOK, ScopeTypeOK, TreeIsFiled, CachesAreVisible,
           NEW d \in Document, text[d] \in Module
    PROVE  \A l \in LinksOf(d).imports \cup LinksOf(d).targets : IsVisible(d, l.target)
<1>1. ImportLinks(d) \in SUBSET ImportLink /\ \A l \in ImportLinks(d) : IsVisible(d, l.target)
    BY ImportLinksAreTyped, ImportLinksAreVisible
<1>2. \A n : \A e \in Resolve(ScopeForReferenceTarget(d, ImportLinks(d)), n) : IsVisible(d, e)
    BY <1>1, ScopeIsVisible DEF Resolve, VisibleBinding
<1>. QED
    BY <1>1, <1>2 DEF LinksOf

\* Filling the caches keeps them visible.
LEMMA FilledCachesAreVisible ==
    ASSUME ManagerTypeOK, ScopeTypeOK, TreeIsFiled, CachesAreVisible, UNCHANGED text,
           NEW d \in Document, text[d] \in Module,
           NEW importLinks \in SUBSET ImportLink,
           \A l \in importLinks : IsVisible(d, l.target),
           FillCaches(d, importLinks)
    PROVE  CachesAreVisible'
<1>1. \A x \in Document : VisibleBinding(x)' = VisibleBinding(x)
    BY DEF VisibleBinding, IsVisible
<1>2. \A i \in 1 .. 3 : GetGlobalScope(d, importLinks)[i] \subseteq VisibleBinding(d)
    BY GlobalScopeIsVisible
<1>3. \A e \in GetCoreDeclarations : e.visibility = "public"
    BY QueriesRespectVisibility
       DEF GetCoreDeclarations, Get, CoreDeclarations, CachesAreVisible
<1>. QED
    BY <1>1, <1>2, <1>3 DEF FillCaches, CachesAreVisible, ScopeTypeOK

-----------------------------------------------------------------------------
(* The steps.                                                              *)

LEMMA VisibilityInvInitially == Init => VisibilityInv
BY DEF Init, ManagerInit, VisibilityInv, TreeIsFiled, CachesAreVisible,
       InternalStaysInPackage, LinkTargets, Unlinked

\* An update clears the caches and unlinks the documents whose texts change.
LEMMA EditKeepsVisibility ==
    ASSUME TypeOK, VisibilityInv, Edit
    PROVE  VisibilityInv'
<1>1. PICK touched \in SUBSET Document :
          \E new \in [touched -> Module \cup {Absent}] : Update(new)
    BY WorkspaceAssumption DEF Edit
<1>2. PICK new \in [touched -> Module \cup {Absent}] : Update(new)
    BY <1>1
<1>3. /\ UNCHANGED packageContents
      /\ ClearCaches
      /\ \A d \in Document : links'[d] = Unlinked \/ (links'[d] = links[d] /\ text'[d] = text[d])
    BY <1>2 DEF Update
<1>4. TreeIsFiled' /\ CachesAreVisible'
    BY <1>3 DEF VisibilityInv, TreeIsFiled, CachesAreVisible, ClearCaches
<1>5. InternalStaysInPackage'
    BY <1>3 DEF VisibilityInv, InternalStaysInPackage, LinkTargets, Unlinked
<1>. QED
    BY <1>4, <1>5 DEF VisibilityInv

LEMMA LinkKeepsVisibility ==
    ASSUME TypeOK, VisibilityInv, NEW d \in Document, Link(d)
    PROVE  VisibilityInv'
<1>1. text[d] \in Module
    BY ProcessKeepsTypes DEF Link, Phases
<1>2. UNCHANGED <<packageContents, text>> /\ LinkDocument(d)
    BY DEF Link, Process, managerVars
<1>3. TreeIsFiled'
    BY <1>2 DEF VisibilityInv, TreeIsFiled
<1>4. CachesAreVisible'
    <2>1. CASE UNCHANGED <<scopeCache, coreCache>>
        BY <1>2, <2>1 DEF VisibilityInv, CachesAreVisible, VisibleBinding, IsVisible
    <2>2. CASE FillCaches(d, ImportLinks(d))
        BY <1>1, <1>2, <2>2, FilledCachesAreVisible, ImportLinksAreTyped, ImportLinksAreVisible
           DEF TypeOK, VisibilityInv
    <2>. QED
        BY <1>2, <2>1, <2>2 DEF LinkDocument
<1>5. InternalStaysInPackage'
    <2>1. /\ links'[d] = LinksOf(d)
          /\ \A x \in Document \ {d} : links'[x] = links[x]
        BY <1>2 DEF LinkDocument, TypeOK, ScopeTypeOK
    <2>2. \A l \in LinksOf(d).imports \cup LinksOf(d).targets : IsVisible(d, l.target)
        BY <1>1, LinksAreVisible DEF TypeOK, VisibilityInv
    <2>3. \A x \in Document : \A l \in links'[x].imports \cup links'[x].targets :
              IsVisible(x, l.target)
        BY <2>1, <2>2 DEF VisibilityInv, InternalStaysInPackage, LinkTargets, IsVisible
    <2>. QED
        BY <1>2, <2>3 DEF InternalStaysInPackage, LinkTargets, IsVisible
<1>. QED
    BY <1>3, <1>4, <1>5 DEF VisibilityInv

\* A completion request relies on the imports that have been linked.
LEMMA CompleteKeepsVisibility ==
    ASSUME TypeOK, VisibilityInv, NEW d \in Document, Complete(d)
    PROVE  VisibilityInv'
<1>1. /\ text[d] \in Module
      /\ links[d].imports \in SUBSET ImportLink
      /\ \A l \in links[d].imports : IsVisible(d, l.target)
    BY DEF Complete, TypeOK, ScopeTypeOK, VisibilityInv, InternalStaysInPackage, LinkTargets,
           IsVisible
<1>2. /\ UNCHANGED <<packageContents, text, links>>
      /\ FillCaches(d, links[d].imports)
    BY DEF Complete, managerVars
<1>3. CachesAreVisible'
    BY <1>1, <1>2, FilledCachesAreVisible DEF TypeOK, VisibilityInv
<1>. QED
    BY <1>2, <1>3 DEF VisibilityInv, TreeIsFiled, InternalStaysInPackage, LinkTargets

\* Steps that touch neither texts, links nor caches, and leave the tree filed.
LEMMA OtherStepsKeepVisibility ==
    ASSUME VisibilityInv, UNCHANGED <<text, scopeVars>>, TreeIsFiled'
    PROVE  VisibilityInv'
BY DEF VisibilityInv, CachesAreVisible, InternalStaysInPackage, LinkTargets, VisibleBinding,
       IsVisible, scopeVars

LEMMA BuildKeepsVisibility ==
    ASSUME TypeOK, VisibilityInv, Build
    PROVE  VisibilityInv'
<1>1. CASE FinishPhase
    <2>1. TreeIsFiled'
        <3>1. CASE BuildPackageStructures
            BY <3>1 DEF BuildPackageStructures, TreeOf, TreeIsFiled
        <3>2. CASE UNCHANGED managerVars
            BY <3>2 DEF managerVars, VisibilityInv, TreeIsFiled
        <3>. QED
            BY <1>1, <3>1, <3>2 DEF FinishPhase
    <2>. QED
        BY <1>1, <2>1, OtherStepsKeepVisibility DEF FinishPhase
<1>2. ASSUME NEW d \in Document,
             Index(d) \/ ComputeScopes(d) \/ IndexReferences(d) \/ Validate(d)
      PROVE  VisibilityInv'
    <2>1. UNCHANGED <<text, scopeVars, packageContents>>
        BY <1>2 DEF Index, IndexDocument, ComputeScopes, IndexReferences, Validate, Process,
                    managerVars
    <2>2. TreeIsFiled'
        BY <2>1 DEF VisibilityInv, TreeIsFiled
    <2>. QED
        BY <2>1, <2>2, OtherStepsKeepVisibility
<1>. QED
    BY <1>1, <1>2, LinkKeepsVisibility DEF Build

LEMMA VisibilityInvIsKept == TypeOK /\ VisibilityInv /\ [Next]_vars => VisibilityInv'
<1>1. ASSUME VisibilityInv, UNCHANGED vars
      PROVE  VisibilityInv'
    BY <1>1, OtherStepsKeepVisibility DEF vars, managerVars, VisibilityInv, TreeIsFiled
<1>. QED
    BY <1>1, EditKeepsVisibility, BuildKeepsVisibility, CompleteKeepsVisibility DEF Next

\* No reference of any document is ever linked to an internal declaration of
\* another package, whatever is imported, edited, cancelled or cached.
THEOREM InternalIsPrivate == Spec => []InternalStaysInPackage
<1>1. VisibilityInv => InternalStaysInPackage
    BY DEF VisibilityInv
<1>. QED
    BY <1>1, VisibilityInvIsKept, VisibilityInvInitially, TypeCorrect, PTL DEF Spec

-----------------------------------------------------------------------------
(* The package view: strengthening the invariants.                         *)

\* Builtin documents declare what they always did, and only they are in the
\* package of the core declarations.
IsLawful(x) ==
    IF x.uri \in Builtin THEN Exists(x.uri) /\ x \in Offered(x.uri)
                         ELSE x.package # LangPackage

TextsAreLawful ==
    \A d \in Document \ Builtin : text[d] # Absent => text[d].package # LangPackage

TreeIsLawful ==
    \A path \in DOMAIN packageContents : \A x \in packageContents[path] :
        x.package \in Package /\ IsLawful(x)

IndexIsLawful == \A d \in Document : \A x \in Listed(exported[d]) : IsLawful(x)

CoreCacheIsLawful ==
    coreCache # Uncached => \A x \in coreCache : x.uri \in Builtin /\ IsLawful(x)

CoreInv == TextsAreLawful /\ IndexIsLawful /\ TreeIsLawful /\ CoreCacheIsLawful

\* Only linked documents have links and a cached scope.
LinkInv ==
    \A d \in Document : state[d] \notin LinkedStates =>
        links[d] = Unlinked /\ scopeCache[d] = Uncached

\* The index knows where the references of a document lead that has got through
\* the phase in which they are indexed.
ReferencesInv ==
    \A d \in Registered : \A e \in AnswersOf(d) : e.uri \in referenceIndex[d]

ViewInv == TypeOK /\ TreeInv /\ VisibilityInv /\ CoreInv /\ LinkInv /\ ReferencesInv

-----------------------------------------------------------------------------
(* The core declarations.                                                  *)

LEMMA CoreIsLawful ==
    ASSUME ManagerTypeOK, CoreInv, TreeIsFiled
    PROVE  \A x \in GetCoreDeclarations : x.uri \in Builtin /\ IsLawful(x)
<1>1. ASSUME NEW x \in CoreDeclarations
      PROVE  x.uri \in Builtin /\ IsLawful(x)
    <2>1. /\ LangPackage \in DOMAIN packageContents
          /\ x \in packageContents[LangPackage]
        BY <1>1 DEF CoreDeclarations, GetDeclarationsInPackage, FilterDescriptions, HasContents
    <2>2. x.package = LangPackage /\ IsLawful(x)
        BY <2>1 DEF TreeIsFiled, CoreInv, TreeIsLawful
    <2>. QED
        BY <2>2 DEF IsLawful
<1>. QED
    BY <1>1 DEF GetCoreDeclarations, Get, CoreInv, CoreCacheIsLawful

LEMMA ExportsAreLawful ==
    ASSUME NEW d \in Document, TextsAreLawful, text[d] \in Module, text[d] # Absent
    PROVE  \A x \in Listed(Exports(d, text[d])) : IsLawful(x)
BY DEF Exports, Listed, IsLawful, Exists, Offered, TextsAreLawful

\* Steps that keep the texts of builtin documents keep what is lawful.
LEMMA LawfulIsStable ==
    ASSUME \A d \in Builtin : text'[d] = text[d]
    PROVE  \A x : IsLawful(x) => IsLawful(x)'
BY DEF IsLawful, Exists, Offered, Exports, Listed, IsValidPackageName

LEMMA CoreInvInitially == Init => CoreInv
BY WorkspaceAssumption, CoreAssumption
   DEF Init, ManagerInit, CoreInv, TextsAreLawful, IndexIsLawful, TreeIsLawful,
       CoreCacheIsLawful, Listed

LEMMA EditKeepsCore ==
    ASSUME TypeOK, CoreInv, Edit
    PROVE  CoreInv'
<1>1. PICK touched \in SUBSET {d \in Document : Menu[d] # {}} :
          \E new \in [touched -> UNION {Menu[d] : d \in touched}] :
              /\ \A d \in touched : new[d] \in Menu[d] \ {text[d]}
              /\ Update(new)
    BY DEF Edit
<1>2. PICK new \in [touched -> UNION {Menu[d] : d \in touched}] :
          /\ \A d \in touched : new[d] \in Menu[d] \ {text[d]}
          /\ Update(new)
    BY <1>1
<1>3. DOMAIN new = touched
    OBVIOUS
<1>4. /\ text' = [d \in Document |-> IF d \in touched THEN new[d] ELSE text[d]]
      /\ exported' = [d \in Document |->
                        IF d \in touched /\ new[d] = Absent THEN {} ELSE exported[d]]
      /\ ClearCaches
      /\ UNCHANGED packageContents
    BY <1>2, <1>3 DEF Update
<1>5. \A d \in Builtin : d \in Document /\ d \notin touched /\ text'[d] = text[d]
    BY <1>1, <1>4, WorkspaceAssumption
<1>6. TextsAreLawful'
    BY <1>2, <1>4, CoreAssumption DEF CoreInv, TextsAreLawful
<1>7. IndexIsLawful'
    <2>1. \A d \in Document : exported'[d] \subseteq exported[d]
        BY <1>4
    <2>2. \A d \in Document : Listed(exported'[d]) \subseteq Listed(exported[d])
        BY <2>1 DEF Listed
    <2>3. \A d \in Document : Listed(exported[d])' = Listed(exported'[d])
        BY DEF Listed, IsValidPackageName
    <2>. QED
        BY <1>5, <2>2, <2>3, LawfulIsStable DEF CoreInv, IndexIsLawful
<1>8. TreeIsLawful'
    BY <1>4, <1>5, LawfulIsStable DEF CoreInv, TreeIsLawful
<1>9. CoreCacheIsLawful'
    BY <1>4 DEF ClearCaches, CoreCacheIsLawful
<1>. QED
    BY <1>6, <1>7, <1>8, <1>9 DEF CoreInv

LEMMA IndexKeepsCore ==
    ASSUME TypeOK, CoreInv, NEW d \in Document, Index(d)
    PROVE  CoreInv'
<1>1. text[d] \in Module /\ text[d] # Absent
    BY ProcessKeepsTypes, ScopeAssumption DEF Index, Phases
<1>2. /\ exported' = [exported EXCEPT ![d] = Exports(d, text[d])]
      /\ UNCHANGED <<text, packageContents, coreCache>>
    BY DEF Index, IndexDocument, Process, scopeVars
<1>3. \A x : IsLawful(x) => IsLawful(x)'
    BY <1>2, LawfulIsStable
<1>4. IndexIsLawful'
    <2>1. \A x \in Listed(Exports(d, text[d])) : IsLawful(x)
        BY <1>1, ExportsAreLawful DEF CoreInv
    <2>2. \A e \in Document : \A x \in Listed(exported'[e]) : IsLawful(x)
        BY <1>2, <2>1 DEF CoreInv, IndexIsLawful, TypeOK, ManagerTypeOK
    <2>3. \A e \in Document : Listed(exported[e])' = Listed(exported'[e])
        BY DEF Listed, IsValidPackageName
    <2>. QED
        BY <1>3, <2>2, <2>3 DEF IndexIsLawful
<1>. QED
    BY <1>2, <1>3, <1>4 DEF CoreInv, TextsAreLawful, TreeIsLawful, CoreCacheIsLawful

LEMMA FinishPhaseKeepsCore ==
    ASSUME TypeOK, CoreInv, FinishPhase
    PROVE  CoreInv'
<1>1. UNCHANGED <<text, coreCache, exported>>
    BY DEF FinishPhase, BuildPackageStructures, scopeVars, managerVars
<1>2. \A x : IsLawful(x) => IsLawful(x)'
    BY <1>1, LawfulIsStable
<1>3. TreeIsLawful'
    <2>1. CASE BuildPackageStructures
        <3>. DEFINE elements == Listed(UNION {exported[d] : d \in Document})
        <3>1. \A path \in DOMAIN packageContents' :
                  packageContents'[path] \subseteq elements
            BY <2>1 DEF BuildPackageStructures, TreeOf
        <3>2. ASSUME NEW x \in elements
              PROVE  x.package \in Package /\ IsLawful(x)
            <4>1. PICK d \in Document : x \in Listed(exported[d])
                BY DEF Listed
            <4>2. x \in Description /\ x.package # NoPackage
                BY <4>1 DEF Listed, TypeOK, ManagerTypeOK
            <4>. QED
                BY <4>1, <4>2 DEF CoreInv, IndexIsLawful, Description
        <3>. HIDE DEF elements
        <3>. QED
            BY <1>2, <3>1, <3>2 DEF TreeIsLawful
    <2>2. CASE UNCHANGED managerVars
        BY <1>2, <2>2 DEF managerVars, CoreInv, TreeIsLawful
    <2>. QED
        BY <2>1, <2>2 DEF FinishPhase
<1>. QED
    BY <1>1, <1>2, <1>3 DEF CoreInv, TextsAreLawful, IndexIsLawful, CoreCacheIsLawful,
                            Listed, IsValidPackageName

\* Steps that at most fill the cache of the core declarations.
LEMMA FillingKeepsCore ==
    ASSUME TypeOK, CoreInv, TreeIsFiled, UNCHANGED <<text, exported, packageContents>>,
           coreCache' \in {coreCache, GetCoreDeclarations}
    PROVE  CoreInv'
<1>1. \A x : IsLawful(x) => IsLawful(x)'
    BY LawfulIsStable
<1>2. CoreCacheIsLawful'
    BY <1>1, CoreIsLawful DEF CoreInv, CoreCacheIsLawful, TypeOK
<1>3. IndexIsLawful'
    BY <1>1 DEF CoreInv, IndexIsLawful, Listed, IsValidPackageName
<1>. QED
    BY <1>1, <1>2, <1>3 DEF CoreInv, TextsAreLawful, TreeIsLawful

-----------------------------------------------------------------------------
(* The invariant.                                                          *)

LEMMA LinkInvIsKept ==
    ASSUME TypeOK, LinkInv, [Next]_vars
    PROVE  LinkInv'
<1>1. CASE Edit
    <2>1. PICK touched \in SUBSET Document :
              \E new \in [touched -> Module \cup {Absent}] : Update(new)
        BY <1>1, WorkspaceAssumption DEF Edit
    <2>2. PICK new \in [touched -> Module \cup {Absent}] : Update(new)
        BY <2>1
    <2>. DEFINE reset == touched \cup {d \in Document : ShouldRelink(d, touched)}
    <2>3. /\ \A d \in Document : scopeCache'[d] = Uncached
          /\ \A d \in Document : links'[d] = IF d \in reset THEN Unlinked ELSE links[d]
          /\ \A d \in Document : d \notin reset => state'[d] = state[d]
        BY <2>2 DEF Update, ClearCaches
    <2>. QED
        BY <2>3 DEF LinkInv
<1>2. ASSUME NEW d \in Document,
             Index(d) \/ ComputeScopes(d) \/ IndexReferences(d) \/ Validate(d)
      PROVE  LinkInv'
    <2>1. /\ UNCHANGED scopeVars
          /\ \E p \in {"IndexedContent", "ComputedScopes", "IndexedReferences", "Validated"} :
                 phase = p /\ state' = [state EXCEPT ![d] = p] /\ Rank(state[d]) < Rank(p)
        BY <1>2 DEF Index, ComputeScopes, IndexReferences, Validate, Process, Pending
    <2>2. state[d] \in LinkedStates => state'[d] \in LinkedStates
        BY <2>1 DEF TypeOK, Rank, LinkedStates
    <2>3. state'[d] \in LinkedStates => state[d] \in LinkedStates \/ links[d] = Unlinked
        BY DEF LinkInv
    <2>. QED
        BY <2>1, <2>2 DEF LinkInv, TypeOK, scopeVars
<1>3. ASSUME NEW d \in Document, Link(d)
      PROVE  LinkInv'
    <2>1. /\ state' = [state EXCEPT ![d] = "Linked"]
          /\ links' = [links EXCEPT ![d] = LinksOf(d)]
          /\ \A e \in Document \ {d} : scopeCache'[e] = scopeCache[e]
        BY <1>3 DEF Link, LinkDocument, Process, FillCaches, TypeOK, ScopeTypeOK
    <2>. QED
        BY <2>1 DEF LinkInv, LinkedStates, TypeOK, ScopeTypeOK
<1>4. ASSUME NEW d \in Document, Complete(d)
      PROVE  LinkInv'
    <2>1. /\ state[d] \in LinkedStates
          /\ UNCHANGED <<state, links>>
          /\ \A e \in Document \ {d} : scopeCache'[e] = scopeCache[e]
        BY <1>4 DEF Complete, FillCaches, TypeOK, ScopeTypeOK, LinkedStates
    <2>. QED
        BY <2>1 DEF LinkInv
<1>5. CASE FinishPhase \/ UNCHANGED vars
    BY <1>5 DEF FinishPhase, vars, scopeVars, LinkInv
<1>. QED
    BY <1>1, <1>2, <1>3, <1>4, <1>5 DEF Next, Build

LEMMA CoreInvIsKept ==
    ASSUME TypeOK, CoreInv, TreeIsFiled, [Next]_vars
    PROVE  CoreInv'
<1>1. ASSUME NEW d \in Document, Link(d) \/ Complete(d)
      PROVE  CoreInv'
    <2>1. /\ UNCHANGED <<text, exported, packageContents>>
          /\ coreCache' \in {coreCache, GetCoreDeclarations}
        BY <1>1 DEF Link, LinkDocument, Complete, Process, FillCaches, managerVars
    <2>. QED
        BY <2>1, FillingKeepsCore
<1>2. ASSUME NEW d \in Document, ComputeScopes(d) \/ IndexReferences(d) \/ Validate(d)
      PROVE  CoreInv'
    <2>1. UNCHANGED <<text, exported, packageContents, coreCache>>
        BY <1>2 DEF ComputeScopes, IndexReferences, Validate, Process, managerVars, scopeVars
    <2>. QED
        BY <2>1, FillingKeepsCore
<1>3. CASE UNCHANGED vars
    <2>1. UNCHANGED <<text, exported, packageContents, coreCache>>
        BY <1>3 DEF vars, managerVars, scopeVars
    <2>. QED
        BY <2>1, FillingKeepsCore
<1>. QED
    BY <1>1, <1>2, <1>3, EditKeepsCore, IndexKeepsCore, FinishPhaseKeepsCore DEF Next, Build

\* A document keeps its links and its entry in the index, or loses its links.
LEMMA ReferencesInvIsKept ==
    ASSUME TypeOK, TreeInv, ReferencesInv, [Next]_vars
    PROVE  ReferencesInv'
<1>1. ASSUME NEW c \in Document, c \in Registered', links'[c] = Unlinked
      PROVE  AnswersOf(c)' = {}
    BY <1>1 DEF AnswersOf, LinkTargets, Unlinked
<1>2. ASSUME NEW c \in Document, c \in Registered, links'[c] = links[c],
             referenceIndex'[c] = referenceIndex[c]
      PROVE  \A e \in AnswersOf(c)' : e.uri \in referenceIndex'[c]
    BY <1>2 DEF ReferencesInv, AnswersOf, LinkTargets
<1>3. CASE Edit
    <2>1. PICK touched \in SUBSET Document :
              \E new \in [touched -> Module \cup {Absent}] : Update(new)
        BY <1>3, WorkspaceAssumption DEF Edit
    <2>2. PICK new \in [touched -> Module \cup {Absent}] : Update(new)
        BY <2>1
    <2>3. ASSUME NEW c \in Document, c \in Registered'
          PROVE  /\ c \in Registered /\ referenceIndex'[c] = referenceIndex[c]
                 /\ links'[c] \in {Unlinked, links[c]}
        BY <2>2, <2>3 DEF Update, Registered
    <2>. QED
        BY <1>1, <1>2, <2>3 DEF ReferencesInv, Registered
<1>4. ASSUME NEW d \in Document, Index(d) \/ ComputeScopes(d) \/ Link(d)
      PROVE  ReferencesInv'
    <2>1. /\ referenceIndex' = referenceIndex
          /\ \E p \in Phases \ {"IndexedReferences", "Validated"} :
                 state' = [state EXCEPT ![d] = p]
          /\ \A c \in Document \ {d} : links'[c] = links[c]
        BY <1>4 DEF Index, ComputeScopes, Link, LinkDocument, Process, Phases, scopeVars,
                    TypeOK, ScopeTypeOK
    <2>2. \A c \in Registered' : c \in Registered /\ c # d
        BY <2>1 DEF Registered, TypeOK
    <2>. QED
        BY <1>2, <2>1, <2>2 DEF ReferencesInv, Registered
<1>5. ASSUME NEW d \in Document, IndexReferences(d)
      PROVE  ReferencesInv'
    <2>1. /\ referenceIndex' = [referenceIndex EXCEPT ![d] = {e.uri : e \in AnswersOf(d)}]
          /\ state' = [state EXCEPT ![d] = "IndexedReferences"]
          /\ links' = links
        BY <1>5 DEF IndexReferences, Process, scopeVars
    <2>2. \A e \in AnswersOf(d)' : e.uri \in referenceIndex'[d]
        BY <2>1 DEF AnswersOf, LinkTargets, TypeOK
    <2>3. ASSUME NEW c \in Registered', c # d
          PROVE  c \in Registered /\ referenceIndex'[c] = referenceIndex[c]
        <3>1. c \in Document /\ state'[c] = state[c]
            BY <2>1, <2>3 DEF Registered, TypeOK
        <3>2. referenceIndex'[c] = referenceIndex[c]
            BY <2>1, <2>3, <3>1, referenceIndex \in [Document -> SUBSET Document] DEF TypeOK
        <3>. QED
            BY <2>3, <3>1, <3>2 DEF Registered
    <2>4. ASSUME NEW c \in Registered', c # d
          PROVE  \A e \in AnswersOf(c)' : e.uri \in referenceIndex'[c]
        <3>1. c \in Document /\ links'[c] = links[c]
            BY <2>1, <2>4 DEF Registered
        <3>. QED
            BY <1>2, <2>3, <2>4, <3>1
    <2>5. ASSUME NEW c \in Registered'
          PROVE  \A e \in AnswersOf(c)' : e.uri \in referenceIndex'[c]
        <3>1. CASE c = d
            BY <2>2, <3>1
        <3>. QED
            BY <2>4, <2>5, <3>1
    <2>. QED
        BY <2>5 DEF ReferencesInv
<1>6. ASSUME UNCHANGED <<links, referenceIndex>>, Registered' \subseteq Registered
      PROVE  ReferencesInv'
    BY <1>2, <1>6 DEF ReferencesInv, Registered
<1>7. ASSUME NEW d \in Document, Validate(d)
      PROVE  ReferencesInv'
    <2>1. /\ UNCHANGED <<links, referenceIndex>> /\ phase = "Validated" /\ d \in building
          /\ state' = [state EXCEPT ![d] = "Validated"]
        BY <1>7 DEF Validate, Process, Pending, scopeVars
    <2>. QED
        BY <1>6, <2>1 DEF Registered, TypeOK, TreeInv, BuildIsOrderly
<1>8. CASE FinishPhase \/ UNCHANGED vars \/ \E d \in Document : Complete(d)
    BY <1>6, <1>8 DEF FinishPhase, Complete, vars, scopeVars, Registered
<1>. QED
    BY <1>3, <1>4, <1>5, <1>7, <1>8 DEF Next, Build

LEMMA ViewInvIsKept == ViewInv /\ [Next]_vars /\ TypeOK' => ViewInv'
BY TreeInvIsKept, VisibilityInvIsKept, CoreInvIsKept, LinkInvIsKept, ReferencesInvIsKept
   DEF ViewInv, VisibilityInv

-----------------------------------------------------------------------------
(* What is served.                                                         *)

\* Everything in the tree is served.
LEMMA TreeIsServed ==
    ASSUME ManagerTypeOK, TreeIsFiled, TreeIsLawful,
           NEW path \in DOMAIN packageContents, NEW x \in packageContents[path]
    PROVE  x.uri \in Document /\ x \in Served(x.uri)
<1>1. x \in Description /\ x.package = path /\ path \in Package /\ path # NoPackage
    BY PackageAssumption DEF ManagerTypeOK, TreeIsFiled, TreeIsLawful
<1>2. x \in Held(x.uri, path)
    BY <1>1 DEF Held, GetDeclarationsInPackage, FilterDescriptions, HasContents
<1>. QED
    BY <1>1, <1>2 DEF Served, Description

LEMMA QueriesAreServed ==
    ASSUME ManagerTypeOK, TreeIsFiled, TreeIsLawful, NEW p, NEW hide
    PROVE  /\ \A x \in GetDeclarationsInPackage(p, hide) : x \in Served(x.uri)
           /\ \A x \in GetDeclarationsInPackageOrSubpackage(p, hide) : x \in Served(x.uri)
BY TreeIsServed DEF GetDeclarationsInPackage, GetDeclarationsInPackageOrSubpackage,
                    FilterDescriptions, HasContents

\* An up-to-date tree serves what a document offers.
LEMMA AgreeingIsServed ==
    ASSUME ManagerTypeOK, NEW d \in Document, Agrees(d), exported[d] = Exports(d, text[d]),
           Exists(d)
    PROVE  Served(d) = Offered(d)
<1>1. \A x \in Listed(exported[d]) : x.package \in Package
    BY DEF Listed, ManagerTypeOK, Description
<1>2. Served(d) = UNION {{x \in Listed(exported[d]) : x.package = p} : p \in Package}
    BY DEF Served, Agrees
<1>. QED
    BY <1>1, <1>2 DEF Offered

OffersAreFiled ==
    \A d \in Document : Offered(d) \subseteq Description /\ \A x \in Offered(d) : x.uri = d

LEMMA OffersAreTyped == TypeOK => OffersAreFiled
<1>. SUFFICES ASSUME TypeOK, NEW d \in Document
              PROVE  Offered(d) \subseteq Description /\ \A x \in Offered(d) : x.uri = d
    BY DEF OffersAreFiled
<1>1. CASE Exists(d)
    <2>1. text[d] \in Module
        BY <1>1 DEF Exists, TypeOK, ScopeTypeOK
    <2>. QED
        BY <1>1, <2>1, ExportsAreDescriptions DEF Offered, Listed
<1>2. CASE ~Exists(d)
    BY <1>2 DEF Offered
<1>. QED
    BY <1>1, <1>2

-----------------------------------------------------------------------------
(* What a document is linked to.                                           *)

IsServedTo(d, x) == x.uri = d \/ x \in Served(x.uri)

ServedBinding(d) == {b \in Binding : IsServedTo(d, b.target)}

LEMMA BindingsAreServed ==
    ASSUME NEW d \in Document, NEW S, S \subseteq Description, \A x \in S : IsServedTo(d, x)
    PROVE  Bindings(S) \subseteq ServedBinding(d)
<1>1. \A b \in Bindings(S) : b.target \in S
    BY DEF Bindings
<1>. QED
    BY <1>1, BindingsAreTyped DEF ServedBinding

LEMMA ImportLinksAreServed ==
    ASSUME ManagerTypeOK, TreeIsFiled, TreeIsLawful, NEW d \in Document, NEW l \in ImportLinks(d)
    PROVE  IsServedTo(d, l.target)
<1>1. PICK imp \in QualifiedImports(d) : l.target \in ScopeForImportedDeclaration(d, imp)
    BY DEF ImportLinks
<1>. QED
    BY <1>1, QueriesAreServed DEF ScopeForImportedDeclaration, IsServedTo

LEMMA GlobalScopeIsServed ==
    ASSUME ManagerTypeOK, TreeIsFiled, TreeIsLawful,
           NEW d \in Document, text[d] \in Module,
           NEW importLinks \in SUBSET ImportLink,
           \A l \in importLinks : IsServedTo(d, l.target)
    PROVE  GlobalScopeForNode(d, importLinks) \in [1 .. 3 -> SUBSET ServedBinding(d)]
<1>1. ExplicitlyImportedDeclarations(d, importLinks) \subseteq ServedBinding(d)
    <2>1. {[name |-> VisibleName(l.import), target |-> l.target] : l \in importLinks}
              \subseteq ServedBinding(d)
        <3>1. ASSUME NEW l \in importLinks
              PROVE  [name |-> VisibleName(l.import), target |-> l.target] \in Binding
            BY DEF Binding, ImportLink, QualifiedImport, VisibleName
        <3>. QED
            BY <3>1 DEF ServedBinding
    <2>2. Bindings(UNION {GetDeclarationsInPackage(imp.package, TRUE) :
                              imp \in WildcardImports(d)}) \subseteq ServedBinding(d)
        <3>. DEFINE S == UNION {GetDeclarationsInPackage(imp.package, TRUE) :
                                    imp \in WildcardImports(d)}
        <3>1. S \subseteq Description
            BY QueriesReturnDescriptions
        <3>2. \A x \in S : IsServedTo(d, x)
            BY QueriesAreServed DEF IsServedTo
        <3>. HIDE DEF S
        <3>3. Bindings(S) \subseteq ServedBinding(d)
            BY <3>1, <3>2, BindingsAreServed
        <3>. QED
            BY <3>3 DEF S
    <2>. QED
        BY <2>1, <2>2 DEF ExplicitlyImportedDeclarations
<1>2. Bindings(DeclarationsInSamePackage(d)) \subseteq ServedBinding(d)
    BY QueriesReturnDescriptions, QueriesAreServed, BindingsAreServed
       DEF DeclarationsInSamePackage, IsServedTo
<1>3. Bindings(BuiltinDeclarations) \subseteq ServedBinding(d)
    BY QueriesReturnDescriptions, QueriesAreServed, BindingsAreServed
       DEF BuiltinDeclarations, IsServedTo
<1>. QED
    BY <1>1, <1>2, <1>3 DEF GlobalScopeForNode

\* At the time of linking, every layer of the scope is served.
LEMMA LinksAreServed ==
    ASSUME ViewInv, NEW d \in Document, text[d] \in Module, scopeCache[d] = Uncached,
           \A e \in Document : Exists(e) => Served(e) = Offered(e)
    PROVE  \A l \in LinksOf(d).imports \cup LinksOf(d).targets : IsServedTo(d, l.target)
<1>. DEFINE importLinks == ImportLinks(d)
            inner == <<Bindings(GetCoreDeclarations), GlobalDeclarationsInSameFile(d)>>
            outer == GlobalScopeForNode(d, importLinks)
<1>0. ManagerTypeOK /\ ScopeTypeOK /\ TreeIsFiled /\ CoreInv /\ TreeIsLawful
    BY DEF ViewInv, TypeOK, VisibilityInv, CoreInv
<1>1. importLinks \in SUBSET ImportLink /\ \A l \in importLinks : IsServedTo(d, l.target)
    BY <1>0, ImportLinksAreTyped, ImportLinksAreServed
<1>2. Bindings(GetCoreDeclarations) \subseteq ServedBinding(d)
    <2>1. GetCoreDeclarations \subseteq Description
        BY <1>0, QueriesReturnDescriptions
           DEF GetCoreDeclarations, Get, CoreDeclarations, ScopeTypeOK
    <2>2. \A x \in GetCoreDeclarations : x.uri \in Document /\ Exists(x.uri) /\ x \in Offered(x.uri)
        BY <1>0, CoreIsLawful, WorkspaceAssumption DEF IsLawful
    <2>. QED
        BY <2>1, <2>2, BindingsAreServed DEF IsServedTo
<1>3. GlobalDeclarationsInSameFile(d) \subseteq ServedBinding(d)
    BY BindingsAreServed DEF GlobalDeclarationsInSameFile, Module, Description, IsServedTo
<1>4. inner \in Seq(SUBSET ServedBinding(d))
    BY <1>2, <1>3
<1>5. outer \in [1 .. 3 -> SUBSET ServedBinding(d)]
    BY <1>0, <1>1, GlobalScopeIsServed
<1>6. ScopeForReferenceTarget(d, importLinks) = inner \o outer
    BY DEF ScopeForReferenceTarget, GetGlobalScope, Get
<1>. HIDE DEF inner, outer
<1>7. outer \in Seq(SUBSET ServedBinding(d))
    BY <1>5, LayersAreASequence
<1>8. inner \o outer \in Seq(SUBSET ServedBinding(d))
    BY <1>4, <1>7, ConcatProperties, Zenon
<1>9. \A n : \A x \in Resolve(ScopeForReferenceTarget(d, importLinks), n) : IsServedTo(d, x)
    BY <1>6, <1>8, LenProperties DEF Resolve, ServedBinding
<1>. QED
    BY <1>1, <1>9 DEF LinksOf

-----------------------------------------------------------------------------
(* The refinement.                                                         *)

LEMMA InitImplementsView == Init => View!Init
<1>. SUFFICES ASSUME Init PROVE View!Init
    OBVIOUS
<1>1. TypeOK
    BY TypesInitially
<1>2. [d \in Document |-> Offered(d)] \in View!Declarations
    BY <1>1, OffersAreTyped DEF OffersAreFiled, View!Declarations
<1>3. \A d \in Document : Served(d) = {} /\ AnswersOf(d) = {}
    BY DEF Init, ManagerInit, Served, Held, GetDeclarationsInPackage, FilterDescriptions,
           HasContents, AnswersOf, LinkTargets, Unlinked
<1>4. Answered = {} /\ Registered = {}
    BY DEF Init, Answered, Registered, LinkedStates
<1>. QED
    BY <1>2, <1>3, <1>4 DEF View!Init

\* The variables of the view that steps leave alone.
LEMMA TextsKeepOffers ==
    ASSUME UNCHANGED text
    PROVE  \A d \in Document : Offered(d)' = Offered(d) /\ Exists(d)' = Exists(d)
BY DEF Offered, Exists, Exports, Listed, IsValidPackageName

LEMMA TreeKeepsServed ==
    ASSUME UNCHANGED packageContents
    PROVE  \A d \in Document : Served(d)' = Served(d)
BY DEF Served, Held, GetDeclarationsInPackage, FilterDescriptions, HasContents

LEMMA EditImplementsView ==
    ASSUME ViewInv, TypeOK', Edit
    PROVE  View!Edit
<1>1. PICK touched \in SUBSET Document :
          \E new \in [touched -> Module \cup {Absent}] : Update(new)
    BY WorkspaceAssumption DEF Edit
<1>2. PICK new \in [touched -> Module \cup {Absent}] : Update(new)
    BY <1>1
<1>. DEFINE relinked == {d \in Document : ShouldRelink(d, touched)}
            reset == touched \cup relinked
<1>3. /\ text' = [d \in Document |-> IF d \in touched THEN new[d] ELSE text[d]]
      /\ state' = [d \in Document |->
                     IF d \in touched
                     THEN IF new[d] = Absent THEN "Absent" ELSE "Changed"
                     ELSE IF d \in relinked /\ state[d] \in LinkedStates
                   THEN "ComputedScopes" ELSE state[d]]
      /\ links' = [d \in Document |-> IF d \in reset THEN Unlinked ELSE links[d]]
      /\ UNCHANGED packageContents
    BY <1>2 DEF Update
<1>4. [d \in Document |-> Offered(d)]' \in View!Declarations
    <2>1. OffersAreFiled'
        BY OffersAreTyped, PTL
    <2>. QED
        BY <2>1 DEF OffersAreFiled, View!Declarations
<1>5. \A d \in Document \ touched : Offered(d)' = Offered(d) /\ Exists(d)' = Exists(d)
    BY <1>3 DEF Offered, Exists, Exports, Listed, IsValidPackageName
<1>6. /\ Answered' = {d \in Document : state'[d] \in LinkedStates}
      /\ Registered' = {d \in Document : state'[d] \in {"IndexedReferences", "Validated"}}
    BY DEF Answered, Registered
<1>7. Answered' = Answered \ reset /\ Registered' = Registered \ reset
    BY <1>3, <1>6 DEF LinkedStates, Answered, Registered
<1>8. ASSUME NEW d \in Registered', NEW x \in AnswersOf(d)
      PROVE  x.uri \notin touched
    <2>1. d \in Registered /\ d \in Document /\ d \notin reset
        BY <1>6, <1>7, <1>8
    <2>. QED
        BY <1>8, <2>1 DEF ShouldRelink, ViewInv, ReferencesInv
<1>9. \A d \in Document : AnswersOf(d)' = IF d \in Answered' THEN AnswersOf(d) ELSE {}
    <2>1. \A d \in Document : links[d] = Unlinked => AnswersOf(d) = {}
        BY DEF AnswersOf, LinkTargets, Unlinked
    <2>2. \A d \in Document : links'[d] = Unlinked => AnswersOf(d)' = {}
        BY DEF AnswersOf, LinkTargets, Unlinked
    <2>3. \A d \in Document : links'[d] = links[d] => AnswersOf(d)' = AnswersOf(d)
        BY DEF AnswersOf, LinkTargets
    <2>4. \A d \in Document : d \notin Answered => links[d] = Unlinked
        BY DEF ViewInv, LinkInv, Answered
    <2>. QED
        BY <1>3, <1>7, <2>1, <2>2, <2>3, <2>4
<1>10. \A d \in Document : Served(d)' = Served(d)
    BY <1>3, TreeKeepsServed
<1>. HIDE DEF relinked, reset
<1>11. Answered' \subseteq Answered \ touched
    BY <1>7 DEF reset
<1>12. UNCHANGED [d \in Document |-> Served(d)]
    BY <1>10
<1>13. [d \in Document |-> AnswersOf(d)]'
           = [d \in Document |-> IF d \in Answered' THEN AnswersOf(d) ELSE {}]
    BY <1>9
<1>14. {d \in Document : Exists(d)}' \subseteq Document
    OBVIOUS
<1>15. \A d \in Document \ touched :
           /\ [e \in Document |-> Offered(e)]'[d] = [e \in Document |-> Offered(e)][d]
           /\ d \in {e \in Document : Exists(e)}' <=> d \in {e \in Document : Exists(e)}
    BY <1>5
<1>16. /\ Registered' = Registered \cap Answered'
       /\ \A d \in Registered' : \A x \in [e \in Document |-> AnswersOf(e)][d] :
              x.uri \notin touched
    <2>1. Registered \subseteq Answered /\ Registered \subseteq Document
        BY DEF Registered, Answered, LinkedStates
    <2>. QED
        BY <1>7, <1>8, <2>1
<1>17. [d \in Document |-> AnswersOf(d)]'
           = [d \in Document |-> IF d \in Answered'
                                 THEN [e \in Document |-> AnswersOf(e)][d] ELSE {}]
    BY <1>13
<1>. QED
    BY <1>4, <1>11, <1>12, <1>14, <1>15, <1>16, <1>17 DEF View!Edit

LEMMA LinkImplementsView ==
    ASSUME ViewInv, NEW d \in Document, Link(d)
    PROVE  View!Answer(d)
<1>1. text[d] \in Module /\ text[d] # Absent
    BY ProcessKeepsTypes, ScopeAssumption DEF Link, Phases, ViewInv
<1>2. /\ phase = "Linked" /\ state[d] \notin LinkedStates
      /\ state' = [state EXCEPT ![d] = "Linked"]
      /\ links' = [links EXCEPT ![d] = LinksOf(d)]
      /\ UNCHANGED <<text, packageContents>>
    BY DEF Link, LinkDocument, Process, Pending, Rank, LinkedStates, managerVars
<1>3. ASSUME NEW e \in Document, Exists(e)
      PROVE  Served(e) = Offered(e)
    <2>1. Agrees(e) /\ state[e] \in Settled \cup {"IndexedContent"}
        BY <1>2, <1>3
           DEF ViewInv, TypeOK, States, Phases, TreeInv, BuildIsOrderly, Settled, Exists
    <2>. QED
        BY <1>3, <2>1, AgreeingIsServed DEF ViewInv, TypeOK, TreeInv, IndexIsCurrent
<1>4. \A x \in AnswersOf(d)' : x \in Served(x.uri) /\ x.uri \in Document
    <2>1. scopeCache[d] = Uncached
        BY <1>2 DEF ViewInv, LinkInv
    <2>2. \A l \in LinksOf(d).imports \cup LinksOf(d).targets : IsServedTo(d, l.target)
        BY <1>1, <1>3, <2>1, LinksAreServed
    <2>3. LinksOf(d) \in [imports : SUBSET ImportLink, targets : SUBSET Binding]
        BY <1>1, LinksAreTyped DEF ViewInv, TypeOK
    <2>4. links'[d] = LinksOf(d)
        BY <1>2 DEF ViewInv, TypeOK, ScopeTypeOK
    <2>5. AnswersOf(d)' = {x \in {l.target : l \in LinksOf(d).imports \cup LinksOf(d).targets} :
                              x.uri # d}
        BY <2>4 DEF AnswersOf, LinkTargets
    <2>. QED
        BY <2>2, <2>3, <2>5 DEF IsServedTo, ImportLink, Binding, Description
<1>5. Answered' = Answered \cup {d} /\ Registered' = Registered /\ d \notin Answered
    <2>1. /\ \A e \in Document : state'[e] = IF e = d THEN "Linked" ELSE state[e]
          /\ state[d] \notin LinkedStates
        BY <1>2 DEF ViewInv, TypeOK
    <2>. QED
        BY <2>1 DEF Answered, Registered, LinkedStates
<1>6. \A e \in Document \ {d} : AnswersOf(e)' = AnswersOf(e)
    BY <1>2 DEF AnswersOf, LinkTargets, ViewInv, TypeOK, ScopeTypeOK
<1>7. \A e \in Document : Offered(e)' = Offered(e) /\ Exists(e)' = Exists(e)
    BY <1>2, TextsKeepOffers
<1>8. \A e \in Document : Served(e)' = Served(e)
    BY <1>2, TreeKeepsServed
<1>9. AnswersOf(d)' \in SUBSET UNION {Served(e) : e \in Document}
    BY <1>4
<1>. QED
    BY <1>1, <1>3, <1>5, <1>6, <1>7, <1>8, <1>9 DEF View!Answer, Exists

\* A rebuilt tree serves what all documents offer.
LEMMA BuildingServes ==
    ASSUME ViewInv, FinishPhase, Announced, NEW d \in Document
    PROVE  Served(d)' = Offered(d)
<1>1. /\ phase = "IndexedContent" /\ UNCHANGED text
      /\ BuildPackageStructures
    BY DEF FinishPhase, Announced
<1>2. Agrees(d)' /\ exported' = exported
    BY <1>1, BuildingAgrees DEF ViewInv, TypeOK, TreeInv, BuildPackageStructures
<1>3. Served(d)' = UNION {{x \in Listed(exported[d]) : x.package = p} : p \in Package}
    BY <1>2 DEF Served, Agrees, Listed, IsValidPackageName
<1>4. \A x \in Listed(exported[d]) : x.package \in Package
    BY DEF Listed, ViewInv, TypeOK, ManagerTypeOK, Description
<1>5. Served(d)' = Listed(exported[d])
    BY <1>3, <1>4
<1>6. CASE ~Exists(d)
    <2>1. exported[d] = {}
        BY <1>6 DEF Exists, ViewInv, TypeOK, TreeInv, IndexIsCurrent
    <2>. QED
        BY <1>5, <1>6, <2>1 DEF Listed, Offered
<1>7. CASE Exists(d)
    <2>1. state[d] \in Settled \cup {"IndexedContent"}
        <3>1. CASE d \in building
            <4>1. ~Pending(d)
                BY <3>1 DEF FinishPhase, PhaseDone
            <4>. QED
                BY <1>1, <1>7, <3>1, <4>1
                   DEF Pending, Rank, ViewInv, TypeOK, States, Phases, Settled, Exists
        <3>2. CASE d \notin building
            BY <1>7, <3>2 DEF ViewInv, TypeOK, TreeInv, BuildIsOrderly, Settled, Exists
        <3>. QED
            BY <3>1, <3>2
    <2>2. exported[d] = Exports(d, text[d])
        BY <2>1 DEF ViewInv, TreeInv, IndexIsCurrent
    <2>. QED
        BY <1>5, <1>7, <2>2 DEF Offered
<1>. QED
    BY <1>6, <1>7

\* Steps that change neither texts nor links.
LEMMA ViewIsUnchanged ==
    ASSUME UNCHANGED <<text, links>>
    PROVE  /\ UNCHANGED {d \in Document : Exists(d)}
           /\ UNCHANGED [d \in Document |-> Offered(d)]
           /\ UNCHANGED [d \in Document |-> AnswersOf(d)]
<1>1. \A d \in Document : Offered(d)' = Offered(d) /\ Exists(d)' = Exists(d)
    BY TextsKeepOffers
<1>2. \A d \in Document : AnswersOf(d)' = AnswersOf(d)
    BY DEF AnswersOf, LinkTargets
<1>. QED
    BY <1>1, <1>2

LEMMA StutteringKeepsView ==
    ASSUME UNCHANGED <<text, links, packageContents, Answered, Registered>>
    PROVE  UNCHANGED View!vars
<1>1. UNCHANGED [d \in Document |-> Served(d)]
    BY TreeKeepsServed
<1>. QED
    BY <1>1, ViewIsUnchanged DEF View!vars

LEMMA FinishPhaseImplementsView ==
    ASSUME ViewInv, FinishPhase
    PROVE  View!Reindex \/ UNCHANGED View!vars
<1>1. UNCHANGED <<text, links, state>>
    BY DEF FinishPhase, scopeVars
<1>2. UNCHANGED <<Answered, Registered>>
    BY <1>1 DEF Answered, Registered
<1>3. CASE Announced
    <2>1. [d \in Document |-> Served(d)]' = [d \in Document |-> Offered(d)]
        BY <1>3, BuildingServes
    <2>. QED
        BY <1>1, <1>2, <2>1, ViewIsUnchanged DEF View!Reindex
<1>4. CASE ~Announced
    <2>1. UNCHANGED packageContents
        BY <1>4 DEF FinishPhase, managerVars
    <2>. QED
        BY <1>1, <1>2, <2>1, StutteringKeepsView
<1>. QED
    BY <1>3, <1>4

LEMMA IndexReferencesImplementsView ==
    ASSUME ViewInv, NEW d \in Document, IndexReferences(d)
    PROVE  View!Register(d)
<1>1. /\ phase = "IndexedReferences" /\ d \in building
      /\ state' = [state EXCEPT ![d] = "IndexedReferences"]
      /\ UNCHANGED <<text, links, packageContents>>
    BY DEF IndexReferences, Process, Pending, managerVars, scopeVars
<1>2. state[d] \in LinkedStates /\ Rank(state[d]) < Rank("IndexedReferences")
    BY <1>1 DEF ViewInv, TreeInv, BuildIsOrderly, IndexReferences, Process, Pending
<1>3. state[d] = "Linked"
    BY <1>2 DEF Rank, LinkedStates
<1>4. d \in Answered /\ Answered' = Answered /\ Registered' = Registered \cup {d}
    BY <1>1, <1>3 DEF Answered, Registered, LinkedStates, ViewInv, TypeOK
<1>5. UNCHANGED [e \in Document |-> Served(e)]
    BY <1>1, TreeKeepsServed
<1>. QED
    BY <1>1, <1>4, <1>5, ViewIsUnchanged DEF View!Register

LEMMA OtherStepsImplementView ==
    ASSUME ViewInv, NEW d \in Document,
           Index(d) \/ ComputeScopes(d) \/ Validate(d) \/ Complete(d)
    PROVE  UNCHANGED View!vars
<1>1. UNCHANGED <<text, links, packageContents>>
    BY DEF Index, IndexDocument, ComputeScopes, Validate, Complete, Process, managerVars,
           scopeVars
<1>2. UNCHANGED <<Answered, Registered>>
    <2>1. CASE Index(d) \/ ComputeScopes(d)
        <3>1. PICK p \in {"IndexedContent", "ComputedScopes"} :
                  state' = [state EXCEPT ![d] = p] /\ Rank(state[d]) < Rank(p)
            BY <2>1 DEF Index, ComputeScopes, Process, Pending
        <3>2. \A e \in Document : state'[e] = IF e = d THEN p ELSE state[e]
            BY <3>1 DEF ViewInv, TypeOK
        <3>3. p \notin LinkedStates /\ state[d] \notin LinkedStates
            BY <3>1 DEF Rank, LinkedStates
        <3>. QED
            BY <3>2, <3>3 DEF Answered, Registered, LinkedStates
    <2>2. CASE Validate(d)
        <3>1. /\ phase = "Validated" /\ d \in building
              /\ \A e \in Document : state'[e] = IF e = d THEN "Validated" ELSE state[e]
            BY <2>2 DEF Validate, Process, Pending, ViewInv, TypeOK
        <3>2. state[d] \in {"IndexedReferences", "Validated"}
            BY <3>1 DEF ViewInv, TreeInv, BuildIsOrderly
        <3>. QED
            BY <3>1, <3>2 DEF Answered, Registered, LinkedStates
    <2>3. CASE Complete(d)
        BY <2>3 DEF Complete, Answered, Registered
    <2>. QED
        BY <2>1, <2>2, <2>3
<1>. QED
    BY <1>1, <1>2, StutteringKeepsView

LEMMA StepsImplementView == ViewInv /\ TypeOK' /\ [Next]_vars => [View!Next]_(View!vars)
<1>. SUFFICES ASSUME ViewInv, TypeOK', [Next]_vars
              PROVE  View!Next \/ UNCHANGED View!vars
    OBVIOUS
<1>1. CASE Edit
    BY <1>1, EditImplementsView DEF View!Next
<1>2. ASSUME NEW d \in Document, Link(d)
      PROVE  View!Next
    BY <1>2, LinkImplementsView DEF View!Next
<1>3. ASSUME NEW d \in Document, IndexReferences(d)
      PROVE  View!Next
    BY <1>3, IndexReferencesImplementsView DEF View!Next
<1>4. CASE FinishPhase
    BY <1>4, FinishPhaseImplementsView DEF View!Next
<1>5. CASE UNCHANGED vars
    <2>1. UNCHANGED <<text, links, packageContents, state>>
        BY <1>5 DEF vars, managerVars, scopeVars
    <2>2. UNCHANGED <<Answered, Registered>>
        BY <2>1 DEF Answered, Registered
    <2>. QED
        BY <2>1, <2>2, StutteringKeepsView
<1>. QED
    BY <1>1, <1>2, <1>3, <1>4, <1>5, OtherStepsImplementView DEF Next, Build

LEMMA ViewInvHolds == Spec => []ViewInv
<1>1. Init => LinkInv /\ ReferencesInv
    BY DEF Init, LinkInv, ReferencesInv, Registered
<1>2. Init => ViewInv
    BY <1>1, TypesInitially, TreeInvInitially, VisibilityInvInitially, CoreInvInitially
       DEF ViewInv
<1>. QED
    BY <1>2, ViewInvIsKept, TypeCorrect, PTL DEF Spec

\* For any documents and texts, and however edits, builds, cancellations and
\* completion requests interleave, the workspace behaves like a package view.
THEOREM WorkspaceImplementsView == Spec => ImplementsView
BY ViewInvHolds, InitImplementsView, StepsImplementView, TypeCorrect, PTL
   DEF Spec, ImplementsView, View!Spec

\* No reference is linked to something that the text it leads to does not contain,
\* and one that is linked and indexed does not survive an update that takes its
\* target away: the only stale links are those that an update overtook in between.
THEOREM LinksAreCurrent == Spec => LinksGoStaleUnindexedOnly
<1>. DEFINE Promise ==
         \A d \in Document : StaleLinks(d)' \subseteq StaleLinks(d) \/ state[d] = "Linked"
<1>1. TypeOK => \A d \in Document : View!Stale(d) = StaleLinks(d)
    <2>. SUFFICES ASSUME TypeOK, NEW d \in Document
                  PROVE  View!Stale(d) = StaleLinks(d)
        OBVIOUS
    <2>1. \A e \in AnswersOf(d) : e.uri \in Document
        BY DEF TypeOK, ScopeTypeOK, AnswersOf, LinkTargets, ImportLink, Binding, Description
    <2>. QED
        BY <2>1 DEF View!Stale, StaleLinks
<1>2. \A d \in Document : d \in Answered \ Registered => state[d] = "Linked"
    BY DEF Answered, Registered, LinkedStates
<1>5. TypeOK' => \A d \in Document : View!Stale(d)' = StaleLinks(d)'
    <2>. SUFFICES ASSUME TypeOK', NEW d \in Document
                  PROVE  View!Stale(d)' = StaleLinks(d)'
        OBVIOUS
    <2>1. \A e \in AnswersOf(d)' : e.uri \in Document
        BY DEF TypeOK, ScopeTypeOK, AnswersOf, LinkTargets, ImportLink, Binding, Description
    <2>. QED
        BY <2>1 DEF View!Stale, StaleLinks
<1>3. ASSUME TypeOK, TypeOK',
             \A d \in Document :
                 View!Stale(d)' \subseteq View!Stale(d) \/ d \in Answered \ Registered
      PROVE  Promise
    BY <1>1, <1>2, <1>3, <1>5
<1>4. ASSUME TypeOK, TypeOK', UNCHANGED View!vars
      PROVE  Promise
    <2>1. \A d \in Document : View!Stale(d)' = View!Stale(d)
        BY <1>4 DEF View!vars, View!Stale
    <2>. QED
        BY <1>1, <1>4, <1>5, <2>1
<1>. QED
    BY <1>3, <1>4, WorkspaceImplementsView, TypeCorrect, View!AnswersStayDeclared, PTL
       DEF ImplementsView, View!AnswersGoStaleUnregisteredOnly, LinksGoStaleUnindexedOnly

-----------------------------------------------------------------------------
(* What the user sees when the builder rests: strengthening the invariants *)
(* by the errors, the diagnostics and the state of the builtin documents.  *)

\* Before the linking phase, what is linked has no errors: documents with
\* errors are relinked by every update.  From then on the tree stays as it is.
ErrorInv ==
    \A d \in Document : state[d] \in LinkedStates =>
        IF phase \in {"IndexedContent", "ComputedScopes"}
        THEN ~HasLinkingError(d)
        ELSE ErrorsAreJustified(d)

\* Is the first build past its second phase?
IsStarted == validating \/ phase \in {"Linked", "IndexedReferences", "Validated", "Idle"}

\* Builtin documents are in the tree for good, and the cache of the core
\* declarations is complete.
StartInv ==
    /\ IsStarted => \A d \in Builtin : Exists(d) => state[d] \in Settled
    /\ ~validating => \A d \in Document : state[d] # "Validated"
    /\ phase = "Idle" => building = {}
    /\ coreCache # Uncached =>
           /\ IsStarted
           /\ CoreDeclarations \subseteq coreCache
           /\ \A x \in coreCache : x.package = LangPackage

\* The tree has the nodes on the way to every package it holds something of.
TreeIsRooted ==
    \A path \in DOMAIN packageContents : \A x \in packageContents[path] :
        Prefixes(x.package) \subseteq DOMAIN packageContents

IsReported(c, d, n) ==
    [code |-> "name/duplicate", name |-> n] \in diagnostics[c] \cup diagnostics[d]

\* A clash is reported as soon as one of the documents has been validated and
\* the other one does not wait for it.
ClashInv ==
    \A c, d \in Document \ Builtin : \A n \in Name :
        Clash(c, d, n) /\ state[c] = "Validated" /\ (d \in building => state[d] = "Validated")
            => IsReported(c, d, n)

\* Does link l of document d pass over a declaration of the document?
Hides(d, l) == l.target.uri # d /\ \E decl \in text[d].declarations : decl.name = l.name

\* Only a core declaration hides one of the document itself.
HiddenInv ==
    \A d \in Document \ Builtin : \A l \in links[d].targets : Hides(d, l) =>
        /\ l.target.uri \in Builtin /\ IsLawful(l.target)
        /\ l.target.package = LangPackage /\ l.target.name = l.name
        /\ state[d] = "Validated" =>
               [code |-> "name/core-declaration", name |-> l.name] \in diagnostics[d]

RestInv == ErrorInv /\ StartInv /\ TreeIsRooted /\ ClashInv /\ HiddenInv
-----------------------------------------------------------------------------
(* Scopes and what they resolve.                                           *)

\* The layers of a scope: core declarations, the file, then the global scope.
LEMMA ScopeLayers ==
    ASSUME NEW core \in SUBSET Binding, NEW file \in SUBSET Binding,
           NEW outer \in [1 .. 3 -> SUBSET Binding]
    PROVE  /\ <<core, file>> \o outer \in [1 .. 5 -> SUBSET Binding]
           /\ (<<core, file>> \o outer)[1] = core
           /\ (<<core, file>> \o outer)[2] = file
           /\ \A i \in 1 .. 3 : (<<core, file>> \o outer)[i + 2] = outer[i]
<1>. DEFINE inner == <<core, file>>
<1>1. inner \in Seq(SUBSET Binding) /\ Len(inner) = 2 /\ inner[1] = core /\ inner[2] = file
    OBVIOUS
<1>2. outer \in Seq(SUBSET Binding) /\ Len(outer) = 3
    BY LayersAreASequence
<1>. HIDE DEF inner
<1>3. /\ inner \o outer \in Seq(SUBSET Binding)
      /\ Len(inner \o outer) = Len(inner) + Len(outer)
      /\ \A i \in 1 .. Len(inner) + Len(outer) :
             (inner \o outer)[i] = IF i <= Len(inner) THEN inner[i] ELSE outer[i - Len(inner)]
    BY <1>1, <1>2, ConcatProperties
<1>4. inner \o outer \in [1 .. 5 -> SUBSET Binding]
    <2>1. inner \o outer \in Seq(SUBSET Binding) /\ Len(inner \o outer) = 5
        BY <1>1, <1>2, <1>3
    <2>. QED
        BY <2>1, LenProperties
<1>5. (inner \o outer)[1] = core /\ (inner \o outer)[2] = file
    BY <1>1, <1>2, <1>3
<1>6. \A i \in 1 .. 3 : (inner \o outer)[i + 2] = outer[i]
    BY <1>1, <1>2, <1>3
<1>. QED
    BY <1>4, <1>5, <1>6 DEF inner

\* A name resolves to something as soon as one of the layers binds it.
LEMMA BoundNamesResolve ==
    ASSUME NEW scope \in [1 .. 5 -> SUBSET Binding], NEW n
    PROVE  Resolve(scope, n) = {} <=> \A i \in 1 .. 5 : \A b \in scope[i] : b.name # n
<1>. DEFINE hits == {i \in DOMAIN scope : \E b \in scope[i] : b.name = n}
<1>1. hits \subseteq 1 .. 5
    OBVIOUS
<1>2. ASSUME NEW k \in hits
      PROVE  \E i \in hits : \A j \in hits : i <= j
    BY <1>1, <1>2
<1>3. ASSUME NEW i \in hits, \A j \in hits : i <= j
      PROVE  Resolve(scope, n) # {}
    <2>1. PICK b \in scope[i] : b.name = n
        OBVIOUS
    <2>2. b.target \in Resolve(scope, n)
        BY <1>3, <2>1 DEF Resolve
    <2>. QED
        BY <2>2
<1>4. Resolve(scope, n) # {} => hits # {}
    BY DEF Resolve
<1>5. hits = {} <=> \A i \in 1 .. 5 : \A b \in scope[i] : b.name # n
    OBVIOUS
<1>. HIDE DEF hits
<1>. QED
    BY <1>2, <1>3, <1>4, <1>5

\* What a scope with the right core declarations does not find, one without a
\* cached layer does not find either.
UncachedScope(d, importLinks) ==
    <<Bindings(CoreDeclarations), GlobalDeclarationsInSameFile(d)>>
        \o GlobalScopeForNode(d, importLinks)

LEMMA FileLayerIsTyped ==
    ASSUME NEW d \in Document, text[d] \in Module
    PROVE  GlobalDeclarationsInSameFile(d) \in SUBSET Binding
BY BindingsAreTyped DEF GlobalDeclarationsInSameFile, Module, Description

LEMMA CoreLayersAreTyped ==
    ASSUME ManagerTypeOK, ScopeTypeOK
    PROVE  /\ Bindings(CoreDeclarations) \in SUBSET Binding
           /\ Bindings(GetCoreDeclarations) \in SUBSET Binding
BY QueriesReturnDescriptions, BindingsAreTyped
   DEF GetCoreDeclarations, Get, CoreDeclarations, ScopeTypeOK

LEMMA UncachedFindsNoMore ==
    ASSUME ManagerTypeOK, ScopeTypeOK, NEW d \in Document, text[d] \in Module,
           scopeCache[d] = Uncached, CoreDeclarations \subseteq GetCoreDeclarations,
           NEW importLinks \in SUBSET ImportLink, NEW n,
           Resolve(ScopeForReferenceTarget(d, importLinks), n) = {}
    PROVE  Resolve(UncachedScope(d, importLinks), n) = {}
<1>. DEFINE outer == GlobalScopeForNode(d, importLinks)
            file == GlobalDeclarationsInSameFile(d)
            held == Bindings(GetCoreDeclarations)
            core == Bindings(CoreDeclarations)
            full == <<held, file>> \o outer
            bare == <<core, file>> \o outer
<1>1. outer = GetGlobalScope(d, importLinks)
    BY DEF GetGlobalScope, Get
<1>2. outer \in [1 .. 3 -> SUBSET Binding]
    BY <1>1, GlobalScopeIsTyped
<1>3. full = ScopeForReferenceTarget(d, importLinks) /\ bare = UncachedScope(d, importLinks)
    BY <1>1 DEF ScopeForReferenceTarget, UncachedScope
<1>4. core \subseteq held
    BY DEF Bindings
<1>5. file \in SUBSET Binding /\ core \in SUBSET Binding /\ held \in SUBSET Binding
    BY FileLayerIsTyped, CoreLayersAreTyped
<1>. HIDE DEF outer, file, held, core
<1>6. /\ full \in [1 .. 5 -> SUBSET Binding] /\ full[1] = held /\ full[2] = file
      /\ \A i \in 1 .. 3 : full[i + 2] = outer[i]
    BY <1>2, <1>5, ScopeLayers
<1>7. /\ bare \in [1 .. 5 -> SUBSET Binding] /\ bare[1] = core /\ bare[2] = file
      /\ \A i \in 1 .. 3 : bare[i + 2] = outer[i]
    BY <1>2, <1>5, ScopeLayers
<1>. HIDE DEF full, bare
<1>8. \A i \in 1 .. 5 : bare[i] \subseteq full[i]
    <2>1. \A i \in 3 .. 5 : bare[i] = full[i]
        <3>1. \A i \in 3 .. 5 : i - 2 \in 1 .. 3 /\ (i - 2) + 2 = i
            OBVIOUS
        <3>. QED
            BY <1>6, <1>7, <3>1
    <2>. QED
        BY <1>4, <1>6, <1>7, <2>1
<1>9. \A i \in 1 .. 5 : \A b \in full[i] : b.name # n
    BY <1>3, <1>6, BoundNamesResolve
<1>. QED
    BY <1>3, <1>7, <1>8, <1>9, BoundNamesResolve

-----------------------------------------------------------------------------
(* Unresolved references.                                                  *)

LEMMA UncachedScopeIsStable ==
    ASSUME NEW d \in Document, UNCHANGED packageContents, text'[d] = text[d]
    PROVE  \A importLinks : UncachedScope(d, importLinks)' = UncachedScope(d, importLinks)
BY DEF UncachedScope, WildcardImports, CoreDeclarations, GlobalDeclarationsInSameFile,
       GlobalScopeForNode, ExplicitlyImportedDeclarations, DeclarationsInSamePackage,
       BuiltinDeclarations, Bindings, VisibleName, GetDeclarationsInPackage,
       GetDeclarationsInPackageOrSubpackage, FilterDescriptions, HasContents

\* The errors of a document depend on its text, its links and the tree alone.
LEMMA JustifiedIsStable ==
    ASSUME NEW d \in Document, UNCHANGED packageContents,
           text'[d] = text[d], links'[d] = links[d], ErrorsAreJustified(d)
    PROVE  ErrorsAreJustified(d)'
<1>1. /\ QualifiedImports(d)' = QualifiedImports(d)
      /\ \A imp : ScopeForImportedDeclaration(d, imp)' = ScopeForImportedDeclaration(d, imp)
    BY DEF QualifiedImports, ScopeForImportedDeclaration, GetDeclarationsInPackage,
           FilterDescriptions, HasContents
<1>2. \A n : Resolve(UncachedScope(d, links[d].imports), n)'
                 = Resolve(UncachedScope(d, links[d].imports), n)
    BY UncachedScopeIsStable DEF Resolve
<1>. QED
    BY <1>1, <1>2 DEF ErrorsAreJustified, UncachedScope

LEMMA ResolvedIsJustified ==
    ASSUME NEW d \in Document, ~HasLinkingError(d)
    PROVE  ErrorsAreJustified(d)
BY DEF HasLinkingError, ErrorsAreJustified

\* Linking a document leaves only references unresolved that have no target.
LEMMA LinkingJustifies ==
    ASSUME TypeOK, StartInv, NEW d \in Document, Link(d), scopeCache[d] = Uncached
    PROVE  ErrorsAreJustified(d)'
<1>1. /\ text[d] \in Module
      /\ UNCHANGED <<text, packageContents>>
      /\ links'[d] = LinksOf(d)
    BY ProcessKeepsTypes
       DEF Link, LinkDocument, Process, Phases, managerVars, TypeOK, ScopeTypeOK
<1>2. ManagerTypeOK /\ ScopeTypeOK /\ CoreDeclarations \subseteq GetCoreDeclarations
    BY DEF TypeOK, StartInv, GetCoreDeclarations, Get
<1>3. LinksOf(d).imports = ImportLinks(d) /\ ImportLinks(d) \in SUBSET ImportLink
    BY <1>1, <1>2, ImportLinksAreTyped DEF LinksOf
<1>4. ASSUME NEW imp \in QualifiedImports(d),
             NEW e \in ScopeForImportedDeclaration(d, imp), e.name = imp.name
      PROVE  \E l \in LinksOf(d).imports : l.import = imp
    <2>1. [import |-> imp, target |-> e] \in ImportLinks(d)
        BY <1>4 DEF ImportLinks
    <2>. QED
        BY <1>3, <2>1
<1>5. ASSUME NEW n \in text[d].references, \A l \in LinksOf(d).targets : l.name # n
      PROVE  Resolve(UncachedScope(d, LinksOf(d).imports), n) = {}
    <2>1. \A e \in Resolve(ScopeForReferenceTarget(d, ImportLinks(d)), n) :
              [name |-> n, target |-> e] \in LinksOf(d).targets
        BY DEF LinksOf
    <2>2. Resolve(ScopeForReferenceTarget(d, ImportLinks(d)), n) = {}
        BY <1>5, <2>1
    <2>. QED
        BY <1>1, <1>2, <1>3, <2>2, UncachedFindsNoMore
<1>6. /\ QualifiedImports(d)' = QualifiedImports(d)
      /\ \A imp : ScopeForImportedDeclaration(d, imp)' = ScopeForImportedDeclaration(d, imp)
    BY <1>1 DEF QualifiedImports, ScopeForImportedDeclaration, GetDeclarationsInPackage,
                FilterDescriptions, HasContents
<1>7. \A n : Resolve(UncachedScope(d, links[d].imports), n)'
                 = Resolve(UncachedScope(d, LinksOf(d).imports), n)
    BY <1>1, UncachedScopeIsStable DEF Resolve
<1>. QED
    BY <1>1, <1>4, <1>5, <1>6, <1>7 DEF ErrorsAreJustified, UncachedScope

\* Steps that change neither the text nor the links of a linked document.
LEMMA ErrorsAreStable ==
    ASSUME NEW d \in Document, text'[d] = text[d], links'[d] = links[d], ~HasLinkingError(d)
    PROVE  ~HasLinkingError(d)'
BY DEF HasLinkingError, QualifiedImports

LEMMA EditKeepsErrorInv ==
    ASSUME TypeOK, ErrorInv, Edit
    PROVE  ErrorInv'
<1>1. PICK touched \in SUBSET Document :
          \E new \in [touched -> Module \cup {Absent}] : Update(new)
    BY WorkspaceAssumption DEF Edit
<1>2. PICK new \in [touched -> Module \cup {Absent}] : Update(new)
    BY <1>1
<1>3. phase' = "IndexedContent"
    BY <1>2 DEF Update, StartBuild
<1>4. ASSUME NEW d \in Document, state'[d] \in LinkedStates
      PROVE  ~HasLinkingError(d)'
    <2>1. /\ d \notin touched /\ ~ShouldRelink(d, touched) /\ state[d] \in LinkedStates
          /\ text'[d] = text[d] /\ links'[d] = links[d]
        BY <1>2, <1>4 DEF Update, LinkedStates
    <2>. QED
        BY <2>1, ErrorsAreStable DEF ShouldRelink, LinkedStates
<1>. QED
    BY <1>3, <1>4 DEF ErrorInv

\* Steps within a phase that unlink nothing and link only what is in order.
LEMMA PhaseKeepsErrorInv ==
    ASSUME ErrorInv, UNCHANGED <<phase, packageContents, text>>,
           \A d \in Document : state'[d] \in LinkedStates =>
               \/ state[d] \in LinkedStates /\ links'[d] = links[d]
               \/ phase \notin {"IndexedContent", "ComputedScopes"} /\ ErrorsAreJustified(d)'
    PROVE  ErrorInv'
BY JustifiedIsStable, ErrorsAreStable DEF ErrorInv

LEMMA FinishPhaseKeepsErrorInv ==
    ASSUME TypeOK, ErrorInv, FinishPhase
    PROVE  ErrorInv'
<1>1. UNCHANGED <<text, links, state>> /\ phase' = NextPhase /\ phase # "Idle"
    BY DEF FinishPhase, PhaseDone, scopeVars
<1>2. ASSUME phase \in {"IndexedContent", "ComputedScopes"}, NEW d \in Document,
             state[d] \in LinkedStates
      PROVE  ~HasLinkingError(d)' /\ ErrorsAreJustified(d)'
    <2>1. ~HasLinkingError(d)'
        BY <1>1, <1>2, ErrorsAreStable DEF ErrorInv
    <2>. QED
        BY <2>1 DEF HasLinkingError, ErrorsAreJustified
<1>3. ASSUME phase \notin {"IndexedContent", "ComputedScopes"}, NEW d \in Document,
             state[d] \in LinkedStates
      PROVE  ErrorsAreJustified(d)'
    <2>1. UNCHANGED packageContents
        BY <1>3 DEF FinishPhase, Announced, managerVars
    <2>. QED
        BY <1>1, <1>3, <2>1, JustifiedIsStable DEF ErrorInv
<1>. QED
    BY <1>1, <1>2, <1>3 DEF ErrorInv, NextPhase, TypeOK, Phases

LEMMA ErrorInvIsKept ==
    ASSUME ViewInv, StartInv, ErrorInv, [Next]_vars
    PROVE  ErrorInv'
<1>1. ASSUME NEW d \in Document,
             Index(d) \/ ComputeScopes(d) \/ IndexReferences(d) \/ Validate(d)
      PROVE  ErrorInv'
    <2>1. PICK p \in {"IndexedContent", "ComputedScopes", "IndexedReferences", "Validated"} :
              phase = p /\ d \in building /\ state' = [state EXCEPT ![d] = p]
        BY <1>1 DEF Index, ComputeScopes, IndexReferences, Validate, Process, Pending
    <2>2. UNCHANGED <<phase, packageContents, text, links>>
        BY <1>1 DEF Index, IndexDocument, ComputeScopes, IndexReferences, Validate, Process,
                    managerVars, scopeVars, builderVars
    <2>3. state'[d] \in LinkedStates => state[d] \in LinkedStates
        BY <2>1 DEF LinkedStates, ViewInv, TypeOK, TreeInv, BuildIsOrderly
    <2>. QED
        BY <2>1, <2>2, <2>3, PhaseKeepsErrorInv DEF ViewInv, TypeOK
<1>2. ASSUME NEW d \in Document, Link(d)
      PROVE  ErrorInv'
    <2>1. /\ phase = "Linked" /\ state' = [state EXCEPT ![d] = "Linked"]
          /\ state[d] \notin LinkedStates
          /\ UNCHANGED <<phase, packageContents, text>>
          /\ \A x \in Document \ {d} : links'[x] = links[x]
        BY <1>2 DEF Link, LinkDocument, Process, Pending, Rank, LinkedStates, managerVars,
                    builderVars, ViewInv, TypeOK, ScopeTypeOK
    <2>2. ErrorsAreJustified(d)'
        BY <1>2, <2>1, LinkingJustifies DEF ViewInv, LinkInv
    <2>3. \A x \in Document \ {d} : state'[x] = state[x]
        BY <2>1 DEF ViewInv, TypeOK
    <2>. QED
        BY <2>1, <2>2, <2>3, PhaseKeepsErrorInv
<1>3. ASSUME UNCHANGED <<phase, packageContents, text, links, state>>
      PROVE  ErrorInv'
    BY <1>3, PhaseKeepsErrorInv
<1>4. ASSUME NEW d \in Document, Complete(d) \/ UNCHANGED vars
      PROVE  ErrorInv'
    BY <1>3, <1>4 DEF Complete, vars, managerVars, scopeVars, builderVars
<1>. QED
    BY <1>1, <1>2, <1>3, <1>4, EditKeepsErrorInv, FinishPhaseKeepsErrorInv
       DEF Next, Build, ViewInv, vars, managerVars, scopeVars, builderVars

-----------------------------------------------------------------------------
(* The core declarations.                                                  *)

\* An update leaves the texts of builtin documents alone.
LEMMA EditSparesBuiltin ==
    ASSUME TypeOK, Edit
    PROVE  /\ \A d \in Builtin : text'[d] = text[d]
           /\ \A d \in Builtin : state[d] \in Settled => state'[d] \in Settled
           /\ validating' = TRUE /\ phase' = "IndexedContent" /\ coreCache' = Uncached
<1>1. PICK touched \in SUBSET {d \in Document : Menu[d] # {}} \ {{}} :
          \E new \in [touched -> UNION {Menu[d] : d \in touched}] : Update(new)
    BY DEF Edit
<1>2. PICK new \in [touched -> UNION {Menu[d] : d \in touched}] : Update(new)
    BY <1>1
<1>3. \A d \in Builtin : d \in Document /\ d \notin touched
    BY <1>1, WorkspaceAssumption
<1>. QED
    BY <1>2, <1>3
       DEF Update, StartBuild, UpdateBuildOptions, ClearCaches, Settled, ShouldRelink

\* Rebuilding the tree brings no core declarations that it had not before.
LEMMA RebuildingKeepsCore ==
    ASSUME TypeOK, TreeInv, CoreInv, StartInv, IsStarted, BuildPackageStructures
    PROVE  CoreDeclarations' \subseteq CoreDeclarations
<1>. SUFFICES ASSUME NEW x \in CoreDeclarations'
              PROVE  x \in CoreDeclarations
    OBVIOUS
<1>. DEFINE elements == Listed(UNION {exported[d] : d \in Document})
<1>1. x \in elements /\ x.package = LangPackage /\ x.visibility = "public"
    BY DEF CoreDeclarations, GetDeclarationsInPackage, FilterDescriptions, HasContents,
           BuildPackageStructures, TreeOf
<1>2. PICK d \in Document : x \in Listed(exported[d])
    BY <1>1 DEF Listed
<1>3. x \in Description /\ x.package \in Package
    BY <1>2 DEF TypeOK, ManagerTypeOK, Listed, Description
<1>4. d = x.uri /\ d \in Builtin /\ Exists(d)
    BY <1>1, <1>2 DEF TreeInv, IndexIsFiled, Listed, CoreInv, IndexIsLawful, IsLawful
<1>5. Agrees(d)
    BY <1>4 DEF StartInv, TreeInv
<1>6. x \in Held(d, LangPackage)
    BY <1>1, <1>2, <1>3, <1>5 DEF Agrees
<1>. QED
    BY <1>1, <1>6 DEF Held, CoreDeclarations, GetDeclarationsInPackage, FilterDescriptions

\* Filling the cache of the core declarations once the builder has started.
LEMMA FillingKeepsStartInv ==
    ASSUME StartInv, IsStarted, TreeIsFiled,
           UNCHANGED <<text, packageContents, phase, building, validating>>,
           coreCache' \in {coreCache, GetCoreDeclarations},
           \A d \in Builtin : state[d] \in Settled => state'[d] \in Settled,
           \A d \in Document : state'[d] = "Validated" => validating
    PROVE  StartInv'
<1>1. CoreDeclarations' = CoreDeclarations /\ IsStarted'
    BY DEF CoreDeclarations, GetDeclarationsInPackage, FilterDescriptions, HasContents,
           IsStarted
<1>2. \A x \in CoreDeclarations : x.package = LangPackage
    BY QueriesRespectVisibility DEF CoreDeclarations
<1>. QED
    BY <1>1, <1>2 DEF StartInv, GetCoreDeclarations, Get, Exists

LEMMA FinishPhaseKeepsStartInv ==
    ASSUME TypeOK, TreeInv, CoreInv, StartInv, FinishPhase
    PROVE  StartInv'
<1>1. /\ UNCHANGED <<text, state, validating, coreCache>>
      /\ phase' = NextPhase /\ phase # "Idle"
      /\ building' = IF phase = "Validated" THEN {} ELSE building
    BY DEF FinishPhase, PhaseDone, scopeVars
<1>2. IsStarted => IsStarted'
    BY <1>1 DEF IsStarted, NextPhase
<1>3. ASSUME ~IsStarted, IsStarted', NEW d \in Builtin, Exists(d)
      PROVE  state[d] \in Settled
    <2>1. phase = "ComputedScopes" /\ d \in Document
        BY <1>1, <1>3, WorkspaceAssumption DEF IsStarted, NextPhase, TypeOK, Phases
    <2>2. CASE d \in building
        <3>1. ~Pending(d)
            BY <2>2 DEF FinishPhase, PhaseDone
        <3>. QED
            BY <1>3, <2>1, <2>2, <3>1 DEF Pending, Rank, TypeOK, States, Phases, Settled, Exists
    <2>3. CASE d \notin building
        BY <1>3, <2>1, <2>3 DEF TreeInv, BuildIsOrderly, TypeOK, Settled, Exists
    <2>. QED
        BY <2>2, <2>3
<1>4. IsStarted' => \A d \in Builtin : Exists(d)' => state'[d] \in Settled
    BY <1>1, <1>3 DEF StartInv, Exists
<1>5. ~validating' => \A d \in Document : state'[d] # "Validated"
    BY <1>1 DEF StartInv
<1>6. phase' = "Idle" => building' = {}
    BY <1>1 DEF NextPhase, TypeOK, Phases
<1>7. ASSUME coreCache' # Uncached
      PROVE  /\ IsStarted' /\ CoreDeclarations' \subseteq coreCache'
             /\ \A x \in coreCache' : x.package = LangPackage
    <2>1. /\ IsStarted /\ CoreDeclarations \subseteq coreCache
          /\ \A x \in coreCache : x.package = LangPackage
        BY <1>1, <1>7 DEF StartInv
    <2>2. CoreDeclarations' \subseteq CoreDeclarations
        <3>1. CASE BuildPackageStructures
            BY <2>1, <3>1, RebuildingKeepsCore
        <3>2. CASE UNCHANGED managerVars
            BY <3>2 DEF managerVars, CoreDeclarations, GetDeclarationsInPackage,
                        FilterDescriptions, HasContents
        <3>. QED
            BY <3>1, <3>2 DEF FinishPhase
    <2>. QED
        BY <1>1, <1>2, <2>1, <2>2
<1>. QED
    BY <1>4, <1>5, <1>6, <1>7 DEF StartInv

LEMMA StartInvIsKept ==
    ASSUME ViewInv, StartInv, [Next]_vars
    PROVE  StartInv'
<1>1. CASE Edit
    <2>1. IsStarted
        BY <1>1 DEF Edit, IsStarted
    <2>. QED
        BY <1>1, <2>1, EditSparesBuiltin DEF StartInv, ViewInv, IsStarted, Exists
<1>2. ASSUME NEW d \in Document, Index(d)
      PROVE  StartInv'
    <2>1. /\ phase = "IndexedContent" /\ d \in building /\ Exists(d)
          /\ state' = [state EXCEPT ![d] = "IndexedContent"] /\ state[d] \notin Settled
          /\ UNCHANGED <<text, packageContents, phase, building, validating, coreCache>>
        BY <1>2 DEF Index, IndexDocument, Process, Pending, Rank, Settled, builderVars,
                    scopeVars, ViewInv, TypeOK
    <2>2. CoreDeclarations' = CoreDeclarations /\ IsStarted' = IsStarted
        BY <2>1 DEF CoreDeclarations, GetDeclarationsInPackage, FilterDescriptions,
                    HasContents, IsStarted
    <2>. QED
        BY <2>1, <2>2 DEF StartInv, ViewInv, TypeOK, Exists
<1>3. ASSUME NEW d \in Document, ComputeScopes(d)
      PROVE  StartInv'
    <2>1. /\ state' = [state EXCEPT ![d] = "ComputedScopes"]
          /\ UNCHANGED <<text, packageContents, phase, building, validating, coreCache>>
        BY <1>3 DEF ComputeScopes, Process, builderVars, managerVars, scopeVars
    <2>2. CoreDeclarations' = CoreDeclarations /\ IsStarted' = IsStarted
        BY <2>1 DEF CoreDeclarations, GetDeclarationsInPackage, FilterDescriptions,
                    HasContents, IsStarted
    <2>. QED
        BY <2>1, <2>2 DEF StartInv, ViewInv, TypeOK, Exists, Settled
<1>4. ASSUME NEW d \in Document,
             Link(d) \/ IndexReferences(d) \/ Validate(d) \/ Complete(d)
      PROVE  StartInv'
    <2>1. /\ UNCHANGED <<text, packageContents, phase, building, validating>>
          /\ coreCache' \in {coreCache, GetCoreDeclarations}
          /\ IsStarted
        BY <1>4 DEF Link, LinkDocument, IndexReferences, Validate, Complete, Process, FillCaches,
                    builderVars, managerVars, scopeVars, IsStarted, StartInv
    <2>2. /\ \A x \in Document : state[x] \in Settled => state'[x] \in Settled
          /\ \A x \in Document : state'[x] = "Validated" => validating
        BY <1>4 DEF Link, IndexReferences, Validate, Complete, Process, Pending, Settled,
                    StartInv, ViewInv,
                    TypeOK
    <2>. QED
        BY <2>1, <2>2, FillingKeepsStartInv, WorkspaceAssumption DEF ViewInv, VisibilityInv
<1>5. CASE UNCHANGED vars
    <2>1. UNCHANGED <<text, packageContents, phase, building, validating, coreCache, state>>
        BY <1>5 DEF vars, managerVars, scopeVars, builderVars
    <2>2. CoreDeclarations' = CoreDeclarations /\ IsStarted' = IsStarted
        BY <2>1 DEF CoreDeclarations, GetDeclarationsInPackage, FilterDescriptions,
                    HasContents, IsStarted
    <2>. QED
        BY <2>1, <2>2 DEF StartInv, Exists
<1>. QED
    BY <1>1, <1>2, <1>3, <1>4, <1>5, FinishPhaseKeepsStartInv DEF Next, Build, ViewInv

-----------------------------------------------------------------------------
(* Duplicates.                                                             *)

LEMMA TreeIsRootedIsKept ==
    ASSUME TreeIsRooted, [Next]_vars
    PROVE  TreeIsRooted'
<1>1. CASE BuildPackageStructures
    <2>. DEFINE elements == Listed(UNION {exported[d] : d \in Document})
    <2>1. /\ DOMAIN packageContents' = {<<>>} \cup UNION {Prefixes(x.package) : x \in elements}
          /\ \A path \in DOMAIN packageContents' : packageContents'[path] \subseteq elements
        BY <1>1 DEF BuildPackageStructures, TreeOf
    <2>. QED
        BY <2>1 DEF TreeIsRooted
<1>2. CASE UNCHANGED packageContents
    BY <1>2 DEF TreeIsRooted
<1>3. BuildPackageStructures \/ UNCHANGED packageContents
    <2>1. Edit => UNCHANGED packageContents
        BY DEF Edit, Update
    <2>2. Build => BuildPackageStructures \/ UNCHANGED packageContents
        BY DEF Build, Index, IndexDocument, ComputeScopes, Link, IndexReferences, Validate,
               FinishPhase,
               managerVars
    <2>. QED
        BY <2>1, <2>2 DEF Next, Complete, vars, managerVars
<1>. QED
    BY <1>1, <1>2, <1>3

\* Once documents are validated, the tree agrees with all of them.
LEMMA LateTreeAgrees ==
    ASSUME TypeOK, TreeInv, phase = "Validated", NEW d \in Document, Exists(d)
    PROVE  Agrees(d) /\ exported[d] = Exports(d, text[d])
BY DEF TypeOK, TreeInv, BuildIsOrderly, IndexIsCurrent, Settled, Exists

\* Validating a document finds what it has in common with another one.
LEMMA ClashesAreFound ==
    ASSUME TypeOK, TreeInv, TreeIsRooted, phase = "Validated",
           NEW c \in Document \ Builtin, NEW d \in Document \ Builtin, NEW n, Clash(c, d, n)
    PROVE  [code |-> "name/duplicate", name |-> n] \in UniqueInPackageErrors(c)
<1>. DEFINE p == text[c].package
<1>1. PICK x \in text[c].declarations, y \in text[d].declarations : x.name = n /\ y.name = n
    BY DEF Clash
<1>. DEFINE e == [uri |-> d, name |-> y.name, visibility |-> y.visibility, package |-> p]
<1>2. /\ c # d /\ Exists(d) /\ text[d].package = p /\ p # NoPackage
      /\ IsValidPackageName(p) /\ text[c] \in Module
      /\ p \in PrefixedByRoot => IsPrefix(RootPackage, p)
    BY DEF Clash, Exists, TypeOK, ScopeTypeOK
<1>3. p \in Package
    BY <1>2 DEF Module
<1>4. e \in Listed(exported[d])
    <2>1. exported[d] = Exports(d, text[d])
        BY <1>2, LateTreeAgrees
    <2>2. e \in Exports(d, text[d])
        BY <1>2 DEF Exports
    <2>. QED
        BY <1>2, <2>1, <2>2 DEF Listed
<1>5. e \in Held(d, p)
    BY <1>2, <1>3, <1>4, LateTreeAgrees DEF Agrees
<1>6. p \in DOMAIN packageContents /\ e \in packageContents[p]
    BY <1>5 DEF Held, GetDeclarationsInPackage, FilterDescriptions, HasContents
<1>7. e \in DeclarationsToDifferFrom(p)
    <2>1. CASE p \in PrefixedByRoot
        <3>1. IsPrefix(RootPackage, p)
            BY <1>2, <2>1
        <3>2. RootPackage \in Prefixes(p)
            <4>1. RootPackage \in Seq(Segment) /\ p \in Seq(Segment)
                BY <1>3, ScopeAssumption, PackageAssumption
            <4>2. /\ Len(RootPackage) \in 0 .. Len(p)
                  /\ SubSeq(RootPackage, 1, Len(RootPackage)) = SubSeq(p, 1, Len(RootPackage))
                BY <3>1, <4>1 DEF IsPrefix
            <4>3. SubSeq(RootPackage, 1, Len(RootPackage)) = RootPackage
                BY <4>1
            <4>. QED
                BY <4>2, <4>3 DEF Prefixes
        <3>3. HasContents(RootPackage)
            BY <1>6, <3>2, ScopeAssumption DEF TreeIsRooted, HasContents
        <3>4. e \in GetDeclarationsInPackageOrSubpackage(RootPackage, FALSE)
            BY <1>6, <3>1, <3>3 DEF GetDeclarationsInPackageOrSubpackage, FilterDescriptions
        <3>. QED
            BY <2>1, <3>4 DEF DeclarationsToDifferFrom
    <2>2. CASE p \notin PrefixedByRoot
        BY <1>5, <2>2 DEF Held, DeclarationsToDifferFrom
    <2>. QED
        BY <2>1, <2>2
<1>. QED
    BY <1>1, <1>2, <1>7 DEF UniqueInPackageErrors

LEMMA ClashIsSymmetric ==
    ASSUME NEW c, NEW d, NEW n, Clash(c, d, n)
    PROVE  Clash(d, c, n)
BY DEF Clash

\* Nobody has to wait any more, the phases being over.
LEMMA FinishPhaseKeepsClashInv ==
    ASSUME TypeOK, StartInv, ClashInv, FinishPhase
    PROVE  ClashInv'
<1>1. /\ UNCHANGED <<text, state, diagnostics>>
      /\ building' = IF phase = "Validated" THEN {} ELSE building
    BY DEF FinishPhase
<1>2. \A c, d \in Document : \A n : Clash(c, d, n)' = Clash(c, d, n)
    BY <1>1 DEF Clash, Exists, IsValidPackageName
<1>3. ASSUME NEW c \in Document, state[c] = "Validated", NEW d \in building, d \notin building'
      PROVE  state[d] = "Validated"
    <2>1. phase = "Validated" /\ validating
        BY <1>1, <1>3 DEF StartInv
    <2>2. ~Pending(d) /\ d \in Document
        BY <1>3 DEF FinishPhase, PhaseDone, TypeOK
    <2>. QED
        BY <2>1, <2>2 DEF Pending, Rank, TypeOK, States, Phases
<1>. QED
    BY <1>1, <1>2, <1>3 DEF ClashInv, IsReported

LEMMA EditKeepsClashInv ==
    ASSUME TypeOK, ClashInv, Edit
    PROVE  ClashInv'
<1>1. PICK touched \in SUBSET Document :
          \E new \in [touched -> Module \cup {Absent}] : Update(new)
    BY WorkspaceAssumption DEF Edit
<1>2. PICK new \in [touched -> Module \cup {Absent}] : Update(new)
    BY <1>1
<1>. DEFINE reset == touched \cup {d \in Document : ShouldRelink(d, touched)}
<1>3. /\ building' = {d \in building \cup reset : text'[d] # Absent}
      /\ \A d \in reset : state'[d] # "Validated"
      /\ \A d \in Document \ reset :
             text'[d] = text[d] /\ state'[d] = state[d] /\ diagnostics'[d] = diagnostics[d]
    BY <1>2 DEF Update, StartBuild, LinkedStates
<1>. HIDE DEF reset
<1>4. ASSUME NEW c \in Document \ Builtin, NEW d \in Document \ Builtin, NEW n \in Name,
             Clash(c, d, n)', state'[c] = "Validated", d \in building' => state'[d] = "Validated"
      PROVE  IsReported(c, d, n)'
    <2>1. c \notin reset /\ text'[d] # Absent
        BY <1>3, <1>4 DEF Clash, Exists
    <2>2. d \notin reset
        BY <1>3, <1>4, <2>1
    <2>3. Clash(c, d, n)
        BY <1>3, <1>4, <2>1, <2>2 DEF Clash, Exists, IsValidPackageName
    <2>4. d \in building => state[d] = "Validated"
        BY <1>3, <1>4, <2>1, <2>2
    <2>. QED
        BY <1>3, <1>4, <2>1, <2>2, <2>3, <2>4 DEF ClashInv, IsReported
<1>. QED
    BY <1>4 DEF ClashInv

LEMMA ClashInvIsKept ==
    ASSUME TypeOK, TreeInv, StartInv, TreeIsRooted, ClashInv, [Next]_vars
    PROVE  ClashInv'
<1>1. ASSUME UNCHANGED text
      PROVE  \A c, d \in Document : \A n : Clash(c, d, n)' = Clash(c, d, n)
    BY <1>1 DEF Clash, Exists, IsValidPackageName
<1>2. ASSUME NEW x \in Document, Validate(x)
      PROVE  ClashInv'
    <2>1. /\ phase = "Validated" /\ UNCHANGED <<text, building>>
          /\ \A d \in Document : state'[d] = IF d = x THEN "Validated" ELSE state[d]
          /\ UniqueInPackageErrors(x) \subseteq diagnostics'[x]
          /\ \A d \in Document \ {x} : diagnostics'[d] = diagnostics[d]
        BY <1>2 DEF Validate, Process, Diagnostics, builderVars, TypeOK
    <2>. QED
        BY <1>1, <2>1, ClashesAreFound, ClashIsSymmetric DEF ClashInv, IsReported
<1>3. ASSUME NEW x \in Document,
             Index(x) \/ ComputeScopes(x) \/ Link(x) \/ IndexReferences(x)
      PROVE  ClashInv'
    <2>1. /\ x \in building /\ state'[x] # "Validated"
          /\ \A d \in Document \ {x} : state'[d] = state[d]
          /\ UNCHANGED <<text, building, diagnostics>>
        BY <1>3 DEF Index, ComputeScopes, Link, IndexReferences, Process, Pending, builderVars, TypeOK
    <2>. QED
        BY <1>1, <2>1 DEF ClashInv, IsReported
<1>4. ASSUME UNCHANGED <<text, building, diagnostics, state>>
      PROVE  ClashInv'
    BY <1>1, <1>4 DEF ClashInv, IsReported
<1>. QED
    BY <1>2, <1>3, <1>4, EditKeepsClashInv, FinishPhaseKeepsClashInv
       DEF Next, Build, Complete, vars, builderVars

-----------------------------------------------------------------------------
(* Hidden declarations.                                                    *)

\* A reference to a name the document declares passes over the declaration only
\* in favour of a core declaration.
LEMMA LinkingHides ==
    ASSUME ViewInv, StartInv, NEW d \in Document, text[d] \in Module,
           NEW l \in LinksOf(d).targets, Hides(d, l)
    PROVE  /\ l.target.uri \in Builtin /\ IsLawful(l.target)
           /\ l.target.package = LangPackage /\ l.target.name = l.name
<1>. DEFINE outer == GetGlobalScope(d, ImportLinks(d))
            file == GlobalDeclarationsInSameFile(d)
            held == Bindings(GetCoreDeclarations)
            scope == <<held, file>> \o outer
<1>1. ManagerTypeOK /\ ScopeTypeOK /\ TreeIsFiled /\ CoreInv
    BY DEF ViewInv, TypeOK, VisibilityInv
<1>2. l.target \in Resolve(scope, l.name)
    <2>1. PICK n \in text[d].references :
              \E e \in Resolve(scope, n) : l = [name |-> n, target |-> e]
        BY DEF LinksOf, ScopeForReferenceTarget
    <2>. QED
        BY <2>1
<1>3. outer \in [1 .. 3 -> SUBSET Binding]
    BY <1>1, ImportLinksAreTyped, GlobalScopeIsTyped
<1>4. file \in SUBSET Binding /\ held \in SUBSET Binding
    BY <1>1, FileLayerIsTyped, CoreLayersAreTyped
<1>5. \E b \in file : b.name = l.name
    <2>1. PICK decl \in text[d].declarations : decl.name = l.name
        BY DEF Hides
    <2>. DEFINE e == [uri |-> d, name |-> decl.name, visibility |-> decl.visibility,
                      package |-> text[d].package]
    <2>2. [name |-> e.name, target |-> e] \in file
        BY DEF GlobalDeclarationsInSameFile, Bindings
    <2>. QED
        BY <2>1, <2>2
<1>6. \A b \in file : b.target.uri = d
    BY DEF GlobalDeclarationsInSameFile, Bindings
<1>. HIDE DEF outer, file, held
<1>7. /\ scope \in [1 .. 5 -> SUBSET Binding] /\ scope[1] = held /\ scope[2] = file
      /\ \A i \in 1 .. 3 : scope[i + 2] = outer[i]
    BY <1>3, <1>4, ScopeLayers
<1>. HIDE DEF scope
<1>8. PICK b \in held : b.name = l.name /\ b.target = l.target
    <2>1. PICK i \in 1 .. 5 :
              /\ \E b \in scope[i] : b.name = l.name /\ b.target = l.target
              /\ \A j \in 1 .. 5 : (\E x \in scope[j] : x.name = l.name) => i <= j
        BY <1>2, <1>7 DEF Resolve
    <2>2. i <= 2
        BY <1>5, <1>7, <2>1
    <2>3. i # 2
        BY <1>6, <1>7, <2>1 DEF Hides
    <2>4. i = 1
        BY <2>2, <2>3
    <2>. QED
        BY <1>7, <2>1, <2>4
<1>9. l.target \in GetCoreDeclarations /\ l.target.name = l.name
    BY <1>8 DEF held, Bindings
<1>10. l.target.package = LangPackage
    BY <1>1, <1>9, QueriesRespectVisibility
       DEF GetCoreDeclarations, Get, CoreDeclarations, StartInv
<1>. QED
    BY <1>1, <1>9, <1>10, CoreIsLawful

\* Validating a document finds what a core declaration hides.
LEMMA HiddenAreFound ==
    ASSUME TypeOK, TreeInv, TextsAreLawful, phase = "Validated",
           NEW d \in Document \ Builtin, Exists(d), NEW t, NEW decl \in text[d].declarations,
           t.uri \in Builtin, IsLawful(t), t.package = LangPackage, t.name = decl.name
    PROVE  [code |-> "name/core-declaration", name |-> decl.name] \in CoreDeclarationErrors(d)
<1>. DEFINE u == t.uri
<1>1. u \in Document /\ Exists(u) /\ t \in Listed(Exports(u, text[u]))
    BY WorkspaceAssumption DEF IsLawful, Offered
<1>2. text[u] \in Module
    BY <1>1 DEF TypeOK, ScopeTypeOK, Exists
<1>3. LangPackage \in Package
    BY <1>1, <1>2, ExportsAreDescriptions DEF Listed, Description
<1>4. t \in Held(u, LangPackage)
    BY <1>1, <1>3, LateTreeAgrees DEF Agrees
<1>. QED
    BY <1>4 DEF Held, CoreDeclarationErrors, TextsAreLawful, Exists

LEMMA HiddenInvIsKept ==
    ASSUME ViewInv, StartInv, HiddenInv, [Next]_vars
    PROVE  HiddenInv'
<1>. DEFINE Error(n) == [code |-> "name/core-declaration", name |-> n]
<1>1. ASSUME NEW d \in Document \ Builtin, links'[d] = links[d], text'[d] = text[d],
             \A u \in Builtin : text'[u] = text[u],
             state'[d] = "Validated" => state[d] = "Validated" /\ diagnostics'[d] = diagnostics[d],
             NEW l \in links'[d].targets, Hides(d, l)'
      PROVE  /\ l.target.uri \in Builtin /\ IsLawful(l.target)'
             /\ l.target.package = LangPackage /\ l.target.name = l.name
             /\ state'[d] = "Validated" => Error(l.name) \in diagnostics'[d]
    <2>1. l \in links[d].targets /\ Hides(d, l)
        BY <1>1 DEF Hides
    <2>. QED
        BY <1>1, <2>1, LawfulIsStable DEF HiddenInv
<1>2. CASE Edit
    <2>1. PICK touched \in SUBSET Document :
              \E new \in [touched -> Module \cup {Absent}] : Update(new)
        BY <1>2, WorkspaceAssumption DEF Edit
    <2>2. PICK new \in [touched -> Module \cup {Absent}] : Update(new)
        BY <2>1
    <2>3. \A d \in Document :
              \/ links'[d] = Unlinked
              \/ /\ links'[d] = links[d] /\ text'[d] = text[d]
                 /\ state'[d] = state[d] /\ diagnostics'[d] = diagnostics[d]
        BY <2>2 DEF Update
    <2>4. \A u \in Builtin : text'[u] = text[u]
        BY <1>2, EditSparesBuiltin DEF ViewInv
    <2>. QED
        BY <1>1, <2>3, <2>4 DEF HiddenInv, Unlinked
<1>3. ASSUME NEW x \in Document, Validate(x)
      PROVE  HiddenInv'
    <2>1. /\ phase = "Validated" /\ Exists(x) /\ UNCHANGED <<text, links>>
          /\ diagnostics' = [diagnostics EXCEPT ![x] = Diagnostics(x)]
          /\ \A d \in Document \ {x} : state'[d] = state[d]
        BY <1>3 DEF Validate, Process, Pending, scopeVars, ViewInv, TypeOK
    <2>2. \A u : IsLawful(u) => IsLawful(u)'
        BY <2>1, LawfulIsStable
    <2>3. ASSUME NEW l \in links[x].targets, Hides(x, l), x \notin Builtin
          PROVE  Error(l.name) \in diagnostics'[x]
        <3>1. /\ l.target.uri \in Builtin /\ IsLawful(l.target)
              /\ l.target.package = LangPackage /\ l.target.name = l.name
            BY <2>3 DEF HiddenInv
        <3>2. PICK decl \in text[x].declarations : decl.name = l.name
            BY <2>3 DEF Hides
        <3>3. Error(l.name) \in CoreDeclarationErrors(x)
            BY <2>1, <2>3, <3>1, <3>2, HiddenAreFound DEF ViewInv, CoreInv
        <3>. QED
            BY <2>1, <3>3 DEF Diagnostics, ViewInv, TypeOK
    <2>4. ASSUME NEW d \in Document \ Builtin, NEW l \in links[d].targets, Hides(d, l)
          PROVE  /\ l.target.uri \in Builtin /\ IsLawful(l.target)'
                 /\ l.target.package = LangPackage /\ l.target.name = l.name
                 /\ state'[d] = "Validated" => Error(l.name) \in diagnostics'[d]
        BY <2>1, <2>2, <2>3, <2>4 DEF HiddenInv, ViewInv, TypeOK
    <2>. QED
        BY <2>1, <2>4 DEF HiddenInv, Hides
<1>4. ASSUME NEW x \in Document, Link(x)
      PROVE  HiddenInv'
    <2>1. /\ text[x] \in Module /\ UNCHANGED <<text, diagnostics>>
          /\ links'[x] = LinksOf(x) /\ state'[x] = "Linked"
          /\ \A d \in Document \ {x} : state'[d] = state[d] /\ links'[d] = links[d]
        BY <1>4, ProcessKeepsTypes
           DEF Link, LinkDocument, Process, Phases, ViewInv, TypeOK, ScopeTypeOK
    <2>2. \A u : IsLawful(u) => IsLawful(u)'
        BY <2>1, LawfulIsStable
    <2>3. ASSUME NEW d \in Document \ Builtin, NEW l \in links'[d].targets, Hides(d, l)
          PROVE  /\ l.target.uri \in Builtin /\ IsLawful(l.target)'
                 /\ l.target.package = LangPackage /\ l.target.name = l.name
                 /\ state'[d] = "Validated" => Error(l.name) \in diagnostics'[d]
        BY <2>1, <2>2, <2>3, LinkingHides DEF HiddenInv
    <2>. QED
        BY <2>1, <2>3 DEF HiddenInv, Hides
<1>5. ASSUME UNCHANGED <<text, links>>,
             \A d \in Document : state'[d] = "Validated" =>
                 state[d] = "Validated" /\ diagnostics'[d] = diagnostics[d]
      PROVE  HiddenInv'
    BY <1>1, <1>5, WorkspaceAssumption DEF HiddenInv
<1>6. ASSUME NEW x \in Document, Index(x) \/ ComputeScopes(x) \/ IndexReferences(x)
      PROVE  HiddenInv'
    <2>1. /\ UNCHANGED <<text, links, diagnostics>> /\ state'[x] # "Validated"
          /\ \A d \in Document \ {x} : state'[d] = state[d]
        BY <1>6 DEF Index, ComputeScopes, IndexReferences, Process, scopeVars, ViewInv, TypeOK
    <2>. QED
        BY <1>5, <2>1
<1>7. ASSUME UNCHANGED <<text, links, diagnostics, state>>
      PROVE  HiddenInv'
    BY <1>5, <1>7
<1>. QED
    BY <1>2, <1>3, <1>4, <1>6, <1>7 DEF Next, Build, FinishPhase, Complete, vars, scopeVars

-----------------------------------------------------------------------------
(* The theorems.                                                           *)

LEMMA RestInvInitially == Init => RestInv
BY PackageAssumption
   DEF Init, ManagerInit, RestInv, ErrorInv, StartInv, TreeIsRooted, ClashInv, HiddenInv,
       IsStarted, LinkedStates, Hides, Unlinked, Exists

LEMMA RestInvIsKept == ViewInv /\ RestInv /\ [Next]_vars => RestInv'
BY ErrorInvIsKept, StartInvIsKept, TreeIsRootedIsKept, ClashInvIsKept, HiddenInvIsKept
   DEF RestInv, ViewInv

LEMMA RestInvHolds == Spec => [](ViewInv /\ RestInv)
BY ViewInvHolds, RestInvInitially, RestInvIsKept, PTL DEF Spec

\* Nobody is being built when the builder rests.
LEMMA RestingIsLinked ==
    ASSUME TypeOK, TreeInv, StartInv, phase = "Idle", NEW d \in Document, Exists(d)
    PROVE  state[d] \in LinkedStates
BY DEF TypeOK, TreeInv, BuildIsOrderly, StartInv, LinkedStates, Exists

\* However edits, cancelled builds and completion requests interleave: when the
\* builder rests, a reference is unresolved only if a lookup that bypasses all
\* caches finds nothing for it either.
THEOREM NoStaleErrors == Spec => []NoStaleLinkingErrors
<1>1. ViewInv /\ RestInv => NoStaleLinkingErrors
    BY RestingIsLinked DEF ViewInv, RestInv, ErrorInv, NoStaleLinkingErrors
<1>. QED
    BY <1>1, RestInvHolds, PTL

\* When the builder rests, two documents of a package that declare the same name
\* have an error on one of them, whichever of them was validated last.
THEOREM DuplicatesAreReported == Spec => []DuplicatesReported
<1>1. ViewInv /\ RestInv => DuplicatesReported
    <2>. SUFFICES ASSUME RestInv, phase = "Idle",
                         NEW c \in Document \ Builtin, NEW d \in Document \ Builtin,
                         NEW n \in Name, Clash(c, d, n), "Validated" \in {state[c], state[d]}
                  PROVE  IsReported(c, d, n)
        BY DEF DuplicatesReported, IsReported
    <2>1. building = {}
        BY DEF RestInv, StartInv
    <2>. QED
        BY <2>1, ClashIsSymmetric DEF RestInv, ClashInv, IsReported
<1>. QED
    BY <1>1, RestInvHolds, PTL

\* When the builder rests, a declaration that references to its name pass over
\* has an error that says so.
THEOREM HiddenDeclarationsAreReported == Spec => []HiddenDeclarationsReported
<1>1. RestInv => HiddenDeclarationsReported
    BY DEF RestInv, HiddenInv, Hides, HiddenDeclarationsReported
<1>. QED
    BY <1>1, RestInvHolds, PTL

-----------------------------------------------------------------------------
(* What a rename starts from.                                              *)

\* A request names a declaration that its document contains.
RequestInv ==
    request # NoRequest =>
        LET target == request.target
        IN  /\ request \in Request
            /\ Exists(target.uri) /\ target.package = text[target.uri].package
            /\ [name |-> target.name, visibility |-> target.visibility]
                   \in text[target.uri].declarations

\* What RenameKeepsLinks presupposes, and what holds in every reachable state.
IsSettled ==
    /\ TypeOK /\ TreeIsFiled /\ CoreInv /\ TreeIsRooted /\ RequestInv
    /\ IsRenaming /\ TreeIsComplete /\ LinksAreFresh /\ IsUnambiguous

Declared == UNION {Offered(d) : d \in Document}

\* Renaming keeps everything of a declaration but the name of the target.
LEMMA RenamedParts ==
    ASSUME IsSettled, NEW x \in Description
    PROVE  /\ RenamedDeclaration(x) \in Description
           /\ RenamedDeclaration(x).uri = x.uri
           /\ RenamedDeclaration(x).visibility = x.visibility
           /\ RenamedDeclaration(x).package = x.package
           /\ IF x = request.target THEN RenamedDeclaration(x).name = request.newName
                                    ELSE RenamedDeclaration(x) = x
BY DEF RenamedDeclaration, Description, IsSettled, RequestInv, IsRenaming, Request

LEMMA DeclaredAreNamed ==
    ASSUME IsSettled
    PROVE  \A x \in Declared : x \in Description /\ x.name # request.newName
<1>. SUFFICES ASSUME NEW d \in Document, NEW x \in Offered(d)
              PROVE  x \in Description /\ x.name # request.newName
    BY DEF Declared
<1>1. x \in Description
    BY OffersAreTyped DEF IsSettled, OffersAreFiled
<1>2. Exists(d) /\ x \in Exports(d, text[d])
    BY DEF Offered, Listed
<1>3. PICK decl \in text[d].declarations : x.name = decl.name
    BY <1>2 DEF Exports
<1>. QED
    BY <1>1, <1>2, <1>3 DEF IsSettled, IsRenaming, IsFresh

\* The tree holds what is declared, and nothing else.
LEMMA TreeHoldsDeclared ==
    ASSUME IsSettled
    PROVE  /\ \A path \in DOMAIN packageContents : \A x \in packageContents[path] :
                  x \in Declared /\ x.package = path
           /\ \A x \in Declared :
                  /\ x.package # NoPackage /\ x.package \in DOMAIN packageContents
                  /\ x \in packageContents[x.package]
                  /\ Prefixes(x.package) \subseteq DOMAIN packageContents
<1>0. ManagerTypeOK /\ TreeIsFiled /\ TreeIsLawful /\ TreeIsRooted /\ TreeIsComplete
    BY DEF IsSettled, TypeOK, CoreInv
<1>1. ASSUME NEW path \in DOMAIN packageContents, NEW x \in packageContents[path]
      PROVE  x \in Declared /\ x.package = path
    BY <1>0, <1>1, TreeIsServed DEF TreeIsComplete, Declared, TreeIsFiled
<1>2. ASSUME NEW d \in Document, NEW x \in Offered(d)
      PROVE  /\ x.package # NoPackage /\ x.package \in DOMAIN packageContents
             /\ x \in packageContents[x.package]
             /\ Prefixes(x.package) \subseteq DOMAIN packageContents
    <2>1. PICK p \in Package : x \in Held(d, p)
        BY <1>0, <1>2 DEF TreeIsComplete, Served
    <2>2. p \in DOMAIN packageContents /\ x \in packageContents[p] /\ p # NoPackage
        BY <2>1 DEF Held, GetDeclarationsInPackage, FilterDescriptions, HasContents
    <2>. QED
        BY <1>0, <2>2 DEF TreeIsFiled, TreeIsRooted
<1>. QED
    BY <1>1, <1>2 DEF Declared

\* What packages that start with the root package have on their way to them.
LEMMA RootIsOnTheWay ==
    ASSUME NEW p \in Package, IsPrefix(RootPackage, p)
    PROVE  RootPackage \in Prefixes(p)
<1>1. RootPackage \in Seq(Segment) /\ p \in Seq(Segment)
    BY ScopeAssumption, PackageAssumption
<1>2. /\ Len(RootPackage) \in 0 .. Len(p)
      /\ SubSeq(RootPackage, 1, Len(RootPackage)) = SubSeq(p, 1, Len(RootPackage))
    BY <1>1 DEF IsPrefix
<1>3. SubSeq(RootPackage, 1, Len(RootPackage)) = RootPackage
    BY <1>1
<1>. QED
    BY <1>2, <1>3 DEF Prefixes

\* What a query for a package, or for the root package and those below it, returns.
IsOffered(x, p, hide) == x.package = p /\ (hide => x.visibility = "public")
IsBuiltin(x, hide) == IsPrefix(RootPackage, x.package) /\ (hide => x.visibility = "public")

LEMMA QueriesReturnDeclared ==
    ASSUME IsSettled, NEW p, NEW hide
    PROVE  /\ GetDeclarationsInPackage(p, hide)
                  = {x \in Declared : p # NoPackage /\ IsOffered(x, p, hide)}
           /\ GetDeclarationsInPackageOrSubpackage(RootPackage, hide)
                  = {x \in Declared : IsBuiltin(x, hide)}
<1>1. GetDeclarationsInPackage(p, hide) = {x \in Declared : p # NoPackage /\ IsOffered(x, p, hide)}
    BY TreeHoldsDeclared
       DEF GetDeclarationsInPackage, FilterDescriptions, HasContents, IsOffered
<1>2. ASSUME NEW x \in Declared, IsPrefix(RootPackage, x.package)
      PROVE  HasContents(RootPackage)
    <2>1. x.package \in Package
        BY <1>2, TreeHoldsDeclared, DeclaredAreNamed DEF Description
    <2>. QED
        BY <1>2, <2>1, RootIsOnTheWay, TreeHoldsDeclared, ScopeAssumption DEF HasContents
<1>3. GetDeclarationsInPackageOrSubpackage(RootPackage, hide) = {x \in Declared : IsBuiltin(x, hide)}
    BY <1>2, TreeHoldsDeclared
       DEF GetDeclarationsInPackageOrSubpackage, FilterDescriptions, IsBuiltin
<1>. QED
    BY <1>1, <1>3

-----------------------------------------------------------------------------
(* The workspace after the edits.                                          *)

\* The declarations of a document after the edits.
LEMMA DeclarationsAreRenamed ==
    ASSUME IsSettled, NEW d \in Document, Exists(d)
    PROVE  {[uri |-> d, name |-> decl.name, visibility |-> decl.visibility,
             package |-> text[d].package] : decl \in RenamedText(d).declarations}
               = {RenamedDeclaration([uri |-> d, name |-> decl.name,
                      visibility |-> decl.visibility, package |-> text[d].package]) :
                      decl \in text[d].declarations}
<1>. DEFINE described(decl) == [uri |-> d, name |-> decl.name, visibility |-> decl.visibility,
                                package |-> text[d].package]
            declares(decl) == /\ d = request.target.uri
                              /\ decl.name = request.target.name
                              /\ decl.visibility = request.target.visibility
            renamed(decl) == IF declares(decl) THEN [decl EXCEPT !.name = request.newName]
                                               ELSE decl
<1>1. text[d] \in Module
    BY DEF IsSettled, TypeOK, ScopeTypeOK, Exists
<1>2. RenamedText(d).declarations = {renamed(decl) : decl \in text[d].declarations}
    BY <1>1 DEF RenamedText, Module
<1>3. ASSUME NEW decl \in text[d].declarations
      PROVE  described(renamed(decl)) = RenamedDeclaration(described(decl))
    <2>1. decl \in [name : Name, visibility : Visibility]
        BY <1>1 DEF Module
    <2>2. declares(decl) <=> described(decl) = request.target
        BY <2>1 DEF IsSettled, RequestInv, IsRenaming, Request, Description
    <2>. QED
        BY <2>1, <2>2 DEF RenamedDeclaration
<1>. HIDE DEF described, renamed
<1>4. {described(decl) : decl \in RenamedText(d).declarations}
          = {RenamedDeclaration(described(decl)) : decl \in text[d].declarations}
    BY <1>2, <1>3
<1>. QED
    BY <1>4 DEF described

\* What they declare after the edits.
Renamed == {RenamedDeclaration(x) : x \in Declared}

LEMMA OffersAreRenamed ==
    ASSUME IsSettled, NEW d \in Document, Exists(d)
    PROVE  Listed(RenamedIndex[d]) = {RenamedDeclaration(x) : x \in Offered(d)}
<1>. DEFINE all == {[uri |-> d, name |-> decl.name, visibility |-> decl.visibility,
                     package |-> text[d].package] : decl \in text[d].declarations}
<1>1. text[d] \in Module
    BY DEF IsSettled, TypeOK, ScopeTypeOK, Exists
<1>2. RenamedText(d).package = text[d].package
    BY <1>1 DEF RenamedText, Module
<1>3. all \subseteq Description /\ \A x \in all : x.package = text[d].package
    BY <1>1 DEF Module, Description
<1>4. RenamedIndex[d] = IF text[d].package = NoPackage THEN {}
                                                      ELSE {RenamedDeclaration(x) : x \in all}
    <2>1. RenamedIndex[d] = Exports(d, RenamedText(d))
        BY DEF RenamedIndex
    <2>2. Exports(d, RenamedText(d))
              = IF text[d].package = NoPackage
                THEN {}
                ELSE {[uri |-> d, name |-> decl.name, visibility |-> decl.visibility,
                       package |-> text[d].package] : decl \in RenamedText(d).declarations}
        BY <1>2 DEF Exports
    <2>3. {RenamedDeclaration(x) : x \in all}
              = {RenamedDeclaration([uri |-> d, name |-> decl.name,
                     visibility |-> decl.visibility, package |-> text[d].package]) :
                     decl \in text[d].declarations}
        OBVIOUS
    <2>. QED
        BY <2>1, <2>2, <2>3, DeclarationsAreRenamed
<1>5. Exports(d, text[d]) = IF text[d].package = NoPackage THEN {} ELSE all
    BY DEF Exports
<1>. HIDE DEF all
<1>6. \A x \in all : RenamedDeclaration(x).package = text[d].package
    BY <1>3, RenamedParts
<1>. QED
    BY <1>3, <1>4, <1>5, <1>6 DEF Offered, Listed

LEMMA IndexIsRenamed ==
    ASSUME IsSettled
    PROVE  Listed(UNION {RenamedIndex[d] : d \in Document}) = Renamed
<1>1. \A d \in Document : Listed(RenamedIndex[d]) = {RenamedDeclaration(x) : x \in Offered(d)}
    <2>1. \A d \in Document : ~Exists(d) => RenamedIndex[d] = {} /\ Offered(d) = {}
        BY DEF RenamedIndex, Offered
    <2>. QED
        BY <2>1, OffersAreRenamed DEF Listed
<1>2. Listed(UNION {RenamedIndex[d] : d \in Document}) = UNION {Listed(RenamedIndex[d]) : d \in Document}
    BY DEF Listed
<1>. QED
    BY <1>1, <1>2 DEF Renamed, Declared

LEMMA TreeHoldsRenamed ==
    ASSUME IsSettled
    PROVE  /\ \A path \in DOMAIN RenamedTree : \A x \in RenamedTree[path] :
                  x \in Renamed /\ x.package = path
           /\ \A x \in Renamed :
                  /\ x.package \in Package /\ x.package # NoPackage
                  /\ x.package \in DOMAIN RenamedTree
                  /\ x \in RenamedTree[x.package]
                  /\ Prefixes(x.package) \subseteq DOMAIN RenamedTree
<1>1. RenamedTree = [path \in {<<>>} \cup UNION {Prefixes(x.package) : x \in Renamed}
                         |-> {x \in Renamed : x.package = path}]
    BY IndexIsRenamed DEF RenamedTree, TreeOf
<1>2. \A x \in Renamed : x.package \in Package /\ x.package # NoPackage
    BY RenamedParts, DeclaredAreNamed, TreeHoldsDeclared DEF Renamed, Description
<1>. QED
    BY <1>1, <1>2, PrefixOfItself

LEMMA QueriesReturnRenamed ==
    ASSUME IsSettled, NEW p, NEW hide
    PROVE  /\ After!GetDeclarationsInPackage(p, hide)
                  = {x \in Renamed : p # NoPackage /\ IsOffered(x, p, hide)}
           /\ After!GetDeclarationsInPackageOrSubpackage(RootPackage, hide)
                  = {x \in Renamed : IsBuiltin(x, hide)}
<1>1. After!GetDeclarationsInPackage(p, hide)
          = {x \in Renamed : p # NoPackage /\ IsOffered(x, p, hide)}
    BY TreeHoldsRenamed
       DEF After!GetDeclarationsInPackage, After!FilterDescriptions, After!HasContents,
           After!NoPackage, NoPackage, IsOffered
<1>2. ASSUME NEW x \in Renamed, IsPrefix(RootPackage, x.package)
      PROVE  After!HasContents(RootPackage)
    BY <1>2, RootIsOnTheWay, TreeHoldsRenamed, ScopeAssumption
       DEF After!HasContents, After!NoPackage, NoPackage
<1>3. After!GetDeclarationsInPackageOrSubpackage(RootPackage, hide)
          = {x \in Renamed : IsBuiltin(x, hide)}
    BY <1>2, TreeHoldsRenamed
       DEF After!GetDeclarationsInPackageOrSubpackage, After!FilterDescriptions, After!IsPrefix, IsPrefix,
           IsBuiltin
<1>. QED
    BY <1>1, <1>3

\* A query returns what it did, under the new name.
RenamedSet(S) == {RenamedDeclaration(x) : x \in S}

LEMMA QueriesAreRenamed ==
    ASSUME IsSettled, NEW p, NEW hide
    PROVE  /\ After!GetDeclarationsInPackage(p, hide)
                  = RenamedSet(GetDeclarationsInPackage(p, hide))
           /\ After!GetDeclarationsInPackageOrSubpackage(RootPackage, hide)
                  = RenamedSet(GetDeclarationsInPackageOrSubpackage(RootPackage, hide))
<1>1. \A x \in Declared :
          /\ IsOffered(RenamedDeclaration(x), p, hide) <=> IsOffered(x, p, hide)
          /\ IsBuiltin(RenamedDeclaration(x), hide) <=> IsBuiltin(x, hide)
    BY RenamedParts, DeclaredAreNamed DEF IsOffered, IsBuiltin
<1>. QED
    BY <1>1, QueriesReturnDeclared, QueriesReturnRenamed DEF Renamed, RenamedSet

-----------------------------------------------------------------------------
(* Imports.                                                                *)

\* What the links of a document are, since they are fresh.
LEMMA NowIsUncached ==
    ASSUME NEW d
    PROVE  /\ Now!ImportLinks(d) = ImportLinks(d)
           /\ \A importLinks : Now!GlobalScopeForNode(d, importLinks)
                                  = GlobalScopeForNode(d, importLinks)
           /\ Now!CoreDeclarations = CoreDeclarations
           /\ Now!GlobalDeclarationsInSameFile(d) = GlobalDeclarationsInSameFile(d)
<1>1. /\ \A p, hide : Now!GetDeclarationsInPackage(p, hide) = GetDeclarationsInPackage(p, hide)
      /\ \A p, hide : Now!GetDeclarationsInPackageOrSubpackage(p, hide)
                         = GetDeclarationsInPackageOrSubpackage(p, hide)
    BY DEF Now!GetDeclarationsInPackage, GetDeclarationsInPackage,
           Now!GetDeclarationsInPackageOrSubpackage, GetDeclarationsInPackageOrSubpackage,
           Now!FilterDescriptions, FilterDescriptions, Now!HasContents, HasContents,
           Now!NoPackage, NoPackage, Now!IsPrefix, IsPrefix
<1>2. Now!ImportLinks(d) = ImportLinks(d)
    BY <1>1 DEF Now!ImportLinks, ImportLinks, Now!QualifiedImports, QualifiedImports,
           Now!ScopeForImportedDeclaration, ScopeForImportedDeclaration
<1>3. \A importLinks : Now!ExplicitlyImportedDeclarations(d, importLinks)
                          = ExplicitlyImportedDeclarations(d, importLinks)
    BY <1>1 DEF Now!ExplicitlyImportedDeclarations, ExplicitlyImportedDeclarations,
           Now!VisibleName, VisibleName, Now!Bindings, Bindings,
           Now!WildcardImports, WildcardImports
<1>4. /\ Now!DeclarationsInSamePackage(d) = DeclarationsInSamePackage(d)
      /\ Now!BuiltinDeclarations = BuiltinDeclarations
      /\ Now!CoreDeclarations = CoreDeclarations
    BY <1>1 DEF Now!DeclarationsInSamePackage, DeclarationsInSamePackage,
           Now!BuiltinDeclarations, BuiltinDeclarations, Now!CoreDeclarations, CoreDeclarations
<1>5. \A S : Now!Bindings(S) = Bindings(S)
    BY DEF Now!Bindings, Bindings
<1>6. \A importLinks : Now!GlobalScopeForNode(d, importLinks) = GlobalScopeForNode(d, importLinks)
    BY <1>3, <1>4, <1>5 DEF Now!GlobalScopeForNode, GlobalScopeForNode
<1>7. Now!GlobalDeclarationsInSameFile(d) = GlobalDeclarationsInSameFile(d)
    BY <1>5 DEF Now!GlobalDeclarationsInSameFile, GlobalDeclarationsInSameFile
<1>. QED
    BY <1>2, <1>4, <1>6, <1>7

LEMMA FreshLinks ==
    ASSUME IsSettled, NEW d \in Document, Exists(d)
    PROVE  /\ links[d].imports = ImportLinks(d)
           /\ links[d].targets
                  = UNION {{[name |-> n, target |-> x] :
                                x \in Resolve(UncachedScope(d, ImportLinks(d)), n)} :
                               n \in text[d].references}
<1>1. links[d] = Now!LinksOf(d)
    BY DEF IsSettled, LinksAreFresh
<1>2. \A importLinks : Now!ScopeForReferenceTarget(d, importLinks) = UncachedScope(d, importLinks)
    BY NowIsUncached
       DEF Now!ScopeForReferenceTarget, UncachedScope, Now!GetCoreDeclarations,
           Now!GetGlobalScope, Now!Get, Now!Bindings, Bindings
<1>3. \A scope, n : Now!Resolve(scope, n) = Resolve(scope, n)
    BY DEF Now!Resolve, Resolve
<1>. QED
    BY <1>1, <1>2, <1>3, NowIsUncached DEF Now!LinksOf

\* The edited text.
LEMMA TextIsRenamed ==
    ASSUME IsSettled, NEW d \in Document, Exists(d)
    PROVE  /\ RenamedTexts[d] = RenamedText(d)
           /\ RenamedText(d).package = text[d].package
           /\ RenamedText(d).imports
                  = {imp \in text[d].imports : \A l \in links[d].imports : l.import # imp}
                        \cup {RenamedImport(l) : l \in links[d].imports}
           /\ RenamedText(d).references
                  = {n \in text[d].references : \A l \in links[d].targets : l.name # n}
                        \cup {RenamedReference(d, l) : l \in links[d].targets}
<1>1. text[d] \in Module
    BY DEF IsSettled, TypeOK, ScopeTypeOK, Exists
<1>. QED
    BY <1>1 DEF RenamedTexts, RenamedText, Module

\* The scope of an import has the same declarations, under their new names.
LEMMA ImportScopesAreRenamed ==
    ASSUME IsSettled, NEW d \in Document, Exists(d), NEW imp
    PROVE  After!ScopeForImportedDeclaration(d, imp)
               = RenamedSet(ScopeForImportedDeclaration(d, imp))
BY QueriesAreRenamed, TextIsRenamed
   DEF After!ScopeForImportedDeclaration, ScopeForImportedDeclaration

\* An import leads to one declaration at most.
LEMMA ImportsAreUnambiguous ==
    ASSUME IsSettled, NEW d \in Document, Exists(d), NEW l \in links[d].imports
    PROVE  /\ l = [import |-> l.import, target |-> l.target]
           /\ l.import \in text[d].imports /\ l.import.name # Everything
           /\ l.target \in ScopeForImportedDeclaration(d, l.import)
           /\ l.target.name = l.import.name
           /\ \A x \in ScopeForImportedDeclaration(d, l.import) :
                  x.name = l.import.name => x = l.target
<1>0. PICK imp \in QualifiedImports(d) :
          \E x \in ScopeForImportedDeclaration(d, imp) :
              x.name = imp.name /\ l = [import |-> imp, target |-> x]
    BY FreshLinks DEF ImportLinks
<1>1. PICK x \in ScopeForImportedDeclaration(d, imp) :
          x.name = imp.name /\ l = [import |-> imp, target |-> x]
    BY <1>0
<1>2. ASSUME NEW y \in ScopeForImportedDeclaration(d, imp), y.name = imp.name
      PROVE  y = x
    <2>1. [import |-> imp, target |-> y] \in links[d].imports
        BY <1>2, FreshLinks DEF ImportLinks
    <2>. QED
        BY <1>1, <2>1 DEF IsSettled, IsUnambiguous
<1>. QED
    BY <1>1, <1>2 DEF QualifiedImports

LEMMA ScopesAreDeclared ==
    ASSUME IsSettled, NEW d, NEW imp
    PROVE  ScopeForImportedDeclaration(d, imp) \subseteq Declared
BY QueriesReturnDeclared DEF ScopeForImportedDeclaration

\* The imports are linked as they were.
LEMMA ImportsAreRenamed ==
    ASSUME IsSettled, NEW d \in Document, Exists(d)
    PROVE  After!ImportLinks(d) = RenamedLinks(d).imports
<1>. DEFINE found(imp) == {y \in After!ScopeForImportedDeclaration(d, imp) : y.name = imp.name}
            linked(imp) == {[import |-> imp, target |-> y] : y \in found(imp)}
            renamed(l) == [import |-> RenamedImport(l), target |-> RenamedDeclaration(l.target)]
            unlinked == {imp \in text[d].imports : \A l \in links[d].imports : l.import # imp}
<1>0. /\ request.newName \in Name /\ request.newName # Everything
      /\ \A imp \in text[d].imports : imp.name # request.newName
    BY ScopeAssumption DEF IsSettled, IsRenaming, IsFresh, RequestInv, Request
<1>1. ASSUME NEW imp \in unlinked, imp.name # Everything
      PROVE  found(imp) = {}
    <2>1. ASSUME NEW x \in ScopeForImportedDeclaration(d, imp),
                 RenamedDeclaration(x).name = imp.name
          PROVE  FALSE
        <3>1. x \in Description
            BY ScopesAreDeclared, DeclaredAreNamed
        <3>2. x.name = imp.name
            BY <1>0, <2>1, <3>1, RenamedParts
        <3>3. [import |-> imp, target |-> x] \in links[d].imports
            BY <1>1, <3>2, FreshLinks DEF ImportLinks, QualifiedImports
        <3>. QED
            BY <3>3
    <2>. QED
        BY <2>1, ImportScopesAreRenamed DEF RenamedSet
<1>2. ASSUME NEW l \in links[d].imports
      PROVE  /\ RenamedImport(l).name # Everything
             /\ linked(RenamedImport(l)) = {renamed(l)}
    <2>1. /\ l.import \in text[d].imports /\ l.import.name # Everything
          /\ l.target \in ScopeForImportedDeclaration(d, l.import)
          /\ l.target.name = l.import.name
          /\ \A x \in ScopeForImportedDeclaration(d, l.import) :
                 x.name = l.import.name => x = l.target
        BY ImportsAreUnambiguous
    <2>2. l.import \in QualifiedImport
        BY DEF IsSettled, TypeOK, ScopeTypeOK, ImportLink
    <2>3. /\ RenamedImport(l).package = l.import.package
          /\ IF l.target = request.target THEN RenamedImport(l).name = request.newName
                                           ELSE RenamedImport(l) = l.import
        BY <2>2 DEF RenamedImport, QualifiedImport
    <2>4. \A x \in ScopeForImportedDeclaration(d, l.import) :
              x \in Description /\ x.name # request.newName
        BY ScopesAreDeclared, DeclaredAreNamed
    <2>5. After!ScopeForImportedDeclaration(d, RenamedImport(l))
              = RenamedSet(ScopeForImportedDeclaration(d, l.import))
        <3>1. ScopeForImportedDeclaration(d, RenamedImport(l))
                  = ScopeForImportedDeclaration(d, l.import)
            BY <2>3 DEF ScopeForImportedDeclaration
        <3>. QED
            BY <3>1, ImportScopesAreRenamed
    <2>6. \A x \in ScopeForImportedDeclaration(d, l.import) :
              RenamedDeclaration(x).name = RenamedImport(l).name <=> x = l.target
        BY <1>0, <2>1, <2>3, <2>4, RenamedParts
    <2>7. found(RenamedImport(l)) = {RenamedDeclaration(l.target)}
        BY <2>1, <2>5, <2>6 DEF RenamedSet
    <2>. QED
        BY <1>0, <2>1, <2>3, <2>7
<1>3. After!QualifiedImports(d)
          = {imp \in unlinked : imp.name # Everything}
                \cup {RenamedImport(l) : l \in links[d].imports}
    BY <1>2, TextIsRenamed DEF After!QualifiedImports
<1>4. After!ImportLinks(d) = UNION {linked(imp) : imp \in After!QualifiedImports(d)}
    BY DEF After!ImportLinks
<1>5. \A imp \in unlinked : imp.name # Everything => linked(imp) = {}
    BY <1>1
<1>6. RenamedLinks(d).imports = {renamed(l) : l \in links[d].imports}
    BY DEF RenamedLinks
<1>. HIDE DEF linked, renamed, unlinked
<1>. QED
    BY <1>2, <1>3, <1>4, <1>5, <1>6

-----------------------------------------------------------------------------
(* Scopes of references.                                                   *)

\* The five layers of a scope.
LEMMA FiveLayers ==
    ASSUME NEW a, NEW b, NEW c, NEW d, NEW e, NEW s, s = <<a, b>> \o <<c, d, e>>
    PROVE  /\ DOMAIN s = 1 .. 5
           /\ s[1] = a /\ s[2] = b /\ s[3] = c /\ s[4] = d /\ s[5] = e
<1>. DEFINE inner == <<a, b>>
            outer == <<c, d, e>>
            S == {a, b, c, d, e}
<1>1. inner \in Seq(S) /\ Len(inner) = 2 /\ inner[1] = a /\ inner[2] = b
    OBVIOUS
<1>2. outer \in Seq(S) /\ Len(outer) = 3 /\ outer[1] = c /\ outer[2] = d /\ outer[3] = e
    OBVIOUS
<1>3. s = inner \o outer
    OBVIOUS
<1>. HIDE DEF inner, outer, S
<1>4. /\ s \in Seq(S)
      /\ Len(s) = Len(inner) + Len(outer)
      /\ \A i \in 1 .. Len(inner) + Len(outer) :
             s[i] = IF i <= Len(inner) THEN inner[i] ELSE outer[i - Len(inner)]
    BY <1>1, <1>2, <1>3, ConcatProperties
<1>5. DOMAIN s = 1 .. 5
    BY <1>1, <1>2, <1>4, LenProperties
<1>. QED
    BY <1>1, <1>2, <1>4, <1>5

\* A name resolves to what the first layer that binds it has for it.
IsBound(scope, i, n) == \E b \in scope[i] : b.name = n
IsFirst(scope, i, n) == IsBound(scope, i, n) /\ \A j \in 1 .. 5 : IsBound(scope, j, n) => i <= j

LEMMA FirstLayerResolves ==
    ASSUME NEW scope, DOMAIN scope = 1 .. 5, NEW n
    PROVE  /\ Resolve(scope, n) = {} <=> \A i \in 1 .. 5 : ~IsBound(scope, i, n)
           /\ \A i \in 1 .. 5 : IsFirst(scope, i, n) =>
                  Resolve(scope, n) = {b.target : b \in {b \in scope[i] : b.name = n}}
           /\ Resolve(scope, n) # {} => \E i \in 1 .. 5 : IsFirst(scope, i, n)
<1>. DEFINE hits == {i \in 1 .. 5 : IsBound(scope, i, n)}
<1>1. Resolve(scope, n)
          = {b.target : b \in {b \in UNION {scope[i] : i \in hits} :
                b.name = n /\ \E i \in hits : b \in scope[i] /\ \A j \in hits : i <= j}}
    BY DEF Resolve, IsBound
<1>2. ASSUME NEW k \in hits
      PROVE  \E i \in hits : \A j \in hits : i <= j
    BY <1>2
<1>3. hits = {} => Resolve(scope, n) = {}
    BY <1>1
<1>4. ASSUME NEW i \in 1 .. 5, IsFirst(scope, i, n)
      PROVE  Resolve(scope, n) = {b.target : b \in {b \in scope[i] : b.name = n}}
    <2>1. i \in hits /\ \A j \in hits : i <= j
        BY <1>4 DEF IsFirst
    <2>2. \A k \in hits : (\A j \in hits : k <= j) => k = i
        BY <2>1
    <2>. HIDE DEF hits
    <2>. QED
        BY <1>1, <2>1, <2>2
<1>5. \A i \in hits : (\A j \in hits : i <= j) => IsFirst(scope, i, n)
    BY DEF IsFirst
<1>6. \A i \in 1 .. 5 : IsFirst(scope, i, n) => Resolve(scope, n) # {}
    BY <1>4 DEF IsFirst, IsBound
<1>. QED
    BY <1>2, <1>3, <1>4, <1>5, <1>6

\* A layer of the scope before and after: bindings of other declarations stay,
\* and those of the target are made of those it had, under the new name or not.
IsRenamedLayer(old, new) ==
    /\ \A b \in new : \E c \in old :
           IF c.target = request.target
           THEN b.target = RenamedDeclaration(c.target) /\ b.name \in {c.name, request.newName}
           ELSE b = c
    /\ \A c \in old : c.target # request.target => c \in new

IsRenamedScope(old, new) ==
    /\ DOMAIN old = 1 .. 5 /\ DOMAIN new = 1 .. 5
    /\ \A i \in 1 .. 5 : IsRenamedLayer(old[i], new[i])

\* A name that is in use is not bound where it was not.
LEMMA NoNewNames ==
    ASSUME NEW old, NEW new, IsRenamedScope(old, new), NEW n, n # request.newName
    PROVE  \A i \in 1 .. 5 : IsBound(new, i, n) => IsBound(old, i, n)
BY DEF IsRenamedScope, IsRenamedLayer, IsBound

LEMMA UnresolvedRemainSo ==
    ASSUME NEW old, NEW new, IsRenamedScope(old, new), NEW n, n # request.newName,
           Resolve(old, n) = {}
    PROVE  Resolve(new, n) = {}
BY NoNewNames, FirstLayerResolves DEF IsRenamedScope

LEMMA OtherTargetsRemain ==
    ASSUME NEW old, NEW new, IsRenamedScope(old, new), NEW n, n # request.newName,
           NEW x, x # request.target, Resolve(old, n) = {x},
           \A i \in 1 .. 5 : \A b \in old[i] : b = [name |-> b.name, target |-> b.target]
    PROVE  Resolve(new, n) = {x}
<1>1. PICK i \in 1 .. 5 : IsFirst(old, i, n)
    BY FirstLayerResolves DEF IsRenamedScope
<1>2. {b.target : b \in {b \in old[i] : b.name = n}} = {x}
    BY <1>1, FirstLayerResolves DEF IsRenamedScope
<1>3. PICK c \in old[i] : c.name = n /\ c.target = x
    BY <1>2
<1>4. c \in new[i]
    BY <1>3 DEF IsRenamedScope, IsRenamedLayer
<1>5. IsFirst(new, i, n)
    BY <1>1, <1>3, <1>4, NoNewNames DEF IsFirst, IsBound
<1>6. \A b \in new[i] : b.name = n => b.target = x
    <2>1. ASSUME NEW b \in new[i], b.name = n
          PROVE  b.target = x
        <3>1. PICK e \in old[i] :
                  IF e.target = request.target
                  THEN b.target = RenamedDeclaration(e.target) /\ b.name \in {e.name, request.newName}
                  ELSE b = e
            BY DEF IsRenamedScope, IsRenamedLayer
        <3>2. e.name = n
            BY <2>1, <3>1
        <3>3. e.target = x
            BY <1>2, <3>2
        <3>. QED
            BY <3>1, <3>3
    <2>. QED
        BY <2>1
<1>. QED
    BY <1>3, <1>4, <1>5, <1>6, FirstLayerResolves DEF IsRenamedScope

\* The new name leads to the target as soon as a layer has it.
LEMMA NewNameLeadsToTarget ==
    ASSUME NEW old, NEW new, IsRenamedScope(old, new),
           \A i \in 1 .. 5 : ~IsBound(old, i, request.newName),
           NEW k \in 1 .. 5, IsBound(new, k, request.newName)
    PROVE  Resolve(new, request.newName) = {RenamedDeclaration(request.target)}
<1>1. \A i \in 1 .. 5 : \A b \in new[i] :
          b.name = request.newName => b.target = RenamedDeclaration(request.target)
    BY DEF IsRenamedScope, IsRenamedLayer, IsBound
<1>2. Resolve(new, request.newName) # {}
    BY FirstLayerResolves DEF IsRenamedScope
<1>3. PICK i \in 1 .. 5 : IsFirst(new, i, request.newName)
    BY <1>2, FirstLayerResolves DEF IsRenamedScope
<1>4. Resolve(new, request.newName)
          = {b.target : b \in {b \in new[i] : b.name = request.newName}}
    BY <1>3, FirstLayerResolves DEF IsRenamedScope
<1>. QED
    BY <1>1, <1>2, <1>4

\* An alias of the target leads to it as before.
LEMMA AliasLeadsToTarget ==
    ASSUME NEW old, NEW new, IsRenamedScope(old, new), NEW n, n # request.newName,
           Resolve(old, n) = {request.target},
           \A i \in 1 .. 2 : \A b \in old[i] : b.target # request.target,
           \E b \in old[3] : b.name = n,
           \E b \in new[3] : b.name = n
    PROVE  Resolve(new, n) = {RenamedDeclaration(request.target)}
<1>1. PICK i \in 1 .. 5 : IsFirst(old, i, n)
    BY FirstLayerResolves DEF IsRenamedScope
<1>2. {b.target : b \in {b \in old[i] : b.name = n}} = {request.target}
    BY <1>1, FirstLayerResolves DEF IsRenamedScope
<1>3. i = 3
    <2>1. i <= 3
        BY <1>1 DEF IsFirst, IsBound
    <2>2. i \notin 1 .. 2
        BY <1>2
    <2>. QED
        BY <2>1, <2>2
<1>4. IsFirst(new, 3, n)
    BY <1>1, <1>3, NoNewNames DEF IsFirst, IsBound
<1>5. \A b \in new[3] : b.name = n => b.target = RenamedDeclaration(request.target)
    <2>1. ASSUME NEW b \in new[3], b.name = n
          PROVE  b.target = RenamedDeclaration(request.target)
        <3>1. PICK e \in old[3] :
                  IF e.target = request.target
                  THEN b.target = RenamedDeclaration(e.target) /\ b.name \in {e.name, request.newName}
                  ELSE b = e
            BY DEF IsRenamedScope, IsRenamedLayer
        <3>2. e.name = n
            BY <2>1, <3>1
        <3>3. e.target = request.target
            BY <1>2, <1>3, <3>2
        <3>. QED
            BY <3>1, <3>3
    <2>. QED
        BY <2>1
<1>. QED
    BY <1>4, <1>5, FirstLayerResolves DEF IsRenamedScope

\* The layers of the scope of a document after the edits.
NewBinding == [name |-> request.newName, target |-> RenamedDeclaration(request.target)]

LEMMA BindingsAreRenamed ==
    ASSUME IsSettled, NEW S, S \subseteq Description
    PROVE  /\ IsRenamedLayer(Bindings(S), Bindings(RenamedSet(S)))
           /\ request.target \in S => NewBinding \in Bindings(RenamedSet(S))
<1>1. ASSUME NEW x \in S
      PROVE  IF x = request.target THEN RenamedDeclaration(x).name = request.newName
                                   ELSE RenamedDeclaration(x) = x
    BY RenamedParts
<1>2. ASSUME NEW b \in Bindings(RenamedSet(S))
      PROVE  \E c \in Bindings(S) :
                 IF c.target = request.target
                 THEN b.target = RenamedDeclaration(c.target) /\ b.name \in {c.name, request.newName}
                 ELSE b = c
    <2>1. PICK x \in S : b = [name |-> RenamedDeclaration(x).name, target |-> RenamedDeclaration(x)]
        BY DEF Bindings, RenamedSet
    <2>. DEFINE c == [name |-> x.name, target |-> x]
    <2>2. c \in Bindings(S)
        BY DEF Bindings
    <2>3. IF c.target = request.target
          THEN b.target = RenamedDeclaration(c.target) /\ b.name \in {c.name, request.newName}
          ELSE b = c
        BY <1>1, <2>1
    <2>. QED
        BY <2>2, <2>3
<1>3. ASSUME NEW c \in Bindings(S), c.target # request.target
      PROVE  c \in Bindings(RenamedSet(S))
    BY <1>1, <1>3 DEF Bindings, RenamedSet
<1>4. request.target \in S => NewBinding \in Bindings(RenamedSet(S))
    BY <1>1 DEF Bindings, RenamedSet, NewBinding
<1>. QED
    BY <1>2, <1>3, <1>4 DEF IsRenamedLayer

LEMMA FileLayerIsRenamed ==
    ASSUME IsSettled, NEW d \in Document, Exists(d)
    PROVE  /\ IsRenamedLayer(GlobalDeclarationsInSameFile(d), After!GlobalDeclarationsInSameFile(d))
           /\ \A b \in GlobalDeclarationsInSameFile(d) : b.target.uri = d
           /\ d = request.target.uri => NewBinding \in After!GlobalDeclarationsInSameFile(d)
<1>. DEFINE own == {[uri |-> d, name |-> decl.name, visibility |-> decl.visibility,
                     package |-> text[d].package] : decl \in text[d].declarations}
            after == {[uri |-> d, name |-> decl.name, visibility |-> decl.visibility,
                       package |-> text[d].package] : decl \in RenamedText(d).declarations}
<1>1. text[d] \in Module
    BY DEF IsSettled, TypeOK, ScopeTypeOK, Exists
<1>2. own \subseteq Description
    BY <1>1 DEF Module, Description
<1>3. after = RenamedSet(own)
    <2>1. RenamedSet(own)
              = {RenamedDeclaration([uri |-> d, name |-> decl.name,
                     visibility |-> decl.visibility, package |-> text[d].package]) :
                     decl \in text[d].declarations}
        BY DEF RenamedSet
    <2>. QED
        BY <2>1, DeclarationsAreRenamed
<1>4. GlobalDeclarationsInSameFile(d) = Bindings(own)
    BY DEF GlobalDeclarationsInSameFile
<1>5. After!GlobalDeclarationsInSameFile(d) = Bindings(after)
    BY TextIsRenamed DEF After!GlobalDeclarationsInSameFile, After!Bindings, Bindings
<1>6. d = request.target.uri => request.target \in own
    BY DEF IsSettled, RequestInv, IsRenaming, Request, Description
<1>7. \A b \in Bindings(own) : b.target.uri = d
    BY DEF Bindings
<1>. HIDE DEF own, after
<1>. QED
    BY <1>2, <1>3, <1>4, <1>5, <1>6, <1>7, BindingsAreRenamed

\* An alias keeps its binding; what has none gets a new one.
LEMMA ImportLayerIsRenamed ==
    ASSUME IsSettled, NEW d \in Document, Exists(d), NEW old, NEW new,
           old = ExplicitlyImportedDeclarations(d, links[d].imports),
           new = After!ExplicitlyImportedDeclarations(d, After!ImportLinks(d))
    PROVE  /\ IsRenamedLayer(old, new)
           /\ \A c \in old : c.target = request.target =>
                  \/ NewBinding \in new
                  \/ \E l \in links[d].imports :
                         l.target = request.target /\ l.import.alias = c.name
           /\ \A l \in links[d].imports : \A n \in Name :
                  l.target = request.target /\ l.import.alias = n =>
                      /\ \E b \in old : b.name = n
                      /\ \E b \in new : b.name = n
<1>. DEFINE wild == UNION {GetDeclarationsInPackage(imp.package, TRUE) : imp \in WildcardImports(d)}
            before(l) == [name |-> VisibleName(l.import), target |-> l.target]
            after(l) == [name |-> VisibleName(RenamedImport(l)),
                         target |-> RenamedDeclaration(l.target)]
<1>1. old = {before(l) : l \in links[d].imports} \cup Bindings(wild)
    BY DEF ExplicitlyImportedDeclarations
<1>2. new = {after(l) : l \in links[d].imports} \cup Bindings(RenamedSet(wild))
    <2>1. After!WildcardImports(d) = WildcardImports(d)
        <3>1. \A l \in links[d].imports :
                  /\ l.import \in QualifiedImport /\ l.import.name # Everything
                  /\ RenamedImport(l).name # Everything
            BY ImportsAreUnambiguous, ScopeAssumption
               DEF RenamedImport, QualifiedImport, IsSettled, TypeOK, ScopeTypeOK, ImportLink,
                   IsRenaming, RequestInv, Request
        <3>. QED
            BY <3>1, TextIsRenamed DEF After!WildcardImports, WildcardImports
    <2>2. UNION {After!GetDeclarationsInPackage(imp.package, TRUE) : imp \in WildcardImports(d)}
              = RenamedSet(wild)
        <3>. DEFINE offers(imp) == GetDeclarationsInPackage(imp.package, TRUE)
        <3>1. \A imp : After!GetDeclarationsInPackage(imp.package, TRUE) = RenamedSet(offers(imp))
            BY QueriesAreRenamed
        <3>. HIDE DEF offers
        <3>2. UNION {RenamedSet(offers(imp)) : imp \in WildcardImports(d)}
                  = RenamedSet(UNION {offers(imp) : imp \in WildcardImports(d)})
            BY DEF RenamedSet
        <3>. QED
            BY <3>1, <3>2 DEF offers
    <2>3. {[name |-> VisibleName(k.import), target |-> k.target] : k \in After!ImportLinks(d)}
              = {after(l) : l \in links[d].imports}
        <3>. DEFINE moved(l) == [import |-> RenamedImport(l), target |-> RenamedDeclaration(l.target)]
                    bound(k) == [name |-> VisibleName(k.import), target |-> k.target]
        <3>1. After!ImportLinks(d) = {moved(l) : l \in links[d].imports}
            BY ImportsAreRenamed DEF RenamedLinks
        <3>2. \A l : bound(moved(l)) = after(l)
            OBVIOUS
        <3>. HIDE DEF moved, bound, after
        <3>3. {bound(k) : k \in After!ImportLinks(d)} = {after(l) : l \in links[d].imports}
            BY <3>1, <3>2
        <3>. QED
            BY <3>3 DEF bound
    <2>4. /\ \A S : After!Bindings(S) = Bindings(S)
          /\ \A imp : After!VisibleName(imp) = VisibleName(imp)
        BY DEF After!Bindings, Bindings, After!VisibleName, VisibleName
    <2>. QED
        BY <2>1, <2>2, <2>3, <2>4 DEF After!ExplicitlyImportedDeclarations
<1>3. /\ IsRenamedLayer(Bindings(wild), Bindings(RenamedSet(wild)))
      /\ request.target \in wild => NewBinding \in Bindings(RenamedSet(wild))
    <2>1. wild \subseteq Description
        <3>1. ManagerTypeOK
            BY DEF IsSettled, TypeOK
        <3>2. \A imp : GetDeclarationsInPackage(imp.package, TRUE) \subseteq Description
            BY <3>1, QueriesReturnDescriptions
        <3>. QED
            BY <3>2
    <2>. QED
        BY <2>1, BindingsAreRenamed
<1>4. ASSUME NEW l \in links[d].imports
      PROVE  /\ l.target # request.target => after(l) = before(l)
             /\ l.target = request.target =>
                    /\ after(l).target = RenamedDeclaration(request.target)
                    /\ IF l.import.alias = NoAlias
                       THEN after(l).name = request.newName
                       ELSE after(l).name = l.import.alias /\ before(l).name = l.import.alias
    <2>1. l.import \in QualifiedImport
        BY DEF IsSettled, TypeOK, ScopeTypeOK, ImportLink
    <2>. QED
        BY <2>1 DEF RenamedImport, RenamedDeclaration, VisibleName, QualifiedImport
<1>5. \A l \in links[d].imports : before(l).target = l.target
    OBVIOUS
<1>7. \A n \in Name : n # NoAlias
    BY ScopeAssumption
<1>. HIDE DEF wild, before, after
<1>6. \A b \in Bindings(wild) : b.target \in wild
    BY DEF Bindings
<1>8. IsRenamedLayer(old, new)
    <2>1. ASSUME NEW b \in new
          PROVE  \E c \in old :
                     IF c.target = request.target
                     THEN b.target = RenamedDeclaration(c.target) /\ b.name \in {c.name, request.newName}
                     ELSE b = c
        <3>1. CASE b \in Bindings(RenamedSet(wild))
            BY <1>1, <1>3, <3>1 DEF IsRenamedLayer
        <3>2. ASSUME NEW l \in links[d].imports, b = after(l)
              PROVE  LET c == before(l)
                     IN  IF c.target = request.target
                         THEN /\ b.target = RenamedDeclaration(c.target)
                              /\ b.name \in {c.name, request.newName}
                         ELSE b = c
            BY <1>4, <1>5, <3>2
        <3>. QED
            BY <1>1, <1>2, <2>1, <3>1, <3>2
    <2>2. ASSUME NEW c \in old, c.target # request.target
          PROVE  c \in new
        BY <1>1, <1>2, <1>3, <1>4, <1>5, <2>2 DEF IsRenamedLayer
    <2>. QED
        BY <2>1, <2>2 DEF IsRenamedLayer
<1>9. ASSUME NEW c \in old, c.target = request.target
      PROVE  \/ NewBinding \in new
             \/ \E l \in links[d].imports :
                    l.target = request.target /\ l.import.alias = c.name
    <2>1. CASE c \in Bindings(wild)
        BY <1>2, <1>3, <1>6, <1>9, <2>1
    <2>2. ASSUME NEW l \in links[d].imports, c = before(l)
          PROVE  \/ NewBinding \in new
                 \/ l.target = request.target /\ l.import.alias = c.name
        <3>1. l.target = request.target
            BY <1>5, <1>9, <2>2
        <3>2. CASE l.import.alias = NoAlias
            <4>1. after(l) = NewBinding
                BY <1>4, <3>1, <3>2 DEF NewBinding, after
            <4>. QED
                BY <1>2, <4>1
        <3>3. CASE l.import.alias # NoAlias
            BY <1>4, <2>2, <3>1, <3>3
        <3>. QED
            BY <3>2, <3>3
    <2>. QED
        BY <1>1, <2>1, <2>2
<1>10. ASSUME NEW l \in links[d].imports, NEW n \in Name,
              l.target = request.target, l.import.alias = n
       PROVE  (\E b \in old : b.name = n) /\ (\E b \in new : b.name = n)
    <2>1. before(l).name = n /\ after(l).name = n
        BY <1>4, <1>7, <1>10
    <2>. QED
        BY <1>1, <1>2, <2>1
<1>. QED
    BY <1>8, <1>9, <1>10

\* The scope of a document after the edits.
LEMMA ScopesAreRenamed ==
    ASSUME IsSettled, NEW d \in Document, Exists(d), NEW old, NEW new,
           old = UncachedScope(d, links[d].imports),
           new = After!ScopeForReferenceTarget(d, After!ImportLinks(d))
    PROVE  /\ IsRenamedScope(old, new)
           /\ old[1] = Bindings(CoreDeclarations)
           /\ old[2] = GlobalDeclarationsInSameFile(d)
           /\ old[3] = ExplicitlyImportedDeclarations(d, links[d].imports)
           /\ new[2] = After!GlobalDeclarationsInSameFile(d)
           /\ new[3] = After!ExplicitlyImportedDeclarations(d, After!ImportLinks(d))
           /\ \A i \in {1, 4, 5} : \A c \in old[i] :
                  /\ c = [name |-> c.target.name, target |-> c.target] /\ c.target \in Declared
                  /\ c.target = request.target => NewBinding \in new[i]
<1>. DEFINE core == CoreDeclarations
            same == DeclarationsInSamePackage(d)
            builtin == BuiltinDeclarations
<1>1. /\ After!CoreDeclarations = RenamedSet(core)
      /\ After!DeclarationsInSamePackage(d) = RenamedSet(same)
      /\ After!BuiltinDeclarations = RenamedSet(builtin)
    BY QueriesAreRenamed, TextIsRenamed
       DEF After!CoreDeclarations, CoreDeclarations, After!DeclarationsInSamePackage,
           DeclarationsInSamePackage, After!BuiltinDeclarations, BuiltinDeclarations
<1>2. core \subseteq Declared /\ same \subseteq Declared /\ builtin \subseteq Declared
    BY QueriesReturnDeclared
       DEF CoreDeclarations, DeclarationsInSamePackage, BuiltinDeclarations
<1>3. Declared \subseteq Description
    BY DeclaredAreNamed
<1>. HIDE DEF core, same, builtin
<1>4. old = <<Bindings(core), GlobalDeclarationsInSameFile(d)>>
                \o <<ExplicitlyImportedDeclarations(d, links[d].imports),
                     Bindings(same), Bindings(builtin)>>
    BY DEF UncachedScope, GlobalScopeForNode, core, same, builtin
<1>5. new = <<Bindings(RenamedSet(core)), After!GlobalDeclarationsInSameFile(d)>>
                \o <<After!ExplicitlyImportedDeclarations(d, After!ImportLinks(d)),
                     Bindings(RenamedSet(same)), Bindings(RenamedSet(builtin))>>
    BY <1>1
       DEF After!ScopeForReferenceTarget, After!GetGlobalScope, After!GlobalScopeForNode,
           After!GetCoreDeclarations, After!Get, After!Bindings, Bindings
<1>6. /\ DOMAIN old = 1 .. 5
      /\ old[1] = Bindings(core) /\ old[2] = GlobalDeclarationsInSameFile(d)
      /\ old[3] = ExplicitlyImportedDeclarations(d, links[d].imports)
      /\ old[4] = Bindings(same) /\ old[5] = Bindings(builtin)
    BY <1>4, FiveLayers
<1>7. /\ DOMAIN new = 1 .. 5
      /\ new[1] = Bindings(RenamedSet(core)) /\ new[2] = After!GlobalDeclarationsInSameFile(d)
      /\ new[3] = After!ExplicitlyImportedDeclarations(d, After!ImportLinks(d))
      /\ new[4] = Bindings(RenamedSet(same)) /\ new[5] = Bindings(RenamedSet(builtin))
    BY <1>5, FiveLayers
<1>8. ASSUME NEW S \in SUBSET Declared
      PROVE  /\ IsRenamedLayer(Bindings(S), Bindings(RenamedSet(S)))
             /\ \A c \in Bindings(S) :
                    /\ c = [name |-> c.target.name, target |-> c.target] /\ c.target \in Declared
                    /\ c.target = request.target => NewBinding \in Bindings(RenamedSet(S))
    <2>1. \A c \in Bindings(S) :
              c = [name |-> c.target.name, target |-> c.target] /\ c.target \in S
        BY DEF Bindings
    <2>. QED
        BY <1>3, <2>1, BindingsAreRenamed
<1>9. /\ IsRenamedLayer(old[1], new[1]) /\ IsRenamedLayer(old[4], new[4])
      /\ IsRenamedLayer(old[5], new[5])
    BY <1>2, <1>6, <1>7, <1>8
<1>10. IsRenamedLayer(old[2], new[2]) /\ IsRenamedLayer(old[3], new[3])
    BY <1>6, <1>7, FileLayerIsRenamed, ImportLayerIsRenamed
<1>11. \A i \in {1, 4, 5} : \A c \in old[i] :
           /\ c = [name |-> c.target.name, target |-> c.target] /\ c.target \in Declared
           /\ c.target = request.target => NewBinding \in new[i]
    BY <1>2, <1>6, <1>7, <1>8
<1>12. IsRenamedScope(old, new)
    BY <1>6, <1>7, <1>9, <1>10 DEF IsRenamedScope
<1>. QED
    BY <1>6, <1>7, <1>11, <1>12 DEF core

\* What the bindings of the scope before the edits are.
LEMMA OldBindings ==
    ASSUME IsSettled, NEW d \in Document, Exists(d), NEW old, 
           old = UncachedScope(d, links[d].imports)
    PROVE  /\ \A i \in 1 .. 5 : \A b \in old[i] :
                  b = [name |-> b.name, target |-> b.target] /\ b.name # request.newName
           /\ \A b \in old[1] : b.target # request.target
           /\ \A b \in old[2] : b.target.uri = d
<1>1. /\ old[1] = Bindings(CoreDeclarations)
      /\ old[2] = GlobalDeclarationsInSameFile(d)
      /\ old[3] = ExplicitlyImportedDeclarations(d, links[d].imports)
      /\ \A i \in {1, 4, 5} : \A c \in old[i] :
             c = [name |-> c.target.name, target |-> c.target] /\ c.target \in Declared
    BY ScopesAreRenamed
<1>2. \A x \in Declared : x.name # request.newName
    BY DeclaredAreNamed
<1>3. \A i \in {1, 4, 5} : \A b \in old[i] :
          b = [name |-> b.name, target |-> b.target] /\ b.name # request.newName
    BY <1>1, <1>2
<1>4. ASSUME NEW b \in old[2]
      PROVE  /\ b = [name |-> b.name, target |-> b.target] /\ b.name # request.newName
             /\ b.target.uri = d
    <2>1. PICK decl \in text[d].declarations :
              b = [name |-> decl.name,
                   target |-> [uri |-> d, name |-> decl.name, visibility |-> decl.visibility,
                               package |-> text[d].package]]
        BY <1>1 DEF GlobalDeclarationsInSameFile, Bindings
    <2>2. decl.name # request.newName
        BY DEF IsSettled, IsRenaming, IsFresh
    <2>. QED
        BY <2>1, <2>2
<1>5. ASSUME NEW b \in old[3]
      PROVE  b = [name |-> b.name, target |-> b.target] /\ b.name # request.newName
    <2>. DEFINE wild == UNION {GetDeclarationsInPackage(imp.package, TRUE) :
                                   imp \in WildcardImports(d)}
                explicit == {[name |-> VisibleName(l.import), target |-> l.target] :
                                 l \in links[d].imports}
    <2>1. CASE \E l \in links[d].imports : b = [name |-> VisibleName(l.import), target |-> l.target]
        <3>1. PICK l \in links[d].imports : b = [name |-> VisibleName(l.import), target |-> l.target]
            BY <2>1
        <3>2. l.import \in text[d].imports
            BY ImportsAreUnambiguous
        <3>3. request.newName \notin {l.import.name, l.import.alias}
            BY <3>2 DEF IsSettled, IsRenaming, IsFresh
        <3>. QED
            BY <3>1, <3>3 DEF VisibleName
    <2>2. CASE b \in Bindings(wild)
        <3>1. PICK x \in wild : b = [name |-> x.name, target |-> x]
            BY <2>2 DEF Bindings
        <3>2. PICK imp \in WildcardImports(d) : x \in GetDeclarationsInPackage(imp.package, TRUE)
            BY <3>1
        <3>3. x \in Declared
            BY <3>2, QueriesReturnDeclared
        <3>. QED
            BY <1>2, <3>1, <3>3
    <2>3. b \in explicit \cup Bindings(wild)
        BY <1>1 DEF ExplicitlyImportedDeclarations
    <2>. QED
        BY <2>1, <2>2, <2>3
<1>6. ASSUME NEW b \in old[1]
      PROVE  b.target # request.target
    <2>1. b.target \in CoreDeclarations
        BY <1>1 DEF Bindings
    <2>2. /\ LangPackage \in DOMAIN packageContents
          /\ b.target \in packageContents[LangPackage]
        BY <2>1 DEF CoreDeclarations, GetDeclarationsInPackage, FilterDescriptions, HasContents
    <2>3. b.target.package = LangPackage /\ IsLawful(b.target)
        BY <2>2 DEF IsSettled, TreeIsFiled, CoreInv, TreeIsLawful
    <2>4. b.target.uri \in Builtin
        BY <2>3 DEF IsLawful
    <2>. QED
        BY <2>4 DEF IsSettled, IsRenaming
<1>7. \A i \in 1 .. 5 : i \in {1, 4, 5} \/ i = 2 \/ i = 3
    OBVIOUS
<1>. QED
    BY <1>3, <1>4, <1>5, <1>6, <1>7

\* A reference that is linked leads to the same declaration.
LEMMA LinkedReferencesAreKept ==
    ASSUME IsSettled, NEW d \in Document, Exists(d), NEW old, NEW new,
           old = UncachedScope(d, links[d].imports),
           new = After!ScopeForReferenceTarget(d, After!ImportLinks(d)),
           NEW l \in links[d].targets
    PROVE  Resolve(new, RenamedReference(d, l)) = {RenamedDeclaration(l.target)}
<1>. DEFINE n == l.name
            target == request.target
<1>1. /\ n \in text[d].references /\ n \in Name /\ n # request.newName
      /\ Resolve(old, n) = {l.target}
    <2>1. PICK m \in text[d].references :
              \E x \in Resolve(old, m) : l = [name |-> m, target |-> x]
        BY FreshLinks
    <2>2. n = m /\ l.target \in Resolve(old, m)
        BY <2>1
    <2>3. ASSUME NEW y \in Resolve(old, m)
          PROVE  y = l.target
        <3>1. [name |-> m, target |-> y] \in links[d].targets
            BY <2>3, FreshLinks
        <3>2. [name |-> m, target |-> y] = l
            BY <2>2, <3>1 DEF IsSettled, IsUnambiguous
        <3>. QED
            BY <3>2
    <2>4. m \in Name
        BY DEF IsSettled, TypeOK, ScopeTypeOK, Exists, Module
    <2>5. m # request.newName
        BY DEF IsSettled, IsRenaming, IsFresh
    <2>. QED
        BY <2>2, <2>3, <2>4, <2>5
<1>2. IsRenamedScope(old, new)
    BY ScopesAreRenamed
<1>3. /\ \A i \in 1 .. 5 : \A b \in old[i] :
             b = [name |-> b.name, target |-> b.target] /\ b.name # request.newName
      /\ \A b \in old[1] : b.target # target
      /\ \A b \in old[2] : b.target.uri = d
    BY OldBindings
<1>4. CASE l.target # target
    <2>1. Resolve(new, n) = {l.target}
        BY <1>1, <1>2, <1>3, <1>4, OtherTargetsRemain
    <2>2. RenamedReference(d, l) = n /\ RenamedDeclaration(l.target) = l.target
        BY <1>4 DEF RenamedReference, RenamedDeclaration
    <2>. QED
        BY <2>1, <2>2
<1>5. CASE l.target = target /\ MustBeRenamed(d, n)
    <2>1. \E k \in 1 .. 5 : NewBinding \in new[k]
        <3>1. CASE d = target.uri
            BY <3>1, FileLayerIsRenamed, ScopesAreRenamed
        <3>2. CASE d # target.uri
            <4>1. \A k \in links[d].imports : ~(k.target = target /\ k.import.alias = n)
                BY <1>5, <3>2 DEF MustBeRenamed
            <4>2. DOMAIN old = 1 .. 5
                BY <1>2 DEF IsRenamedScope
            <4>3. PICK i \in 1 .. 5 : IsFirst(old, i, n)
                BY <1>1, <4>2, FirstLayerResolves
            <4>4. PICK c \in old[i] : c.name = n /\ c.target = target
                BY <1>1, <1>5, <4>2, <4>3, FirstLayerResolves DEF IsFirst, IsBound
            <4>5. CASE i \in {1, 4, 5}
                BY <4>4, <4>5, ScopesAreRenamed
            <4>6. CASE i = 2
                BY <1>3, <3>2, <4>4, <4>6
            <4>7. CASE i = 3
                <5>1. /\ old[3] = ExplicitlyImportedDeclarations(d, links[d].imports)
                      /\ new[3] = After!ExplicitlyImportedDeclarations(d, After!ImportLinks(d))
                    BY ScopesAreRenamed
                <5>2. NewBinding \in new[3]
                    BY <4>1, <4>4, <4>7, <5>1, ImportLayerIsRenamed
                <5>. QED
                    BY <5>2
            <4>. QED
                BY <4>5, <4>6, <4>7
        <3>. QED
            BY <3>1, <3>2
    <2>2. \E k \in 1 .. 5 : IsBound(new, k, request.newName)
        BY <2>1 DEF NewBinding, IsBound
    <2>3. \A i \in 1 .. 5 : ~IsBound(old, i, request.newName)
        BY <1>3 DEF IsBound
    <2>4. Resolve(new, request.newName) = {RenamedDeclaration(target)}
        BY <1>2, <2>2, <2>3, NewNameLeadsToTarget
    <2>. QED
        BY <1>5, <2>4 DEF RenamedReference
<1>6. CASE l.target = target /\ ~MustBeRenamed(d, n)
    <2>1. /\ d # target.uri
          /\ \E k \in links[d].imports : k.target = target /\ k.import.alias = n
        BY <1>6 DEF MustBeRenamed
    <2>2. /\ old[3] = ExplicitlyImportedDeclarations(d, links[d].imports)
          /\ new[3] = After!ExplicitlyImportedDeclarations(d, After!ImportLinks(d))
        BY ScopesAreRenamed
    <2>3. (\E b \in old[3] : b.name = n) /\ (\E b \in new[3] : b.name = n)
        BY <1>1, <2>1, <2>2, ImportLayerIsRenamed
    <2>4. \A i \in 1 .. 2 : \A b \in old[i] : b.target # target
        <3>1. \A i \in 1 .. 2 : i = 1 \/ i = 2
            OBVIOUS
        <3>. QED
            BY <1>3, <2>1, <3>1
    <2>5. Resolve(new, n) = {RenamedDeclaration(target)}
        BY <1>1, <1>2, <1>6, <2>3, <2>4, AliasLeadsToTarget
    <2>. QED
        BY <1>6, <2>5 DEF RenamedReference
<1>. QED
    BY <1>4, <1>5, <1>6

LEMMA ReferencesAreRenamed ==
    ASSUME IsSettled, NEW d \in Document, Exists(d)
    PROVE  After!LinksOf(d) = RenamedLinks(d)
<1>. DEFINE old == UncachedScope(d, links[d].imports)
            new == After!ScopeForReferenceTarget(d, After!ImportLinks(d))
            linked(n) == {[name |-> n, target |-> x] : x \in Resolve(new, n)}
            unlinked == {n \in text[d].references : \A l \in links[d].targets : l.name # n}
            renamed(l) == [name |-> RenamedReference(d, l), target |-> RenamedDeclaration(l.target)]
<1>1. After!LinksOf(d) = [imports |-> After!ImportLinks(d),
                          targets |-> UNION {linked(n) : n \in RenamedText(d).references}]
    <2>. DEFINE resolved(n) == {[name |-> n, target |-> x] : x \in After!Resolve(new, n)}
    <2>1. After!LinksOf(d) = [imports |-> After!ImportLinks(d),
                              targets |-> UNION {resolved(n) : n \in RenamedTexts[d].references}]
        BY Zenon DEF After!LinksOf
    <2>2. \A n : resolved(n) = linked(n)
        BY DEF After!Resolve, Resolve
    <2>3. RenamedTexts[d] = RenamedText(d)
        BY TextIsRenamed
    <2>. HIDE DEF resolved, linked
    <2>. QED
        BY <2>1, <2>2, <2>3
<1>2. ASSUME NEW l \in links[d].targets
      PROVE  linked(RenamedReference(d, l)) = {renamed(l)}
    BY LinkedReferencesAreKept
<1>3. ASSUME NEW n \in unlinked
      PROVE  linked(n) = {}
    <2>1. Resolve(old, n) = {}
        <3>1. ASSUME NEW x \in Resolve(old, n)
              PROVE  FALSE
            <4>1. [name |-> n, target |-> x] \in links[d].targets
                BY <3>1, FreshLinks
            <4>. QED
                BY <4>1
        <3>. QED
            BY <3>1
    <2>2. n # request.newName
        BY DEF IsSettled, IsRenaming, IsFresh
    <2>3. IsRenamedScope(old, new)
        BY ScopesAreRenamed
    <2>. HIDE DEF old, new
    <2>4. Resolve(new, n) = {}
        BY <2>1, <2>2, <2>3, UnresolvedRemainSo
    <2>. QED
        BY <2>4
<1>4. RenamedText(d).references = unlinked \cup {RenamedReference(d, l) : l \in links[d].targets}
    BY TextIsRenamed
<1>5. RenamedLinks(d) = [imports |-> RenamedLinks(d).imports,
                         targets |-> {renamed(l) : l \in links[d].targets}]
    BY DEF RenamedLinks
<1>. HIDE DEF linked, unlinked, renamed
<1>6. UNION {linked(n) : n \in RenamedText(d).references} = {renamed(l) : l \in links[d].targets}
    BY <1>2, <1>3, <1>4
<1>. QED
    BY <1>1, <1>5, <1>6, ImportsAreRenamed

-----------------------------------------------------------------------------
(* The theorem.                                                            *)

LEMMA RequestInvIsKept ==
    ASSUME TypeOK, RequestInv, [RenameNext]_<<vars, request>>
    PROVE  RequestInv'
<1>1. CASE request = NoRequest /\ Next /\ UNCHANGED request
    BY <1>1 DEF RequestInv
<1>2. ASSUME NEW d \in Document, Rename(d)
      PROVE  RequestInv'
    <2>1. PICK b \in GlobalDeclarationsInSameFile(d), name \in Name :
              request' = [target |-> b.target, newName |-> name]
        BY <1>2 DEF Rename
    <2>2. PICK decl \in text[d].declarations :
              b.target = [uri |-> d, name |-> decl.name, visibility |-> decl.visibility,
                          package |-> text[d].package]
        BY DEF GlobalDeclarationsInSameFile, Bindings
    <2>3. text[d] \in Module /\ text' = text
        BY <1>2 DEF Rename, Exists, TypeOK, ScopeTypeOK, vars
    <2>4. b.target \in Description /\ decl \in [name : Name, visibility : Visibility]
        BY <2>2, <2>3 DEF Module, Description
    <2>. QED
        BY <1>2, <2>1, <2>2, <2>3, <2>4 DEF RequestInv, Request, Rename, Exists
<1>3. CASE Respond
    BY <1>3 DEF Respond, RequestInv
<1>4. CASE UNCHANGED <<vars, request>>
    BY <1>4 DEF RequestInv, vars, Exists
<1>. QED
    BY <1>1, <1>2, <1>3, <1>4 DEF RenameNext

\* A workspace with renames is a workspace.
LEMMA RenamingIsStuttering == RenameSpec => Spec
<1>1. RenameInit => Init
    BY DEF RenameInit
<1>2. [RenameNext]_<<vars, request>> => [Next]_vars
    BY DEF RenameNext, Rename, Respond
<1>. QED
    BY <1>1, <1>2, PTL DEF RenameSpec, Spec

\* In any workspace, and whatever aliases and imports it uses: after a declaration
\* of the user has got a name that is new, everything that was linked is linked to
\* the same declaration, and nothing else is.
THEOREM RenamingKeepsLinks == RenameSpec => []RenameKeepsLinks
<1>1. RenameInit => RequestInv
    BY DEF RenameInit, RequestInv
<1>2. TypeOK /\ RequestInv /\ [RenameNext]_<<vars, request>> => RequestInv'
    BY RequestInvIsKept
<1>3. ViewInv /\ RestInv /\ RequestInv => RenameKeepsLinks
    BY ReferencesAreRenamed DEF ViewInv, VisibilityInv, RestInv, IsSettled, RenameKeepsLinks
<1>4. ViewInv => TypeOK
    BY DEF ViewInv
<1>. QED
    BY <1>1, <1>2, <1>3, <1>4, RenamingIsStuttering, RestInvHolds, PTL DEF RenameSpec
=============================================================================
