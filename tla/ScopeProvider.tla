---------------------------- MODULE ScopeProvider ----------------------------
(***************************************************************************)
(* The global part of the scope provider (class TTSLScopeProvider): which  *)
(* declarations outside the blocks of a document a reference of the        *)
(* document may be linked to, and the two workspace caches that remember   *)
(* the answer until the next update of the workspace.                      *)
(*                                                                         *)
(* A module is a record with the fields                                    *)
(*   package       its package name, or NoPackage                          *)
(*   declarations  a set of [name, visibility]                             *)
(*   imports       a set of [package, name, alias]; name is Everything for *)
(*                 a wildcard import, alias is NoAlias if there is none    *)
(*   references    the set of names its expressions refer to               *)
(* A scope is a sequence of layers, innermost first, and a layer is a set  *)
(* of bindings of a name to a description.  Every description that a       *)
(* reference could be linked to is kept: the code takes one of them.       *)
(***************************************************************************)
EXTENDS PackageManager

CONSTANTS
    RootPackage,    \* BUILTINS_ROOT_PACKAGE, 'TTSL'
    LangPackage,    \* BUILTINS_LANG_PACKAGE, 'TTSL.lang'
    Everything,     \* the * of a wildcard import
    NoAlias,        \* the alias of an imported declaration without one
    Absent,         \* the text of a document that does not exist
    Uncached        \* the value of a cache entry that is not filled

Module ==
    [package : Package \cup {NoPackage},
     declarations : SUBSET [name : Name, visibility : Visibility],
     imports : SUBSET [package : Package, name : Name \cup {Everything},
                       alias : Name \cup {NoAlias}],
     references : SUBSET Name]

\* A document that does not exist is told from any module, a wildcard and a
\* missing alias from any name, and the name of the root package is one.
ASSUME ScopeAssumption ==
    /\ Absent \notin Module
    /\ {Everything, NoAlias} \cap Name = {}
    /\ RootPackage \in Seq(Segment) \ {NoPackage}

VARIABLES
    text,         \* text[d]: the module in document d, or Absent
    links,        \* links[d]: what the references of d are linked to
    scopeCache,   \* globalScopeCache, one entry per document
    coreCache     \* coreDeclarationCache

scopeVars == <<links, scopeCache, coreCache>>

Unlinked == [imports |-> {}, targets |-> {}]

Bindings(descriptions) == {[name |-> e.name, target |-> e] : e \in descriptions}

-----------------------------------------------------------------------------
(* Imports.                                                                *)

QualifiedImports(d) == {i \in text[d].imports : i.name # Everything}
WildcardImports(d) == {i \in text[d].imports : i.name = Everything}

\* Mutant: internal declarations can be imported from anywhere.
ImportableWithInternal(d, imp) == GetDeclarationsInPackage(imp.package, FALSE)

ScopeForImportedDeclaration(d, imp) ==
    GetDeclarationsInPackage(imp.package, imp.package # text[d].package)

ImportLinks(d) ==
    UNION {{[import |-> imp, target |-> e] :
                e \in {e \in ScopeForImportedDeclaration(d, imp) : e.name = imp.name}} :
           imp \in QualifiedImports(d)}

VisibleName(imp) == IF imp.alias = NoAlias THEN imp.name ELSE imp.alias

ExplicitlyImportedDeclarations(d, importLinks) ==
    {[name |-> VisibleName(l.import), target |-> l.target] : l \in importLinks}
    \cup Bindings(UNION {GetDeclarationsInPackage(imp.package, TRUE) :
                             imp \in WildcardImports(d)})

-----------------------------------------------------------------------------
(* The layers of a reference's scope.                                      *)

BuiltinDeclarations == GetDeclarationsInPackageOrSubpackage(RootPackage, TRUE)

DeclarationsInSamePackage(d) == GetDeclarationsInPackage(text[d].package, FALSE)

\* Declarations of other documents: explicitly imported ones hide those of
\* the same package, which hide the builtin ones.
GlobalScopeForNode(d, importLinks) ==
    << ExplicitlyImportedDeclarations(d, importLinks),
       Bindings(DeclarationsInSamePackage(d)),
       Bindings(BuiltinDeclarations) >>

GlobalDeclarationsInSameFile(d) ==
    Bindings({[uri |-> d, name |-> decl.name, visibility |-> decl.visibility,
               package |-> text[d].package] : decl \in text[d].declarations})

CoreDeclarations == GetDeclarationsInPackage(LangPackage, TRUE)

\* WorkspaceCache.get: the entry, computed first if there is none.
Get(entry, computed) == IF entry = Uncached THEN computed ELSE entry

GetGlobalScope(d, importLinks) ==
    Get(scopeCache[d], GlobalScopeForNode(d, importLinks))

GetCoreDeclarations == Get(coreCache, CoreDeclarations)

\* The core declarations are consulted first, then the file, then the rest.
ScopeForReferenceTarget(d, importLinks) ==
    << Bindings(GetCoreDeclarations), GlobalDeclarationsInSameFile(d) >>
        \o GetGlobalScope(d, importLinks)

Resolve(scope, name) ==
    LET hits == {i \in DOMAIN scope : \E b \in scope[i] : b.name = name}
    IN  {b.target : b \in {b \in UNION {scope[i] : i \in hits} :
            b.name = name /\ \E i \in hits : b \in scope[i] /\ \A j \in hits : i <= j}}

-----------------------------------------------------------------------------
(* Linking a document, and looking up the scope of an open document.       *)

LinksOf(d) ==
    LET importLinks == ImportLinks(d)
        scope == ScopeForReferenceTarget(d, importLinks)
    IN  [imports |-> importLinks,
         targets |-> UNION {{[name |-> n, target |-> e] : e \in Resolve(scope, n)} :
                                n \in text[d].references}]

FillCaches(d, importLinks) ==
    /\ scopeCache' = [scopeCache EXCEPT ![d] = GetGlobalScope(d, importLinks)]
    /\ coreCache' = GetCoreDeclarations

\* The linker resolves all references of d, its imports first.  Only the
\* target of a reference asks for the cached scopes.
LinkDocument(d) ==
    /\ links' = [links EXCEPT ![d] = LinksOf(d)]
    /\ IF text[d].references = {}
       THEN UNCHANGED <<scopeCache, coreCache>>
       ELSE FillCaches(d, ImportLinks(d))

HasLinkingError(d) ==
    \/ \E imp \in QualifiedImports(d) : \A l \in links[d].imports : l.import # imp
    \/ \E n \in text[d].references : \A l \in links[d].targets : l.name # n

\* The declarations the references of d are linked to.
LinkTargets(d) == {l.target : l \in links[d].imports \cup links[d].targets}

\* Mutant: the global scopes are kept in a cache that outlives an update.
ClearCoreCacheOnly ==
    /\ coreCache' = Uncached
    /\ UNCHANGED scopeCache

\* WorkspaceCache clears itself when the workspace is updated.
ClearCaches ==
    /\ scopeCache' = [d \in Document |-> Uncached]
    /\ coreCache' = Uncached

Binding == [name : Name, target : Description]

QualifiedImport == [package : Package, name : Name, alias : Name \cup {NoAlias}]
ImportLink == [import : QualifiedImport, target : Description]

ScopeTypeOK ==
    /\ text \in [Document -> Module \cup {Absent}]
    /\ links \in [Document -> [imports : SUBSET ImportLink, targets : SUBSET Binding]]
    /\ DOMAIN scopeCache = Document
    /\ \A d \in Document :
           scopeCache[d] # Uncached => scopeCache[d] \in [1 .. 3 -> SUBSET Binding]
    /\ coreCache # Uncached => coreCache \subseteq Description
=============================================================================
