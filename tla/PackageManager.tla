--------------------------- MODULE PackageManager ---------------------------
(***************************************************************************)
(* The package manager of the language server (class TTSLPackageManager)   *)
(* and the symbol index it is derived from.  The index maps every document *)
(* to the descriptions of the declarations the document exports.  The      *)
(* manager folds the index into a set of package names and a tree of       *)
(* packages; all later queries read the tree, never the index, so the two  *)
(* must not drift apart.                                                   *)
(*                                                                         *)
(* A package name is the sequence of its dot-separated segments, and <<>>  *)
(* stands for a module without a package statement.                        *)
(***************************************************************************)
EXTENDS Naturals, SequencesExt

CONSTANTS
    Document,       \* the URIs of all documents, builtin files included
    Segment,        \* the segments of package names
    Package,        \* the package names modules may state
    EmptySegment,   \* the segment "" of a malformed name such as "a..b"
    Name            \* the names of declarations, aliases and references

NoPackage == <<>>

Visibility == {"public", "packageprivate", "private"}

ASSUME PackageAssumption == Package \subseteq Seq(Segment) \ {NoPackage}

\* AstNodeDescription: what the index knows of an exported declaration.
Description ==
    [uri : Document, name : Name, visibility : Visibility,
     package : Package \cup {NoPackage}]

VARIABLES
    exported,         \* the index: exported[d] is the set of exports of d
    packageNames,     \* the names of the packages found in the index
    packageContents   \* the tree, as a function from the path of a node to
                      \* the node's own declarations

managerVars == <<exported, packageNames, packageContents>>

-----------------------------------------------------------------------------
(* Filling the index.                                                      *)

\* What module m of document d exports: nothing unless it states a package,
\* otherwise all its members, the private ones included.
Exports(d, m) ==
    IF m.package = NoPackage
    THEN {}
    ELSE {[uri |-> d, name |-> decl.name, visibility |-> decl.visibility,
           package |-> m.package] : decl \in m.declarations}

IndexDocument(d, m) ==
    /\ exported' = [exported EXCEPT ![d] = Exports(d, m)]
    /\ UNCHANGED <<packageNames, packageContents>>

-----------------------------------------------------------------------------
(* Deriving the package structures from the index.                         *)

IsValidPackageName(p) == \A i \in DOMAIN p : p[i] # EmptySegment

\* The descriptions of the index that buildPackageStructures does not skip.
Listed(descriptions) ==
    {e \in descriptions : e.package # NoPackage /\ IsValidPackageName(e.package)}

\* addToTree, for every description: the nodes on the way to a package, and what
\* each of them declares.
TreeOf(elements) ==
    [path \in {<<>>} \cup UNION {Prefixes(e.package) : e \in elements}
         |-> {e \in elements : e.package = path}]

\* Mutant: packages that merely contain others get a name as well.
BuildNamingAllNodes ==
    LET elements == Listed(UNION {exported[d] : d \in Document})
    IN  /\ packageNames' = DOMAIN TreeOf(elements)
        /\ packageContents' = TreeOf(elements)
        /\ UNCHANGED exported

\* Mutant: the tree is not cleared before it is filled again.
BuildWithoutClearing ==
    LET elements == Listed(UNION {exported[d] : d \in Document})
                    \cup UNION {packageContents[path] : path \in DOMAIN packageContents}
    IN  /\ packageNames' = {e.package : e \in elements}
        /\ packageContents' = TreeOf(elements)
        /\ UNCHANGED exported

\* Runs after every build phase that left documents indexed: both structures
\* are cleared and filled again from the whole index.
BuildPackageStructures ==
    LET elements == Listed(UNION {exported[d] : d \in Document})
    IN  /\ packageNames' = {e.package : e \in elements}
        /\ packageContents' = TreeOf(elements)
        /\ UNCHANGED exported

-----------------------------------------------------------------------------
(* Queries.                                                                *)

HasPackage(p) == p \in packageNames

\* The root of the tree cannot be named: ''.split('.') is [''].
HasContents(p) == p # NoPackage /\ p \in DOMAIN packageContents

FilterDescriptions(descriptions, hideInternal) ==
    {e \in descriptions : hideInternal => e.visibility = "public"}

GetDeclarationsInPackage(p, hideInternal) ==
    FilterDescriptions(IF HasContents(p) THEN packageContents[p] ELSE {},
                       hideInternal)

GetDeclarationsInPackageOrSubpackage(p, hideInternal) ==
    FilterDescriptions(
        IF HasContents(p)
        THEN UNION {packageContents[q] :
                        q \in {q \in DOMAIN packageContents : IsPrefix(p, q)}}
        ELSE {},
        hideInternal)

-----------------------------------------------------------------------------

ManagerInit ==
    /\ exported = [d \in Document |-> {}]
    /\ packageNames = {}
    /\ packageContents = [path \in {<<>>} |-> {}]

\* The paths of all nodes the tree can have.
Path == {<<>>} \cup UNION {Prefixes(p) : p \in Package}

ManagerTypeOK ==
    /\ exported \in [Document -> SUBSET Description]
    /\ packageNames \subseteq Package
    /\ DOMAIN packageContents \subseteq Path
    /\ \A path \in DOMAIN packageContents :
           packageContents[path] \subseteq Description
=============================================================================
