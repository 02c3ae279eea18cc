\* Two user documents; every build may be cancelled by an update,
\* and renames are requested whenever the builder rests.
CONSTANTS
    Document = {"lib", "a", "b"}
    Builtin = {"lib"}
    Segment <- MCSegment
    Package <- MCPackage
    EmptySegment = ""
    Name <- MCName
    RootPackage <- Root
    LangPackage <- Lang
    PrefixedByRoot <- MCPrefixedByRoot
    Everything = Everything
    NoAlias = NoAlias
    Absent = Absent
    Uncached = Uncached
    Initial <- MCInitial
    Menu <- MCMenu
    MaxUpdates = 3
    NoRequest = NoRequest
SPECIFICATION FairRenameSpec
INVARIANTS
    TypeOK
    PackageTreeMatchesIndex
    InternalStaysInPackage
    NoStaleLinkingErrors
    DuplicatesReported
    HiddenDeclarationsReported
    RenameKeepsLinks
PROPERTIES
    ChangedIsValidated
    ImplementsView
    LinksGoStaleUnindexedOnly
\* An idle server waits for its client.
CHECK_DEADLOCK FALSE
