------------------------------ MODULE CliProofs ------------------------------
(***************************************************************************)
(* Proofs about the command line interface, for any documents, texts and   *)
(* command lines, and any number of runs, kills and edits: nothing is      *)
(* written before every document has passed, the exit code tells whether   *)
(* they have, and a successful run of generate leaves all of its files     *)
(* behind.                                                                 *)
(***************************************************************************)
EXTENDS Cli, FiniteSetTheorems, SequenceTheorems, WellFoundedInduction, TLAPS

-----------------------------------------------------------------------------
(* The inductive invariant.                                                *)

\* The document that is worked on is one of those that remain.
LEMMA CurrentIsToDo ==
    ASSUME todo \subseteq Document, todo # {}
    PROVE  Current \in todo
<1>1. todo \subseteq Nat
    BY CliAssumption
<1>2. PICK x \in todo : \A y \in todo : ~ (<<y, x>> \in OpToRel(<, Nat))
    BY <1>1, NatLessThanWellFounded, WFMin
<1>3. \A y \in todo : ~ (y < x)
    BY <1>1, <1>2 DEF OpToRel
<1>4. \A y \in todo : x <= y
    BY <1>1, <1>3
<1>. QED
    BY <1>4 DEF Current, Min

\* While the run examines, the documents it has examined have no fatal
\* problem; when it works on them, none has.
ExaminationInv ==
    /\ paths \in Seq(PathArgument)
    /\ phase = "examine" => \A d \in listed \ todo : ~HasFatal(d)
    /\ phase \in {"work", "write"} => \A d \in listed : ~HasFatal(d)

\* A run that ended by itself ended as its documents require.
ExitInv ==
    phase = Idle /\ exitCode \in {Success, FileHasErrors} =>
        (exitCode = FileHasErrors <=> \E d \in listed : HasFatal(d))

CliInv == TypeOK /\ ExaminationInv /\ ExitInv

LEMMA CliInvInitially == Init => CliInv
BY CliAssumption DEF Init, CliInv, TypeOK, ExaminationInv, ExitInv, Idle, Success, FileHasErrors

\* An exit leaves what has been examined alone.
LEMMA ExitKeepsInv ==
    ASSUME CliInv, DOMAIN saved' = Document,
           NEW code \in {Success, Uncaught, MissingPath, NotAFileOrDirectory,
                         FileWithoutTTSLExtension, FileHasErrors, Killed},
           Exit(code),
           code = Success => \A d \in listed : ~HasFatal(d),
           code = FileHasErrors => \E d \in listed : HasFatal(d)
    PROVE  CliInv'
<1>1. /\ exitCode' = code /\ phase' = Idle
      /\ UNCHANGED <<command, paths, listed, loaded, todo, pending>>
    BY DEF Exit
<1>2. TypeOK'
    BY <1>1 DEF CliInv, TypeOK, Idle
<1>3. ExaminationInv'
    BY <1>1 DEF CliInv, ExaminationInv, Idle
<1>4. ExitInv'
    BY <1>1 DEF ExitInv, HasFatal, Fatal, Counts, Success, FileHasErrors
<1>. QED
    BY <1>2, <1>3, <1>4 DEF CliInv

-----------------------------------------------------------------------------
(* The steps of a run.                                                     *)

LEMMA StartKeepsInv == CliInv /\ Start => CliInv'
<1>. SUFFICES ASSUME CliInv, Start PROVE CliInv'
    OBVIOUS
<1>1. paths' \in Seq(PathArgument)
    BY CliAssumption DEF Start
<1>. QED
    BY <1>1 DEF CliInv, TypeOK, ExaminationInv, ExitInv, Start, Idle

LEMMA ProcessPathKeepsInv == CliInv /\ ProcessPath => CliInv'
<1>. SUFFICES ASSUME CliInv, ProcessPath PROVE CliInv'
    OBVIOUS
<1>1. paths \in Seq(PathArgument) /\ paths # <<>> /\ UNCHANGED saved
    BY DEF CliInv, ExaminationInv, ProcessPath
<1>2. CASE Exit(MissingPath) \/ Exit(NotAFileOrDirectory) \/ Exit(FileWithoutTTSLExtension)
    BY <1>1, <1>2, ExitKeepsInv
       DEF CliInv, TypeOK, Success, FileHasErrors, MissingPath, NotAFileOrDirectory,
           FileWithoutTTSLExtension
<1>3. CASE /\ listed' = listed \cup Head(paths).documents
           /\ paths' = Tail(paths)
           /\ UNCHANGED <<command, phase, loaded, todo, pending, exitCode>>
    <2>1. Head(paths).documents \subseteq Document /\ paths' \in Seq(PathArgument)
        <3>1. Head(paths) \in PathArgument /\ Tail(paths) \in Seq(PathArgument)
            BY <1>1, HeadTailProperties
        <3>. QED
            BY <1>3, <3>1 DEF PathArgument
    <2>2. phase = "paths"
        BY DEF ProcessPath
    <2>. QED
        BY <1>1, <1>3, <2>1, <2>2 DEF CliInv, TypeOK, ExaminationInv, ExitInv, Idle
<1>. QED
    BY <1>2, <1>3 DEF ProcessPath

LEMMA LoadAndBuildKeepInv ==
    ASSUME CliInv, Build \/ \E d \in Document : Load(d)
    PROVE  CliInv'
<1>1. CASE Build
    BY <1>1 DEF CliInv, TypeOK, ExaminationInv, ExitInv, Build, Idle
<1>2. ASSUME NEW d \in Document, Load(d)
      PROVE  CliInv'
    <2>1. DOMAIN loaded' = DOMAIN loaded \cup {d} /\ d \in listed
        BY <1>2 DEF Load
    <2>. QED
        BY <1>2, <2>1 DEF CliInv, TypeOK, ExaminationInv, ExitInv, Load, Idle
<1>. QED
    BY <1>1, <1>2

LEMMA ExamineKeepsInv == CliInv /\ Examine => CliInv'
<1>. SUFFICES ASSUME CliInv, Examine PROVE CliInv'
    OBVIOUS
<1>1. phase = "examine" /\ UNCHANGED saved /\ DOMAIN saved' = Document
    BY DEF Examine, CliInv, TypeOK
<1>2. todo # {} => Current \in listed
    BY CurrentIsToDo DEF CliInv, TypeOK
<1>3. CASE Exit(IF \E d \in listed : HasFatal(d) THEN FileHasErrors ELSE Success)
    <2>1. CASE \E d \in listed : HasFatal(d)
        BY <1>1, <1>3, <2>1, ExitKeepsInv DEF Success, FileHasErrors
    <2>2. CASE ~ \E d \in listed : HasFatal(d)
        BY <1>1, <1>3, <2>2, ExitKeepsInv DEF Success, FileHasErrors
    <2>. QED
        BY <2>1, <2>2
<1>4. CASE todo # {} /\ HasFatal(Current) /\ Exit(FileHasErrors)
    BY <1>1, <1>2, <1>4, ExitKeepsInv DEF Success, FileHasErrors
<1>5. CASE /\ ~(todo # {} /\ HasFatal(Current))
           /\ todo' = IF todo = {} THEN listed ELSE todo \ {Current}
           /\ phase' = IF todo = {} THEN "work" ELSE "examine"
           /\ UNCHANGED <<command, paths, listed, loaded, pending, exitCode>>
    <2>1. \A d : HasFatal(d)' <=> HasFatal(d)
        BY <1>5 DEF HasFatal, Fatal, Counts
    <2>2. ExaminationInv'
        BY <1>1, <1>5, <2>1 DEF CliInv, ExaminationInv
    <2>3. TypeOK' /\ ExitInv'
        BY <1>1, <1>5 DEF CliInv, TypeOK, ExitInv, Idle
    <2>. QED
        BY <2>2, <2>3 DEF CliInv
<1>. QED
    BY <1>3, <1>4, <1>5 DEF Examine

\* Steps of the run that neither look up paths nor examine documents.
LEMMA WorkKeepsInv ==
    ASSUME CliInv, phase \in {"work", "write"}, phase' \in {"work", "write"},
           UNCHANGED <<command, paths, listed, loaded, exitCode>>,
           DOMAIN saved' = Document, todo' \subseteq todo, phase' = "write" => todo' # {}
    PROVE  CliInv'
<1>1. \A d : HasFatal(d)' <=> HasFatal(d)
    BY DEF HasFatal, Fatal, Counts
<1>2. ExaminationInv'
    BY <1>1 DEF CliInv, ExaminationInv
<1>3. TypeOK' /\ ExitInv'
    BY DEF CliInv, TypeOK, ExitInv, Idle
<1>. QED
    BY <1>2, <1>3 DEF CliInv

LEMMA OutputKeepsInv ==
    ASSUME CliInv, Generate \/ Format \/ Write \/ Written \/ Finish
    PROVE  CliInv'
<1>1. DOMAIN saved = Document
    BY DEF CliInv, TypeOK
<1>2. CASE Generate
    <2>1. CASE Exit(Uncaught)
        BY <1>1, <1>2, <2>1, ExitKeepsInv DEF Generate, Uncaught, Success, FileHasErrors
    <2>2. CASE ~Exit(Uncaught)
        BY <1>1, <1>2, <2>2, WorkKeepsInv DEF Generate
    <2>. QED
        BY <2>1, <2>2
<1>3. CASE Format
    BY <1>1, <1>3, WorkKeepsInv DEF Format
<1>4. CASE Write
    <2>1. phase = "write" /\ UNCHANGED <<command, phase, paths, listed, loaded, todo, exitCode>>
        BY <1>4 DEF Write
    <2>2. DOMAIN saved' = Document
        BY <1>1, <1>4 DEF Write, Put
    <2>3. todo # {}
        BY <2>1 DEF CliInv, TypeOK
    <2>. QED
        BY <2>1, <2>2, <2>3, WorkKeepsInv
<1>5. CASE Written
    BY <1>1, <1>5, WorkKeepsInv DEF Written
<1>6. CASE Finish
    <2>1. \A d \in listed : ~HasFatal(d)
        BY <1>6 DEF Finish, CliInv, ExaminationInv
    <2>. QED
        BY <1>1, <1>6, <2>1, ExitKeepsInv DEF Finish, Success, FileHasErrors
<1>. QED
    BY <1>2, <1>3, <1>4, <1>5, <1>6

LEMMA OthersKeepInv ==
    ASSUME CliInv, Kill \/ Edit \/ UNCHANGED vars
    PROVE  CliInv'
<1>1. DOMAIN saved = Document
    BY DEF CliInv, TypeOK
<1>2. CASE Kill
    BY <1>1, <1>2, ExitKeepsInv, CliAssumption DEF Kill, Success, FileHasErrors
<1>3. CASE Edit \/ UNCHANGED vars
    <2>1. UNCHANGED runVars /\ DOMAIN saved' = Document
        BY <1>1, <1>3 DEF Edit, vars
    <2>. QED
        BY <2>1 DEF runVars, CliInv, TypeOK, ExaminationInv, ExitInv, HasFatal, Fatal, Counts
<1>. QED
    BY <1>2, <1>3

LEMMA StepsKeepInv == CliInv /\ [Next]_vars => CliInv'
BY StartKeepsInv, ProcessPathKeepsInv, LoadAndBuildKeepInv, ExamineKeepsInv, OutputKeepsInv,
   OthersKeepInv DEF Next

-----------------------------------------------------------------------------
(* The theorems.                                                           *)

\* The variables of the command line interface keep their types, whatever is
\* killed or edited.
THEOREM CliTypeCorrect == Spec => []TypeOK
<1>1. CliInv => TypeOK
    BY DEF CliInv
<1>. QED
    BY <1>1, CliInvInitially, StepsKeepInv, PTL DEF Spec

\* No run writes a file before all of its documents are known to be free of
\* fatal problems.
THEOREM NothingWrittenOnErrors == Spec => WritesOnlyIfAllPass
<1>1. CliInv /\ [Next]_vars =>
          [phase = "write" /\ (out' # out \/ pending' # pending) =>
              \A d \in listed : ~HasFatal(d)]_vars
    BY DEF CliInv, ExaminationInv
<1>. QED
    BY <1>1, CliInvInitially, StepsKeepInv, PTL DEF Spec, WritesOnlyIfAllPass

\* The exit code of a run that ended by itself tells whether one of its
\* documents has a problem that counts for its command.
THEOREM ExitCodeCorrect == Spec => []ExitCodeTellsErrors
<1>1. CliInv => ExitCodeTellsErrors
    <2>1. \A d \in listed : HasFatal(d) <=> \E p \in loaded[d].problems :
              \/ p = "syntax"
              \/ p = "error" /\ command.name # "format"
              \/ p = "warning" /\ command.name = "check" /\ command.strict
        BY DEF HasFatal, Fatal, Counts
    <2>. QED
        BY <2>1 DEF CliInv, ExitInv, ExitCodeTellsErrors
<1>. QED
    BY <1>1, CliInvInitially, StepsKeepInv, PTL DEF Spec

-----------------------------------------------------------------------------
(* The files generated for one document.                                   *)

EntryPoints(t) == SetToSeq(t.functions \ {"simulate"})

\* Functions on 1 .. n are sequences, and what the concatenation of two yields.
LEMMA FunctionsAreSequences ==
    ASSUME NEW T, NEW n \in Nat, NEW f, f = [i \in 1 .. n |-> f[i]],
           \A i \in 1 .. n : f[i] \in T
    PROVE  f \in Seq(T) /\ Len(f) = n
OBVIOUS

LEMMA Concatenation ==
    ASSUME NEW T, NEW s \in Seq(T), NEW r \in Seq(T), NEW m \in Nat, NEW n \in Nat,
           m = Len(s) + Len(r), n = Len(s)
    PROVE  /\ s \o r \in Seq(T)
           /\ Len(s \o r) = m
           /\ \A i \in 1 .. m : (s \o r)[i] = IF i <= n THEN s[i] ELSE r[i - n]
BY ConcatProperties

\* A sequence that consists of a, the n elements of f, and z.
IsBracketed(s, n, a, z, f) ==
    /\ Len(s) = n + 2
    /\ \A i \in 1 .. n + 2 : s[i] = IF i = 1 THEN a ELSE IF i = n + 2 THEN z ELSE f[i - 1]

LEMMA Bracketed ==
    ASSUME NEW T, NEW n \in Nat, NEW a \in T, NEW z \in T,
           NEW f, f \in Seq(T), Len(f) = n
    PROVE  /\ (<<a>> \o f) \o <<z>> \in Seq(T)
           /\ IsBracketed((<<a>> \o f) \o <<z>>, n, a, z, f)
<1>. DEFINE s == <<a>> \o f
            r == s \o <<z>>
<1>1. <<a>> \in Seq(T) /\ <<z>> \in Seq(T) /\ Len(<<a>>) = 1 /\ Len(<<z>>) = 1
    OBVIOUS
<1>2. /\ s \in Seq(T) /\ Len(s) = n + 1
      /\ \A i \in 1 .. n + 1 : s[i] = IF i <= 1 THEN <<a>>[i] ELSE f[i - 1]
    BY <1>1, Concatenation
<1>. HIDE DEF s
<1>3. /\ r \in Seq(T) /\ Len(r) = n + 2
      /\ \A i \in 1 .. n + 2 : r[i] = IF i <= n + 1 THEN s[i] ELSE <<z>>[i - (n + 1)]
    BY <1>1, <1>2, Concatenation
<1>. HIDE DEF r
<1>4. ASSUME NEW i \in 1 .. n + 2
      PROVE  r[i] = IF i = 1 THEN a ELSE IF i = n + 2 THEN z ELSE f[i - 1]
    <2>1. CASE i = n + 2
        BY <1>3, <2>1
    <2>2. CASE i \in 1 .. n + 1
        <3>1. i <= n + 1 /\ i # n + 2 /\ (i <= 1 <=> i = 1)
            BY <2>2
        <3>2. r[i] = IF i = 1 THEN <<a>>[1] ELSE f[i - 1]
            BY <1>2, <1>3, <2>2, <3>1
        <3>. QED
            BY <3>1, <3>2
    <2>. QED
        BY <2>1, <2>2
<1>. QED
    BY <1>3, <1>4 DEF r, s, IsBracketed

LEMMA BracketedFunction ==
    ASSUME NEW n \in Nat, NEW a, NEW z, NEW f, f = [i \in 1 .. n |-> f[i]]
    PROVE  /\ \E T : (<<a>> \o f) \o <<z>> \in Seq(T)
           /\ IsBracketed((<<a>> \o f) \o <<z>>, n, a, z, f)
<1>1. PICK T : T = {a, z} \cup {f[i] : i \in 1 .. n}
    OBVIOUS
<1>2. a \in T /\ z \in T /\ \A i \in 1 .. n : f[i] \in T
    BY <1>1
<1>3. f \in Seq(T) /\ Len(f) = n
    BY <1>2, FunctionsAreSequences
<1>. QED
    BY <1>2, <1>3, Bracketed

LEMMA EntryPointsAreListed ==
    ASSUME NEW t, IsText(t)
    PROVE  /\ Cardinality(t.functions \ {"simulate"}) \in Nat
           /\ EntryPoints(t) \in
                  [1 .. Cardinality(t.functions \ {"simulate"}) -> t.functions \ {"simulate"}]
           /\ IsInjective(EntryPoints(t))
<1>. DEFINE S == t.functions \ {"simulate"}
<1>1. IsFiniteSet(S)
    BY FS_Subset DEF IsText
<1>2. Cardinality(S) \in Nat /\ ExistsBijection(1 .. Cardinality(S), S)
    BY <1>1, FS_CardinalityType
<1>3. \E f \in [1 .. Cardinality(S) -> S] : IsInjective(f)
    <2>1. PICK f : f \in Bijection(1 .. Cardinality(S), S)
        BY <1>2 DEF ExistsBijection
    <2>2. f \in [1 .. Cardinality(S) -> S] /\ IsInjective(f)
        BY <2>1 DEF Bijection, Injection
    <2>. QED
        BY <2>2
<1>. QED
    BY <1>2, <1>3 DEF EntryPoints, SetToSeq

\* The i-th file of a document with n entry points.
FileAt(d, t, n, i) ==
    IF i = 1 THEN GeneratedFile(d, t, <<>>)
    ELSE IF i = n + 2 THEN GeneratedFile(d, t, <<Underscore, "simulate">>)
    ELSE GeneratedFile(d, t, <<Underscore, EntryPoints(t)[i - 1]>>)

LEMMA FilesAreNumbered ==
    ASSUME NEW d \in Document, NEW t, IsText(t),
           NEW n, n = Cardinality(t.functions \ {"simulate"})
    PROVE  /\ n \in Nat
           /\ \E F : GeneratedFiles(d, t) \in Seq(F)
           /\ Len(GeneratedFiles(d, t)) = n + 2
           /\ \A i \in 1 .. n + 2 : GeneratedFiles(d, t)[i] = FileAt(d, t, n, i)
<1>. DEFINE module == GeneratedFile(d, t, <<>>)
            simulation == GeneratedFile(d, t, <<Underscore, "simulate">>)
            entries == [i \in 1 .. n |-> GeneratedFile(d, t, <<Underscore, EntryPoints(t)[i]>>)]
<1>1. n \in Nat
    BY EntryPointsAreListed
<1>2. entries = [i \in 1 .. n |-> entries[i]]
    OBVIOUS
<1>3. GeneratedFiles(d, t) = (<<module>> \o entries) \o <<simulation>>
    BY DEF GeneratedFiles, EntryPoints
<1>4. \A i \in 1 .. n : entries[i] = GeneratedFile(d, t, <<Underscore, EntryPoints(t)[i]>>)
    OBVIOUS
<1>. HIDE DEF entries
<1>5. \A i \in 1 .. n + 2 : FileAt(d, t, n, i) =
          IF i = 1 THEN module ELSE IF i = n + 2 THEN simulation ELSE entries[i - 1]
    <2>1. ASSUME NEW i \in 1 .. n + 2, i # 1, i # n + 2 PROVE i - 1 \in 1 .. n
        BY <1>1, <2>1
    <2>. QED
        BY <1>4, <2>1 DEF FileAt
<1>. HIDE DEF module, simulation
<1>6. /\ \E F : (<<module>> \o entries) \o <<simulation>> \in Seq(F)
      /\ IsBracketed((<<module>> \o entries) \o <<simulation>>, n, module, simulation, entries)
    BY <1>1, <1>2, BracketedFunction
<1>7. /\ \E F : GeneratedFiles(d, t) \in Seq(F)
      /\ IsBracketed(GeneratedFiles(d, t), n, module, simulation, entries)
    BY <1>3, <1>6
<1>. QED
    BY <1>1, <1>5, <1>7 DEF IsBracketed

LEMMA SanitizedNames ==
    ASSUME NEW T, NEW name \in Seq(T), Underscore \in T
    PROVE  SanitizeModuleNameForPython(name) \in Seq(T)
<1>1. SanitizeModuleNameForPython(name) =
          [i \in 1 .. Len(name) |-> IF name[i] \in Separators THEN Underscore ELSE name[i]]
    BY LenProperties DEF SanitizeModuleNameForPython
<1>2. \A i \in 1 .. Len(name) :
          (IF name[i] \in Separators THEN Underscore ELSE name[i]) \in T
    BY ElementOfSeq
<1>. QED
    BY <1>1, <1>2, IsASeq, LenProperties

\* Names are extended by different suffixes to different names.
LEMMA SuffixesMatter ==
    ASSUME NEW T, NEW base \in Seq(T), NEW s \in Seq(T), NEW x, NEW y \in T,
           Underscore \in T, Len(s) = 0 \/ (Len(s) = 2 /\ s[2] = x),
           base \o s = base \o <<Underscore, y>>
    PROVE  Len(s) = 2 /\ x = y
<1>. DEFINE other == <<Underscore, y>>
<1>1. other \in Seq(T) /\ Len(other) = 2 /\ other[2] = y
    OBVIOUS
<1>. HIDE DEF other
<1>2. Len(base) \in Nat /\ Len(s) \in Nat
    BY LenProperties
<1>3. Len(base \o s) = Len(base) + Len(s) /\ Len(base \o other) = Len(base) + 2
    BY <1>1, ConcatProperties
<1>4. base \o s = base \o other
    BY DEF other
<1>5. Len(s) = 2 /\ s[2] = x
    BY <1>2, <1>3, <1>4
<1>6. (base \o s)[Len(base) + 2] = s[2]
    BY <1>2, <1>5, ConcatProperties
<1>7. (base \o other)[Len(base) + 2] = other[2]
    BY <1>1, <1>2, ConcatProperties
<1>. QED
    BY <1>1, <1>4, <1>5, <1>6, <1>7

\* The name that the i-th file adds to that of the module.
NameAt(t, n, i) == IF i = n + 2 THEN "simulate" ELSE EntryPoints(t)[i - 1]

LEMMA NamesDiffer ==
    ASSUME NEW t, IsText(t), NEW n, n = Cardinality(t.functions \ {"simulate"}),
           NEW i \in 2 .. n + 2, NEW j \in 2 .. n + 2, NameAt(t, n, i) = NameAt(t, n, j)
    PROVE  i = j
<1>1. /\ n \in Nat
      /\ EntryPoints(t) \in [1 .. n -> t.functions \ {"simulate"}]
      /\ \A k, m \in 1 .. n : EntryPoints(t)[k] = EntryPoints(t)[m] => k = m
    BY EntryPointsAreListed DEF IsInjective
<1>2. ASSUME NEW k \in 2 .. n + 1
      PROVE  k - 1 \in 1 .. n /\ k # n + 2 /\ NameAt(t, n, k) = EntryPoints(t)[k - 1]
             /\ NameAt(t, n, k) # "simulate"
    <2>1. k - 1 \in 1 .. n /\ k # n + 2
        BY <1>1
    <2>. QED
        BY <1>1, <2>1 DEF NameAt
<1>3. NameAt(t, n, n + 2) = "simulate"
    BY DEF NameAt
<1>4. CASE i = n + 2 \/ j = n + 2
    <2>1. (i = n + 2 \/ i \in 2 .. n + 1) /\ (j = n + 2 \/ j \in 2 .. n + 1)
        BY <1>1
    <2>. QED
        BY <1>2, <1>3, <1>4, <2>1
<1>5. CASE i # n + 2 /\ j # n + 2
    <2>1. i \in 2 .. n + 1 /\ j \in 2 .. n + 1
        BY <1>1, <1>5
    <2>2. i - 1 = j - 1
        BY <1>1, <1>2, <2>1
    <2>. QED
        BY <2>1, <2>2, <1>1
<1>. QED
    BY <1>4, <1>5

\* No two files of a document have the same path.
LEMMA FilesHaveOwnPaths ==
    ASSUME NEW d \in Document, NEW t, IsText(t),
           NEW i \in DOMAIN GeneratedFiles(d, t), NEW j \in DOMAIN GeneratedFiles(d, t),
           GeneratedFiles(d, t)[i].path = GeneratedFiles(d, t)[j].path
    PROVE  i = j
<1>. DEFINE n == Cardinality(t.functions \ {"simulate"})
            base == SanitizeModuleNameForPython(BaseName[d])
            SuffixAt(k) == IF k = 1 THEN <<>> ELSE <<Underscore, NameAt(t, n, k)>>
            T == STRING \cup {Underscore} \cup {NameAt(t, n, k) : k \in 2 .. n + 2}
<1>1. /\ n \in Nat
      /\ DOMAIN GeneratedFiles(d, t) = 1 .. n + 2
      /\ \A k \in 1 .. n + 2 : GeneratedFiles(d, t)[k] = FileAt(d, t, n, k)
    <2>1. n \in Nat /\ Len(GeneratedFiles(d, t)) = n + 2
        BY FilesAreNumbered
    <2>2. PICK F : GeneratedFiles(d, t) \in Seq(F)
        BY FilesAreNumbered
    <2>3. DOMAIN GeneratedFiles(d, t) = 1 .. n + 2
        BY <2>1, <2>2, LenProperties
    <2>. QED
        BY <2>1, <2>3, FilesAreNumbered
<1>. HIDE DEF n
<1>2. \A k \in 1 .. n + 2 : FileAt(d, t, n, k).path.base = base \o SuffixAt(k)
    <2>. SUFFICES ASSUME NEW k \in 1 .. n + 2
                  PROVE  FileAt(d, t, n, k).path.base = base \o SuffixAt(k)
        OBVIOUS
    <2>1. CASE k = 1
        BY <2>1 DEF FileAt, GeneratedFile
    <2>2. CASE k # 1 /\ k = n + 2
        BY <2>2 DEF FileAt, GeneratedFile, NameAt
    <2>3. CASE k # 1 /\ k # n + 2
        BY <2>3 DEF FileAt, GeneratedFile, NameAt
    <2>. QED
        BY <2>1, <2>2, <2>3
<1>3. base \in Seq(T) /\ Underscore \in T
    <2>1. BaseName[d] \in Seq(T)
        BY CliAssumption
    <2>2. Underscore \in T
        OBVIOUS
    <2>. HIDE DEF T
    <2>. QED
        BY <2>1, <2>2, SanitizedNames
<1>4. \A k \in 2 .. n + 2 : NameAt(t, n, k) \in T
    OBVIOUS
<1>. HIDE DEF T, base
<1>5. ASSUME NEW k \in 1 .. n + 2, NEW m \in 2 .. n + 2, base \o SuffixAt(k) = base \o SuffixAt(m)
      PROVE  k \in 2 .. n + 2 /\ NameAt(t, n, k) = NameAt(t, n, m)
    <2>1. SuffixAt(m) = <<Underscore, NameAt(t, n, m)>> /\ NameAt(t, n, m) \in T
        BY <1>1, <1>4
    <2>2. CASE k = 1
        <3>1. SuffixAt(k) \in Seq(T) /\ Len(SuffixAt(k)) = 0
            BY <2>2
        <3>. QED
            BY <1>3, <1>5, <2>1, <3>1, SuffixesMatter
    <2>3. CASE k # 1
        <3>1. k \in 2 .. n + 2 /\ NameAt(t, n, k) \in T
            BY <1>1, <1>4, <2>3
        <3>2. /\ SuffixAt(k) \in Seq(T) /\ Len(SuffixAt(k)) = 2
              /\ SuffixAt(k)[2] = NameAt(t, n, k)
            BY <1>3, <2>3, <3>1
        <3>. QED
            BY <1>3, <1>5, <2>1, <3>1, <3>2, SuffixesMatter
    <2>. QED
        BY <2>2, <2>3
<1>6. i \in 1 .. n + 2 /\ j \in 1 .. n + 2 /\ base \o SuffixAt(i) = base \o SuffixAt(j)
    BY <1>1, <1>2
<1>. HIDE DEF SuffixAt
<1>7. CASE i = 1 /\ j = 1
    BY <1>7
<1>8. CASE i # 1 \/ j # 1
    <2>1. i \in 2 .. n + 2 \/ j \in 2 .. n + 2
        BY <1>1, <1>6, <1>8
    <2>2. i \in 2 .. n + 2 /\ j \in 2 .. n + 2 /\ NameAt(t, n, i) = NameAt(t, n, j)
        BY <1>5, <1>6, <2>1
    <2>. QED
        BY <2>2, NamesDiffer DEF n
<1>. QED
    BY <1>7, <1>8

-----------------------------------------------------------------------------
(* The inductive invariant.                                                *)

Holds(disk, file) == file.path \in DOMAIN disk /\ disk[file.path] = file.content

\* All files of d are on the disk.
IsComplete(disk, texts, d) ==
    \A i \in DOMAIN GeneratedFiles(d, texts[d]) : Holds(disk, GeneratedFiles(d, texts[d])[i])

\* No other document has a file of the same name.
IsSeparate(documents, texts, d) ==
    \A e \in documents \ {d} :
        \A i \in DOMAIN GeneratedFiles(d, texts[d]), j \in DOMAIN GeneratedFiles(e, texts[e]) :
            GeneratedFiles(d, texts[d])[i].path # GeneratedFiles(e, texts[e])[j].path

AreComplete(disk, texts, documents, done) ==
    \A d \in done : IsSeparate(documents, texts, d) => IsComplete(disk, texts, d)

\* What is pending is the rest of the files; those before it are on the disk.
IsRest(disk, files, rest) ==
    /\ \E F : rest \in Seq(F)
    /\ Len(rest) <= Len(files)
    /\ \A j \in 1 .. Len(rest) : rest[j] = files[Len(files) - Len(rest) + j]
    /\ \A i \in 1 .. Len(files) - Len(rest) : Holds(disk, files[i])

TextInv ==
    /\ \A d \in Document : IsText(saved[d])
    /\ \A d \in DOMAIN loaded : IsText(loaded[d])
    /\ phase \in {"examine", "work", "write"} => DOMAIN loaded = listed
    /\ phase = "write" /\ command.name = "format" /\ pending # <<>> =>
           IsText(Head(pending)) /\ Tail(pending) = <<>>

ProgressInv ==
    command.name = "generate" =>
        /\ phase \in {"work", "write"} => AreComplete(out, loaded, listed, listed \ todo)
        /\ phase = "write" => IsRest(out, GeneratedFiles(Current, loaded[Current]), pending)
        /\ phase = Idle /\ exitCode = Success => AreComplete(out, loaded, listed, listed)

OutputInv == CliInv /\ TextInv /\ ProgressInv

LEMMA OutputInvInitially == Init => OutputInv
<1>. SUFFICES ASSUME Init PROVE OutputInv
    OBVIOUS
<1>1. TextInv
    <2>1. \A d \in Document : IsText(saved[d])
        BY CliAssumption DEF Init
    <2>2. phase = Idle /\ DOMAIN loaded = {}
        BY DEF Init
    <2>. QED
        BY <2>1, <2>2 DEF TextInv, Idle
<1>2. ProgressInv
    BY CliAssumption DEF Init, ProgressInv, Idle, Success
<1>. QED
    BY <1>1, <1>2, CliInvInitially DEF OutputInv

\* An exit is the end of a complete run of generate, or another one.
LEMMA ExitKeepsOutput ==
    ASSUME TextInv, ProgressInv, UNCHANGED <<saved, out>>, NEW code, Exit(code),
           code = Success /\ command.name = "generate" => AreComplete(out, loaded, listed, listed)
    PROVE  TextInv' /\ ProgressInv'
<1>1. /\ exitCode' = code /\ phase' = Idle
      /\ UNCHANGED <<command, paths, listed, loaded, todo, pending>>
    BY DEF Exit
<1>. QED
    BY <1>1 DEF TextInv, ProgressInv, Idle

-----------------------------------------------------------------------------
(* The steps of a run.                                                     *)

LEMMA PreparingKeepsOutput ==
    ASSUME OutputInv, Start \/ ProcessPath \/ Build \/ \E d \in Document : Load(d)
    PROVE  TextInv' /\ ProgressInv'
<1>. USE DEF Idle
<1>1. CASE Start
    BY <1>1 DEF OutputInv, TextInv, ProgressInv, Start
<1>2. CASE ProcessPath
    <2>1. CASE Exit(MissingPath) \/ Exit(NotAFileOrDirectory) \/ Exit(FileWithoutTTSLExtension)
        <3>1. UNCHANGED <<saved, out>> /\ TextInv /\ ProgressInv
            BY <1>2 DEF ProcessPath, OutputInv
        <3>2. MissingPath # Success /\ NotAFileOrDirectory # Success
              /\ FileWithoutTTSLExtension # Success
            BY DEF MissingPath, NotAFileOrDirectory, FileWithoutTTSLExtension, Success
        <3>. QED
            BY <2>1, <3>1, <3>2, ExitKeepsOutput
    <2>2. CASE UNCHANGED <<command, phase, loaded, todo, pending, exitCode>>
        BY <1>2, <2>2 DEF ProcessPath, OutputInv, TextInv, ProgressInv
    <2>. QED
        BY <1>2, <2>1, <2>2 DEF ProcessPath
<1>3. CASE Build
    BY <1>3 DEF Build, OutputInv, TextInv, ProgressInv
<1>4. ASSUME NEW d \in Document, Load(d) PROVE TextInv' /\ ProgressInv'
    <2>1. IsText(saved[d])
        BY DEF OutputInv, TextInv
    <2>. QED
        BY <1>4, <2>1 DEF Load, OutputInv, TextInv, ProgressInv
<1>. QED
    BY <1>1, <1>2, <1>3, <1>4

LEMMA ExamineKeepsOutput ==
    ASSUME OutputInv, Examine
    PROVE  TextInv' /\ ProgressInv'
<1>1. phase = "examine" /\ UNCHANGED <<saved, out>> /\ TextInv /\ ProgressInv
    BY DEF Examine, OutputInv
<1>2. CASE command.name = "check"
          /\ Exit(IF \E d \in listed : HasFatal(d) THEN FileHasErrors ELSE Success)
    BY <1>1, <1>2, ExitKeepsOutput
<1>3. CASE Exit(FileHasErrors)
    <2>1. FileHasErrors # Success
        BY DEF FileHasErrors, Success
    <2>. QED
        BY <1>1, <1>3, <2>1, ExitKeepsOutput
<1>4. CASE /\ todo' = IF todo = {} THEN listed ELSE todo \ {Current}
           /\ phase' = IF todo = {} THEN "work" ELSE "examine"
           /\ UNCHANGED <<command, paths, listed, loaded, pending, exitCode>>
    <2>1. TextInv'
        BY <1>1, <1>4 DEF TextInv
    <2>2. phase' = "work" => listed' \ todo' = {}
        BY <1>4
    <2>3. ProgressInv'
        BY <1>1, <1>4, <2>2 DEF ProgressInv, AreComplete, Idle
    <2>. QED
        BY <2>1, <2>3
<1>. QED
    BY <1>1, <1>2, <1>3, <1>4 DEF Examine

\* The files of a document are pending as a whole at first.
LEMMA GenerateKeepsOutput ==
    ASSUME OutputInv, Generate
    PROVE  TextInv' /\ ProgressInv'
<1>1. phase = "work" /\ command.name = "generate" /\ todo # {} /\ UNCHANGED <<saved, out>>
      /\ TextInv /\ ProgressInv /\ Current \in listed
    BY CurrentIsToDo DEF Generate, OutputInv, CliInv, TypeOK
<1>2. CASE Exit(Uncaught)
    <2>1. Uncaught # Success
        BY DEF Uncaught, Success
    <2>. QED
        BY <1>1, <1>2, <2>1, ExitKeepsOutput
<1>3. CASE /\ pending' = GeneratedFiles(Current, loaded[Current])
           /\ phase' = "write"
           /\ UNCHANGED <<command, paths, listed, loaded, todo, exitCode>>
    <2>1. TextInv'
        BY <1>1, <1>3 DEF TextInv
    <2>2. IsText(loaded[Current]) /\ Current \in Document
        BY <1>1 DEF TextInv, OutputInv, CliInv, TypeOK
    <2>3. \E F : pending' \in Seq(F)
        BY <1>3, <2>2, FilesAreNumbered
    <2>4. IsRest(out', GeneratedFiles(Current, loaded[Current]), pending')
        BY <1>3, <2>3 DEF IsRest
    <2>5. Current' = Current
        BY <1>3 DEF Current
    <2>6. ProgressInv'
        BY <1>1, <1>3, <2>4, <2>5 DEF ProgressInv, Idle
    <2>. QED
        BY <2>1, <2>6
<1>. QED
    BY <1>2, <1>3 DEF Generate

LEMMA FormatKeepsOutput ==
    ASSUME OutputInv, Format
    PROVE  TextInv' /\ ProgressInv'
<1>1. phase = "work" /\ command.name = "format" /\ todo # {} /\ TextInv
      /\ Current \in listed
    BY CurrentIsToDo DEF Format, OutputInv, CliInv, TypeOK
<1>2. IsText([loaded[Current] EXCEPT !.tidy = TRUE])
    BY <1>1 DEF TextInv, IsText
<1>3. Head(pending') = [loaded[Current] EXCEPT !.tidy = TRUE] /\ Tail(pending') = <<>>
    BY DEF Format
<1>4. TextInv'
    BY <1>1, <1>2, <1>3 DEF Format, TextInv
<1>5. ProgressInv'
    BY <1>1 DEF Format, ProgressInv
<1>. QED
    BY <1>4, <1>5

\* A file that is written takes no other file's place, except for one of the
\* same name.
LEMMA PutAddsFile ==
    ASSUME NEW file, Put(file)
    PROVE  /\ Holds(out', file)
           /\ \A other : Holds(out, other) /\ other.path # file.path => Holds(out', other)
BY DEF Put, Holds

LEMMA WriteKeepsOutput ==
    ASSUME OutputInv, Write
    PROVE  TextInv' /\ ProgressInv'
<1>1. /\ phase = "write" /\ pending # <<>> /\ TextInv /\ ProgressInv /\ todo # {}
      /\ todo \subseteq listed /\ listed \subseteq Document /\ DOMAIN saved = Document
      /\ pending' = Tail(pending)
      /\ UNCHANGED <<command, phase, paths, listed, loaded, todo, exitCode>>
    BY DEF Write, OutputInv, CliInv, TypeOK
<1>2. Current \in todo /\ Current' = Current
    BY <1>1, CurrentIsToDo DEF Current
<1>3. CASE command.name = "format"
    <2>1. saved' = [saved EXCEPT ![Current] = Head(pending)]
        BY <1>3 DEF Write
    <2>2. IsText(Head(pending)) /\ Tail(pending) = <<>>
        BY <1>1, <1>3 DEF TextInv
    <2>3. TextInv'
        BY <1>1, <2>1, <2>2 DEF TextInv
    <2>4. ProgressInv'
        BY <1>1, <1>3 DEF ProgressInv
    <2>. QED
        BY <2>3, <2>4
<1>4. CASE command.name = "generate"
    <2>. DEFINE files == GeneratedFiles(Current, loaded[Current])
                next == Len(files) - Len(pending) + 1
    <2>1. Put(Head(pending)) /\ UNCHANGED saved
        BY <1>4 DEF Write
    <2>2. IsRest(out, files, pending) /\ AreComplete(out, loaded, listed, listed \ todo)
        BY <1>1, <1>4 DEF ProgressInv
    <2>3. PICK F : pending \in Seq(F)
        BY <2>2 DEF IsRest
    <2>4. /\ Len(pending) \in Nat \ {0} /\ Head(pending) = pending[1]
          /\ Tail(pending) \in Seq(F) /\ Len(Tail(pending)) = Len(pending) - 1
          /\ \A j \in 1 .. Len(Tail(pending)) : Tail(pending)[j] = pending[j + 1]
        BY <1>1, <2>3, HeadTailProperties
    <2>5. IsText(loaded[Current]) /\ Current \in Document
        BY <1>1, <1>2 DEF TextInv
    <2>6. Len(files) \in Nat /\ DOMAIN files = 1 .. Len(files)
        <3>1. PICK G : files \in Seq(G)
            BY <2>5, FilesAreNumbered
        <3>. QED
            BY <3>1, LenProperties
    <2>. HIDE DEF files
    <2>7. next \in 1 .. Len(files) /\ Head(pending) = files[next]
        BY <2>2, <2>4, <2>6 DEF IsRest
    <2>8. \A i, j \in DOMAIN files : files[i].path = files[j].path => i = j
        BY <2>5, FilesHaveOwnPaths DEF files
    <2>9. IsRest(out', files, Tail(pending))
        <3>1. Len(files) - Len(Tail(pending)) = next /\ Len(Tail(pending)) <= Len(files)
            BY <2>2, <2>4, <2>6 DEF IsRest
        <3>2. ASSUME NEW j \in 1 .. Len(Tail(pending))
              PROVE  Tail(pending)[j] = files[next + j]
            <4>1. j + 1 \in 1 .. Len(pending)
                  /\ Len(files) - Len(pending) + (j + 1) = next + j
                BY <2>4, <2>6
            <4>. QED
                BY <2>2, <2>4, <4>1 DEF IsRest
        <3>3. ASSUME NEW i \in 1 .. next PROVE Holds(out', files[i])
            <4>1. CASE i = next
                BY <2>1, <2>7, <4>1, PutAddsFile
            <4>2. CASE i # next
                <5>1. i \in 1 .. Len(files) - Len(pending) /\ i \in DOMAIN files
                      /\ next \in DOMAIN files
                    BY <2>4, <2>6, <2>7, <4>2
                <5>2. Holds(out, files[i]) /\ files[i].path # Head(pending).path
                    BY <2>2, <2>7, <2>8, <4>2, <5>1 DEF IsRest
                <5>. QED
                    BY <2>1, <5>2, PutAddsFile
            <4>. QED
                BY <4>1, <4>2
        <3>. HIDE DEF next
        <3>. QED
            BY <2>4, <3>1, <3>2, <3>3 DEF IsRest
    <2>10. AreComplete(out', loaded, listed, listed \ todo)
        <3>1. ASSUME NEW d \in listed \ todo, IsSeparate(listed, loaded, d),
                     NEW i \in DOMAIN GeneratedFiles(d, loaded[d])
              PROVE  Holds(out', GeneratedFiles(d, loaded[d])[i])
            <4>1. Holds(out, GeneratedFiles(d, loaded[d])[i])
                BY <2>2, <3>1 DEF AreComplete, IsComplete
            <4>2. Current \in listed \ {d} /\ next \in DOMAIN files
                BY <1>1, <1>2, <2>6, <2>7, <3>1
            <4>3. GeneratedFiles(d, loaded[d])[i].path # Head(pending).path
                BY <2>7, <3>1, <4>2 DEF IsSeparate, files
            <4>. QED
                BY <2>1, <4>1, <4>3, PutAddsFile
        <3>. QED
            BY <3>1 DEF AreComplete, IsComplete
    <2>11. TextInv'
        BY <1>1, <1>4, <2>1 DEF TextInv
    <2>12. ProgressInv'
        BY <1>1, <1>2, <2>9, <2>10 DEF ProgressInv, Idle, files
    <2>. QED
        BY <2>11, <2>12
<1>5. CASE command.name # "format" /\ command.name # "generate"
    BY <1>1, <1>5 DEF Write, TextInv, ProgressInv
<1>. QED
    BY <1>3, <1>4, <1>5

\* When nothing is pending the document is complete.
LEMMA WrittenKeepsOutput ==
    ASSUME OutputInv, Written
    PROVE  TextInv' /\ ProgressInv'
<1>1. /\ phase = "write" /\ pending = <<>> /\ phase' = "work" /\ todo' = todo \ {Current}
      /\ UNCHANGED <<saved, out, command, paths, listed, loaded, pending, exitCode>>
      /\ TextInv /\ ProgressInv /\ todo # {} /\ todo \subseteq listed /\ listed \subseteq Document
    BY DEF Written, OutputInv, CliInv, TypeOK
<1>2. TextInv'
    BY <1>1 DEF TextInv
<1>3. ASSUME command.name = "generate"
      PROVE  AreComplete(out, loaded, listed, listed \ (todo \ {Current}))
    <2>1. Current \in listed
        BY <1>1, CurrentIsToDo
    <2>. DEFINE files == GeneratedFiles(Current, loaded[Current])
    <2>2. IsRest(out, files, <<>>) /\ AreComplete(out, loaded, listed, listed \ todo)
        BY <1>1, <1>3 DEF ProgressInv
    <2>3. IsText(loaded[Current]) /\ Current \in Document
        BY <1>1, <2>1 DEF TextInv
    <2>4. Len(files) \in Nat /\ DOMAIN files = 1 .. Len(files)
        <3>1. PICK G : files \in Seq(G)
            BY <2>3, FilesAreNumbered
        <3>. QED
            BY <3>1, LenProperties
    <2>. HIDE DEF files
    <2>5. \A i \in DOMAIN files : Holds(out, files[i])
        BY <2>2, <2>4 DEF IsRest
    <2>6. IsComplete(out, loaded, Current)
        BY <2>5 DEF IsComplete, files
    <2>. QED
        BY <2>2, <2>6 DEF AreComplete
<1>4. ProgressInv'
    BY <1>1, <1>3 DEF ProgressInv, Idle
<1>. QED
    BY <1>2, <1>4

LEMMA EndingsKeepOutput ==
    ASSUME OutputInv, Finish \/ Kill \/ Edit \/ UNCHANGED vars
    PROVE  TextInv' /\ ProgressInv'
<1>1. TextInv /\ ProgressInv
    BY DEF OutputInv
<1>2. CASE Finish
    <2>1. command.name = "generate" => AreComplete(out, loaded, listed, listed)
        BY <1>1, <1>2 DEF Finish, ProgressInv
    <2>. QED
        BY <1>1, <1>2, <2>1, ExitKeepsOutput DEF Finish
<1>3. CASE Kill
    <2>1. Killed # Success
        BY CliAssumption DEF Success
    <2>. QED
        BY <1>1, <1>3, <2>1, ExitKeepsOutput DEF Kill
<1>4. CASE Edit
    <2>1. UNCHANGED runVars /\ UNCHANGED out /\ \A d \in Document : IsText(saved'[d])
        BY <1>1, <1>4, CliAssumption DEF Edit, TextInv, OutputInv, CliInv, TypeOK
    <2>. QED
        BY <1>1, <2>1 DEF TextInv, ProgressInv, runVars, Current
<1>5. CASE UNCHANGED vars
    BY <1>1, <1>5 DEF TextInv, ProgressInv, vars, runVars, Current
<1>. QED
    BY <1>2, <1>3, <1>4, <1>5

LEMMA StepsKeepOutput == OutputInv /\ [Next]_vars => OutputInv'
<1>. SUFFICES ASSUME OutputInv, [Next]_vars PROVE OutputInv'
    OBVIOUS
<1>1. CliInv'
    BY StepsKeepInv DEF OutputInv
<1>2. TextInv' /\ ProgressInv'
    BY PreparingKeepsOutput, ExamineKeepsOutput, GenerateKeepsOutput, FormatKeepsOutput,
       WriteKeepsOutput, WrittenKeepsOutput, EndingsKeepOutput DEF Next
<1>. QED
    BY <1>1, <1>2 DEF OutputInv

-----------------------------------------------------------------------------
(* The theorem.                                                            *)

\* After a successful run of generate every file of every document is there
\* and stems from the text that was loaded, whatever was killed or edited,
\* unless another document has a file of the same name.
THEOREM SuccessfulRunsAreComplete == Spec => []SuccessIsComplete
<1>1. OutputInv => SuccessIsComplete
    <2>. SUFFICES ASSUME OutputInv, phase = Idle, exitCode = Success,
                         command.name = "generate", NEW d \in listed,
                         \A e \in listed \ {d} : OutPaths(d) \cap OutPaths(e) = {}
                  PROVE  IsComplete(out, loaded, d)
        BY DEF SuccessIsComplete, IsComplete, Holds
    <2>1. AreComplete(out, loaded, listed, listed)
        BY DEF OutputInv, ProgressInv
    <2>2. IsSeparate(listed, loaded, d)
        BY DEF IsSeparate, OutPaths
    <2>. QED
        BY <2>1, <2>2 DEF AreComplete
<1>. QED
    BY <1>1, OutputInvInitially, StepsKeepOutput, PTL DEF Spec
=============================================================================
