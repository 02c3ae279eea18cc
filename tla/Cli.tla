--------------------------------- MODULE Cli ---------------------------------
(***************************************************************************)
(* The commands check, format and generate of the command line interface.  *)
(* A run looks up the paths on its command line, loads the documents,      *)
(* examines their diagnostics, and then writes files one after the other.  *)
(* It may be killed, or fail to write, at any of these steps, and the user *)
(* may save another version of a document meanwhile; the files that runs   *)
(* leave behind are what the next run finds.                               *)
(*                                                                         *)
(* Documents are numbered in the order of their absolute paths, in which   *)
(* the commands work through them.                                         *)
(***************************************************************************)
EXTENDS Naturals, FiniteSetsExt, SequencesExt

CONSTANTS
    Document,        \* the TTSL files, a set of numbers
    BaseName,        \* BaseName[d]: the file name of d, as words and separators
    Texts,           \* Texts[d]: the texts the user may save as d
    CommandLines,    \* what may be called
    NoPackage,       \* the package of a text that states none
    Killed,          \* the exit of a process that is killed or fails to write
    MaxRuns,         \* bound on the number of runs
    MaxEdits         \* bound on the number of edits

\* An argument of a command line, with the documents it leads to.
PathArgument ==
    [kind : {"missing", "special", "foreign", "file", "directory"},
     documents : SUBSET Document]

\* A text has finitely many functions.
IsText(t) == "functions" \in DOMAIN t /\ IsFiniteSet(t.functions)

ASSUME CliAssumption ==
    /\ Document \subseteq Nat
    /\ BaseName \in [Document -> Seq(STRING)]
    /\ MaxRuns \in Nat /\ MaxEdits \in Nat
    /\ \A d \in Document : \A t \in Texts[d] :
           /\ IsText(t)
           /\ t.problems \subseteq {"syntax", "error", "warning"}
           /\ t.package = NoPackage /\ t.functions # {} => "error" \in t.problems
    /\ \A c \in CommandLines :
           c.name \in {"check", "format", "generate"} /\ c.paths \in Seq(PathArgument)
    /\ Killed \notin Nat

\* ExitCode
Success == 0
Uncaught == 1
MissingPath == 100
NotAFileOrDirectory == 101
FileWithoutTTSLExtension == 102
FileHasErrors == 103

VARIABLES
    saved,      \* saved[d]: the text of document d on disk
    out,        \* the generated files, as a function from their paths
    command,    \* the command line of the current or last run
    phase,      \* where the run is
    paths,      \* the path arguments that are still to be looked up
    listed,     \* the documents they lead to
    loaded,     \* the texts of the documents that have been loaded
    todo,       \* the documents that are still to be worked on
    pending,    \* the files that are still to be written for the current one
    exitCode,   \* how the last run ended
    runs, edits

runVars == <<command, phase, paths, listed, loaded, todo, pending, exitCode>>
vars == <<saved, out, runVars, runs, edits>>

Idle == "idle"
Current == Min(todo)

Exit(code) ==
    /\ exitCode' = code
    /\ phase' = Idle
    /\ UNCHANGED <<command, paths, listed, loaded, todo, pending>>

-----------------------------------------------------------------------------
(* processPaths and extractDocuments.                                      *)

Start ==
    /\ phase = Idle
    /\ runs < MaxRuns
    /\ runs' = runs + 1
    /\ \E c \in CommandLines : command' = c /\ paths' = c.paths
    /\ phase' = "paths"
    /\ listed' = {}
    /\ loaded' = <<>>
    /\ todo' = {}
    /\ pending' = <<>>
    /\ UNCHANGED <<saved, out, exitCode, edits>>

\* The path arguments are looked up in order; the first bad one ends the run.
ProcessPath ==
    /\ phase = "paths"
    /\ paths # <<>>
    /\ LET path == Head(paths)
       IN  \/ path.kind = "missing" /\ Exit(MissingPath)
           \/ path.kind = "special" /\ Exit(NotAFileOrDirectory)
           \/ path.kind = "foreign" /\ Exit(FileWithoutTTSLExtension)
           \/ /\ path.kind \in {"file", "directory"}
              /\ listed' = listed \cup path.documents
              /\ paths' = Tail(paths)
              /\ UNCHANGED <<command, phase, loaded, todo, pending, exitCode>>
    /\ UNCHANGED <<saved, out, runs, edits>>

\* The documents are loaded concurrently.
Load(d) ==
    /\ phase = "paths"
    /\ paths = <<>>
    /\ d \in listed \ DOMAIN loaded
    /\ loaded' = [e \in DOMAIN loaded \cup {d} |-> IF e = d THEN saved[d] ELSE loaded[e]]
    /\ UNCHANGED <<saved, out, command, phase, paths, listed, todo, pending, exitCode, runs, edits>>

\* Mutant: the builder hands over every document it knows.
BuildEverything ==
    /\ phase = "paths"
    /\ paths = <<>>
    /\ DOMAIN loaded = listed
    /\ phase' = "examine"
    /\ todo' = Document
    /\ UNCHANGED <<saved, out, command, paths, listed, loaded, pending, exitCode, runs, edits>>

\* They are built and validated together.
Build ==
    /\ phase = "paths"
    /\ paths = <<>>
    /\ DOMAIN loaded = listed
    /\ phase' = "examine"
    /\ todo' = listed
    /\ UNCHANGED <<saved, out, command, paths, listed, loaded, pending, exitCode, runs, edits>>

-----------------------------------------------------------------------------
(* Diagnostics.                                                            *)

\* Mutant: check fails on warnings even if it is not strict.
CountsWarnings(c) ==
    {"syntax", "error"} \cup IF c.name = "check" THEN {"warning"} ELSE {}

\* The problems that count as errors.
Counts(c) ==
    {"syntax", "error"} \cup IF c.name = "check" /\ c.strict THEN {"warning"} ELSE {}

\* The problems that make the command fail.  Only syntax errors stop format.
Fatal(c) == IF c.name = "format" THEN {"syntax"} ELSE Counts(c)

HasFatal(d) == loaded[d].problems \cap Fatal(command) # {}

\* Mutant: each document is worked on as soon as it has been examined.
ExamineOnlyCurrent ==
    /\ phase = "examine"
    /\ IF todo = {} THEN Exit(Success)
       ELSE IF HasFatal(Current) THEN Exit(FileHasErrors)
       ELSE /\ phase' = "work"
            /\ UNCHANGED <<command, paths, listed, loaded, todo, pending, exitCode>>
    /\ UNCHANGED <<saved, out, runs, edits>>

\* Check reports the problems of all documents before it exits; the others
\* exit at the first document with a fatal problem, before any work.
Examine ==
    /\ phase = "examine"
    /\ IF command.name = "check"
       THEN Exit(IF \E d \in listed : HasFatal(d) THEN FileHasErrors ELSE Success)
       ELSE IF todo # {} /\ HasFatal(Current) THEN Exit(FileHasErrors)
       ELSE /\ todo' = IF todo = {} THEN listed ELSE todo \ {Current}
            /\ phase' = IF todo = {} THEN "work" ELSE "examine"
            /\ UNCHANGED <<command, paths, listed, loaded, pending, exitCode>>
    /\ UNCHANGED <<saved, out, runs, edits>>

-----------------------------------------------------------------------------
(* Output.                                                                 *)

\* The names of generated files: blanks, dots and hyphens become underscores.
Separators == {" ", ".", "-"}
Underscore == "_"
SanitizeModuleNameForPython(name) ==
    [i \in DOMAIN name |-> IF name[i] \in Separators THEN Underscore ELSE name[i]]

GeneratedFile(d, t, suffix) ==
    [path |-> [package |-> t.package, base |-> SanitizeModuleNameForPython(BaseName[d]) \o suffix],
     content |-> [document |-> d, text |-> t, entry |-> suffix]]

\* The module, an entry point for each function, and one for the simulation;
\* an entry point for a function named simulate is replaced by the latter.
GeneratedFiles(d, t) ==
    <<GeneratedFile(d, t, <<>>)>>
        \o [i \in 1 .. Cardinality(t.functions \ {"simulate"}) |->
               GeneratedFile(d, t, <<Underscore, SetToSeq(t.functions \ {"simulate"})[i]>>)]
        \o <<GeneratedFile(d, t, <<Underscore, "simulate">>)>>

\* Generating code for a module without a package raises a TypeError.
Generate ==
    /\ phase = "work"
    /\ command.name = "generate"
    /\ todo # {}
    /\ IF loaded[Current].package = NoPackage
       THEN Exit(Uncaught)
       ELSE /\ pending' = GeneratedFiles(Current, loaded[Current])
            /\ phase' = "write"
            /\ UNCHANGED <<command, paths, listed, loaded, todo, exitCode>>
    /\ UNCHANGED <<saved, out, runs, edits>>

\* Formatting is asynchronous; the edits apply to the text that was loaded.
Format ==
    /\ phase = "work"
    /\ command.name = "format"
    /\ todo # {}
    /\ pending' = <<[loaded[Current] EXCEPT !.tidy = TRUE]>>
    /\ phase' = "write"
    /\ UNCHANGED <<saved, out, command, paths, listed, loaded, todo, exitCode, runs, edits>>

Put(file) ==
    out' = [p \in DOMAIN out \cup {file.path} |-> IF p = file.path THEN file.content ELSE out[p]]

\* Mutant: files that exist are not written again.
WriteIfMissing ==
    /\ phase = "write"
    /\ pending # <<>>
    /\ IF command.name = "format"
       THEN saved' = [saved EXCEPT ![Current] = Head(pending)] /\ UNCHANGED out
       ELSE /\ IF Head(pending).path \in DOMAIN out THEN UNCHANGED out ELSE Put(Head(pending))
            /\ UNCHANGED saved
    /\ pending' = Tail(pending)
    /\ UNCHANGED <<command, phase, paths, listed, loaded, todo, exitCode, runs, edits>>

Write ==
    /\ phase = "write"
    /\ pending # <<>>
    /\ IF command.name = "format"
       THEN saved' = [saved EXCEPT ![Current] = Head(pending)] /\ UNCHANGED out
       ELSE Put(Head(pending)) /\ UNCHANGED saved
    /\ pending' = Tail(pending)
    /\ UNCHANGED <<command, phase, paths, listed, loaded, todo, exitCode, runs, edits>>

Written ==
    /\ phase = "write"
    /\ pending = <<>>
    /\ todo' = todo \ {Current}
    /\ phase' = "work"
    /\ UNCHANGED <<saved, out, command, paths, listed, loaded, pending, exitCode, runs, edits>>

Finish ==
    /\ phase = "work"
    /\ todo = {}
    /\ Exit(Success)
    /\ UNCHANGED <<saved, out, runs, edits>>

-----------------------------------------------------------------------------

\* The process is killed, or throws because a file cannot be written.
Kill ==
    /\ phase # Idle
    /\ Exit(Killed)
    /\ UNCHANGED <<saved, out, runs, edits>>

Edit ==
    /\ edits < MaxEdits
    /\ edits' = edits + 1
    /\ \E d \in Document : \E t \in Texts[d] \ {saved[d]} : saved' = [saved EXCEPT ![d] = t]
    /\ UNCHANGED <<out, runVars, runs>>

Init ==
    /\ saved \in [Document -> UNION {Texts[d] : d \in Document}]
    /\ \A d \in Document : saved[d] \in Texts[d]
    /\ out = <<>>
    /\ command \in CommandLines
    /\ phase = Idle
    /\ paths = <<>> /\ listed = {} /\ loaded = <<>> /\ todo = {} /\ pending = <<>>
    /\ exitCode = Killed
    /\ runs = 0 /\ edits = 0

Next ==
    \/ Start \/ ProcessPath \/ (\E d \in Document : Load(d)) \/ Build \/ Examine
    \/ Generate \/ Format \/ Write \/ Written \/ Finish
    \/ Kill \/ Edit

Spec == Init /\ [][Next]_vars

-----------------------------------------------------------------------------
(* Properties.                                                             *)

\* The variables hold what a run can make of the disk.
TypeOK ==
    /\ DOMAIN saved = Document
    /\ phase \in {Idle, "paths", "examine", "work", "write"}
    /\ listed \subseteq Document
    /\ DOMAIN loaded \subseteq listed
    /\ todo \subseteq listed
    /\ phase = "write" => todo # {}
    /\ exitCode \in {Success, Uncaught, MissingPath, NotAFileOrDirectory,
                     FileWithoutTTSLExtension, FileHasErrors, Killed}

\* A run writes no file, generated or formatted, unless every document on its
\* command line is free of the problems that are fatal to the command.
WritesOnlyIfAllPass ==
    [][phase = "write" /\ (out' # out \/ pending' # pending) =>
           \A d \in listed : ~HasFatal(d)]_vars

\* The exit code of a run that is neither killed nor given bad paths tells
\* whether a document has an error: a syntax error for format, any error for
\* generate, and also any warning for a strict check.
ExitCodeTellsErrors ==
    phase = Idle /\ exitCode \in {Success, FileHasErrors} =>
        (exitCode = FileHasErrors <=>
            \E d \in listed : \E p \in loaded[d].problems :
                \/ p = "syntax"
                \/ p = "error" /\ command.name # "format"
                \/ p = "warning" /\ command.name = "check" /\ command.strict)

OutPaths(d) ==
    {GeneratedFiles(d, loaded[d])[i].path : i \in DOMAIN GeneratedFiles(d, loaded[d])}

\* After a successful run of generate every file of every document is there
\* and stems from the text that was loaded, whatever earlier runs that were
\* killed or saw other texts have left behind.  Documents whose files have the
\* same names are left out.
SuccessIsComplete ==
    phase = Idle /\ exitCode = Success /\ command.name = "generate" =>
        \A d \in listed : (\A e \in listed \ {d} : OutPaths(d) \cap OutPaths(e) = {}) =>
            \A i \in DOMAIN GeneratedFiles(d, loaded[d]) :
                LET file == GeneratedFiles(d, loaded[d])[i]
                IN  file.path \in DOMAIN out /\ out[file.path] = file.content

=============================================================================
