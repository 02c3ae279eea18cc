# A verification of TTSL

TTSL (transparent tax and social law) is a small language for rules that change
over time, with a language server, a command line interface and a generator of
Python.  The implementation is about 10,300 lines of TypeScript and grammar
under `src/packages`: `ttsl-lang` (grammar, scoping, typing, partial evaluation,
validation, generation, editor services), `ttsl-cli` and `ttsl-vscode`.  It is
built on Langium, which is not part of the repository and is modelled from the
way this code uses it.

This directory holds TLA+ models of the parts whose correctness depends on
order, on state that is kept, or on several parts agreeing; configurations that
check them with TLC; and proofs that TLAPS checks.  `PackageView` is the abstract
specification that the workspace is shown to implement, by TLC and by proof.

## 1. Inventory

Paths are relative to `src/packages/ttsl-lang/src/language` unless they start
with `cli`, which stands for `src/packages/ttsl-cli/src`.

| Component | State it keeps | Operations | What makes it correct |
|---|---|---|---|
| Scope computation `scoping/ttsl-scope-computation.ts` | the exports of a document in the symbol index, its local symbols | one run per document and build | a module exports all its members, or nothing if it has no package |
| Package manager `workspace/ttsl-package-manager.ts` | package names and the tree of package contents, both derived from the index | rebuild after the phase IndexedContent; queries | the tree is the index, filed by package |
| Scope provider `scoping/ttsl-scope-provider.ts` | two workspace caches: the global scope per document, the core declarations | scopes of references and of imported declarations; local scopes of blocks and loops | references lead to declarations that exist and are visible, and whose value the program reads; no stale answer |
| Document builder, workspace manager `workspace/*.ts` (and Langium) | per document: text, build state, links, diagnostics; what is left to build | update, cancel, the phases, loading of builtin files | what was edited is built again, and so is everything an edit affects, as far as the index of references knows it |
| Validators of names and imports `validation/names.ts`, `validation/other/imports.ts` | none: they read the package manager | one check per declaration or import | a clash in a package is reported, in whatever order the files were edited |
| Node mapper `helpers/ttsl-node-mapper.ts` | none | argument to parameter, parameter to argument, assignee to value | the mappings agree with each other and with the generated program |
| Validators of calls `validation/other/argumentLists.ts`, `.../parameterLists.ts` | none | five checks per argument list, one per parameter list | they accept exactly the calls that can be bound |
| Temporal validity `helpers/timespanComputer.ts`, `typing/ttsl-type-computer.ts`, `generation/ttsl-python-generator.ts` | the cache of node types | filling in the bounds a timespan leaves out, thrice; the generated conditions and the generated lookup | one version is in force on a date, and every part takes it to be the same one |
| Partial evaluator `partialEvaluation/*.ts` | a workspace cache from node to value | evaluate, with or without substitutions | the value does not depend on which query came first, and is what the program computes |
| Call graph computer `flow/ttsl-call-graph-computer.ts` | a cache of call graphs | call graph, all called callables, is recursive | a call is reported as recursive iff it can call itself |
| Slicer `flow/ttsl-slicer.ts` | none (it reverses the array it is given) | backward slice | the statements the targets depend on, in their order |
| Type computer and checker `typing/*.ts` | a workspace cache of node types | type of node; assignability, common supertypes | a type does not depend on the order of queries; what is accepted evaluates to values of its type |
| Python generator `generation/ttsl-python-generator.ts` | none between documents | module, functions, blocks, statements, expressions, entry points | the generated program binds, imports and branches as the analyses assume |
| Command line interface `cli` | files on disk | check, format, generate, simulate | nothing is written unless all documents pass; the exit code tells the result |
| Rename, call hierarchy `lsp/ttsl-rename-provider.ts`, `lsp/ttsl-call-hierarchy-provider.ts` | none | edits of a rename; callers and callees | references lead to the same declaration after the rename |
| Aggregation validators `validation/aggregation.ts` | none | search for an aggregation through blocks | a function that aggregates on every way is accepted; one that does not is rejected, if it fails to otherwise than by skipping a loop or by an early return |
| Builtin files `builtins/*.ts` | a cache of module members | lookup of annotations and functions | answers follow updates of the workspace |
| Other editor services `lsp/*.ts`, messaging, settings, documentation | registered callbacks | stateless | wording and layout |

Interactions.  An update from the client reaches Langium's document builder,
which resets documents, tells the workspace caches (scope provider, partial
evaluator, type computer, call graphs) to forget everything, and takes the
documents that are not complete through the phases parse, index, scopes, link,
index of references, validate.  The package manager hears of the end of the indexing phase and reads
the index; the scope provider and the validators read the package manager; the
linker asks the scope provider; the type computer and the partial evaluator
follow the links and ask the node mapper; the generator asks all of them.  The
command line interface runs one such build and then the generator or the
formatter.

What is hard.  Updates cancel builds between any two documents, so that derived
structures (tree, caches, links, diagnostics) are rebuilt from different moments.
Bounds of timespans and bindings of arguments are computed in several places by
different rules.  Files are written one by one by a process that can stop in
between.  Evaluation is recursive over a graph that can have cycles, with a
cache filled along the way; call graphs and types are computed from it and are
cached themselves.  The slicer changes the syntax tree it reads.  `hazards` in `PROJECT.json` lists each of these at
its line.

## 2. Modules and how they correspond to the code

`map` in `PROJECT.json` gives the lines of every definition.  Names are the
source's where TLA+ allows it.

### PackageManager, ScopeProvider, Workspace

`PackageManager` and `ScopeProvider` declare the state and the operations of
these two components; `Workspace` extends both and adds the document builder and
the validators, and so is the composition that runs.

| Variable | In the code |
|---|---|
| `exported` | the exports in Langium's index manager, per document |
| `packageNames`, `packageContents` | the fields of `TTSLPackageManager`; the tree of `PackageContents` is a function from the path of a node to its own declarations |
| `text`, `state` | the parsed module and the `DocumentState` of a document |
| `links` | the linked references of a document |
| `scopeCache`, `coreCache` | `globalScopeCache` and `coreDeclarationCache` of the scope provider |
| `diagnostics` | the diagnostics of a document, by code and name |
| `referenceIndex` | what the index manager knows of the references of a document, by the documents they lead to |
| `phase`, `building`, `validating` | the builder's current phase, the documents whose build state is not completed, the build options |

| Action | In the code |
|---|---|
| `Edit` | one call of the builder's `update` with any set of documents, up to its first interruption point: documents are reset or forgotten, what they affect according to the index of references is unlinked (`ShouldRelink`), the caches hear of it (`ClearCaches`), and what a cancelled build left is taken over |
| `Index`, `ComputeScopes`, `Link`, `IndexReferences`, `Validate` | the phases, one document at a time; between any two steps, another update may cancel the build |
| `FinishPhase` | the end of a phase, at which the package manager rebuilds its structures if a document was indexed |
| `Complete` | a completion request on a finished document while a build runs; it fills the scope caches |

The first build (`Init`) is not validated and not interrupted, as the server
starts up.  The visibility rules, aliases, wildcard imports, subpackages of the
builtin root package and malformed names such as `p..q` are the code's.  The
document `lib` in package `TTSL.lang` stands for a builtin file with core
declarations: the code gives that package a special place, while the builtin
files of the repository (`src/resources/builtins`) are all in packages outside of
`TTSL` and behave like documents that are never edited.  `CoreAssumption` excludes
user documents in `TTSL.lang`, see section 4.

### PackageView

What the workspace promises to its readers, without builders, phases, caches and
packages.  Documents declare things; a copy of the declarations is served; the
links of a document are an answer taken from the copy.  The copy may lag behind,
but nothing is answered while it does.  An answer is registered some time after
it was given; from then on it does not survive an edit of a document it leads to.
Until then it may, and goes stale.

| In the view | In `Workspace` |
|---|---|
| `documents`, `declared` | the documents that exist, and what the current text of each offers (`Offered`) |
| `served` | what the package tree holds of each document (`Served`) |
| `answered`, `answers` | the linked documents, and the declarations of other documents their references and imports lead to (`Answered`, `AnswersOf`) |
| `registered` | those of them whose references are indexed |
| `Edit`, `Answer`, `Register` | `Edit`, `Link`, `IndexReferences` |
| `Reindex` | `FinishPhase` at the end of the indexing phase |
| a stutter | everything else: indexing, scopes, validation, completion, the other phases |

### Rename

The rename provider on top of `Workspace`: the texts after its edits, the index
and the tree of these texts, and the links the scope provider would then compute
(`After`, an instance of `ScopeProvider` whose variables are replaced by the new
ones).  `Rename` is the request, for any declaration and name, in any state in
which the builder rests, `Respond` the answer; the handler reads the workspace at
the request and awaits nothing, so that neither changes the workspace.
`RenameSpec` therefore contains every behaviour of `Workspace` and no other.

### Timespans

One function that reads one constant in each of its timespan statements.
`ComputeTimespan`, `FillInTimespan` and `GeneratedStart`/`GeneratedEnd` are the
three ways in which the code fills in bounds, `GetValue` is the lookup of the
generated class `ClassConstants`, with its sort of keys as text and its loop
that reads the key mirrored from the end.  The actions check the types on some
day, simulate a date, and let days pass.  Dates are numbers of days; the code
compares ISO strings, which has the same order.  The constant `Programs` holds
the pairs of a constant and a function to look at.  The runs take sequences of up
to three timespans that do not overlap, as the documentation demands
(`DisjointUpTo`), two of them for both or three for one of the two
(`MCPrograms`); timespans that end before they start are among them, since
nothing rejects them.  Timespans that overlap, which nothing rejects either, are
in no instance.  `TypeOK` is proved of them too; the other properties of this
module leave them out by their own precondition `Disjoint`.

### Sorting

The sorts of JavaScript and Python as the code uses them: the set of the
elements, in an order without ties (`SortedSeq`).  `Timespans` sorts the keys of
`ClassConstants`, `Calls` the arguments of a call.

### Calls

One callee and one call, validated, generated and run.  The node mapper's two
mappings, the five checks of argument lists and the check of parameter lists,
the linker's error for unknown names, the generator's sort and naming of
arguments, the header it generates, and the rules by which Python binds actual
to formal parameters (external).

### PartialEvaluator

The evaluator's recursion with its cache and its set of evaluations under way,
passed along as values, so that one query is one action.  A program is a set of
numbered nodes.  `Meaning` is the reference definition: the value of the generated
Python in an environment that gives every unknown a value.  It shares no operator
with the evaluator: lists are numpy's arrays (`ArrayOf`, `PythonIndex`), a quotient is
exact (`Fraction`), `==` is that of arrays, dictionaries and numbers
(`PythonEquals`), booleans are numbers, and an operation that raises an error has no
value.

### CallGraph

Extends `PartialEvaluator`, as the computer extends what the evaluator knows: a
synthetic call is an evaluated callable with the values of those of its
parameters that are callables.  `DoGetCallGraph` is the depth-first search of the
code, with the evaluator's cache passed along; `graphs` is the cache of graphs,
which is filled by queries without substitutions and cleared by updates.
`GetCallGraph`, `Evaluate` (another service asks the evaluator) and
`ClearCachesOnUpdate` are its actions.  The reference definitions are a relation
on synthetic calls (`CallsFrom`) and an execution with limited fuel (`Returns`).

### TypeModel, Types, TypeSoundness

`TypeModel` holds the types and what is computed from types alone: nullability,
elements, operators, lowest common supertypes.  `Types` adds the recursion over
the syntax tree with its cache (`nodeTypes`), the checks of types, null safety and
style, and queries, validation and edits in any order.  A type is a record whose
equality is that of the texts the code compares.  A program is a sequence of nodes,
each behind those its type is computed from, so that the recursion is a function
on the nodes.  `TypeSoundness` adds what types promise, `ValuesFitTypes` and
`HintsKeepMeaning`.  Its reference definition is `ValuesOf`: the values of an
expression in the generated program, told apart by their kinds, with `Wrong` for a
`TypeError`, also that of a key that cannot be hashed.

### Blocks

The body of one function, its generation and its execution.

| Variable | In the code |
|---|---|
| `body` | the function as it was written: numbered statements, and blocks, each a sequence of statements; a tree (`IsBody`) |
| `blocks` | the arrays of statements in the syntax tree, which the slicer reverses |
| `links` | what each reference in the body is linked to |
| `lines` | the code that was generated for each block |
| `todo`, `env` | what is left to execute of the generated function, and its variables, each with the statement that assigned it last |
| `reads` | the variables that the last step read |
| `generations` | for which placeholders the file was generated, time after time |

`LocalDeclarations` and `Target` are the local part of the scope provider,
`ComputeBackwardSlice` the slicer, `GenerateBlock` and `GenerateStatement` the
generator.  `Generate` generates the file, for all or for some placeholders,
reverses the statements of the blocks that are sliced, and calls the function;
`Execute` runs one statement of Python, where a name is one variable of the
function.

The text of the generated code matters at one place: the generator appends the
increment of a `for` loop to the block without a new line.  `LastLine` is the line
it is appended to, which may be that of a block nested deep inside, and be continued
by the increments of several loops (`Continuing`).  Of the text of an expression the
model keeps whether it is a single word, and which one.  If the line ends with a
word, the name in the increment makes a longer one of it, and the values of the
line are assigned to that (`Continue`): `pass` and `i = (i) + (1)` become
`passi = (i) + (1)`, and `x = y` becomes `x = yi = (i) + (1)`.  After anything but a
word the text is no program (`malformed`), and only an empty line, which a conditional
without `else` ends with, makes the increment a statement of its own.

`HasAggregation` is the validator of grouped functions, and `WaysAround` its
reference definition: whether the execution of a block can come to its end, or to a
`return`, without an aggregation, where loops and timespans may be skipped as in
`Execute`.  Scopes, slices, code and ways are computed by recursive functions on
statements, blocks or positions.

### Cli

A run of `check`, `format` or `generate`: path arguments, loading, building,
examination of diagnostics, and one action per written file, with `Kill`
possible in every state and `Edit` by the user at any time.  `saved` and `out`
are the disk and outlive the runs.

## 3. Runs

| Run | Question | Instance |
|---|---|---|
| `edit` | do tree, diagnostics and renames match the texts; when do links go stale; is what was edited validated; is the workspace a `PackageView`? | a builtin and two user documents with five and six texts or none, three updates of one or both, renames of any declaration, `FairRenameSpec` |
| `timespans` | one version per date; do all parts take it to be the same one? | up to three timespans, four days |
| `no_lower_bound` | violated, on a date before the end: a single timespan without a start | same |
| `calls` | do validators, mappings and Python agree? | all functions with up to three parameters, all calls with up to four arguments |
| `data` | violated: functions that read data | two parameters, two arguments |
| `evaluator` | are answers independent of the cache, and those of Python if final? | 1,261 programs, two queries, edits between them |
| `graphs` | are graphs independent of both caches; is recursion a cycle; does what is not reported return? | three functions that call and pass each other, three substitutions, two queries or edits |
| `types` | are types those of a fresh server; do values fit them? | thousands of pairs of an expression over literals and declarations and one that contains it, with a query or an edit before or after validation |
| `blocks` | is a variable bound when it is read, and by the declaration the reference is linked to; does the check of grouped functions accept what aggregates? | bodies with up to seven statements and three levels of blocks, generated twice, for any placeholders |
| `loops` | violated: loops with an increment | 6 bodies, generated once |
| `assignments` | violated: placeholders that are assigned again | 300 bodies, generated once |
| `cli` | are exit codes and generated files right? | three documents, two of which generate files of the same name, two runs, one edit |

Why the bounds are enough.  The defects the workspace could have need an update
that cancels a build in each phase and one that follows: two updates reach every
pair of phases, three every chain in which a document is reset, cancelled, reset
again and finished.  Documents are created and deleted in the same run, since
`Absent` is one of their texts.  Two user documents give every relation the
properties speak of (import, same package, clash), the texts every visibility,
alias and kind of import.  Overlaps and gaps involve two neighbouring timespans
and the wrap-around of `at(-1)` a first and a last one; three timespans have
all of these at once, and four days put a date before, in, between and after
them and allow for reversed timespans beside proper ones.  Arguments and parameters interact by position, name and default; with
three parameters and four arguments, two of each kind meet and there is one too
many.  Two queries are enough for the one to leave a cache that the other reads;
the programs contain cycles through default values, and for graphs through
callables that are passed along.  A rule for types relates an expression to its
operands, so that two levels of expressions reach every pair of rules; types of
lists of nullable values and of dictionaries of lists occur among them.  A
statement reads what is declared before it, around it or by a loop; bodies with
an outer statement on each side of a compound one and nested blocks with one or
two statements hold each of these, with the same names in different blocks.  A
second generation is enough to meet what the first did to the syntax tree.  Two
runs of the command line interface are enough for the first to leave what the
second finds.

Deadlock is not checked for the workspace (an idle server whose client is done
editing), for calls (a call has been run), for graphs and types (no queries are
left), for blocks (the function has returned and is not generated again) and for
the command line interface (the runs are used up): each of these may really stop.

Fairness.  Only `edit` assumes any: weak fairness of `Build`, that is, a server
with a build to do goes on with it.  The code justifies it, because `update`
itself calls the build loop, which awaits nothing but its own steps and is only
interrupted by the next update, whose build takes over.  Edits, completion
requests, renames, the answers to them and the end of the updates are not assumed.

Several properties state where they hold.  `AnswersIgnoreHistory` and the
properties of graphs except programs whose cycles lead through something other
than calls (`CyclesAreCalls`), `AnswersAreFinal` what `ComparesKnownValues` and
`DivergesInPython` name, those of types what `IsPromised` lists, those of blocks
what `DeclaresOncePerBlock`, `HeadersLookBack`, `JoinedNamesGoUnread` and `IsIntact`
say, and the check of grouped functions what `AggregationsAreStatements`,
`SkipsNoAggregation` and `ReturnsAtTheEnd` do.  Each of
these conditions excludes an outcome of the code that section 4 records, and is
met by most of the instances.

Every property of a passing run comes with a mutant of the code in `PROJECT.json`
that violates it: a missing reset, a dropped guard, a swapped order or an
off-by-one, defined next to the operator it replaces.

## 4. Where code and documentation disagree

Shown by a run:

- `no_lower_bound`: a single timespan without a start compiles to a condition
  that never holds, as `at(-1)` yields the timespan itself and with it its own end
  for a start.  The property asks for dates before the end only, so that it is not
  the exclusive end that violates it.
- `data`: a function that reads data gets it as leading parameters that calls do
  not pass.
- `loops`: the increment of a `for` loop is appended to the text of the last
  line of its block (`ttsl-python-generator.ts:1059`).  The expected output of the
  test of loops records `passi = (i) + (1)` (`gen_input.py:12`).
- `assignments`: the evaluator takes a placeholder for the value it was declared
  with, whatever is assigned to it later (`ttsl-partial-evaluator.ts:147`).

Seen while reading, and respected by the models.

Workspace and rename:

- `hasPackage` goes on to report a package after its last module was deleted, if
  nothing is indexed afterwards (`ttsl-package-manager.ts:36`).
- The name of a package is taken for a builtin one if its text starts with
  `TTSL`, as `TTSLtax` does; its duplicates go unreported (`names.ts:82`).  `Clash`
  leaves such packages out.
- A package whose modules declare nothing is unknown (`ttsl-package-manager.ts:127`).
- Nothing rejects a user document in `TTSL.lang`.  Then a completion request in
  the middle of a build may put declarations into the core cache that the
  document no longer has (`ttsl-scope-provider.ts:312`).
- A rename does not reject a name that is in use, nor a declaration of a builtin
  file: only for fresh names of declarations of the user does `RenameKeepsLinks`
  promise anything.
- Whether an update affects a document is asked of the index of references (Langium's
  `isAffected`), which is brought up to date one phase after linking.  An update that
  comes between the two phases and changes the document that a new link leads to
  does not know of the link: the document stays linked, is completed by the next
  build, and keeps a link to a declaration that is gone, without an error, until it
  or the other document is edited again.  `LinksGoStaleUnindexedOnly` states that
  this is the only way.
- A linked reference is not looked at again when another document adds a
  declaration that comes before its target in the scope: only documents with
  errors, and those that lead into a changed document, are relinked (Langium's
  document builder, of which `ttsl-document-builder.ts` overrides the options only).
  The next edit of the document links the reference differently, and the edits of a
  rename are one: `RenameKeepsLinks` requires `LinksAreFresh`.

Timespans:

- The end of a timespan is excluded by all of the code (`ttsl-python-generator.ts:998`)
  and included by `docs/language/common/validity.md:104`; `TypesPredictPast`
  leaves that day out.
- A first entry without a start, as in `validity.md:9`, gets an `e` key whose
  lookup compares dates with a key marked `s` (`ttsl-python-generator.ts:222`);
  `VersionInForce` requires all starts.
- Nothing rejects an entry that ends before it starts.  The type checker and the
  generator treat what it leaves of its neighbours differently (`timespanComputer.ts:32`);
  `TypesPredictPast` requires `NoneReversed`, and has counterexamples without it.
- Open timespans end on the day of the check for the type checker
  (`timespanComputer.ts:32`), and never for the generator.
- `hasPreviousTimespan` tests a method instead of a node and is always false
  (`timespanComputer.ts:70`), so that no missing bound is ever reported.

Calls, evaluator and call graphs:

- A call with a time unit and no arguments generates `f(, timeunit = ...)`
  (`ttsl-python-generator.ts:1315`).
- A parenthesized expression is always unknown to the evaluator, which evaluates
  the expression itself again (`ttsl-partial-evaluator.ts:204`).
- `[p] == [q]` evaluates to true; `ComparesKnownValues` is the condition that
  excludes this.  Likewise an entry of a dictionary whose key is not known is passed
  over, although it may be the last one that matches.
- The evaluator computes other values than the generated Python
  (`DivergesInPython`): `1 / 2` is 0 for the one and 0.5 for the other; two lists are
  equal or not, while Python compares their arrays element by element; `true` is
  neither equal to 1 nor the same key, and does not become 1 in a list beside numbers;
  a function without results returns an empty tuple, and `None` in Python.  `===`,
  which the model leaves out, evaluates as `==` does and tests identity in Python.
- A whole quotient such as `2 / 1` is an integer to the evaluator and a float in
  Python, which refuses it as an index; the model takes them for the same number.
- A cycle that does not lead through calls alone, as in `f(p = [g, f()][0])`,
  leaves a value in the cache that depends on where its evaluation started
  (`ttsl-partial-evaluator.ts:103`).
- Bodies of functions are not searched for calls (`ttsl-call-graph-computer.ts:145`),
  so that recursion through them is not reported.  A default value that is a
  callable but contains calls, as `[h, g()][0]`, is passed over as if an argument
  had been given (`:157`); `DefaultsHideNoCalls` excludes it.
- The loop in `validation/other/expressions/calls.ts:22` returns at the first
  parameter that is not constant.

Types:

- The mismatch of an argument's type is never reported, since every class of
  types extends `AnyType` (`validation/types.ts:44`).
- The quotient of two Ints has the type Int, operands and indices may be null,
  accesses drop the nullability of elements, `?:` compares texts of types of
  which one may contain the other, `==` of lists is a list in Python, and a loop over a
  dictionary is typed by its values while Python iterates over its keys.
  `IsPromised` has one conjunct for each.
- The index of an access is checked for lists only (`validation/types.ts:104`), so
  that `{1: 1}[{1: 1}]` is accepted and raises a `TypeError`, as a dictionary cannot be
  hashed.  The conjunct `AccessesWithKeys` of `IsPromised` excludes it.
- The lowest common supertype depends on the order of the types.
- The check for divisions by zero never reports anything
  (`infixOperations.ts:24`), and the type of what is assigned to a placeholder
  again is not checked.
- The variable of `foreach (x in x)` makes the type computer recurse forever.

Blocks:

- The slicer reverses the array of statements in the syntax tree
  (`ttsl-slicer.ts:15`): a generation that follows one for chosen placeholders sees
  the statements backwards.  `IsIntact` says that none came before.
- In the header of a `for` loop, and in the list of a `foreach`, variables that are
  declared later, or by the loop itself, are visible and not bound
  (`ttsl-scope-provider.ts:223`); `HeadersLookBack` excludes that.
- Python has one variable per name: a declaration in a nested block overwrites
  that of the block around it.  `ReadsFollowLinks` therefore speaks of writers that
  are visible where the name is read.
- After a conditional without an `else` at the end of its block the increment of
  a loop works, since the block's text then ends with an empty line.  After a word it
  makes another name: after an empty block `passi`, after `x = y` the chained
  assignment `x = yi = (i) + (1)` (`ttsl-python-generator.ts:1059`).  Such a name may be
  one that the program reads, as in
  `var passi = 5; for (var i = 0; i < passi; i = i + 1) {}`, where the second
  evaluation of the condition reads what the increment has made;
  `JoinedNamesGoUnread` excludes it.  Words that become a keyword of Python together
  with the name are left out.
- The check of grouped functions (`aggregation.ts:93`) takes the block of a loop or a
  timespan for executed and passes over early returns: a function that aggregates in
  the block of `while (c)` only, or behind a `return` in a conditional, is accepted
  and need not aggregate (`SkipsNoAggregation`, `ReturnsAtTheEnd`).  It finds an
  aggregation as a statement, or as the value that one assigns, and neither in a
  larger expression nor in the header of a loop nor in a `return`
  (`AggregationsAreStatements`).  `functions.md:62` does not say on which ways through
  the body the aggregation has to happen.

Generation:

- It throws a `TypeError` for a module without a package
  (`ttsl-python-generator.ts:385`).
- It drops parentheses, so that `(a + b)[0]` becomes `(a) + (b)[0]` (`:1266`).

## 5. Proofs

All theorems hold for every value of the constants that meets the assumptions
which the modules state by name; TLC evaluates these in every run.

| Theorem | States | Argument |
|---|---|---|
| `WorkspaceProofs!TypeCorrect` | `[]TypeOK` | one lemma per action; what is linked or cached is made of descriptions of the index |
| `WorkspaceProofs!PackageTreeCorrect` | `[]PackageTreeMatchesIndex` | `TreeInv`, see below |
| `WorkspaceProofs!InternalIsPrivate` | `[]InternalStaysInPackage` | `VisibilityInv`, see below |
| `WorkspaceProofs!WorkspaceImplementsView` | `Spec => ImplementsView` | `ViewInv`, see below |
| `WorkspaceProofs!LinksAreCurrent` | `Spec => LinksGoStaleUnindexedOnly` | `PackageView!AnswersStayDeclared`, through the mapping |
| `WorkspaceProofs!NoStaleErrors` | `[]NoStaleLinkingErrors` | `ErrorInv` of `RestInv`, see below |
| `WorkspaceProofs!DuplicatesAreReported` | `[]DuplicatesReported` | `ClashInv` of `RestInv` |
| `WorkspaceProofs!HiddenDeclarationsAreReported` | `[]HiddenDeclarationsReported` | `StartInv` and `HiddenInv` of `RestInv` |
| `WorkspaceProofs!RenamingKeepsLinks` | `RenameSpec => []RenameKeepsLinks` | `RestInv` and `RequestInv`, and the layers of a scope one by one, see below |
| `PackageView!AnswersStayDeclared` | `Spec => AnswersGoStaleUnregisteredOnly` of the view | step by step, from the types of the view |
| `TimespansProofs!VersionsAreExclusive` | `[]OneVersionPerDate` | the end generated for a timespan is not after the start of any later one (`EndsBeforeLaterStarts`) |
| `TimespansProofs!ReadingsCoincide` | `[]ReadingsAgree` | the two ways to fill in an end agree but for the last timespan (`EndsAgree`) |
| `TimespansProofs!TimespansAreTyped` | `[]TypeOK` | `TimespansInv`, see below |
| `TimespansProofs!VersionsAreInForce` | `[]VersionInForce` | `LookupInv`, and `LookupIsValid` about the lookup |
| `TimespansProofs!TypesAreRead` | `[]TypesPredictPast` | `PredictInv`, and `TypeIsRead` about the type |
| `CallsProofs!MappingsCoincide` | `[]MappingsAgree` | `LoopKeepsFirst`: the loop has the first argument of each parameter |
| `CallsProofs!ValidatorsAreExact` | `[]AcceptsWellFormed` | `AcceptedIsWellFormed` and `WellFormedIsAccepted` |
| `CallsProofs!CallsBind` | `[]AcceptedCallsBind` | `ProgramInv` and `OutcomeInv`, see below |
| `CliProofs!NothingWrittenOnErrors` | `WritesOnlyIfAllPass` | while a run examines, what it has examined has passed; when it works, all has (`ExaminationInv`) |
| `CliProofs!ExitCodeCorrect` | `[]ExitCodeTellsErrors` | the same invariant, and that `Min(todo)` is one of the documents listed (`CurrentIsToDo`) |
| `CliProofs!CliTypeCorrect` | `[]TypeOK` | with the same invariant |
| `CliProofs!SuccessfulRunsAreComplete` | `[]SuccessIsComplete` | `OutputInv`, see below |
| `TypesProofs!LowestCommonSupertypeIsAbove` | the lowest common supertype of a list of types admits each of them | by the cases of the code, for lists of any length |
| `TypesProofs!TypesTypeCorrect` | `[]TypeOK` of `Types`: with a type the cache has all types it was computed from | `TypesInvariant`, see below |
| `TypesProofs!HistoryIsIgnored` | `[]TypesIgnoreHistory` | the same invariant |
| `BlocksProofs!BlocksTypeCorrect` | `[]TypeOK` of `Blocks` | `Kept`, see below |
| `BlocksProofs!AllReadsAreBound` | `[]ReadsAreBound` | `ReadyInv`, see below |
| `BlocksProofs!AllReadsFollowLinks` | `[]ReadsFollowLinks` | `ConsistentInv`, see below |
| `BlocksProofs!AcceptedFunctionsAggregate` | `[]GroupedFunctionsAggregate` | the search is told by a set of blocks, and compared with the ways through them, see below |

The assumptions: package names are non-empty sequences of segments, and so is
that of the root package; `Absent` is not a module, and neither `*` nor the lack of
an alias is a name (`PackageAssumption`, `ScopeAssumption`); no update touches a
builtin document, and the menus contain modules or `Absent`
(`WorkspaceAssumption`); no user document states `TTSL.lang` (`CoreAssumption`, used
from the refinement on); timespans state at least one bound
(`TimespanAssumption`); the marks for what is not an argument or a parameter are no
numbers (`CallsAssumption`); documents are numbered, have names and finitely many
functions, and the arguments of command lines lead to documents
(`CliAssumption`); the nodes of a program are numbered behind those their types are
computed from, which excludes `foreach (x in x)` (`TypesAssumption`); the body of a
function is a tree whose statements and blocks are numbered from the outside to
the inside (`BlocksAssumption`).  Neither the number of documents, packages, timespans,
parameters, arguments, nodes, statements and blocks, nor that of updates, runs,
kills, edits, days, queries and generations is bounded, except that each is a
natural number.

`PackageTreeMatchesIndex` is not inductive: it says nothing about documents that
have not reached their scopes, so that nothing would keep one of them from
arriving there without a rebuild.  `TreeInv` adds

- `IndexIsFiled`: a description is filed under the document it belongs to;
- `IndexIsCurrent`: an indexed document has the exports of its current text;
- `BuildIsOrderly`: a document outside the current build has been linked before;
  once the indexing phase is over, the tree agrees with every document of the
  build, and once linking is over, all of them are linked;
- for each document that has reached its scopes, `Agrees`: the tree holds exactly
  its exports.

The step that matters is the end of the indexing phase with documents that
were indexed by a build that was cancelled: they are still in `building`, so
the phase is announced again and the structures are rebuilt
(`BuildingAgrees`).  Every other action leaves the tree alone and either leaves
the state of a document alone or takes it down, except for `ComputeScopes`,
which `BuildIsOrderly` covers.

`InternalStaysInPackage` speaks of links, which are made from caches and from the
tree.  `VisibilityInv` adds that every node of the tree holds declarations of its
own package only (`TreeIsFiled`), that a cached scope contains only what its
document may see, and that the cached core declarations are public
(`CachesAreVisible`).  The step that matters is an update: what a document may
see depends on its package, and so the caches must be cleared and the links of
every document whose text changes dropped in the same step.

`ImplementsView` adds to these two invariants that only documents that have
reached the linking phase have links and a cached scope (`LinkInv`), that the index
knows all documents to which the references of a document lead once the document
has got through the phase in which they are indexed (`ReferencesInv`), and where
core declarations come from
(`CoreInv`: all that is filed under `TTSL.lang`, and all that the core cache
holds, is declared by a builtin document, none of which ever changes).  The
latter is needed because nothing ties the core cache to the tree of the moment
at which a document is linked: it could answer with a declaration the tree no longer holds.  Then one lemma per action
shows which step of the view it is.  For `Edit` the step that matters is that
`ShouldRelink` withdraws the links of every document that leads to one that is
touched, which it finds in the index.  That holds of the documents in `Registered`
only (`ReferencesInv`): a build that is cancelled between linking and the indexing of
references leaves links the index knows nothing of, and neither does the view promise
anything of them (`EditImplementsView`).  For `Link` it is that every layer of the
scope ends in the
tree, and that the tree agrees with every document that exists
(`LinksAreServed`, `BuildingServes`).  `LinksAreCurrent` has no proof about
builders and caches of its own: it is the theorem of the view, seen through the
mapping.

What a user sees when the builder rests is the result of builds that may have been
cancelled at different moments.  `RestInv` says what they leave:

- `ErrorInv`: a linked document has no errors before the linking phase, since
  every update relinks the documents with errors; from then on the tree is fixed,
  and a lookup without caches finds nothing for the names that were not found.  The
  step that matters is `Link`: it asks the cache of the core declarations, and
  `UncachedFindsNoMore` shows that the tree would not yield more;
- `StartInv`: once the first build is past its scopes, the builtin documents are in
  the tree for good; therefore the cache of the core declarations is complete, which
  `UncachedFindsNoMore` needs;
- `TreeIsRooted`: the tree has the nodes on the way to all that it holds, which the
  queries of the package manager need;
- `ClashInv`: a clash is on the diagnostics of one of two documents unless the other
  one is still to be validated.  It must speak of `building`, as a cancelled build
  leaves a document that was validated beside one that waits;
- `HiddenInv`: a reference that passes over a declaration of its own document leads to
  a core declaration, and the validator compares names with just these.

A rename is proved layer by layer.  `RequestInv` keeps the request true to the
document it was made in, and `IsSettled` collects what `RenameKeepsLinks`
presupposes and what holds anyway.  Then the index, the tree and the queries after
the edits return what they returned, renamed (`IndexIsRenamed`,
`TreeHoldsRenamed`, `QueriesAreRenamed`), so do the imports
(`ImportsAreRenamed`) and the five layers of a scope (`ScopesAreRenamed`), where an
import under an alias keeps its binding and any other gets the new name.  As the
new name is bound nowhere but to the target, the first layer that has it leads to
the target (`NewNameLeadsToTarget`), whichever layer had the old one.  An alias leads
there as before: the reference is in another document, and the target is of the
user, so that neither of the layers before the imports has it
(`AliasLeadsToTarget`).  A reference to anything else finds its binding in the same
layer as before, and nothing in an earlier one, since no layer has gained a name
that was in use (`NoNewNames`, `OtherTargetsRemain`).

`VersionInForce` and `TypesPredictPast` are about what was looked up or checked on
an earlier day.  `TimespansInv` adds to the types that the value is the outcome of
the lookup for the date (`LookupInv`) and that the types are right for the dates
before the check (`PredictInv`); the rest is about the operators.  `LookupIsValid`
follows the generated lookup: the keys are sorted by their mark and then by day
(`KeysAreSorted`), and when all starts are given, the last assignment of the loop is
that of the latest start that is not after the date.  `TypeIsRead` is the chain
from the dates on which a version executes to the one entry of the constant that
overlaps with it as the type checker fills in the bounds of both.  That `SortedSeq`
sorts at all is `SortExists` of `SortingProofs`: a finite set with an order without
ties is counted by the ranks of its elements.

`AcceptedCallsBind` is about a program that is generated from an accepted call.
`ErrorsInv` says that no errors were found iff the call is `Accepted`, which has one
conjunct per validator (`ErrorsCompared`), `ProgramInv` that the program has
the arguments of such a call only, each once and in the order of their parameters.  The step that matters is `RequiredAreInPlace`: required parameters come
first and each has exactly one argument, so that the sort puts the i-th argument at
the i-th parameter for all of them, and only optional ones need their names.  The
loop of the node mapper that `MappingsAgree` compares is a recursive function over
the number of arguments; `TurnKeepsFirst` is its step and `LoopKeepsFirst` the
induction.

`SuccessIsComplete` speaks of the end of a run only.  `OutputInv` adds, for a run of
`generate`, that the documents it is done with are complete (`AreComplete`), and that
the files that are pending are the rest of those of the current document, the
ones before them being on the disk (`IsRest`).  The step that matters is `Write`:
it must not take the place of a file that is already there, neither one of another
document, which the property assumes, nor one of the same document, which
`FilesHaveOwnPaths` proves: different suffixes extend a name to different names,
the entry points are listed without repetition, and one named `simulate` is left
out.

`LowestCommonSupertypeIsAbove` is about the whole of `TypeModel`, which has no
recursion; `IsBelow` states when one type admits all that another one does.

`TypesIgnoreHistory` says nothing of the types in the cache that no one has asked
for yet.  `TypesInvariant` says that each of them is the one a fresh server computes
for the program in the editor (`IsFresh`), and that the cache is closed: with a node
it has all nodes its type was computed from (`IsComplete`).  A computation that finds
some types in such a cache and computes the others yields the same type
(`CachedTypesAreFresh`) and asks for the same nodes, since whether the right operand
of `?:` is asked depends on the type of the left one (`RemembersFreshTypes`).  Both
are inductions on the number of the node.  The steps that matter are the edit, which
must forget all types, and that an expression in parentheses is computed without
the cache: what that computation asks for enters the cache although the expression
itself does not.

`ReadsAreBound` and `ReadsFollowLinks` speak of one step of the generated function and
say nothing of what is still to be executed, nor of the lines of blocks that are
entered later.  The invariant is the conjunction of three parts and of
`ReadsFollowLinks`:

- `Kept`: the blocks have the statements of the body, in another order at most after
  a slice; lines and what is left to execute consist of items (`Item`) that were
  generated for a statement of the kind their operation belongs to; a variable was
  assigned by a statement of its name;
- `ReadyInv`: code is ready (`IsReady`) if what any of its items needs is bound before
  the code is entered, or assigned earlier in it.  An item needs what it reads and
  whatever is visible from the blocks in it (`Needs`).  The lines of each block are
  ready with what is visible from the statement around it (`BoundBefore`), and what is
  left to execute with the variables that are bound.  The step that matters is
  `Generate`: a slice keeps the placeholders that the kept statements refer to, and
  they precede them (`SlicesAreClosed`, `MainItemsAreReady`);
- `ConsistentInv`: if an item assigns a variable, by itself or in the blocks in it
  (`Writers`), then before any later item that may read the name the variable is
  assigned again, or the declaration that was assigned is harmless there: it is not
  visible, or is the one the name is linked to (`IsGood`).  The same relates the
  variables that are bound to what is left to execute (`Follows`).  Python keeps
  the variables of a block after its end, so that this is what must be shown of
  every pair of items: `WritersAreGood` compares the scopes of two statements, and
  `HidingIsAssigned` covers the case where a placeholder hides one of the blocks
  around it, which is declared between the two.

An increment that continues a line assigns names that are made of a word and its
own name.  Where nothing reads them (`JoinedNamesGoUnread`) the item counts as one that
assigns nothing; what it reads are the variables of the increment of the outermost
loop that ends there, which are visible at the line (`LastLineIsInside`).

Executing an item moves the lines of a block before what is left, for a loop with
the loop itself behind them; `ReadyConcat` and `ConsistentConcat` put the parts
together.

`GroupedFunctionsAggregate` compares the code's recursion, which is handed what was
found before, with the ways through the function.  The former is told by the set of
the blocks in which it finds nothing (`AfterStatement`, `FoundInBlock`,
`HasAggregationOf`).  A block of this set has a way around its aggregations:
either all of its statements can be executed to their ends, or the first that cannot
is a `return` or contains one (`NothingIsOverlooked`).  Conversely, if loops and
timespans can be executed without an aggregation and only the last statement returns,
then such a way leads to the end of every nested block (`ReturnsFromTheFunction`), and
nothing is found in a block with such a way (`EndsAreFound`, `WaysAreFound`).  What is
shown of a block follows from what holds of the blocks in it (`FromInsideOut`).

All of these operators are recursive functions.  That each of them is defined needs
a proof of its own (`ScopesCanBeComputed`, `SlicesCanBeComputed`,
`TypesCanBeComputed` and others): an induction on the numbers of statements, blocks,
nodes or positions, by the least number for which it would not be
(`LeastExists`), as an induction theorem with an operator as parameter cannot be
cited.

Only model-checked: `ChangedIsValidated`, since liveness under fairness and `ENABLED`
are out of this prover's reach; all of `PartialEvaluator` and `CallGraph`, whose
programs have cycles, so that their operators are recursive in the nodes under way
and pass a cache along; and `ValuesFitTypes` and `HintsKeepMeaning` of
`TypeSoundness`, whose reference definition is recursive in types and values.  These
use operators declared as recursive, which the provers can neither unfold nor induct
over.  Of the expected violations only an instance is needed.

## 6. What is not modelled

`components` in `PROJECT.json` has the reason for each part.  In short: Langium
and Python only as this code uses them; source maps and the Python process of
`simulate`; fractions, strings, templates and `===` in the evaluator; parameters that are
grouped themselves, which spare a grouped function its aggregation
(`aggregation.ts:72`); an increment whose joined line is a keyword; imports between
generated modules; parentheses and the rest of the text of expressions; casts,
which cannot be generated; named tuples and type aliases, which are no types of
values; checks of names within one list; the call hierarchy, a search through
links that `Workspace` has; layout and wording of editor services; messaging,
settings and the extension, which keep no state; generated parsers, documentation
and tests.  The evaluator's stack overflow on a default value such as `f(p + 1)`,
whose substitutions never repeat, and that of the type computer on
`foreach (x in x)` are outside the instances.

## 7. Plan

All modules planned at first are written.  What would add most next:

1. The generator's imports between modules, and where it drops parentheses: both
   need expressions as trees with a text of their own.
2. Proofs: the cache of the evaluator, along the lines of `TypesInvariant`.  As its
   programs have cycles, its recursion would first have to become a function on
   pairs of a node and the set of nodes under way.
3. Proofs: that values fit types for every program, once values and types are
   numbered as nodes are.
