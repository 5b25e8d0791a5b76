# The OVAL Definition Interpreter in TLA+

OVALDI reads a document of OVAL definitions, collects data about the system it
runs on, evaluates the definitions on that data and writes a results document.
This directory holds a TLA+ model of it, from the command line through the probes
to the results document, the configurations with which TLC checks it, and
theorems that TLAPS proves for every value of the constants.

Paths of the form `Test.cpp:390` are relative to
`src/ovaldi-code-r1804-trunk/src/` (probes to `probes/*/` below it); the schemas
are in `src/ovaldi-code-r1804-trunk/xml/`, the manual is
`src/ovaldi-code-r1804-trunk/docs/README.txt`. The repository has no unit tests;
the schemas, whose annotations hold the evaluation charts of the language, and the
comments are what the code can be compared with.

`PROJECT.json` lists the components, runs, mutants, findings, hazards and
theorems, and maps every definition to the lines it translates.

To check: `tlc -config MCAnalyzer.cfg MCAnalyzer`, `tlapm DirectiveProofs.tla`.

Contents: [1 the system](#1-the-system), [2 the modules](#2-the-modules-and-the-code),
[3 the runs](#3-the-runs), [4 what is proved](#4-what-is-proved),
[5 divergences](#5-divergences), [6 not modelled](#6-what-is-not-modelled-and-why),
[7 plan](#7-plan).

## 1. The system

One process with one thread, which never waits for another one. There is no
concurrency inside of it, and nothing persists between runs. What makes the program
hard is recursion through shared caches (parsing, variables, objects, sets, tests and
definitions call each other, and every kind of element has a cache that decides
whether an element is computed again, found finished, or found half finished), and a
system outside that changes, and fails, between two calls of the many small programs
called probes.

A run is: options, definitions document (hash, parsed, version, optionally
validated), directives, then either data collection or a system characteristics
document that is given, then analysis, directives applied, results printed and
written, a stylesheet (`Main.cpp:110-615`).

### Components, their state, operations and correctness

| component | state it keeps | operations | what makes it correct | modules |
| --- | --- | --- | --- | --- |
| Main | options | ProcessCommandLine, each step, one catch clause | options mean what they say, inputs survive, exit with success means done | `Interpreter` |
| OvalEnum | none | combine results by check or operator, flags, negation | the charts of the schemas; undecided results never make a verdict that could turn | `OvalEnum`, `OvalTables` |
| Criteria tree (Criteria, Criterion, ExtendedDefinition) | children, operator, negate, result | Parse, Analyze, NotEvaluated, Write | results combine as a logic | `Criteria` (one node), `Analyzer` (the tree) |
| Analyzer, Definition | definition cache, test cache, printed lists, results document | Run, Run(ids), Analyze, NotEvaluated, Write | each definition reported once, with its meaning, and never written before it is final | `Analyzer` |
| Test, State | tested items, result | Parse, Analyze, EvaluateCheckExistence, EvaluateCheckState | the existence and check charts; a failure is no verdict; verdicts over incomplete data stand | `TestEvaluation` |
| Entities, EntityComparator | none | Analyze by datatype, operation, variable, record | comparisons are orders, prefixes are sets, charts for several values | `EntityComparator`, `Entity` |
| Data collection (AbsDataCollector, AbsObjectCollector, CollectedObject, Object) | cache of collected objects | Run per object, ProcessObject, ProcessSet | every object is written with what it means, whatever the order | `ObjectCollector`, `CollectionMeaning` |
| Sets (Set, SetObject, CollectedSet, Filter) | pending collected sets | filter, combine, settle the flag | flags promise only what is true | `SetOperators`, `CollectedSets` |
| Items (AbsProbe, Item, the item part of CollectedObject) | global set of items, id counter, items read back | Run after CollectItems, Write, GetItemById | what is read for an object is what was reported for it | `ItemCache`, `ItemStore` |
| Variables (VariableFactory, LocalVariable, components) | cache of variables | GetVariable, Parse, ComputeValue | no variable inside itself, complete ones are final | `ObjectCollector` |
| Function components | none | ComputeValue of eleven functions | flag chart, every combination of values, string boundaries | `FunctionComponents` |
| Directives | the directives, marks of elements | LoadDirectives, ApplyAll, WalkReferences, RemoveUnwanted | what is left is what is asked for and what that needs | `Directive` |
| File and registry finders | none | GetPaths, GetFilenames, SearchFiles, recursion, GetKeys | exactly the paths that are asked for, each once | `Finders` |
| Probes (77 source files) | lists read once | CollectItems, the item of one thing | what an object means is found; a failure is told and is no absence; earlier objects change nothing | `Probe`, `IndependentProbes`, `UnixProbes`, `LinuxProbes`, `MacSolarisProbes`, `WindowsTableProbes`, `WindowsRightsProbes`, `WindowsPolicyProbes`, `ProbeAlgorithms`, composed in `Probing` |
| WindowsCommon | lists of trustees | names and numbers, members of groups, access lists | nobody left out, nobody twice | `WindowsCommon` |
| ObjectReader, platform helpers, XML, Log, Digest, REGEX, Common, value restrictions, vendored code, schemas and stylesheets | see section 6 | wrappers | - | not modelled |

Interactions: main calls each step once and catches what it throws. The collector calls
ObjectFactory, which parses entities and filters, which call VariableFactory, whose
object components call the collector again; at the bottom of it a probe is run, whose
items go through the global cache of AbsProbe; probes of files and keys ask a finder.
The analyzer calls definitions, these criteria, these tests and other definitions,
tests call states, states entities, entities the comparator and, through variables
of the second phase, ObjectReader. The caches are cleared between the two phases
(`AbsDataCollector.cpp:197-209`) and after the analysis (`Analyzer.cpp:336-342`).

### What is hard to test here

* order: whether an element is met first by the loop or through others decides what
  is in which cache;
* re-entrance: a variable or an object that is needed inside its own computation;
* exceptions that leave half finished elements in a cache, or end the run;
* what a probe keeps from one object to the next while the system changes;
* a call of the operating system that fails where hundreds do not;
* hand written tables over flags, statuses and results (about 150 cells), and each
  probe's own choice by operation, variable and check;
* boundaries of integers, versions, prefixes, substrings, delimiters, depths.

The list "hazards" of `PROJECT.json` has each of them at its line, with the
properties that watch it.

## 2. The modules and the code

Common conventions. All that a phase reads and does not change (document, system,
options) is one record, `input`, `document`, `test` or `entity`, chosen in `Init`
from a constant set, with the guarantees of the schema as a named ASSUME. A C++ call
that may re-enter others is a frame on the variable `stack`; `ret` is what the last
call returned or threw. A definition named like the one that follows it with an
adjective in front (`FaultyX`, `QuietX`, `LateX` before `X`) is a slip that the
specifications do not use: it is there to show, substituted for `X`, that a property
would notice.

The core:

* `OvalEnum`: the enumerations and combination tables (`OvalEnum.cpp`). An if-chain
  over counters becomes a CASE over the set of values that occur, with the number of
  trues where the code compares it with 1 or its parity.
* `OvalTables`: the charts of the schemas, row by row. It models no code; it is
  the reference for `Criteria`, `CollectedSets`, `TestEvaluation`,
  `FunctionComponents` and `Entity`.
* `Criteria`: one node. `AnalyzeChild` pushes an answer, `SetResult` combines.
* `SetOperators`, `CollectedSets`: `ProcessSet`. The variable `sets` is the recursion
  of the code as a stack of results; each carries, beside flag and items, the ghost
  `matching`, the items on the system that really match, which the flag is about.
* `ObjectCollector`: `AbsDataCollector::Run` down to the probes. Frames `Run`, `Parse`
  and `GetVariable` with a program counter `at`; one action per return, catch clause
  and call. An object is its uses (what parsing touches), its references, its items
  and its filter; a variable is its own outcome and its components.
* `CollectionMeaning`: what an object means, from the document alone. What refers to itself
  is settled by least sets: a variable is complete when every set that has what can be
  computed from it has the variable.
* `ItemCache`: the way of an item. Collecting (`RunProbe`, `CollectSet`, then one step
  per item: `CacheItem`, `DropItem`, `FilterReference`), writing (one step per
  reference), reading back (`GetItemById` with the reader's cache). An item's content is
  a record of its attributes and nested vectors of values, since `Item::operator<`
  compares them one after the other. `ItemStore` is the abstract specification: an
  object is collected in one step and read in one step, and what is read is what its
  probe reported and its filters left, as far as it comes back (`ReadBack`: the fields of a
  record whose status is not exists are not written, `ItemEntity.cpp:185`). For an object
  without a readable flag ObjectReader raises (`ObjectReader.cpp:103`) and nothing changes.
  `Store` in `ItemCache` is the mapping.
* `Analyzer`: both loops of `Analyzer::Run`, `Definition`, the criteria below it,
  the test cache, and the order in which elements are written. A test appears
  by its outcome. `Meaning` says what a definition means, by recursion over the document
  alone, as the function from elements to results that the properties compare with.
* `TestEvaluation`: `Test::Analyze` from the flag of the collected object to the
  result, with the search for items when the document has no collected object.
* `EntityComparator`, `Entity`: pure operators per datatype, and `AbsEntity::Analyze`
  over them. The widths of integers (a long long, and an int for epochs), of addresses and of
  bytes, and the number of bytes of an address are constants, as is the platform, which
  decides how a negative number and a large epoch are converted.
* `FunctionComponents`: `ComputeValue` of the functions; concat, arithmetic and split
  step through their components or pieces, the others take one step.
* `Directive`: `LoadDirectives`, the marking with an explicit stack, the removal.
* `Interpreter`: `ProcessCommandLine` argument by argument, with the setters of
  `Common`, then one action per step of `main`, in its order. What another component
  answers (done, an exception of each severity, a silent failure) is a choice.
  Paths are sequences of names, so that one file may be named in two ways.

The probes. A thing of the system is a sequence of names, one for each entity of the
object; an item is a status and a thing. `Probe` has what they share: the check of
operation and datatype, candidates, values that are missing, the search of files.
The `CollectItems` method of each probe is one operator (`DPKGInfo(object, system)`, ...),
which keeps the branches of the code by operation, variable and nil and says what an
answer of the system ("ok", "absent", "fails") becomes. If further calls fill its item, a
second operator (`DPKGItem(os)`, ...) gives the status of the item and of its elements.
`Probing` is the state machine around them: the probe is asked for object after object
(`Collect`, `CollectListed` for those that look at a list they keep), the system changes
between two (`Change`), an item is filled (`Fill`), a finder or an algorithm is asked by
itself (`Search`, `Work`). `Finders` translates `AbsFileFinder`, both `FileFinder`s (an
operator `Unix...` and one `Win...` where they differ) and `RegistryFinder`, on file systems
with links, directories that cannot be listed and places that no handle is given for. `ProbeAlgorithms`
collects the algorithms inside of probes (members of groups, the merge of xinetd
defaults, what supersedes a patch, combinations of cmdlet values, rows of tables, access
lists, times) and says for each what it is for without its steps.

Proofs are in `*Proofs` and `SharedLemmas`, see section 4.

## 3. The runs

Fairness: `WF_vars(Next)` wherever there is a liveness property. It says that the one
thread keeps running; the code has no lock, wait or callback that could stop it.
`CHECK_DEADLOCK FALSE` in the cfgs of all other runs: each phase ends, and then the model
stops. The interpreter has the end of the process as a step (Ended), and TLC looks for
deadlocks: whatever the steps answer, the program is never stuck before its exit code.

| run (distinct states) | bounds and why they are enough | properties |
| --- | --- | --- |
| criteria (25 k) | up to 4 children, all 6 results, 4 operators. The tables distinguish no count but 0, 1, more, and parity; 4 children give every combination of three different undecided results with trues on both sides of each threshold | MatchesTables, VerdictIsStable |
| collected_sets (279 k) | up to 3 pending sets, 2 existing items and an absent one. A combination takes 2 sets, the third gives nesting on either side; with 2 items sets can be disjoint, overlapping, included | FlagsAreSound, FlagFollowsChart |
| collector (690 k) | documents with 2 objects and 2 variables in all reference patterns that lists of up to 2 give, cycles included; and a set over 2 objects, 3 operators, filters that keep, drop or fail, with a variable that may be built from the set; 2-3 orders each | TypeOK, NoVariableInsideItself, AnswersAreSettled, WritesTheMeaning, CompleteVariableIsFinal, Terminates |
| item_cache (72 k) | 2 objects with probes and a set over either, in every order; contents that differ in one place each (status, datatype, number of elements, a field of a record, also of one in error, whose fields are not written), answers of up to 4 items with repetitions; one of the probes' objects without a readable flag | TypeOK, ItemsAreOrdered, ReferencesResolve, StoresItems |
| analyzer (220 k) | 3 definitions, 4 nodes, 2 shared tests, every acyclic way to extend, 3 document orders, 6 lists | TypeOK, ReportsTheMeaning, WrittenIsFinal, Terminates |
| functions (130 k) | 1 to 3 components with all 6 flags and 0 to 2 values; texts up to 3 characters over 2 letters with every position of a delimiter of length 1 and 2; the numbers 7, -3 and 1001, whose square is just above the precision, and a text of two characters in their place; start and length -1 to 4; escape characters first, last and twice | FunctionFlagFollowsChart, ValuesAreRight, OtherValuesAreRight |
| test_evaluation (393 k) | all attributes, up to 2 states and 2 items with all statuses: 2 items are what only_one_exists and only one need | MatchesCharts, VerdictsAreFounded |
| directives (47 k) | 3 definitions in 2 orders with cycles, every pair of directives, class directives; objects and variables in cycles | TypeOK, FullIsClosed, FullIsNeeded, ReportFollowsDirectives, Terminates |
| entities (238 k) | integers from -9 to 9 with types of 3 bits, so that both types have values in and out of range; versions to 3 components, epochs with ints of 2 bits, both on either side of what the conversion keeps; the conversions of the Windows build (the theorem has both builds); package texts to 3 characters, prefixes of 3 and 2x2 bits, 2 values, 2 fields | ValuesAreOrdered, ChecksAreFollowed |
| probes (688 k) | every probe, on systems with any subset of 2 to 4 things over 2 names, where the list may fail and one name be gone or closed; objects of 1 to 3 entities with every operation, one or two values, checks that hold or not; items with up to 2 calls that do not answer (2 show that one failure does not hide another); file systems of 4 directories and 4 files with a link to a directory, to a file, or back to the root, a closed directory, a place that no handle is given for, a hidden name; a hive with a closed and a foreign key; depths -1, 0, 1; two objects after each other, as what is kept depends on the first only | FindsTheMeaning, FailureIsSeen, AbsenceIsReal, AnswersForgetTheOthers, FailureIsTold, FindersAreExact, AlgorithmsAreExact |
| found_paths | the finder alone, on the same file systems | FoundPathsAreUnique, which is violated |
| interpreter (382 k) | every command line of up to 3 of 32 units, two disks, every answer of each step. Three units are two that conflict and one that matters in between; the hash may come with -m | CommandLineMeans, InputsSurvive, ExitMeansDone; no deadlock before the end |

What the properties say is stated above each of them. Several are a conjunction of
named parts that can be read on their own:

* AnswersAreSettled: ReturnedIsRecorded, LookedForMeansResolved;
* ReportsTheMeaning: CachedIsReportedOnce, MeaningIsReported;
* ValuesAreRight: EveryCombination, TextsAreRight (SplitIsReversible, PiecesAreClean,
  AffixIsAdded, SubstringIsTheSlice);
* OtherValuesAreRight: EscapedIsLiteral, CountsAndCaptures;
* MatchesCharts: CompleteMatchesCharts, AbsentMatchesChart;
* VerdictsAreFounded: FailureIsNotAVerdict, IncompleteVerdictStands;
* ValuesAreOrdered: IntegersAreOrdered, VersionsAreOrdered, PackagesAreOrdered,
  PrefixesAreSets;
* ChecksAreFollowed: VariableFollowsCheck, RecordNeedsEveryField.

The ones to know:

* **VerdictIsStable**: whatever an undecided child would have been, a true or false of
  its parent would have been the same.
* **FlagsAreSound**: whatever tree of sets and filters is evaluated, complete means
  exactly the matching items, incomplete no wrong item, does not exist none.
* **WritesTheMeaning**, **ReportsTheMeaning**: caches, re-entrance and order leave no
  trace in what is written. The meaning is defined from the document alone; that of an object
  is one of several for variables that fail through another variable, where the order does
  leave a trace (see the divergences).
* **StoresItems**: the refinement of ItemStore. Sharing equal items, numbering,
  writing once and reading through another cache neither lose nor invent an item.
* **IncompleteVerdictStands**: a verdict over a partly collected object is that of every
  completion, for the checks all and none satisfy.
* **FullIsClosed**, **FullIsNeeded**: walks that cut each other short over shared and
  cyclic references mark exactly what is needed.
* **FindsTheMeaning**, **FailureIsSeen**, **AbsenceIsReal**, **FailureIsTold**: looking
  values up and going through lists, in as many hand written ways as there are probes, come to evaluating
  the object on each thing there is; what cannot be read is an error, which is neither
  silence nor an absence. An absence needs a reason in the object: a value that the entity
  looks up by its name and that nothing has there, below what the item names, or a name
  that was gone when it was read. That some other value of a pattern is missing is none.
* **AnswersForgetTheOthers**: the answer to an object does not depend on the objects
  before it.
* **InputsSurvive**, **ExitMeansDone**: whatever is given on the command line.

The properties of the probes are claimed with exceptions: `Unchecked`, `MayInvent`,
`MayMiss`, `OnlyLogged`, `LooksAbsent`, `KeepsTheFailure`, `PassedOver` and `LeftOut` in
`Probing` name the probes, or the calls, that do not keep the promise, each with its line.
Everything that is not named there is claimed. Section 5 lists them in words. Four others
have one exception each, where the code departs from a schema or a comment:

* AffixIsAdded: begin and end look for their text in longer values only, so a value that
  is the text gets it twice (`BeginFunction.cpp:71`, `EndFunction.cpp:71`;
  oval-definitions-schema.xsd:707 and 760 have it added only where it is not there yet).
* EveryCombination: intermediate results of arithmetic go through a text of six digits
  (`ArithmeticFunction.cpp:165`; oval-definitions-schema.xsd:686): 1001 * 1001 is 1.
* CompleteMatchesCharts: an item with the status "does not exist" fails the states
  (`State.cpp:71`) and takes part in the check (`Test.cpp:819`), where
  oval-common-schema.xsd:155 leaves such items out. AbsentDecides says when this matters.
* VersionsAreOrdered: a component beyond a long long is not converted, and the failure is
  ignored (`EntityComparator.cpp:962`; the comment at 961 says that it always succeeds), so
  two versions with different ones may be equal. It is claimed of components that fit
  (ComponentsFit).

Of packages nothing is claimed for texts that end with a separator and for epochs that are
no ints (EpochFits).

### The finding shown by a run

* found_paths: `GetPaths` sorts the paths and calls `unique`, whose result it drops
  (`AbsFileFinder.cpp:157`; the comment at 155 is about the removal of duplicates). A
  path that a variable names twice, or that recursion meets again, is searched twice.

## 4. What is proved

Proved by TLAPS for all values of the constants, under the ASSUMEs of the modules, each of
which TLC evaluates in a run. Eight modules hold the proofs.

### The walk over the definitions: `AnalysisProofs`

* **StableVerdicts** (VerdictIsStable) for any number of children. While something is
  undecided, a verdict rests on a value that occurs or on a count of trues above a threshold
  (UndecidedCheck, UndecidedOperator); to decide a result leaves the other values in place
  and takes no true away (DecidingFacts), so the same verdict is reached again.
* **TablesAreMatched** (MatchesTables): the if-chains of `OvalEnum.cpp` are the charts of the
  schema for vectors of any length. By `SharedLemmas` a chart is selected by which values
  occur and by how often true does, which is what the code counts.
* **AnalyzerIsTyped** (TypeOK), **EveryDefinitionOnce** (CachedIsReportedOnce),
  **MeaningsAreReported** (ReportsTheMeaning), **WrittenStaysFinal** (WrittenIsFinal), for
  every document, order and list of ids. Assumed: the document is finite
  (DocumentsAreFinite), has no definition that extends itself, and its definitions element
  lists the definitions (InputsAssumption); names of different kinds differ (DistinctNames).

None of the four is inductive. The argument, from the inside out:

1. *The meaning exists.* What an element refers to is parsed with it, and with fewer
   elements (BelowFacts); so a set of elements has one that refers to no other of them
   (LowestElement, by the least number of elements below). Hence two solutions of the
   equations of `Meaning` agree (SolutionsAgree), the solutions on parts of the document fit
   together to one on all of it (MeaningExists), and `Meaning` obeys its own equations and
   gives results (MeaningFacts). Nothing is known of a recursive function until this is
   shown.
2. *The stack.* `Evaluation`: the call of Write waits at the bottom; each call above waits
   for the next one, has the answers of the first children of its criteria, and is for
   something below the calls under it; no definition at work has a result. This is where the
   absence of cycles is used. `Writing`: each call is for something all of whose results are
   there.
3. *Settled.* An element with a result has nothing below it left to be evaluated
   (AnalyzedIsSettled). It makes the cache harmless: a definition that is found analyzed can
   be written with all below it.
4. *What is not written waits.* The definitions below one that is written are written, or
   some call of Write below it has still to come to them (RecordsGoOn); so are the cached
   ones (CachedGoOn). A step may only take away what it writes or hands on (LosesNothing).
   With the empty stack both say that what is cached is written.
5. *The two loops.* While definitions are analyzed, every result is a meaning (`Analyzing`).
   Once the first is marked, only those that are to be analyzed have theirs (`Marking`): they
   all had their turn, as the listed ones come first (TasksAreSorted), and what has a result
   keeps it. Every definition is cached or has its turn to come (TasksGoOn).

`AnalysisInv` is the conjunction; one lemma per action shows that it is kept.

### Objects and variables: `ObjectCollectorProofs`

* **TypeCorrect**, **VariablesAreNotReentered** (NoVariableInsideItself),
  **CompleteVariablesStay** (CompleteVariableIsFinal). What is thrown names a variable in the
  cache (ThrownIsCached), and a variable that is being computed is in the cache with the flag
  of an unfinished one (UnfinishedIsError): GetVariable enters the cache before parsing, so a
  second call finds the entry and returns without computing.
* **WhatIsAnsweredIsSettled** (AnswersAreSettled): what is returned is what is recorded, and
  an object that is looked for has the variables it uses. Documents may have cycles here, so
  there is no order to argue along. The invariant (SettledInv) has: the stack is a chain of
  calls that wait for each other (Shape); an object is *settled* when it is in every set that
  is closed under parsing with the variables that are complete, which holds of the object of
  each call that has parsed it (Known); and when a call comes back to an object that is being
  parsed or processed, the inner one is behind the outer one (Behind) and what is thrown to
  it is an error (ThrownAgain), so that what was recorded inside is the error that the outer
  call is bound to record (Recorded).
* **EveryObjectStands** (EveryObjectIsWritten, the first half of WritesTheMeaning): the call
  at the bottom of the stack is for the object whose turn it is (Bottom), a step of a call
  leaves the loop alone and forgets no object (CallsLeaveTheLoop), and when the bottom call
  returns its object is collected (ReturnedIsCollected); so every object before the present
  one is there (TurnsTaken), however a call ended.

* **WhatIsWrittenIsMeant** (WritesTheMeaning), for every document, cycles included. The
  meaning is defined of what is written, but it has to be kept while objects are still being
  collected, with some variables complete, some at work and some failed. MeaningInv says what
  of it is already so:
  * what is collected is its meaning (ObjectsAreMeant), either the one of its probe or set,
    when all it uses is there, or the flag of what stopped it;
  * the variables with the flag complete are among the complete ones of the meaning
    (CompleteIsMeant), the flag of one that failed is that of its components or of what
    stopped it (VariablesAreMeant), and an undefined one never enters the cache
    (UndefinedIsUncached);
  * a call that waits has got the parts and flags of what it has come to so far (GotIsMeant),
    of what it asked for (GetsWhatItAskedFor);
  * what is thrown to a call says that what it waits for will never be there, and why
    (ThrownIsMeant).

  That something will never be there is a statement about the variables that can still become
  complete: all but the *broken* ones (Broken), which have no element, have failed, or are
  bound to fail because what is thrown, or an object without items, is on its way to their
  computation. So a failed use is one that is not there even with all unbroken variables, and
  its flag is that of a broken variable it goes back to (FailsAs). Both are kept by every
  step, as a broken variable stays broken with its flag and a complete one complete
  (Advances); SettledInv is needed for the calls of one variable or object inside another of
  the same. When no call is active, the sets enclose the meaning: the complete variables are
  among those of the meaning, and none of those is broken (BrokenIsNotComputed), so what is
  there, what is not, and what stopped it are as in the meaning (CollectedIsMeant).

### Sets and functions: `SetAndFunctionProofs`

* **SetFlagsAreSound** (FlagsAreSound): TypeOK and FlagsAreSound are inductive together, as
  each step builds one set from sound ones. The argument is in CombiningIsSound, cell by cell
  of the tables, for arbitrary sets of items and trees of any depth.
* **FlagsFollowTheCharts** (FlagFollowsChart): whenever two sets are combined, the flag is the
  one of the chart, but for the five cells that are named as departures.
* **FunctionFlagsFollow** (FunctionFlagFollowsChart), for any number of components: FlagInv
  says that what is combined so far has the flag of the components it was combined from, the
  last ones for concat and the first ones for arithmetic (TakenOf). It is kept because flags
  can be combined two at a time (FlagsAssociate), and that the combined flag is the one of the
  chart is shown once for vectors of any length (FlagsMatchChart).
* **FunctionValuesAreRight** (ValuesAreRight), for any number of components and of values, any
  numbers, texts, delimiters, starts and lengths: of begin and end that a value is left alone
  exactly if it has the text and is not the text itself, of arithmetic as long as no result
  has more digits than are written. Four invariants are kept together.
  FlagInv is the one above. TextsInv keeps that no piece split has made so far has a delimiter
  in it: an occurrence in the piece would be one in the value before the first one
  (PieceIsClean, by OccursMeans, which says character by character what occurring is).
  SplitInv keeps that the pieces made so far, with the rest of the value that is being split,
  are the values so far when they are joined again (SplitSoFar). CombiningInv keeps what the
  values combined so far stand for: concat goes from the last component to the first and has,
  for every selection, the end of its text at the place of the selection among the last
  components (ConcatSoFar); arithmetic goes from the first to the last and has the sum or
  product of the first numbers (ArithmeticSoFar), as long as
  it is below the precision: magnitudes only grow on the way, but for a zero, with which
  a product is zero however its factors were rounded. Neither is implied by
  EveryCombination, which speaks of the end only. The recursive functions that the property is
  stated with are unfolded with StepByStep (a table of steps has a function that follows it),
  and induction is induction on sets of numbers (SetInduction), which needs no operator as
  a parameter.

### Tests and the entities of states: `TestEvaluationProofs`

* **TestsFollowTheCharts** (MatchesCharts), **VerdictsStand** (VerdictsAreFounded), for objects
  with any number of items, any states and any answers. The check chart is that of the schema,
  over the items it is about; what an item that does not exist does to it is the exception
  AbsentDecides, and the theorem says that it does no more than that: with check all the
  test fails, and with the other checks it has a say only where no other item has. ResultInv says, for each flag, where
  the result comes from (OfComplete, OfIncomplete, OfAbsent, OfUnusable), that the tested items
  have been evaluated one by one by all states (ItemsAreEvaluated), and that states are asked
  only when existence does not decide (StateIsAsked). IncompleteVerdictStands compares with an
  evaluation that never takes place, with one more item: false over an incomplete object has a
  tested item as its reason, which is still there among more.
* **EntitiesFollowTheChecks** (ChecksAreFollowed), for variables with any number of values,
  records with any number of fields and numbers of any width. Every comparison gives true,
  false, an error or an exception (CompareReturns), so that a list of comparisons combines to
  what the chart says (VariableByChart, by CheckMatchesChart of SharedLemmas), and what a field
  gives is never dropped as not applicable (FieldResultsAreBasic): true then means what the
  entity_check asks for (TrueMeans, MatchingField).
* **EntityValuesAreOrdered** (ValuesAreOrdered), for numbers and addresses of any width,
  versions of any number of components and packages with texts of any length. A comparison is
  made once, in the last step, so the invariant is only that values are of the requests
  (AnalyzedValues) and all the work is in the four orders:
  * *Integers*: what fits a type is the remainder it is taken to, so that the three ways of
    comparing two integers agree (IntegersFollow).
  * *Versions*, whose components are long longs (what fits is not changed by the conversion,
    ComponentsFit): the numeral of a sequence of digits to a base above them is at least the
    product of its first digit and a power (Numerals are unfolded by StepByStep), so the first
    digit in which two sequences differ decides the order of the numbers (NumeralOrder);
    padding with zeros multiplies a numeral by a power (VersionsFollow).
  * *Packages*: PackagesAreOrdered is about the segments of a text as a set of positions,
    rpmvercmp goes over the characters. Epochs are ints (EpochFits), which atoi leaves as
    they are on every platform. A walk over pairs of positions that goes down a
    measure has a function that follows it (StepByStepDown), which unfolds the local recursion
    of rpmvercmp (CompareFromIs). The k-th segment begins at the k-th position in the order of
    positions (ranks), and the walk is at the k-th segments of both texts after k - 1 rounds
    (PairStep), so it tells whether the lists from the k-th segment on are in order
    (OlderFrom, WalkTells). Two numbers are first compared by their lengths without leading
    zeros and then digit by digit, which is the order of the numbers (NumberOrder).
  * *Prefixes*: the addresses of a prefix are the numbers from its high bits to the next ones
    (BlockIs), of which two are nested or apart (BlocksNest, BlocksEqual). A mask of one bits
    has as many as its first one says (MaskSizeIs). An address of bytes is the numeral of
    its bytes, and to mask each byte gives the high bits of the numeral (MaskedNumber), so
    the comparison byte by byte is the one of the numbers (Ipv6Follows).

  Assumed: the values of an entity without variable have the form their text parses to
  (ValuesAssumption in `Entity`), and widths are positive.

### Items and what probes keep: `ItemCacheProofs`

* **TypeCorrect**, **ReferencesAlwaysResolve** (ReferencesResolve), **ImplementsStore**
  (StoresItems, the whole refinement: initial states map to initial states, every step to a
  step of ItemStore or a stutter). The invariant carries the meaning of an object along the
  way: CollectedMeaning (the items in the cache and those still to come make the meaning),
  WrittenMeaning, ReadMeaning, with CacheIsNumbering (the cache is one-to-one between ids and
  contents), HandedOn (nothing is referred to that is not in it) and BetweenObjects (nothing
  half done is left behind).
* **ItemsStayOrdered** (ItemsAreOrdered): the comparison by which a `std::set` shares equal
  items is a strict order and total (OrderIsTotal), for elements and values of any number; the
  other three rest on it. A loop that compares two vectors of one length keeps what the order
  of their parts is (the first place where they differ, LeastNumber), and what is compared
  before the loop makes sure that the lengths agree.
* **KeptListsAreCurrent** (AnswersForgetTheOthers), for every probe of `Probing`, any objects
  and any sequence of systems. It speaks of an answer given on the system that was listed;
  the invariant (KeptInv) says where the list comes from: names that are kept are the names of
  that system (NamesAreKept), a list that is looked at is what was there then, unless the probe
  is one of those that keep a failure (ListIsKept), and an answer is one that a probe which
  keeps nothing may give (AnswerIsFresh). That one needs that no other probe looks at what is
  kept (OutcomesOfOthers) and that the names which are kept are those which would be listed
  (OutcomesOfNames). The exceptions are those of the property.
* **FailuresAreTold** (FailureIsTold), for every probe that fills its items from calls of
  their own and whatever the calls answer. A lemma per item (FileItemTells,
  UnameItemTells, ...) takes a record of answers in which one call fails and the others are
  well (OnlyFails) and follows the code after each call: the item throws, is an error, or has
  an element that is one. The invariant (FilledInv) says that an item which is there was
  filled from answers its probe may get, and OneFailure that the item sees each of them as it
  was given. Assumed (AnswersAssumption): answers are answers to the calls of the probe, all
  of them, and say what else decides which calls are made. The exceptions are the failures
  named in PassedOver and LeftOut with their lines.

* **AbsencesAreAbsent** (AbsenceIsReal), for every probe of `Probing`, any names, objects and
  systems, whatever was listed before. The invariant (AnsweredInv) keeps where an answer comes
  from: a probe that looks at its list has answered from a list of what was there on some
  system (ListedOf, since the system may have changed after the listing), any other has one of
  the outcomes of its CollectItems on the present system. AbsenceIsReal says nothing of how an
  answer came about and so is not inductive by itself. That every outcome is real
  (AbsencesOfOutcomes) is shown family by family (AbsencesOnUnix, AbsencesOfRights, ...), and
  these from a few ways of asking that most probes share:
  * a name that is read has an absence only if it was gone, and it was one of those the
    object asked for (ReadingByName, NamesRead, AbsencesOfEach);
  * a value that is looked up in a list and not found is not there in the first place, or not
    below the names that were found before it (AbsentFirst, AbsentBelow);
  * the finder reports as missing only what was looked up by name (ReportedAbsences), and
    reading a file that was found is no absence but for digests (NoOtherAbsence,
    AbsencesOfDigests);
  * a process is looked up by a walk that ends at the first hit, so no hit means that the
    whole table was walked (WalkVisits, HitsOfWalk; this is where things are finite);
  * a trustee that is reported is no account (AbsentTrustees); it stands in no list, as
    the accounts in a list can be looked up (KnownTrustees).

  Assumed: an object has as many entities as its probe asks for, nil only where its schema
  admits it, and a value or a variable (ObjectsAssumption); a system is a finite set of
  things with the names its probe knows them by (SystemsAssumption); the probes are those
  of `Probing` (ProbesAssumption). The exceptions are those of the property.

### Directives: `DirectiveProofs`

* **TypeCorrect**, **MarkedIsClosed** (FullIsClosed), **MarkedIsNeeded** (FullIsNeeded),
  **ContentIsKept** (a mark is never taken back). FullIsClosed speaks of the moments between
  walks only; PendingOK generalises it: what a full element refers to is full or left to a
  call on the stack, and FramesOK says that a call is for a full element. Nothing is assumed
  about cycles.
* **ReportIsAsDirected** (ReportFollowsDirectives): once every definition had its turn
  (TurnsTaken), what is full is exactly what is needed (FullIsAllNeeded), and the removal
  keeps that and what the directives report.

### The command line and main: `InterpreterProofs`

* **InputsAlwaysSurvive** (InputsSurvive), an action property, for every command line and disk.
  SurvivalInv says that, once the check of the arguments has let a run pass, no file that is
  given to read is one of the files that are written (KeptApart, by the full paths), that
  the directory of the run is no such file, and that data which is read is not written.
  Assumed: a command line is a sequence of words and options, and the path of no name at all
  is a directory.
* **SuccessMeansDone** (ExitMeansDone): what was done is, at each step of main, the list of
  what was asked for up to there (DoneAsAsked), a step is only reached if it was asked for
  (PhaseWasAsked), and the results are on the disk from the step on that writes them
  (ResultsAreThere).
* **CommandLineIsMeant** (CommandLineMeans), for command lines of every length. While
  arguments are taken, what is left is the end of the line (LeftIsEnd) and every member of
  Common is what the part that has been taken means (OptionIs): the last use of a letter
  counts (MeantGrows, NamedGrows, SwitchGrows say what one more option changes), and a
  lemma per kind of option shows that its setter does just that.

### Shared: `SharedLemmas`

Popping, replacing and pushing on a sequence; the charts of results as conditions on which
values occur and on the number of trues, for vectors of any length.

### Only model-checked

* Liveness (Terminates): temporal proofs with ENABLED are out of the prover's
  reach.
* What each probe, finder and algorithm finds and says (run probes: FindsTheMeaning,
  FailureIsSeen, FindersAreExact, AlgorithmsAreExact). Every
  probe keeps these in its own way, so that there is no argument for all of them but a
  separate one for each of some seventy operators; those of the finders and the algorithms
  are inductions over paths, rows and files. FindersAreExact is bounded in itself: its
  condition on links counts to MaxBelow.

## 5. Divergences

Where the code does something else than a document, a comment or good sense says. The
models do what the code does; a property that would be false is claimed with the exception
named in it.

### Evaluation and collection

* An incomplete object makes a complete variable: `ObjectComponent.cpp:99` overwrites the
  flag of the object by the status of each field (oval-definitions-schema.xsd:729-737 makes
  the variable incomplete).
* A definition that is not listed has a real result when it shares tests with one that is
  (`Test.cpp:665` against docs/README.txt:368).
* Items with the status "does not exist" are counted as not satisfying a state
  (`State.cpp:71` against oval-common-schema.xsd:155, AbsentDecides).
* States refer to variables, and so to objects, but are not walked (`Directive.cpp:443`;
  the comment at 441 says that they have no references): the objects behind them are removed
  from the results.
* Five cells of the flag charts of set operators (`AbsObjectCollector.cpp:387-501`);
  FlagFollowsChart names them.
* A listed id without a definition gets no result (`Analyzer.cpp:285`, README.txt:367).
* check_existence any_exist without a state is true when collection failed
  (`Test.cpp:513-543`); the two schemas disagree about it.
* Without any candidate the unknown of `Test.cpp:424` is overwritten 35 lines later.
* For the checks at least one and only one, false stands over an incomplete object
  although an item that was not collected could have satisfied (`Test.cpp:598`).
* A variable that fails through a component has the component's flag for its first user
  and error for all others (`VariableFactory.cpp:92`).
* begin and end add a text to a value that equals it (`BeginFunction.cpp:71`,
  AffixIsAdded), and with escape_regex and substring lose the values of an incomplete component (`:63`).
* time_difference reads the first value before the flags (`TimeDifferenceFunction.cpp:79`).
* arithmetic writes six significant digits (`ArithmeticFunction.cpp:165`,
  EveryCombination).
* split with an empty delimiter does not end (`SplitFunction.cpp:80`); nor do a set, or a
  definition, that refers to itself (`Set.cpp:231`, `ExtendedDefinition.cpp:136`). The
  schemas admit all three.
* Outside Windows, -1 is compared as 2^64 - 1 with numbers beyond the signed range
  (`Common.h:246`); rpmvercmp is not antisymmetric with a separator at the end.
* A component of a version beyond a long long is not converted, which nobody checks
  (`EntityComparator.cpp:962`, ComponentsFit). The model has what a C++11 library
  does, which stores the largest long long (the project is built with the toolset v141);
  an older one leaves the number unset. Epochs go through atoi into an int
  (`EntityComparator.cpp:389`): beyond it Windows has the largest int and glibc the low bits
  of a long; both are modelled, and neither is the order of the epochs.
* No branch for ipv6_address where an entity has a variable or is a record field.
* Directives: the var_ref of a variable_component is not followed (`Directive.cpp:382`); the
  default directives skip the removal of objects nobody refers to (`:189`, whose comment
  says otherwise); a needed definition is reported in full whatever its directive says,
  against the schematron rules; a thin definition without criteria hands NULL to
  removeChild (`:268`); a result without an entry in a directives file is NULL (`:51`).
* A reference to a missing definition (`Definition.cpp:82`) or a candidate that cannot be
  compared (`Test.cpp:450`) ends the run without results.

### The command line and main

* An unknown option prints the usage and exits with success (`Main.cpp:929-932`).
* `-i` followed by `-d` reads the file that -d names; `-c` followed by the hash takes it
  as a path; `-z` still needs -m or a hash.
* The stylesheets of -j and -k are compared with the outputs as written, not by their full
  paths (1002, 1006; the comment at 982 speaks of full paths), so a relative one can be
  overwritten. Outputs are not compared with each other.
* A transformation that fails silently counts as a successful validation, or as a stylesheet
  that was applied (1085-1118).
* An exception of a lower severity (a pattern that does not compile, an access that Windows
  denies) that reaches the handler ends the run without results and with success (584).

### Finders

* Unix asks lstat whether a path exists, so a link to a directory is none unless it is met
  on the way down (`unix/FileFinder.cpp:352`, 437). Windows asks for a handle
  (`windows/FileFinder.cpp:463`): links are followed at the start and passed over below, a
  file is an existing path, whose walk or recursion then throws (309, 641; the code that is
  an error and not an absence there is ERROR_DIRECTORY), and a directory that is asked for
  as a file throws, as it cannot be opened without its flag (568, 702).
* Hidden means a leading dot on Windows: names that begin with a dot are skipped
  (windows/FileFinder.cpp:321, 411, 649).
* Recursion up ends above the path at the top (`AbsFileFinder.cpp:222`): on unix at the
  empty text, for which BuildFilePath throws (`Common.cpp:560`) and opendir fails, on
  Windows at the drive without separator, "C:", below which the files of the root are
  found under a second path. In the
  registry it ends with the name of the hive as a key (`RegistryFinder.cpp:813`).
* A registry key that equals a value of a variable is taken without its check; keys with
  names beyond ASCII are skipped, with all below (`RegistryFinder.cpp:732`).
* The tail that `unique` leaves holds copies with the C++ of the time of the code and
  moved-from texts with a later one; the model has the copies.
* The constant part of a pattern (REGEX) is wrong for an alternation at the top, a
  quantifier after a delimiter, and braces. Not modelled: the constant part is an input.

### Probes: something is found that is not meant, or not found though meant

* A value of an equals makes an item without a look at the check of the variable
  (`Unchecked` in Probing: password, shadow, group, WMI and others).
* A variable without equals asks for the list and drops it (DPKGInfoProbe.cpp:183,
  InetListeningServersProbe.cpp:335); that the list of packages cannot be read
  is an error nevertheless.
* One process stands for all with its command line (ProcessProbe.cpp:762), the processes of
  one value are found again under the next (Process58Probe.cpp:257, 1122), the last value
  replaces the others (Patch54Probe.cpp:120).
* A boolean of SELinux that does not exist is not asked for (SelinuxBooleanProbe.cpp:136).
* An account of a variable must stand in the list of all (AccessTokenProbe.cpp:132,
  SidSidProbe.cpp:186); a group none of whose members is included "does not exist" (455).
* Names of Active Directory are kept from the first context for all others
  (ActiveDirectoryProbe.cpp:636, 672).
* A socket of packets is matched by its inode without the device
  (IfListenersProbe.cpp:342); service rights report an absence by a loop over an empty
  set (ServiceEffectiveRightsProbe.cpp:170).

### Probes: failures

* A list is kept before it is complete, so that after an exception every later object is
  answered from a part of it (InetListeningServersProbe.cpp:134, NvramProbe.cpp:129, windows
  ProcessProbe.cpp:161, Process58Probe.cpp:125); the lists of trustees are kept where
  one of them throws (WindowsCommon.cpp:755, 813, 838, 963, 1075).
* Failures that are logged only, or nowhere: LDAPProbe.cpp:420, MetabaseProbe.cpp:220,
  TextFileContentProbe.cpp:187, the access lists, SelinuxBooleanProbe.cpp:165,
  CommandReader.cpp:14.
* Things that are there, or could not be searched, are said not to exist:
  LDAPProbe.cpp:531, MetabaseProbe.cpp:235, Process58Probe.cpp:198; a first fetch of WMI
  that fails without a row (WMIProbe.cpp:253).
* A boolean that cannot be read (-1) is true (SelinuxBooleanProbe.cpp:178), an account whose
  rights cannot be listed has none (AccessTokenProbe.cpp:228), defaults of the password
  policy are reported as existing (PasswordPolicyProbe.cpp:135).
* Rows after a Next that fails are lost (WMIProbe.cpp:387, WMI57Probe.cpp:415).
* The calls of `PassedOver` and `LeftOut` fail without a trace in the item.
* FileEffectiveRights53Probe.cpp:265 reads a filename that is NULL for an object with
  a filepath: undefined behaviour, and outside of the model, where such objects have a
  path and a filename.

### Probes: algorithms

* Variables declared outside of a loop keep the value of the row before: the version in evr
  (RPMInfoProbe.cpp:297), the permissions of a share (SharedResourceProbe.cpp:189, 207-237),
  the foreign address of a port (PortProbe.cpp:326).
* Parameters of xinetd that the defaults do not name stay several definitions
  (XinetdProbe.cpp:386), although XinetdProbe.h:146 assumes "one XinetdParam object per
  param".
* The permissions of a second audit entry replace those of the first
  (WindowsCommon.cpp:2255, 2259); the expansion of a group that contains itself does
  not end (626, 719).
* A process that started on this day of another year is shown with the time of day
  (ProcessProbe.cpp:978).

## 6. What is not modelled, and why

Platform helpers are calls into operating systems, and so is what the probes finally ask:
the models have the answers as inputs. The texts of elements that copy a field of a
structure are left out. XML reading and writing is Xerces and Xalan; documents are
records. Regular expressions are sets of texts, in finders with their constant part given.
Messages, logging and the variable values attached to collected objects are left
out. Values of variables do not occur in ObjectCollector: only flags decide what is
collected, and FunctionComponents has the values. ObjectReader evaluates the same variables
over given objects; its item reading is in ItemCache, its recursion is that of
ObjectCollector without the probes. The restrictions of external variables are comparisons
of EntityComparator whose result is an outcome `own` in ObjectCollector.

The items of one probe run are not linked to the state of ObjectCollector: there an item is
an id, and ItemStore is what allows that. In the same way an answer of a probe is a choice
in ObjectCollector, and a step of main a choice in Interpreter.

## 7. Plan

Done: the core, the items with their refinement, the probes and finders, main; proofs of
the safety properties of ten components, and of what the probes keep. What is left, in this order:

1. An abstract collection, in which each object gets its meaning in one step, and
   ObjectCollector as its refinement, by the invariant of WhatIsWrittenIsMeant.
2. `ObjectReader` and the variables of the analysis phase, composed with TestEvaluation:
   same values in both phases.
