------------------------- MODULE InterpreterProofs -------------------------
(***************************************************************************)
(* For every command line and every disk, a run keeps what it was given: no *)
(* file that it reads is written before the run ends; a run that ends with  *)
(* success has done what it was asked for; and what it is asked for is what *)
(* the command line says.                                                   *)
(***************************************************************************)
EXTENDS Interpreter, TLAPS

\* The state after a step, for one path.
Then(path) == IF Full(path) \in DOMAIN files' THEN files'[Full(path)] ELSE "none"

\* The files a run writes.
Targets ==
  {option.outputFilename, option.xslOutputFile, LogFile} \cup
  (IF option.useProvidedData THEN {} ELSE {option.dataFile})

-----------------------------------------------------------------------------
\* What the steps write.

LEMMA SayFacts ==
  ASSUME Say
  PROVE  \A f : IF Full(f) = Full(LogFile) THEN Then(f) = "log"
                ELSE Then(f) = Holds(f)
BY DEF Say, Logged, Written, Then, Holds

LEMMA LoggedFacts ==
  ASSUME NEW path, NEW content, files' = Logged(path, content)
  PROVE  \A f : CASE Full(f) = Full(path) /\ Full(f) # Full(LogFile) -> Then(f) = content
                  [] Full(f) = Full(LogFile) -> Then(f) \in {"log", content, "none"}
                  [] OTHER -> Then(f) = Holds(f)
BY DEF Logged, Written, Then, Holds

-----------------------------------------------------------------------------
\* Inputs survive.  What is given and what is written have been kept apart since
\* the arguments were accepted; the directory of the run is not taken for a file.
KeptApart ==
  phase \notin {"arguments", "ended"} =>
    \A f \in GivenToRead : \A g \in Targets :
      Holds(f) = "given" => Full(f) # Full(g)

DirectoryIsNotGiven == Holds(<<>>) # "given"

ProvidedIsRead ==
  phase \in {"collection", "save data", "check data"} => ~ option.useProvidedData

SurvivalInv == KeptApart /\ DirectoryIsNotGiven /\ ProvidedIsRead

\* Every step writes targets only, and nothing that passes for given.
LEMMA MainWritesTargets ==
  ASSUME Main, ProvidedIsRead
  PROVE  /\ option' = option
         /\ phase \notin {"arguments", "ended"}
         /\ \A f : \/ Then(f) = Holds(f)
                   \/ /\ Then(f) # "given"
                      /\ \E g \in Targets : Full(f) = Full(g)
<1>1. option' = option /\ phase \notin {"arguments", "ended"}
  BY DEF Main, At, InitLog, PrintDigest, Prepare, VerifyHash, ParseDefinitions,
         CheckVersion, LoadDirectives, ValidateDefinitions, Collect, SaveData,
         CheckData, ParseData, Analyze, SaveResults, CheckResults,
         ApplyStylesheet, Footer
<1>2. LogFile \in Targets
  BY DEF Targets
<1>3. CASE Say
  BY <1>1, <1>2, <1>3, SayFacts
<1>4. CASE UNCHANGED files
  BY <1>1, <1>4 DEF Then, Holds
<1>5. CASE files' = Written(LogFile, "log")
  BY <1>1, <1>2, <1>5 DEF Written, Then, Holds
<1>6. ASSUME NEW path \in Targets, NEW content \in {"data", "results", "html"},
             files' = Logged(path, content)
      PROVE  \A f : \/ Then(f) = Holds(f)
                    \/ /\ Then(f) # "given"
                       /\ \E g \in Targets : Full(f) = Full(g)
  BY <1>2, <1>6, LoggedFacts
<1>7. \/ Say \/ UNCHANGED files \/ files' = Written(LogFile, "log")
      \/ \E path \in Targets, content \in {"data", "results", "html"} :
           files' = Logged(path, content)
  <2>1. option.outputFilename \in Targets /\ option.xslOutputFile \in Targets
    BY DEF Targets
  <2>2. CASE SaveData
    <3>1. option.dataFile \in Targets
      BY <2>2 DEF SaveData, At, ProvidedIsRead, Targets
    <3> QED
      BY <2>2, <3>1 DEF SaveData
  <2>3. CASE SaveResults
    BY <2>1, <2>3 DEF SaveResults
  <2>4. CASE ApplyStylesheet
    BY <2>1, <2>4 DEF ApplyStylesheet
  <2>5. CASE InitLog
    BY <2>5 DEF InitLog
  <2>6. CASE LoadDirectives
    BY <2>6 DEF LoadDirectives
  <2> QED
    BY <2>2, <2>3, <2>4, <2>5, <2>6
    DEF Main, PrintDigest, Prepare, VerifyHash, ParseDefinitions, CheckVersion,
        ValidateDefinitions, Collect, CheckData, ParseData, Analyze, CheckResults,
        Footer
<1> QED
  BY <1>1, <1>3, <1>4, <1>5, <1>6, <1>7

\* The check before the run does what it is for.
LEMMA CheckKeepsApart ==
  ASSUME CheckArguments, DirectoryIsNotGiven PROVE KeptApart'
<1> SUFFICES ASSUME phase' \notin {"arguments", "ended"},
                    NEW f \in GivenToRead', NEW g \in Targets',
                    Holds(f)' = "given", Full(f) = Full(g)
             PROVE  FALSE
  BY DEF KeptApart
<1>1. files' = files /\ Inputs(option') \cap Outputs(option') = {}
  BY DEF CheckArguments, InputError, Exit
<1>2. Holds(f) = "given" /\ Holds(g) = "given"
  BY <1>1 DEF Holds
<1>3. f # <<>> /\ g # <<>>
  BY <1>2 DEF DirectoryIsNotGiven
<1>4. GetFullPath(f) = Full(f) /\ GetFullPath(g) = Full(g)
  BY <1>2, <1>3 DEF GetFullPath, FileExists
<1>5. GetFullPath(g) \in Outputs(option')
  BY DEF Targets, Outputs, LogFile
<1>6. Full(f) \in Inputs(option')
  BY <1>4 DEF GivenToRead, Inputs, IsFull
<1> QED
  BY <1>1, <1>4, <1>5, <1>6

LEMMA InitSurvival == Init => SurvivalInv
BY DisksAssumption
DEF Init, SurvivalInv, KeptApart, DirectoryIsNotGiven, ProvidedIsRead, Holds

LEMMA StepSurvival ==
  ASSUME SurvivalInv, [Next]_vars PROVE SurvivalInv'
<1>1. CASE ProcessArgument
  <2>1. files' = files /\ phase' \in {"arguments", "ended"}
    BY <1>1 DEF ProcessArgument, OptionWithValue, SchematronOption, Flag, Help,
                Hash, InputError, Exit
  <2> QED
    BY <2>1 DEF SurvivalInv, KeptApart, DirectoryIsNotGiven, ProvidedIsRead, Holds
<1>2. CASE CheckArguments
  <2>1. files' = files /\ phase' \in {"log", "ended"}
    BY <1>2 DEF CheckArguments, InputError, Exit
  <2>2. KeptApart'
    BY <1>2, CheckKeepsApart DEF SurvivalInv
  <2> QED
    BY <2>1, <2>2 DEF SurvivalInv, DirectoryIsNotGiven, ProvidedIsRead, Holds
<1>3. CASE Main
  <2>1. /\ option' = option
        /\ phase \notin {"arguments", "ended"}
        /\ \A f : \/ Then(f) = Holds(f)
                  \/ /\ Then(f) # "given"
                     /\ \E g \in Targets : Full(f) = Full(g)
    BY <1>3, MainWritesTargets DEF SurvivalInv
  <2>2. \A f : Holds(f)' = Then(f)
    BY DEF Holds, Then
  <2>3. Holds(<<>>)' = Then(<<>>)
    BY DEF Holds, Then
  <2>4. GivenToRead' = GivenToRead /\ Targets' = Targets
    BY <2>1 DEF GivenToRead, Targets, LogFile, IsFull
  <2>5. KeptApart'
    BY <2>1, <2>2, <2>4 DEF SurvivalInv, KeptApart
  <2>6. DirectoryIsNotGiven'
    BY <2>1, <2>3 DEF SurvivalInv, DirectoryIsNotGiven
  <2>7. ProvidedIsRead'
    BY <1>3 DEF SurvivalInv, ProvidedIsRead, Main, At, InitLog, PrintDigest, Prepare,
        VerifyHash, ParseDefinitions, CheckVersion, LoadDirectives,
        ValidateDefinitions, SchematronValidate, Collect, SaveData, CheckData,
        ParseData, Analyze, SaveResults, CheckResults, ApplyStylesheet, Footer,
        Does, Goes, Raise, GivesUp, Exit
  <2> QED
    BY <2>5, <2>6, <2>7 DEF SurvivalInv
<1>4. CASE UNCHANGED vars
  <2>1. option' = option /\ phase' = phase /\ files' = files
    BY <1>4 DEF vars
  <2>2. GivenToRead' = GivenToRead /\ Targets' = Targets
    BY <2>1 DEF GivenToRead, Targets, LogFile, IsFull
  <2> QED
    BY <2>1, <2>2
    DEF SurvivalInv, KeptApart, DirectoryIsNotGiven, ProvidedIsRead, Holds
<1> QED
  BY <1>1, <1>2, <1>3, <1>4 DEF Next, Ended

\* A run never changes a file it was given to read, however the paths of the inputs
\* and of the outputs are written (the check of Main.cpp:981-1026).
THEOREM InputsAlwaysSurvive == Spec => InputsSurvive
<1> DEFINE A == phase \notin {"arguments", "ended"} =>
                  \A f \in GivenToRead : Holds(f) = "given"
                                           => files'[Full(f)] = "given"
<1>1. SurvivalInv /\ [Next]_vars => [A]_vars
  <2> SUFFICES ASSUME SurvivalInv, Main, phase \notin {"arguments", "ended"},
                      NEW f \in GivenToRead, Holds(f) = "given"
               PROVE  files'[Full(f)] = "given"
    BY DEF Next, Ended, vars, ProcessArgument, CheckArguments
  <2>1. Then(f) = "given"
    BY MainWritesTargets DEF SurvivalInv, KeptApart
  <2> QED
    BY <2>1 DEF Then
<1>2. SurvivalInv /\ [Next]_vars => SurvivalInv'
  BY StepSurvival
<1>3. Spec => [][A]_vars
  BY <1>1, <1>2, InitSurvival, PTL DEF Spec
<1> QED
  BY <1>3 DEF InputsSurvive

-----------------------------------------------------------------------------
\* Success means done.

\* What was asked for, up to where the run is.
Asks(steps, condition, step) == IF condition THEN Append(steps, step) ELSE steps
UntilDefinitions == Asks(<<>>, option.verifyXMLfile, "hash")
UntilVersion     == Append(UntilDefinitions, "definitions")
UntilDirectives  == Append(UntilVersion, "version")
UntilSchematron  == Append(UntilDirectives, "directives")
UntilData        == Asks(UntilSchematron, option.doDefinitionSchematron,
                         "definition schematron")
UntilSave        == Append(UntilData, "collection")
UntilCheck       == Append(UntilSave, "save data")
UntilAnalysis    == IF option.useProvidedData THEN Append(UntilData, "provided data")
                    ELSE Asks(UntilCheck, option.doDataSchematron, "check data")
UntilResults     == Append(UntilAnalysis, "analysis")
UntilWritten     == Append(UntilResults, "save results")
UntilStylesheet  == Asks(UntilWritten, option.doResultsSchematron, "check results")
UntilFooter      == Asks(UntilStylesheet, ~ option.noXsl, "stylesheet")

Steps == {"log", "digest", "privileges", "hash", "definitions", "version",
          "directives", "definition schematron", "provided data", "collection",
          "save data", "check data", "analysis", "save results", "check results",
          "stylesheet", "footer"}

\* A step is only reached if it was asked for.
PhaseWasAsked ==
  /\ phase \in Steps \cup {"arguments", "ended"}
  /\ phase = "digest" => option.generateMD5
  /\ phase = "hash" => option.verifyXMLfile
  /\ phase = "definition schematron" => option.doDefinitionSchematron
  /\ phase = "provided data" => option.useProvidedData
  /\ phase \in {"collection", "save data", "check data"} => ~ option.useProvidedData
  /\ phase = "check data" => option.doDataSchematron
  /\ phase = "check results" => option.doResultsSchematron
  /\ phase = "stylesheet" => ~ option.noXsl

\* What is left of the command line is on it, and nothing is done before it is read.
ArgumentsAreOfLine ==
  /\ line \in CommandLines
  /\ phase = "arguments" =>
       /\ done = <<>> /\ failures = {} /\ code = Running
       /\ argv \in Seq({line[i] : i \in DOMAIN line})

\* What has been done is what was asked for, up to here.
DoneAsAsked ==
  /\ phase \notin {"arguments", "ended"} => failures \subseteq {"lesser", "inapplicable"}
  /\ failures = {} =>
       /\ phase \in {"log", "digest", "privileges", "hash"} => done = <<>>
       /\ phase = "definitions"           => done = UntilDefinitions
       /\ phase = "version"               => done = UntilVersion
       /\ phase = "directives"            => done = UntilDirectives
       /\ phase = "definition schematron" => done = UntilSchematron
       /\ phase = "provided data"         => done = UntilData
       /\ phase = "collection"            => done = UntilData
       /\ phase = "save data"             => done = UntilSave
       /\ phase = "check data"            => done = UntilCheck
       /\ phase = "analysis"              => done = UntilAnalysis
       /\ phase = "save results"          => done = UntilResults
       /\ phase = "check results"         => done = UntilWritten
       /\ phase = "stylesheet"            => done = UntilStylesheet
       /\ phase = "footer"                => done = UntilFooter

\* The results are there once they are written, unless two have one name.
ResultsAreThere ==
  ~ OneName =>
    LET finished == phase = "footer" /\ "lesser" \notin failures
    IN  /\ phase \in {"check results", "stylesheet"} \/ finished
             => Holds(option.outputFilename) = "results"
        /\ ~ option.useProvidedData
           /\ (phase \in {"check data", "analysis", "save results",
                          "check results", "stylesheet"} \/ finished)
             => Holds(option.dataFile) = "data"
        /\ phase = "footer" /\ failures = {} /\ ~ option.noXsl
             => Holds(option.xslOutputFile) = "html"

ExitInv ==
  /\ PhaseWasAsked /\ ArgumentsAreOfLine /\ DoneAsAsked /\ ResultsAreThere
  /\ ExitMeansDone

-----------------------------------------------------------------------------
\* Appending one by one and concatenating come to the same.

LEMMA ConcatOne ==
  ASSUME NEW S, NEW s \in Seq(S), NEW a \in S
  PROVE  s \o <<a>> = Append(s, a) /\ Append(s, a) \in Seq(S)
OBVIOUS

LEMMA ConcatTwo ==
  ASSUME NEW S, NEW s \in Seq(S), NEW a \in S, NEW b \in S
  PROVE  s \o <<a, b>> = Append(Append(s, a), b)
OBVIOUS

LEMMA ConcatThree ==
  ASSUME NEW S, NEW s \in Seq(S), NEW a \in S, NEW b \in S, NEW c \in S
  PROVE  s \o <<a, b, c>> = Append(Append(Append(s, a), b), c)
OBVIOUS

LEMMA ConcatNone ==
  ASSUME NEW S, NEW s \in Seq(S)
  PROVE  s \o <<>> = s
OBVIOUS

LEMMA ConcatTwoOne ==
  ASSUME NEW S, NEW s \in Seq(S), NEW a \in S, NEW b \in S, NEW c \in S
  PROVE  /\ s \o (<<a, b>> \o <<c>>) = Append(Append(Append(s, a), b), c)
         /\ s \o (<<a, b>> \o <<>>) = Append(Append(s, a), b)
OBVIOUS

\* What was asked for is what was asked for up to the footer.
LEMMA AskedIsUntilFooter == Asked = UntilFooter
<1> DEFINE S == Steps
           hash == "hash"
           definitions == "definitions"
           version == "version"
           directives == "directives"
           rules == "definition schematron"
           provided == "provided data"
           collection == "collection"
           save == "save data"
           check == "check data"
           analysis == "analysis"
           results == "save results"
           judge == "check results"
           sheet == "stylesheet"
           when(condition, step) == IF condition THEN <<step>> ELSE <<>>
           data == IF option.useProvidedData THEN <<provided>>
                   ELSE <<collection, save>> \o when(option.doDataSchematron, check)
           last == IF ~ option.noXsl THEN <<sheet>> ELSE <<>>
<1>1. /\ hash \in S /\ definitions \in S /\ version \in S /\ directives \in S
      /\ rules \in S /\ provided \in S /\ collection \in S /\ save \in S /\ check \in S
      /\ analysis \in S /\ results \in S /\ judge \in S /\ sheet \in S
  BY DEF Steps
<1>2. Asked = when(option.verifyXMLfile, hash) \o <<definitions, version, directives>>
              \o when(option.doDefinitionSchematron, rules) \o data
              \o <<analysis, results>> \o when(option.doResultsSchematron, judge)
              \o last
  BY DEF Asked
<1>3. /\ UntilDefinitions = Asks(<<>>, option.verifyXMLfile, hash)
      /\ UntilVersion = Append(UntilDefinitions, definitions)
      /\ UntilDirectives = Append(UntilVersion, version)
      /\ UntilSchematron = Append(UntilDirectives, directives)
      /\ UntilData = Asks(UntilSchematron, option.doDefinitionSchematron, rules)
      /\ UntilSave = Append(UntilData, collection)
      /\ UntilCheck = Append(UntilSave, save)
      /\ UntilAnalysis = IF option.useProvidedData THEN Append(UntilData, provided)
                         ELSE Asks(UntilCheck, option.doDataSchematron, check)
      /\ UntilResults = Append(UntilAnalysis, analysis)
      /\ UntilWritten = Append(UntilResults, results)
      /\ UntilStylesheet = Asks(UntilWritten, option.doResultsSchematron, judge)
      /\ UntilFooter = Asks(UntilStylesheet, ~ option.noXsl, sheet)
  BY DEF UntilDefinitions, UntilVersion, UntilDirectives, UntilSchematron, UntilData,
         UntilSave, UntilCheck, UntilAnalysis, UntilResults, UntilWritten,
         UntilStylesheet, UntilFooter
<1> HIDE DEF S, hash, definitions, version, directives, rules, provided, collection,
             save, check, analysis, results, judge, sheet
<1>4. when(option.verifyXMLfile, hash) = UntilDefinitions /\ UntilDefinitions \in Seq(S)
  BY <1>1, <1>3 DEF Asks
<1>5. UntilVersion \in Seq(S) /\ UntilDirectives \in Seq(S) /\ UntilSchematron \in Seq(S)
  BY <1>1, <1>3, <1>4, ConcatOne
<1>6. UntilDefinitions \o <<definitions, version, directives>> = UntilSchematron
  BY <1>1, <1>3, <1>4, ConcatThree
<1>7. /\ UntilSchematron \o when(option.doDefinitionSchematron, rules) = UntilData
      /\ UntilData \in Seq(S)
  BY <1>1, <1>3, <1>5, ConcatOne, ConcatNone DEF Asks
<1>8. UntilSave \in Seq(S) /\ UntilCheck \in Seq(S)
  BY <1>1, <1>3, <1>7, ConcatOne
<1>9. UntilData \o data = UntilAnalysis
  <2>1. CASE option.useProvidedData
    BY <1>1, <1>3, <1>7, <2>1, ConcatOne
  <2>2. CASE ~ option.useProvidedData /\ option.doDataSchematron
    <3>1. data = <<collection, save>> \o <<check>>
      BY <2>2
    <3>2. UntilAnalysis = Append(Append(Append(UntilData, collection), save), check)
      BY <1>3, <2>2 DEF Asks
    <3> HIDE DEF data
    <3> QED
      BY <1>1, <1>7, <3>1, <3>2, ConcatTwoOne
  <2>3. CASE ~ option.useProvidedData /\ ~ option.doDataSchematron
    <3>1. data = <<collection, save>> \o <<>>
      BY <2>3
    <3>2. UntilAnalysis = Append(Append(UntilData, collection), save)
      BY <1>3, <2>3 DEF Asks
    <3> HIDE DEF data
    <3> QED
      BY <1>1, <1>7, <3>1, <3>2, ConcatTwoOne
  <2> QED
    BY <2>1, <2>2, <2>3
<1>10. UntilAnalysis \in Seq(S)
  BY <1>1, <1>3, <1>7, <1>8, ConcatOne DEF Asks
<1>11. UntilAnalysis \o <<analysis, results>> = UntilWritten
  BY <1>1, <1>3, <1>10, ConcatTwo
<1>12. UntilResults \in Seq(S) /\ UntilWritten \in Seq(S)
  BY <1>1, <1>3, <1>10, ConcatOne
<1>13. UntilStylesheet \in Seq(S)
  BY <1>1, <1>3, <1>12, ConcatOne DEF Asks
<1>14. UntilWritten \o when(option.doResultsSchematron, judge) = UntilStylesheet
  <2>1. CASE option.doResultsSchematron
    BY <1>1, <1>3, <1>12, <2>1, ConcatOne DEF Asks
  <2>2. CASE ~ option.doResultsSchematron
    BY <1>1, <1>3, <1>12, <2>2, ConcatNone DEF Asks
  <2> QED
    BY <2>1, <2>2
<1>15. UntilStylesheet \o last = UntilFooter
  <2>1. CASE last = <<sheet>> /\ UntilFooter = Append(UntilStylesheet, sheet)
    BY <1>1, <1>13, <2>1, ConcatOne
  <2>2. CASE last = <<>> /\ UntilFooter = UntilStylesheet
    BY <1>13, <2>2, ConcatNone
  <2> QED
    BY <1>3, <2>1, <2>2 DEF Asks
<1> HIDE DEF when, data, last
<1> QED
  BY <1>2, <1>4, <1>6, <1>7, <1>9, <1>11, <1>14, <1>15

-----------------------------------------------------------------------------
\* Every step keeps it.

LEMMA NamesDiffer ==
  ASSUME ~ OneName
  PROVE  /\ Full(option.outputFilename) # Full(option.dataFile)
         /\ Full(option.outputFilename) # Full(LogFile)
         /\ Full(option.outputFilename) # Full(option.xslOutputFile)
         /\ Full(option.dataFile) # Full(LogFile)
         /\ Full(option.dataFile) # Full(option.xslOutputFile)
         /\ Full(LogFile) # Full(option.xslOutputFile)
<1>1. /\ Results[1] = option.outputFilename /\ Results[2] = option.dataFile
      /\ Results[3] = LogFile /\ Results[4] = option.xslOutputFile
  BY DEF Results
<1>2. \A i, j \in 1..4 : i # j => Full(Results[i]) # Full(Results[j])
  BY DEF OneName
<1> HIDE DEF Results, Full
<1>3. Full(Results[1]) # Full(Results[2]) /\ Full(Results[1]) # Full(Results[3])
      /\ Full(Results[1]) # Full(Results[4])
  BY <1>2
<1>4. Full(Results[2]) # Full(Results[3]) /\ Full(Results[2]) # Full(Results[4])
      /\ Full(Results[3]) # Full(Results[4])
  BY <1>2
<1> QED
  BY <1>1, <1>3, <1>4

LEMMA InitSuccess == Init => ExitInv
<1> SUFFICES ASSUME Init PROVE ExitInv
  OBVIOUS
<1>1. argv \in Seq({line[i] : i \in DOMAIN line})
  <2>1. line \in Seq([dash : BOOLEAN, letter : STRING, text : Seq(STRING)])
    BY CommandLinesAssumption DEF Init
  <2> QED
    BY <2>1 DEF Init
<1>2. PhaseWasAsked /\ ArgumentsAreOfLine /\ DoneAsAsked /\ ResultsAreThere
  BY <1>1 DEF Init, PhaseWasAsked, ArgumentsAreOfLine, DoneAsAsked, ResultsAreThere
<1>3. ExitMeansDone
  BY DEF Init, ExitMeansDone
<1> QED
  BY <1>2, <1>3 DEF ExitInv

\* The arguments: nothing is done, and only help ends with success.
LEMMA ArgumentKeepsSuccess ==
  ASSUME ExitInv, ProcessArgument PROVE ExitInv'
<1>1. /\ phase = "arguments" /\ argv # <<>>
      /\ UNCHANGED <<line, files, done, failures>>
  BY DEF ProcessArgument
<1>2. argv \in Seq({line[i] : i \in DOMAIN line}) /\ done = <<>> /\ failures = {}
  BY <1>1 DEF ExitInv, ArgumentsAreOfLine
<1>3. \A n \in {1, 2} : Take(n) => argv' \in Seq({line[i] : i \in DOMAIN line})
  BY <1>2 DEF Take
<1>4. \/ phase' = "arguments" /\ code' = code
         /\ argv' \in Seq({line[i] : i \in DOMAIN line})
      \/ phase' = "ended" /\ code' = FAILURE
      \/ phase' = "ended" /\ code' = SUCCESS /\ AsksForHelp
  <2>1. CASE OptionWithValue
    BY <1>1, <1>3, <2>1 DEF OptionWithValue, InputError, Exit
  <2>2. CASE SchematronOption
    BY <1>1, <1>3, <2>2 DEF SchematronOption, InputError, Exit
  <2>3. CASE Flag
    BY <1>1, <1>3, <2>3 DEF Flag
  <2>4. CASE Help
    <3>1. argv[1] \in {line[i] : i \in DOMAIN line}
      BY <1>1, <1>2
    <3> QED
      BY <2>4, <3>1 DEF Help, Exit, AsksForHelp, Letter
  <2>5. CASE Hash
    BY <1>1, <1>3, <2>5 DEF Hash, InputError, Exit
  <2> QED
    BY <2>1, <2>2, <2>3, <2>4, <2>5 DEF ProcessArgument
<1>5. ArgumentsAreOfLine'
  BY <1>1, <1>2, <1>4 DEF ExitInv, ArgumentsAreOfLine
<1>6. PhaseWasAsked' /\ DoneAsAsked' /\ ResultsAreThere'
  BY <1>4 DEF PhaseWasAsked, DoneAsAsked, ResultsAreThere
<1>7. ExitMeansDone'
  BY <1>1, <1>4 DEF ExitMeansDone, AsksForHelp, SUCCESS, FAILURE
<1> QED
  BY <1>5, <1>6, <1>7 DEF ExitInv

LEMMA CheckKeepsSuccess ==
  ASSUME ExitInv, CheckArguments PROVE ExitInv'
<1>1. /\ phase = "arguments" /\ UNCHANGED <<line, files, done, failures>>
      /\ \/ phase' = "ended" /\ code' = FAILURE
         \/ phase' = "log"
  BY DEF CheckArguments, InputError, Exit
<1>2. line \in CommandLines /\ done = <<>> /\ failures = {}
  BY <1>1 DEF ExitInv, ArgumentsAreOfLine
<1>3. ArgumentsAreOfLine' /\ PhaseWasAsked' /\ DoneAsAsked' /\ ResultsAreThere'
  BY <1>1, <1>2
  DEF ArgumentsAreOfLine, PhaseWasAsked, DoneAsAsked, ResultsAreThere, Steps
<1>4. ExitMeansDone'
  BY <1>1 DEF ExitMeansDone, SUCCESS, FAILURE
<1> QED
  BY <1>3, <1>4 DEF ExitInv

\* The steps of main: the options stand, so what was asked for stands.
LEMMA MainKeepsPhase ==
  ASSUME PhaseWasAsked, Main PROVE PhaseWasAsked'
BY DEF PhaseWasAsked, Steps, Main, At, InitLog, PrintDigest, Prepare, VerifyHash,
       ParseDefinitions, CheckVersion, LoadDirectives, ValidateDefinitions,
       SchematronValidate, Collect, SaveData, CheckData, ParseData, Analyze,
       SaveResults, CheckResults, ApplyStylesheet, Footer,
       Does, Goes, Raise, GivesUp, Exit

\* As the options stand, so does what was asked for.
LEMMA AskedStands ==
  ASSUME option' = option
  PROVE  /\ UntilDefinitions' = UntilDefinitions /\ UntilVersion' = UntilVersion
         /\ UntilDirectives' = UntilDirectives /\ UntilSchematron' = UntilSchematron
         /\ UntilData' = UntilData /\ UntilSave' = UntilSave /\ UntilCheck' = UntilCheck
         /\ UntilAnalysis' = UntilAnalysis /\ UntilResults' = UntilResults
         /\ UntilWritten' = UntilWritten /\ UntilStylesheet' = UntilStylesheet
         /\ UntilFooter' = UntilFooter
BY DEF UntilDefinitions, UntilVersion, UntilDirectives, UntilSchematron, UntilData,
       UntilSave, UntilCheck, UntilAnalysis, UntilResults, UntilWritten,
       UntilStylesheet, UntilFooter

LEMMA MainKeepsDone ==
  ASSUME PhaseWasAsked, DoneAsAsked, Main PROVE DoneAsAsked'
<1>1. option' = option
  BY DEF Main, At, InitLog, PrintDigest, Prepare, VerifyHash, ParseDefinitions,
         CheckVersion, LoadDirectives, ValidateDefinitions, Collect, SaveData,
         CheckData, ParseData, Analyze, SaveResults, CheckResults,
         ApplyStylesheet, Footer
<1>2. /\ UntilDefinitions' = UntilDefinitions /\ UntilVersion' = UntilVersion
      /\ UntilDirectives' = UntilDirectives /\ UntilSchematron' = UntilSchematron
      /\ UntilData' = UntilData /\ UntilSave' = UntilSave /\ UntilCheck' = UntilCheck
      /\ UntilAnalysis' = UntilAnalysis /\ UntilResults' = UntilResults
      /\ UntilWritten' = UntilWritten /\ UntilStylesheet' = UntilStylesheet
      /\ UntilFooter' = UntilFooter
  BY <1>1, AskedStands
<1>3. CASE phase' = "ended" /\ failures \subseteq failures'
  BY <1>3 DEF DoneAsAsked
<1>4. CASE /\ phase' # "ended" /\ failures' = failures \cup {"inapplicable"}
           /\ phase \notin {"arguments", "ended"}
  BY <1>4 DEF DoneAsAsked
<1>5. CASE /\ phase' # "ended" /\ failures' = failures \cup {"lesser"}
           /\ phase \notin {"arguments", "ended"}
  BY <1>5 DEF DoneAsAsked
<1>6. CASE InitLog
  BY <1>2, <1>3, <1>4, <1>5, <1>6 DEF DoneAsAsked, InitLog, At, Goes, GivesUp, Exit,
      UntilDefinitions
<1>7. CASE PrintDigest
  BY <1>2, <1>3, <1>4, <1>5, <1>7 DEF DoneAsAsked, PrintDigest, GivesUp, Exit
<1>8. CASE Prepare
  BY <1>2, <1>3, <1>4, <1>5, <1>8 DEF DoneAsAsked, Prepare, At, Goes, GivesUp, Exit,
      UntilDefinitions, Asks
<1>9. CASE VerifyHash
  BY <1>2, <1>3, <1>4, <1>5, <1>9 DEF DoneAsAsked, VerifyHash, At, Does, Goes,
      GivesUp, Exit, UntilDefinitions, Asks, PhaseWasAsked
<1>10. CASE ParseDefinitions
  BY <1>2, <1>3, <1>4, <1>5, <1>10 DEF DoneAsAsked, ParseDefinitions, At, Does, Goes,
      Raise, GivesUp, Exit, UntilVersion
<1>11. CASE CheckVersion
  BY <1>2, <1>3, <1>4, <1>5, <1>11 DEF DoneAsAsked, CheckVersion, At, Does, Goes,
      GivesUp, Exit, UntilDirectives
<1>12. CASE LoadDirectives
  BY <1>2, <1>3, <1>4, <1>5, <1>12 DEF DoneAsAsked, LoadDirectives, At, Does, Goes,
      Raise, GivesUp, Exit, UntilSchematron, UntilData, Asks
<1>13. CASE ValidateDefinitions
  BY <1>2, <1>3, <1>4, <1>5, <1>13 DEF DoneAsAsked, ValidateDefinitions,
      SchematronValidate, At, Does, Goes, GivesUp, Exit, UntilData, Asks,
      PhaseWasAsked
<1>14. CASE Collect
  BY <1>2, <1>3, <1>4, <1>5, <1>14 DEF DoneAsAsked, Collect, At, Does, Goes, Raise,
      GivesUp, Exit, UntilSave
<1>15. CASE SaveData
  BY <1>2, <1>3, <1>4, <1>5, <1>15 DEF DoneAsAsked, SaveData, At, Does, Goes, Raise,
      GivesUp, Exit, UntilCheck, UntilAnalysis, Asks, PhaseWasAsked
<1>16. CASE CheckData
  BY <1>2, <1>3, <1>4, <1>5, <1>16 DEF DoneAsAsked, CheckData, SchematronValidate, At,
      Does, Goes, Raise, GivesUp, Exit, UntilAnalysis, Asks, PhaseWasAsked
<1>17. CASE ParseData
  BY <1>2, <1>3, <1>4, <1>5, <1>17 DEF DoneAsAsked, ParseData, At, Does, Goes, Raise,
      GivesUp, Exit, UntilAnalysis, PhaseWasAsked
<1>18. CASE Analyze
  BY <1>2, <1>3, <1>4, <1>5, <1>18 DEF DoneAsAsked, Analyze, At, Does, Goes, Raise,
      GivesUp, Exit, UntilResults
<1>19. CASE SaveResults
  BY <1>2, <1>3, <1>4, <1>5, <1>19 DEF DoneAsAsked, SaveResults, At, Does, Goes,
      Raise, GivesUp, Exit, UntilWritten, UntilStylesheet, UntilFooter, Asks
<1>20. CASE CheckResults
  BY <1>2, <1>3, <1>4, <1>5, <1>20 DEF DoneAsAsked, CheckResults, SchematronValidate,
      At, Does, Goes, Raise, GivesUp, Exit, UntilStylesheet, UntilFooter, Asks,
      PhaseWasAsked
<1>21. CASE ApplyStylesheet
  BY <1>2, <1>3, <1>4, <1>5, <1>21 DEF DoneAsAsked, ApplyStylesheet, At, Does, Goes,
      UntilFooter, Asks, PhaseWasAsked
<1>22. CASE Footer
  BY <1>2, <1>3, <1>4, <1>5, <1>22 DEF DoneAsAsked, Footer, Exit
<1> QED
  BY <1>6, <1>7, <1>8, <1>9, <1>10, <1>11, <1>12, <1>13, <1>14, <1>15, <1>16, <1>17,
     <1>18, <1>19, <1>20, <1>21, <1>22 DEF Main

LEMMA MainKeepsResults ==
  ASSUME PhaseWasAsked, DoneAsAsked, ResultsAreThere, Main PROVE ResultsAreThere'
<1>1. option' = option
  BY DEF Main, At, InitLog, PrintDigest, Prepare, VerifyHash, ParseDefinitions,
         CheckVersion, LoadDirectives, ValidateDefinitions, Collect, SaveData,
         CheckData, ParseData, Analyze, SaveResults, CheckResults,
         ApplyStylesheet, Footer
<1>2. OneName' = OneName
  BY <1>1 DEF OneName, Results, LogFile
<1> SUFFICES ASSUME ~ OneName PROVE ResultsAreThere'
  BY <1>2 DEF ResultsAreThere
<1> DEFINE out == option.outputFilename
           data == option.dataFile
           html == option.xslOutputFile
<1>3. /\ Full(out) # Full(data) /\ Full(out) # Full(LogFile) /\ Full(out) # Full(html)
      /\ Full(data) # Full(LogFile) /\ Full(data) # Full(html)
      /\ Full(LogFile) # Full(html)
  BY NamesDiffer
<1>4. /\ Holds(option.outputFilename)' = Then(out)
      /\ Holds(option.dataFile)' = Then(data)
      /\ Holds(option.xslOutputFile)' = Then(html)
  BY <1>1 DEF Holds, Then
<1> HIDE DEF out, data, html
\* A step that writes the log, and those that write one of the results.
<1>5. Say => Then(out) = Holds(out) /\ Then(data) = Holds(data) /\ Then(html) = Holds(html)
  BY <1>3, SayFacts
<1>6. ASSUME NEW path, NEW content, files' = Logged(path, content)
      PROVE  /\ Full(path) # Full(LogFile) => Then(path) = content
             /\ \A f : Full(f) # Full(LogFile) /\ Full(f) # Full(path) => Then(f) = Holds(f)
  BY <1>6, LoggedFacts
<1>7. Holds(out) = Holds(option.outputFilename) /\ Holds(data) = Holds(option.dataFile)
      /\ Holds(html) = Holds(option.xslOutputFile)
  BY DEF out, data, html
<1>8. CASE InitLog
  BY <1>1, <1>4, <1>5, <1>7, <1>8 DEF PhaseWasAsked, ResultsAreThere, InitLog, At,
      Goes, GivesUp, Exit
<1>9. CASE PrintDigest
  BY <1>1, <1>4, <1>5, <1>7, <1>9 DEF PhaseWasAsked, ResultsAreThere, PrintDigest,
      GivesUp, Exit
<1>10. CASE Prepare
  BY <1>1, <1>4, <1>5, <1>7, <1>10 DEF PhaseWasAsked, ResultsAreThere, Prepare, At,
      Goes, GivesUp, Exit
<1>11. CASE VerifyHash
  BY <1>1, <1>4, <1>5, <1>7, <1>11 DEF PhaseWasAsked, ResultsAreThere, VerifyHash, At,
      Does, Goes, GivesUp, Exit
<1>12. CASE ParseDefinitions
  BY <1>1, <1>4, <1>5, <1>7, <1>12 DEF PhaseWasAsked, ResultsAreThere,
      ParseDefinitions, At, Does, Goes, Raise, GivesUp, Exit
<1>13. CASE CheckVersion
  BY <1>1, <1>4, <1>5, <1>7, <1>13 DEF PhaseWasAsked, ResultsAreThere, CheckVersion,
      At, Does, Goes, GivesUp, Exit
<1>14. CASE LoadDirectives
  BY <1>1, <1>4, <1>5, <1>7, <1>14 DEF PhaseWasAsked, ResultsAreThere, LoadDirectives,
      At, Does, Goes, Raise, GivesUp, Exit
<1>15. CASE ValidateDefinitions
  BY <1>1, <1>4, <1>5, <1>7, <1>15 DEF PhaseWasAsked, ResultsAreThere,
      ValidateDefinitions, SchematronValidate, At, Does, Goes, GivesUp, Exit
<1>16. CASE Collect
  BY <1>1, <1>4, <1>5, <1>7, <1>16 DEF PhaseWasAsked, ResultsAreThere, Collect, At,
      Does, Goes, Raise, GivesUp, Exit
<1>17. CASE SaveData
  <2>1. files' = Logged(option.dataFile, "data")
          => /\ Then(data) = "data"
             /\ Then(out) = Holds(out) /\ Then(html) = Holds(html)
    BY <1>3, <1>6 DEF data
  <2> QED
    BY <1>1, <1>4, <1>5, <1>7, <1>17, <2>1 DEF PhaseWasAsked, ResultsAreThere,
        SaveData, At, Does, Goes, Raise, GivesUp, Exit
<1>18. CASE CheckData
  BY <1>1, <1>4, <1>5, <1>7, <1>18 DEF PhaseWasAsked, ResultsAreThere, CheckData,
      SchematronValidate, At, Does, Goes, Raise, GivesUp, Exit
<1>19. CASE ParseData
  BY <1>1, <1>4, <1>5, <1>7, <1>19 DEF PhaseWasAsked, ResultsAreThere, ParseData, At,
      Does, Goes, Raise, GivesUp, Exit
<1>20. CASE Analyze
  BY <1>1, <1>4, <1>5, <1>7, <1>20 DEF PhaseWasAsked, ResultsAreThere, Analyze, At,
      Does, Goes, Raise, GivesUp, Exit
<1>21. CASE SaveResults
  <2>1. files' = Logged(option.outputFilename, "results")
          => /\ Then(out) = "results"
             /\ Then(data) = Holds(data) /\ Then(html) = Holds(html)
    BY <1>3, <1>6 DEF out
  <2> QED
    BY <1>1, <1>4, <1>5, <1>7, <1>21, <2>1 DEF PhaseWasAsked, ResultsAreThere,
        SaveResults, At, Does, Goes, Raise, GivesUp, Exit
<1>22. CASE CheckResults
  BY <1>1, <1>4, <1>5, <1>7, <1>22 DEF PhaseWasAsked, ResultsAreThere, CheckResults,
      SchematronValidate, At, Does, Goes, Raise, GivesUp, Exit
<1>23. CASE ApplyStylesheet
  <2>1. files' = Logged(option.xslOutputFile, "html")
          => /\ Then(html) = "html"
             /\ Then(out) = Holds(out) /\ Then(data) = Holds(data)
    BY <1>3, <1>6 DEF html
  <2> QED
    BY <1>1, <1>4, <1>5, <1>7, <1>23, <2>1 DEF PhaseWasAsked, ResultsAreThere,
        ApplyStylesheet, At, Does, Goes
<1>24. CASE Footer
  BY <1>1, <1>4, <1>5, <1>7, <1>24 DEF PhaseWasAsked, ResultsAreThere, Footer, Exit
<1> QED
  BY <1>8, <1>9, <1>10, <1>11, <1>12, <1>13, <1>14, <1>15, <1>16, <1>17, <1>18, <1>19,
     <1>20, <1>21, <1>22, <1>23, <1>24 DEF Main

\* Only the footer and the digest end main with success.
LEMMA MainExitsDone ==
  ASSUME ExitInv, Main PROVE ExitMeansDone'
<1>1. option' = option /\ line' = line
  BY DEF Main, At, InitLog, PrintDigest, Prepare, VerifyHash, ParseDefinitions,
         CheckVersion, LoadDirectives, ValidateDefinitions, Collect, SaveData,
         CheckData, ParseData, Analyze, SaveResults, CheckResults,
         ApplyStylesheet, Footer
<1>2. CASE Footer
  <2> USE <1>2
  <2>1. /\ phase = "footer" /\ done' = done /\ failures' = failures /\ Say
    BY DEF Footer, At
  <2>2. failures \subseteq {"lesser", "inapplicable"}
    BY <2>1 DEF ExitInv, DoneAsAsked
  <2>3. failures = {} => done = Asked
    BY <2>1, AskedIsUntilFooter DEF ExitInv, DoneAsAsked
  <2>4. Asked' = Asked /\ OneName' = OneName
    BY <1>1 DEF Asked, OneName, Results, LogFile
  <2>5. ASSUME "lesser" \notin failures, ~ OneName
        PROVE  /\ Then(option.outputFilename) = "results"
               /\ ~ option.useProvidedData => Then(option.dataFile) = "data"
               /\ ~ option.noXsl /\ failures = {} => Then(option.xslOutputFile) = "html"
    <3>1. /\ Then(option.outputFilename) = Holds(option.outputFilename)
          /\ Then(option.dataFile) = Holds(option.dataFile)
          /\ Then(option.xslOutputFile) = Holds(option.xslOutputFile)
      BY <2>1, <2>5, NamesDiffer, SayFacts
    <3> QED
      BY <2>1, <2>5, <3>1 DEF ExitInv, ResultsAreThere
  <2>6. /\ Holds(option.outputFilename)' = Then(option.outputFilename)
        /\ Holds(option.dataFile)' = Then(option.dataFile)
        /\ Holds(option.xslOutputFile)' = Then(option.xslOutputFile)
    BY <1>1 DEF Holds, Then
  <2> QED
    BY <1>1, <2>1, <2>2, <2>3, <2>4, <2>5, <2>6 DEF ExitMeansDone
<1>3. CASE PrintDigest
  <2>1. option.generateMD5
    BY <1>3 DEF PrintDigest, At, ExitInv, PhaseWasAsked
  <2> QED
    BY <1>1, <2>1 DEF ExitMeansDone
<1>4. CASE ~ Footer /\ ~ PrintDigest
  <2>1. phase' # "ended" \/ code' = FAILURE
    BY <1>4 DEF Main, InitLog, Prepare, VerifyHash, ParseDefinitions, CheckVersion,
         LoadDirectives, ValidateDefinitions, SchematronValidate, Collect, SaveData,
         CheckData, ParseData, Analyze, SaveResults, CheckResults, ApplyStylesheet,
         Does, Goes, Raise, GivesUp, Exit
  <2> QED
    BY <2>1 DEF ExitMeansDone, SUCCESS, FAILURE
<1> QED
  BY <1>2, <1>3, <1>4

LEMMA StepSuccess ==
  ASSUME ExitInv, [Next]_vars PROVE ExitInv'
<1>1. CASE ProcessArgument
  BY <1>1, ArgumentKeepsSuccess
<1>2. CASE CheckArguments
  BY <1>2, CheckKeepsSuccess
<1>3. CASE Main
  <2>1. PhaseWasAsked' /\ DoneAsAsked' /\ ResultsAreThere' /\ ExitMeansDone'
    BY <1>3, MainKeepsPhase, MainKeepsDone, MainKeepsResults, MainExitsDone DEF ExitInv
  <2>2. line' = line /\ phase' # "arguments"
    BY <1>3 DEF Main, At, InitLog, PrintDigest, Prepare, VerifyHash, ParseDefinitions,
         CheckVersion, LoadDirectives, ValidateDefinitions, SchematronValidate, Collect,
         SaveData, CheckData, ParseData, Analyze, SaveResults, CheckResults,
         ApplyStylesheet, Footer, Does, Goes, Raise, GivesUp, Exit
  <2> QED
    BY <2>1, <2>2 DEF ExitInv, ArgumentsAreOfLine
<1>4. CASE UNCHANGED vars
  <2>1. ArgumentsAreOfLine' /\ PhaseWasAsked'
    BY <1>4 DEF vars, ExitInv, ArgumentsAreOfLine, PhaseWasAsked
  <2>2. DoneAsAsked'
    <3>1. option' = option /\ phase' = phase /\ done' = done /\ failures' = failures
      BY <1>4 DEF vars
    <3>2. DoneAsAsked
      BY DEF ExitInv
    <3> HIDE DEF vars
    <3>3. /\ UntilDefinitions' = UntilDefinitions /\ UntilVersion' = UntilVersion
          /\ UntilDirectives' = UntilDirectives /\ UntilSchematron' = UntilSchematron
          /\ UntilData' = UntilData /\ UntilSave' = UntilSave /\ UntilCheck' = UntilCheck
          /\ UntilAnalysis' = UntilAnalysis /\ UntilResults' = UntilResults
          /\ UntilWritten' = UntilWritten /\ UntilStylesheet' = UntilStylesheet
          /\ UntilFooter' = UntilFooter
      BY <3>1, AskedStands
    <3> QED
      BY <3>1, <3>2, <3>3 DEF DoneAsAsked
  <2>3. ResultsAreThere'
    BY <1>4 DEF vars, ExitInv, ResultsAreThere, OneName, Results, LogFile, Holds
  <2>4. ExitMeansDone'
    <3>1. Asked' = Asked /\ OneName' = OneName /\ AsksForHelp' = AsksForHelp
      BY <1>4 DEF vars, Asked, OneName, AsksForHelp, Results, LogFile
    <3> QED
      BY <1>4, <3>1 DEF vars, ExitInv, ExitMeansDone, Holds
  <2> QED
    BY <2>1, <2>2, <2>3, <2>4 DEF ExitInv
<1> QED
  BY <1>1, <1>2, <1>3, <1>4 DEF Next, Ended

\* A run that ends with success and was asked for neither help nor a digest has done
\* every step that was asked for, in its order, and left each result where it was
\* asked for, but for what an exception of a lower severity, a stylesheet that could
\* not be applied or two results of one name left out.
THEOREM SuccessMeansDone == Spec => []ExitMeansDone
<1>1. ExitInv => ExitMeansDone
  BY DEF ExitInv
<1>2. ExitInv /\ [Next]_vars => ExitInv'
  BY StepSuccess
<1> QED
  BY <1>1, <1>2, InitSuccess, PTL DEF Spec

-----------------------------------------------------------------------------
\* What the command line means.  Of the part up to p that has been taken, the last use
\* of a letter counts.
LastOf(S)           == CHOOSE i \in S : \A j \in S : j <= i
AfterLast(S, other) == IF S = {} THEN other ELSE After(LastOf(S))
UsesTo(letters, p)  == {i \in Uses(letters) : i <= p}
NamedTo(letter, p)  == {i \in UsesTo({letter}, p) : After(i) # <<>>}
MeantTo(letters, default, p) == AfterLast(UsesTo(letters, p), default)
LastNamed(letter, p) == AfterLast(NamedTo(letter, p), <<>>)
Taken == Len(line) - Len(argv)

LineIsTyped == line \in Seq([dash : BOOLEAN, letter : STRING, text : Seq(STRING)])

\* What is left of the command line is the end of it.
LeftIsEnd ==
  /\ LineIsTyped
  /\ Len(argv) \in Nat /\ Len(argv) <= Len(line)
  /\ \A k \in 1 .. Len(argv) : argv[k] = line[Taken + k]
  /\ argv = <<>> <=> Len(argv) = 0
  /\ argv \in Seq([dash : BOOLEAN, letter : STRING, text : Seq(STRING)])

\* From p on, one option is taken, alone or with a word.
OptionTaken(p, q) ==
  /\ p \in Nat /\ q \in {p + 1, p + 2} /\ q <= Len(line)
  /\ line[p + 1].dash
  /\ q = p + 2 => ~ line[p + 2].dash

LEMMA UsesGrow ==
  ASSUME LineIsTyped, NEW p, NEW q, OptionTaken(p, q), NEW letters
  PROVE  /\ line[p + 1].letter \in letters =>
              UsesTo(letters, q) = UsesTo(letters, p) \cup {p + 1}
         /\ line[p + 1].letter \notin letters => UsesTo(letters, q) = UsesTo(letters, p)
         /\ \A i \in UsesTo(letters, p) : i < p + 1 /\ i \in Nat
<1>1. DOMAIN line = 1 .. Len(line) /\ Len(line) \in Nat
  BY DEF LineIsTyped
<1>2. ASSUME NEW i \in Uses(letters), i <= q PROVE i <= p \/ i = p + 1
  BY <1>1, <1>2 DEF OptionTaken, Uses
<1>3. p + 1 \in DOMAIN line /\ p + 1 <= q
  BY <1>1 DEF OptionTaken
<1>4. line[p + 1].letter \in letters <=> p + 1 \in Uses(letters)
  BY <1>3 DEF OptionTaken, Uses
<1>5. \A i \in Uses(letters) : i \in Nat
  BY <1>1 DEF Uses
<1>6. \A i \in Uses(letters) : i <= p => i <= q /\ i < p + 1
  BY <1>5 DEF OptionTaken
<1>7. \A i \in UsesTo(letters, p) : i < p + 1 /\ i \in Nat
  BY <1>5, <1>6 DEF UsesTo
<1>8. \A i : i \in UsesTo(letters, q) <=>
             i \in UsesTo(letters, p) \/ (i = p + 1 /\ p + 1 \in Uses(letters))
  BY <1>2, <1>3, <1>6 DEF UsesTo
<1> QED
  BY <1>4, <1>7, <1>8

\* The greatest of a set that another element has been added to.
LEMMA LastIsNew ==
  ASSUME NEW S, NEW m \in Nat, \A i \in S : i < m /\ i \in Nat, NEW other
  PROVE  AfterLast(S \cup {m}, other) = After(m)
<1>1. m \in S \cup {m} /\ \A j \in S \cup {m} : j <= m
  OBVIOUS
<1>2. \A i \in S \cup {m} : (\A j \in S \cup {m} : j <= i) => i = m
  OBVIOUS
<1>3. LastOf(S \cup {m}) = m
  BY <1>1, <1>2 DEF LastOf
<1> QED
  BY <1>1, <1>3 DEF AfterLast

\* What the options that take a value mean, after one more.
LEMMA MeantGrows ==
  ASSUME LineIsTyped, NEW p, NEW q, OptionTaken(p, q), NEW letters, NEW default
  PROVE  MeantTo(letters, default, q) =
           IF line[p + 1].letter \in letters THEN After(p + 1)
           ELSE MeantTo(letters, default, p)
<1>1. p + 1 \in Nat
  BY DEF OptionTaken
<1>2. CASE line[p + 1].letter \in letters
  <2>1. UsesTo(letters, q) = UsesTo(letters, p) \cup {p + 1}
    BY <1>2, UsesGrow
  <2>2. \A i \in UsesTo(letters, p) : i < p + 1 /\ i \in Nat
    BY UsesGrow
  <2>3. AfterLast(UsesTo(letters, p) \cup {p + 1}, default) = After(p + 1)
    BY <1>1, <2>2, LastIsNew
  <2> QED
    BY <1>2, <2>1, <2>3 DEF MeantTo
<1>3. CASE line[p + 1].letter \notin letters
  <2>1. UsesTo(letters, q) = UsesTo(letters, p)
    BY <1>3, UsesGrow
  <2> QED
    BY <1>3, <2>1 DEF MeantTo
<1> QED
  BY <1>2, <1>3

\* The same of those that may name a stylesheet.
LEMMA NamedGrows ==
  ASSUME LineIsTyped, NEW p, NEW q, OptionTaken(p, q), NEW letter
  PROVE  LastNamed(letter, q) =
           IF line[p + 1].letter = letter /\ After(p + 1) # <<>> THEN After(p + 1)
           ELSE LastNamed(letter, p)
<1>1. p + 1 \in Nat
  BY DEF OptionTaken
<1>2. \A i \in NamedTo(letter, p) : i < p + 1 /\ i \in Nat
  BY UsesGrow DEF NamedTo
<1>3. CASE line[p + 1].letter = letter /\ After(p + 1) # <<>>
  <2>1. UsesTo({letter}, q) = UsesTo({letter}, p) \cup {p + 1}
    BY <1>3, UsesGrow
  <2>2. NamedTo(letter, q) = NamedTo(letter, p) \cup {p + 1}
    BY <1>3, <2>1 DEF NamedTo
  <2>3. AfterLast(NamedTo(letter, p) \cup {p + 1}, <<>>) = After(p + 1)
    BY <1>1, <1>2, LastIsNew
  <2> QED
    BY <1>3, <2>2, <2>3 DEF LastNamed
<1>4. CASE ~ (line[p + 1].letter = letter /\ After(p + 1) # <<>>)
  <2>1. UsesTo({letter}, q) = UsesTo({letter}, p)
        \/ (UsesTo({letter}, q) = UsesTo({letter}, p) \cup {p + 1} /\ After(p + 1) = <<>>)
    BY <1>4, UsesGrow
  <2>2. NamedTo(letter, q) = NamedTo(letter, p)
    BY <2>1 DEF NamedTo
  <2> QED
    BY <1>4, <2>2 DEF LastNamed
<1> QED
  BY <1>3, <1>4

LEMMA NamedSetGrows ==
  ASSUME LineIsTyped, NEW p, NEW q, OptionTaken(p, q), NEW letter
  PROVE  NamedTo(letter, q) = {} <=>
           ~ (line[p + 1].letter = letter /\ After(p + 1) # <<>>) /\ NamedTo(letter, p) = {}
<1>1. CASE line[p + 1].letter = letter
  <2>1. UsesTo({letter}, q) = UsesTo({letter}, p) \cup {p + 1}
    BY <1>1, UsesGrow
  <2> QED
    BY <1>1, <2>1 DEF NamedTo
<1>2. CASE line[p + 1].letter # letter
  <2>1. UsesTo({letter}, q) = UsesTo({letter}, p)
    BY <1>2, UsesGrow
  <2> QED
    BY <1>2, <2>1 DEF NamedTo
<1> QED
  BY <1>1, <1>2

\* The same of the switches.
LEMMA SwitchGrows ==
  ASSUME LineIsTyped, NEW p, NEW q, OptionTaken(p, q), NEW letters
  PROVE  UsesTo(letters, q) # {} <=>
           line[p + 1].letter \in letters \/ UsesTo(letters, p) # {}
<1>1. CASE line[p + 1].letter \in letters
  <2>1. UsesTo(letters, q) = UsesTo(letters, p) \cup {p + 1}
    BY <1>1, UsesGrow
  <2> QED
    BY <1>1, <2>1
<1>2. CASE line[p + 1].letter \notin letters
  <2>1. UsesTo(letters, q) = UsesTo(letters, p)
    BY <1>2, UsesGrow
  <2> QED
    BY <1>2, <2>1
<1> QED
  BY <1>1, <1>2

\* The members of Common that the arguments set.
Fields ==
  {"xmlfile", "dataFile", "outputFilename", "xslOutputFile",
   "externalVariablesFile", "directivesConfigFile", "logFileLocation",
   "schemapath", "definitionIds", "definitionIdsFile",
   "definitionSchematron", "dataSchematron", "resultsSchematron",
   "xslFile", "useProvidedData", "limitEvaluation",
   "doDefinitionSchematron", "doDataSchematron", "doResultsSchematron",
   "noXsl", "verifyXMLfile", "xmlfileMD5", "generateMD5"}

\* The options are what was taken says, but for the hash.
PathsAre(o, p) ==
  /\ o.xmlfile = MeantTo({"o"}, <<"definitions.xml">>, p)
  /\ o.dataFile = MeantTo({"d", "i"}, <<"system-characteristics.xml">>, p)
  /\ o.outputFilename = MeantTo({"r"}, <<"results.xml">>, p)
  /\ o.xslOutputFile = MeantTo({"x"}, <<"results.html">>, p)
  /\ o.externalVariablesFile = MeantTo({"v"}, <<"external-variables.xml">>, p)
  /\ o.directivesConfigFile = MeantTo({"g"}, <<"directives.xml">>, p)
  /\ o.logFileLocation = MeantTo({"y"}, <<>>, p)
  /\ o.schemapath = MeantTo({"a"}, SchemaPath, p)
  /\ o.definitionIds = MeantTo({"e"}, <<>>, p)
  /\ o.definitionIdsFile = MeantTo({"f"}, <<>>, p)
SheetsAre(o, p) ==
  /\ o.definitionSchematron = LastNamed("c", p)
  /\ o.dataSchematron = LastNamed("j", p)
  /\ o.resultsSchematron = LastNamed("k", p)
  /\ o.xslFile = LastNamed("t", p)
  /\ LastNamed("c", p) = <<>> => NamedTo("c", p) = {}
  /\ LastNamed("j", p) = <<>> => NamedTo("j", p) = {}
  /\ LastNamed("k", p) = <<>> => NamedTo("k", p) = {}
  /\ LastNamed("t", p) = <<>> => NamedTo("t", p) = {}
SwitchesAre(o, p) ==
  /\ o.useProvidedData = (UsesTo({"i"}, p) # {})
  /\ o.limitEvaluation = (UsesTo({"e", "f"}, p) # {})
  /\ o.doDefinitionSchematron = (UsesTo({"c"}, p) # {})
  /\ o.doDataSchematron = (UsesTo({"j"}, p) # {})
  /\ o.doResultsSchematron = (UsesTo({"k"}, p) # {})
  /\ o.noXsl = (UsesTo({"s"}, p) # {})
  /\ o.verifyXMLfile = (UsesTo({"m"}, p) = {})
OptionIs(o, p) == DOMAIN o = Fields /\ PathsAre(o, p) /\ SheetsAre(o, p) /\ SwitchesAre(o, p)

\* What an option does to the options, if a value follows or not (<<>>).
PathsFollow(o, n, letter, value) ==
  /\ n.xmlfile = IF letter \in {"o"} THEN value ELSE o.xmlfile
  /\ n.dataFile = IF letter \in {"d", "i"} THEN value ELSE o.dataFile
  /\ n.outputFilename = IF letter \in {"r"} THEN value ELSE o.outputFilename
  /\ n.xslOutputFile = IF letter \in {"x"} THEN value ELSE o.xslOutputFile
  /\ n.externalVariablesFile = IF letter \in {"v"} THEN value ELSE o.externalVariablesFile
  /\ n.directivesConfigFile = IF letter \in {"g"} THEN value ELSE o.directivesConfigFile
  /\ n.logFileLocation = IF letter \in {"y"} THEN value ELSE o.logFileLocation
  /\ n.schemapath = IF letter \in {"a"} THEN value ELSE o.schemapath
  /\ n.definitionIds = IF letter \in {"e"} THEN value ELSE o.definitionIds
  /\ n.definitionIdsFile = IF letter \in {"f"} THEN value ELSE o.definitionIdsFile
SheetsFollow(o, n, letter, value) ==
  /\ n.definitionSchematron = IF letter = "c" /\ value # <<>> THEN value ELSE o.definitionSchematron
  /\ n.dataSchematron = IF letter = "j" /\ value # <<>> THEN value ELSE o.dataSchematron
  /\ n.resultsSchematron = IF letter = "k" /\ value # <<>> THEN value ELSE o.resultsSchematron
  /\ n.xslFile = IF letter = "t" /\ value # <<>> THEN value ELSE o.xslFile
SwitchesFollow(o, n, letter) ==
  /\ n.useProvidedData = (letter \in {"i"} \/ o.useProvidedData)
  /\ n.limitEvaluation = (letter \in {"e", "f"} \/ o.limitEvaluation)
  /\ n.doDefinitionSchematron = (letter \in {"c"} \/ o.doDefinitionSchematron)
  /\ n.doDataSchematron = (letter \in {"j"} \/ o.doDataSchematron)
  /\ n.doResultsSchematron = (letter \in {"k"} \/ o.doResultsSchematron)
  /\ n.noXsl = (letter \in {"s"} \/ o.noXsl)
  /\ n.verifyXMLfile = (letter # "m" /\ o.verifyXMLfile)
OptionFollows(o, n, letter, value) ==
  /\ DOMAIN n = Fields /\ n.xmlfileMD5 = o.xmlfileMD5
  /\ PathsFollow(o, n, letter, value) /\ SheetsFollow(o, n, letter, value)
  /\ SwitchesFollow(o, n, letter)

SwitchesAreTyped(o) ==
  /\ o.useProvidedData \in BOOLEAN
  /\ o.limitEvaluation \in BOOLEAN
  /\ o.doDefinitionSchematron \in BOOLEAN
  /\ o.doDataSchematron \in BOOLEAN
  /\ o.doResultsSchematron \in BOOLEAN
  /\ o.noXsl \in BOOLEAN
  /\ o.verifyXMLfile \in BOOLEAN

\* One more option is taken, and the options are again what was taken says.
LEMMA OptionMovesOn ==
  ASSUME LineIsTyped, NEW p, NEW q, OptionTaken(p, q), NEW o, NEW n, OptionIs(o, p),
         OptionFollows(o, n, line[p + 1].letter, After(p + 1))
  PROVE  OptionIs(n, q)
<1> DEFINE letter == line[p + 1].letter
           value == After(p + 1)
<1>1. \A letters, default : MeantTo(letters, default, q) =
        IF letter \in letters THEN value ELSE MeantTo(letters, default, p)
  BY MeantGrows
<1>2. \A a : LastNamed(a, q) =
        IF letter = a /\ value # <<>> THEN value ELSE LastNamed(a, p)
  BY NamedGrows
<1>3. \A letters : (UsesTo(letters, q) # {}) = (letter \in letters \/ UsesTo(letters, p) # {})
  BY SwitchGrows
<1>4. \A a : NamedTo(a, q) = {} <=> ~ (letter = a /\ value # <<>>) /\ NamedTo(a, p) = {}
  BY NamedSetGrows
<1>5. /\ DOMAIN n = Fields /\ PathsFollow(o, n, letter, value)
      /\ SheetsFollow(o, n, letter, value) /\ SwitchesFollow(o, n, letter)
  BY DEF OptionFollows
<1>6. PathsAre(o, p) /\ SheetsAre(o, p) /\ SwitchesAre(o, p)
  BY DEF OptionIs
<1> HIDE DEF letter, value
<1>7. PathsAre(n, q)
  BY <1>1, <1>5, <1>6 DEF PathsAre, PathsFollow
<1>8. SheetsAre(n, q)
  <2>1. n.definitionSchematron = LastNamed("c", q)
       /\ (LastNamed("c", q) = <<>> => NamedTo("c", q) = {})
    BY <1>2, <1>4, <1>5, <1>6 DEF SheetsAre, SheetsFollow
  <2>2. n.dataSchematron = LastNamed("j", q)
       /\ (LastNamed("j", q) = <<>> => NamedTo("j", q) = {})
    BY <1>2, <1>4, <1>5, <1>6 DEF SheetsAre, SheetsFollow
  <2>3. n.resultsSchematron = LastNamed("k", q)
       /\ (LastNamed("k", q) = <<>> => NamedTo("k", q) = {})
    BY <1>2, <1>4, <1>5, <1>6 DEF SheetsAre, SheetsFollow
  <2>4. n.xslFile = LastNamed("t", q)
       /\ (LastNamed("t", q) = <<>> => NamedTo("t", q) = {})
    BY <1>2, <1>4, <1>5, <1>6 DEF SheetsAre, SheetsFollow
  <2> QED
    BY <2>1, <2>2, <2>3, <2>4 DEF SheetsAre
<1>9. SwitchesAre(n, q)
  <2>1. UsesTo({"m"}, q) # {} <=> letter = "m" \/ UsesTo({"m"}, p) # {}
    BY <1>3
  <2>2. n.verifyXMLfile = (UsesTo({"m"}, q) = {})
    BY <1>5, <1>6, <2>1 DEF SwitchesAre, SwitchesFollow
  <2>3. n.useProvidedData = (UsesTo({"i"}, q) # {})
    BY <1>3, <1>5, <1>6 DEF SwitchesAre, SwitchesFollow
  <2>4. n.limitEvaluation = (UsesTo({"e", "f"}, q) # {})
    BY <1>3, <1>5, <1>6 DEF SwitchesAre, SwitchesFollow
  <2>5. n.doDefinitionSchematron = (UsesTo({"c"}, q) # {})
    BY <1>3, <1>5, <1>6 DEF SwitchesAre, SwitchesFollow
  <2>6. n.doDataSchematron = (UsesTo({"j"}, q) # {})
    BY <1>3, <1>5, <1>6 DEF SwitchesAre, SwitchesFollow
  <2>7. n.doResultsSchematron = (UsesTo({"k"}, q) # {})
    BY <1>3, <1>5, <1>6 DEF SwitchesAre, SwitchesFollow
  <2>8. n.noXsl = (UsesTo({"s"}, q) # {})
    BY <1>3, <1>5, <1>6 DEF SwitchesAre, SwitchesFollow
  <2> QED
    BY <2>2, <2>3, <2>4, <2>5, <2>6, <2>7, <2>8 DEF SwitchesAre
<1> QED
  BY <1>5, <1>7, <1>8, <1>9 DEF OptionIs

-----------------------------------------------------------------------------
\* What is taken.
Value == IF Named THEN argv[2].text ELSE <<>>

LEMMA ArgumentsAreAhead ==
  ASSUME LeftIsEnd, argv # <<>>
  PROVE  /\ Taken \in Nat /\ Taken + 1 <= Len(line)
         /\ argv[1] = line[Taken + 1]
         /\ Named => Taken + 2 <= Len(line) /\ ~ line[Taken + 2].dash
         /\ Value = After(Taken + 1)
<1>1. Len(line) \in Nat /\ Len(argv) \in Nat /\ Len(argv) <= Len(line) /\ Len(argv) # 0
  BY DEF LeftIsEnd, LineIsTyped
<1>2. Taken \in Nat /\ Taken + 1 <= Len(line)
  BY <1>1 DEF Taken
<1>3. \A k \in 1 .. Len(argv) : argv[k] = line[Taken + k]
  BY DEF LeftIsEnd
<1>4. argv[1] = line[Taken + 1]
  BY <1>1, <1>3
<1>5. CASE Len(argv) > 1
  <2>1. argv[2] = line[Taken + 2]
    BY <1>1, <1>3, <1>5
  <2>2. (Taken + 1) + 1 = Taken + 2 /\ Taken + 1 < Len(line) /\ Taken + 2 <= Len(line)
    BY <1>1, <1>2, <1>5 DEF Taken
  <2> QED
    BY <1>2, <1>4, <1>5, <2>1, <2>2 DEF Value, Named, After
<1>6. CASE ~ (Len(argv) > 1)
  <2>1. ~ (Taken + 1 < Len(line))
    BY <1>1, <1>6 DEF Taken
  <2> QED
    BY <1>2, <1>4, <1>6, <2>1 DEF Value, Named, After
<1> QED
  BY <1>5, <1>6

LEMMA TakeMoves ==
  ASSUME LeftIsEnd, NEW n \in {1, 2}, n <= Len(argv), Take(n), line' = line
  PROVE  LeftIsEnd' /\ Taken' = Taken + n
<1> DEFINE Arguments == [dash : BOOLEAN, letter : STRING, text : Seq(STRING)]
<1>1. argv \in Seq(Arguments) /\ line \in Seq(Arguments) /\ Len(argv) <= Len(line)
      /\ \A k \in 1 .. Len(argv) : argv[k] = line[Len(line) - Len(argv) + k]
  BY DEF LeftIsEnd, LineIsTyped, Taken
<1> HIDE DEF Arguments
<1>2. argv' \in Seq(Arguments) /\ Len(argv') = Len(argv) - n
      /\ \A k \in 1 .. Len(argv) - n : argv'[k] = argv[k + n]
  BY <1>1 DEF Take
<1>3. Len(argv') \in Nat /\ Len(argv') <= Len(line) /\ (argv' = <<>> <=> Len(argv') = 0)
      /\ \A k \in 1 .. Len(argv') : argv'[k] = line[Len(line) - Len(argv') + k]
  <2>1. \A k \in 1 .. Len(argv') : k + n \in 1 .. Len(argv) /\ k \in 1 .. Len(argv) - n
          /\ Len(line) - Len(argv) + (k + n) = Len(line) - Len(argv') + k
    BY <1>1, <1>2
  <2>2. \A k \in 1 .. Len(argv') : argv'[k] = line[Len(line) - Len(argv') + k]
    BY <1>1, <1>2, <2>1
  <2> QED
    BY <1>1, <1>2, <2>2
<1>4. Taken' = Taken + n
  BY <1>1, <1>2 DEF Taken
<1> QED
  BY <1>1, <1>2, <1>3, <1>4 DEF LeftIsEnd, LineIsTyped, Taken, Arguments

-----------------------------------------------------------------------------
\* What each kind of option does.
HashIsWord == option.xmlfileMD5 # <<>> =>
  argv = <<>> /\ ~ line[Len(line)].dash /\ option.xmlfileMD5 = line[Len(line)].text

\* One field is given a value, or two are.
Changed(o, n, names) == DOMAIN n = Fields /\ \A f \in Fields \ names : n[f] = o[f]

LEMMA OneFieldChanges ==
  ASSUME NEW o, DOMAIN o = Fields, NEW name \in Fields, NEW value, NEW n,
         n = [o EXCEPT ![name] = value]
  PROVE  n[name] = value /\ Changed(o, n, {name})
BY DEF Changed

LEMMA ValueIsFollowed ==
  ASSUME NEW value, DOMAIN option = Fields, NEW letter \in TakesValue,
         letter = "t" => value # <<>>, SwitchesAreTyped(option)
  PROVE  OptionFollows(option, SetValue(letter, value), letter, value)
<1> DEFINE n == SetValue(letter, value)
<1>1. CASE letter = "d"
  <2>1. n = [option EXCEPT !["dataFile"] = value]
    BY <1>1 DEF SetValue
  <2>2. n.dataFile = value /\ Changed(option, n, {"dataFile"})
    BY <2>1, OneFieldChanges DEF Fields
  <2> HIDE DEF n
  <2>3. OptionFollows(option, n, letter, value)
    BY <1>1, <2>2
    DEF OptionFollows, PathsFollow, SheetsFollow, SwitchesFollow, SwitchesAreTyped,
        Changed, Fields
  <2> QED
    BY <2>3 DEF n
<1>2. CASE letter = "o"
  <2>1. n = [option EXCEPT !["xmlfile"] = value]
    BY <1>2 DEF SetValue
  <2>2. n.xmlfile = value /\ Changed(option, n, {"xmlfile"})
    BY <2>1, OneFieldChanges DEF Fields
  <2> HIDE DEF n
  <2>3. OptionFollows(option, n, letter, value)
    BY <1>2, <2>2
    DEF OptionFollows, PathsFollow, SheetsFollow, SwitchesFollow, SwitchesAreTyped,
        Changed, Fields
  <2> QED
    BY <2>3 DEF n
<1>3. CASE letter = "r"
  <2>1. n = [option EXCEPT !["outputFilename"] = value]
    BY <1>3 DEF SetValue
  <2>2. n.outputFilename = value /\ Changed(option, n, {"outputFilename"})
    BY <2>1, OneFieldChanges DEF Fields
  <2> HIDE DEF n
  <2>3. OptionFollows(option, n, letter, value)
    BY <1>3, <2>2
    DEF OptionFollows, PathsFollow, SheetsFollow, SwitchesFollow, SwitchesAreTyped,
        Changed, Fields
  <2> QED
    BY <2>3 DEF n
<1>4. CASE letter = "t"
  <2>1. n = [option EXCEPT !["xslFile"] = value]
    BY <1>4 DEF SetValue
  <2>2. n.xslFile = value /\ Changed(option, n, {"xslFile"})
    BY <2>1, OneFieldChanges DEF Fields
  <2> HIDE DEF n
  <2>3. OptionFollows(option, n, letter, value)
    BY <1>4, <2>2
    DEF OptionFollows, PathsFollow, SheetsFollow, SwitchesFollow, SwitchesAreTyped,
        Changed, Fields
  <2> QED
    BY <2>3 DEF n
<1>5. CASE letter = "x"
  <2>1. n = [option EXCEPT !["xslOutputFile"] = value]
    BY <1>5 DEF SetValue
  <2>2. n.xslOutputFile = value /\ Changed(option, n, {"xslOutputFile"})
    BY <2>1, OneFieldChanges DEF Fields
  <2> HIDE DEF n
  <2>3. OptionFollows(option, n, letter, value)
    BY <1>5, <2>2
    DEF OptionFollows, PathsFollow, SheetsFollow, SwitchesFollow, SwitchesAreTyped,
        Changed, Fields
  <2> QED
    BY <2>3 DEF n
<1>6. CASE letter = "y"
  <2>1. n = [option EXCEPT !["logFileLocation"] = value]
    BY <1>6 DEF SetValue
  <2>2. n.logFileLocation = value /\ Changed(option, n, {"logFileLocation"})
    BY <2>1, OneFieldChanges DEF Fields
  <2> HIDE DEF n
  <2>3. OptionFollows(option, n, letter, value)
    BY <1>6, <2>2
    DEF OptionFollows, PathsFollow, SheetsFollow, SwitchesFollow, SwitchesAreTyped,
        Changed, Fields
  <2> QED
    BY <2>3 DEF n
<1>7. CASE letter = "v"
  <2>1. n = [option EXCEPT !["externalVariablesFile"] = value]
    BY <1>7 DEF SetValue
  <2>2. n.externalVariablesFile = value /\ Changed(option, n, {"externalVariablesFile"})
    BY <2>1, OneFieldChanges DEF Fields
  <2> HIDE DEF n
  <2>3. OptionFollows(option, n, letter, value)
    BY <1>7, <2>2
    DEF OptionFollows, PathsFollow, SheetsFollow, SwitchesFollow, SwitchesAreTyped,
        Changed, Fields
  <2> QED
    BY <2>3 DEF n
<1>8. CASE letter = "g"
  <2>1. n = [option EXCEPT !["directivesConfigFile"] = value]
    BY <1>8 DEF SetValue
  <2>2. n.directivesConfigFile = value /\ Changed(option, n, {"directivesConfigFile"})
    BY <2>1, OneFieldChanges DEF Fields
  <2> HIDE DEF n
  <2>3. OptionFollows(option, n, letter, value)
    BY <1>8, <2>2
    DEF OptionFollows, PathsFollow, SheetsFollow, SwitchesFollow, SwitchesAreTyped,
        Changed, Fields
  <2> QED
    BY <2>3 DEF n
<1>9. CASE letter = "a"
  <2>1. n = [option EXCEPT !["schemapath"] = value]
    BY <1>9 DEF SetValue
  <2>2. n.schemapath = value /\ Changed(option, n, {"schemapath"})
    BY <2>1, OneFieldChanges DEF Fields
  <2> HIDE DEF n
  <2>3. OptionFollows(option, n, letter, value)
    BY <1>9, <2>2
    DEF OptionFollows, PathsFollow, SheetsFollow, SwitchesFollow, SwitchesAreTyped,
        Changed, Fields
  <2> QED
    BY <2>3 DEF n
<1>10. CASE letter = "i"
  <2> DEFINE m == [option EXCEPT !["dataFile"] = value]
  <2>1. m = [option EXCEPT !["dataFile"] = value]
    OBVIOUS
  <2>2. n = [m EXCEPT !["useProvidedData"] = TRUE]
    BY <1>10 DEF SetValue
  <2> HIDE DEF m, n
  <2>3. m.dataFile = value /\ Changed(option, m, {"dataFile"})
    BY <2>1, OneFieldChanges DEF Fields
  <2>4. n.useProvidedData = TRUE /\ Changed(m, n, {"useProvidedData"})
    BY <2>2, <2>3, OneFieldChanges DEF Fields, Changed
  <2>5. OptionFollows(option, n, letter, value)
    BY <1>10, <2>3, <2>4
    DEF OptionFollows, PathsFollow, SheetsFollow, SwitchesFollow, SwitchesAreTyped,
        Changed, Fields
  <2> QED
    BY <2>5 DEF n
<1>11. CASE letter = "e"
  <2> DEFINE m == [option EXCEPT !["definitionIds"] = value]
  <2>1. m = [option EXCEPT !["definitionIds"] = value]
    OBVIOUS
  <2>2. n = [m EXCEPT !["limitEvaluation"] = TRUE]
    BY <1>11 DEF SetValue
  <2> HIDE DEF m, n
  <2>3. m.definitionIds = value /\ Changed(option, m, {"definitionIds"})
    BY <2>1, OneFieldChanges DEF Fields
  <2>4. n.limitEvaluation = TRUE /\ Changed(m, n, {"limitEvaluation"})
    BY <2>2, <2>3, OneFieldChanges DEF Fields, Changed
  <2>5. OptionFollows(option, n, letter, value)
    BY <1>11, <2>3, <2>4
    DEF OptionFollows, PathsFollow, SheetsFollow, SwitchesFollow, SwitchesAreTyped,
        Changed, Fields
  <2> QED
    BY <2>5 DEF n
<1>12. CASE letter = "f"
  <2> DEFINE m == [option EXCEPT !["definitionIdsFile"] = value]
  <2>1. m = [option EXCEPT !["definitionIdsFile"] = value]
    OBVIOUS
  <2>2. n = [m EXCEPT !["limitEvaluation"] = TRUE]
    BY <1>12 DEF SetValue
  <2> HIDE DEF m, n
  <2>3. m.definitionIdsFile = value /\ Changed(option, m, {"definitionIdsFile"})
    BY <2>1, OneFieldChanges DEF Fields
  <2>4. n.limitEvaluation = TRUE /\ Changed(m, n, {"limitEvaluation"})
    BY <2>2, <2>3, OneFieldChanges DEF Fields, Changed
  <2>5. OptionFollows(option, n, letter, value)
    BY <1>12, <2>3, <2>4
    DEF OptionFollows, PathsFollow, SheetsFollow, SwitchesFollow, SwitchesAreTyped,
        Changed, Fields
  <2> QED
    BY <2>5 DEF n
<1>13. CASE letter = "l"
  <2>1. n = option
    BY <1>13 DEF SetValue
  <2> HIDE DEF n
  <2>3. OptionFollows(option, n, letter, value)
    BY <1>13, <2>1
    DEF OptionFollows, PathsFollow, SheetsFollow, SwitchesFollow, SwitchesAreTyped,
        Changed, Fields
  <2> QED
    BY <2>3 DEF n
<1> QED
  BY <1>1, <1>2, <1>3, <1>4, <1>5, <1>6, <1>7, <1>8, <1>9, <1>10, <1>11, <1>12, <1>13 DEF TakesValue, MustExist

LEMMA SheetIsFollowed ==
  ASSUME NEW path, DOMAIN option = Fields, NEW letter \in {"c", "j", "k"},
         path # <<>>, SwitchesAreTyped(option)
  PROVE  OptionFollows(option, DoSchematron(letter, SetSchematron(letter, path, option)), letter, path)
<1> DEFINE m == SetSchematron(letter, path, option)
           n == DoSchematron(letter, m)
<1>1. CASE letter = "c"
  <2>1. m = [option EXCEPT !["definitionSchematron"] = path]
    BY <1>1 DEF SetSchematron
  <2> HIDE DEF m
  <2>2. n = [m EXCEPT !["doDefinitionSchematron"] = TRUE]
    BY <1>1 DEF DoSchematron
  <2> HIDE DEF n
  <2>3. m.definitionSchematron = path /\ Changed(option, m, {"definitionSchematron"})
    BY <2>1, OneFieldChanges DEF Fields
  <2>4. n.doDefinitionSchematron = TRUE /\ Changed(m, n, {"doDefinitionSchematron"})
    BY <2>2, <2>3, OneFieldChanges DEF Fields, Changed
  <2>5. OptionFollows(option, n, letter, path)
    BY <1>1, <2>3, <2>4
    DEF OptionFollows, PathsFollow, SheetsFollow, SwitchesFollow, SwitchesAreTyped,
        Changed, Fields
  <2> QED
    BY <2>5 DEF m, n
<1>2. CASE letter = "j"
  <2>1. m = [option EXCEPT !["dataSchematron"] = path]
    BY <1>2 DEF SetSchematron
  <2> HIDE DEF m
  <2>2. n = [m EXCEPT !["doDataSchematron"] = TRUE]
    BY <1>2 DEF DoSchematron
  <2> HIDE DEF n
  <2>3. m.dataSchematron = path /\ Changed(option, m, {"dataSchematron"})
    BY <2>1, OneFieldChanges DEF Fields
  <2>4. n.doDataSchematron = TRUE /\ Changed(m, n, {"doDataSchematron"})
    BY <2>2, <2>3, OneFieldChanges DEF Fields, Changed
  <2>5. OptionFollows(option, n, letter, path)
    BY <1>2, <2>3, <2>4
    DEF OptionFollows, PathsFollow, SheetsFollow, SwitchesFollow, SwitchesAreTyped,
        Changed, Fields
  <2> QED
    BY <2>5 DEF m, n
<1>3. CASE letter = "k"
  <2>1. m = [option EXCEPT !["resultsSchematron"] = path]
    BY <1>3 DEF SetSchematron
  <2> HIDE DEF m
  <2>2. n = [m EXCEPT !["doResultsSchematron"] = TRUE]
    BY <1>3 DEF DoSchematron
  <2> HIDE DEF n
  <2>3. m.resultsSchematron = path /\ Changed(option, m, {"resultsSchematron"})
    BY <2>1, OneFieldChanges DEF Fields
  <2>4. n.doResultsSchematron = TRUE /\ Changed(m, n, {"doResultsSchematron"})
    BY <2>2, <2>3, OneFieldChanges DEF Fields, Changed
  <2>5. OptionFollows(option, n, letter, path)
    BY <1>3, <2>3, <2>4
    DEF OptionFollows, PathsFollow, SheetsFollow, SwitchesFollow, SwitchesAreTyped,
        Changed, Fields
  <2> QED
    BY <2>5 DEF m, n
<1> QED
  BY <1>1, <1>2, <1>3

LEMMA SwitchIsFollowed ==
  ASSUME DOMAIN option = Fields, NEW letter \in {"c", "j", "k"}, SwitchesAreTyped(option)
  PROVE  OptionFollows(option, DoSchematron(letter, option), letter, <<>>)
<1> DEFINE n == DoSchematron(letter, option)
<1>1. CASE letter = "c"
  <2>1. n = [option EXCEPT !["doDefinitionSchematron"] = TRUE]
    BY <1>1 DEF DoSchematron
  <2>2. n.doDefinitionSchematron = TRUE /\ Changed(option, n, {"doDefinitionSchematron"})
    BY <2>1, OneFieldChanges DEF Fields
  <2> HIDE DEF n
  <2>3. OptionFollows(option, n, letter, <<>>)
    BY <1>1, <2>2
    DEF OptionFollows, PathsFollow, SheetsFollow, SwitchesFollow, SwitchesAreTyped,
        Changed, Fields
  <2> QED
    BY <2>3 DEF n
<1>2. CASE letter = "j"
  <2>1. n = [option EXCEPT !["doDataSchematron"] = TRUE]
    BY <1>2 DEF DoSchematron
  <2>2. n.doDataSchematron = TRUE /\ Changed(option, n, {"doDataSchematron"})
    BY <2>1, OneFieldChanges DEF Fields
  <2> HIDE DEF n
  <2>3. OptionFollows(option, n, letter, <<>>)
    BY <1>2, <2>2
    DEF OptionFollows, PathsFollow, SheetsFollow, SwitchesFollow, SwitchesAreTyped,
        Changed, Fields
  <2> QED
    BY <2>3 DEF n
<1>3. CASE letter = "k"
  <2>1. n = [option EXCEPT !["doResultsSchematron"] = TRUE]
    BY <1>3 DEF DoSchematron
  <2>2. n.doResultsSchematron = TRUE /\ Changed(option, n, {"doResultsSchematron"})
    BY <2>1, OneFieldChanges DEF Fields
  <2> HIDE DEF n
  <2>3. OptionFollows(option, n, letter, <<>>)
    BY <1>3, <2>2
    DEF OptionFollows, PathsFollow, SheetsFollow, SwitchesFollow, SwitchesAreTyped,
        Changed, Fields
  <2> QED
    BY <2>3 DEF n
<1> QED
  BY <1>1, <1>2, <1>3

LEMMA FlagIsFollowed ==
  ASSUME DOMAIN option = Fields, SwitchesAreTyped(option), Flag, NEW value
  PROVE  OptionFollows(option, option', Letter, value)
<1> DEFINE n == option'
<1>0. Letter \in {"m", "s", "p", "z"}
  BY DEF Flag
<1>1. CASE Letter = "m"
  <2>1. n = [option EXCEPT !["verifyXMLfile"] = FALSE]
    BY <1>1 DEF Flag
  <2> HIDE DEF n
  <2>2. n.verifyXMLfile = FALSE /\ Changed(option, n, {"verifyXMLfile"})
    BY <2>1, OneFieldChanges DEF Fields
  <2>3. OptionFollows(option, n, Letter, value)
    BY <1>1, <2>2
    DEF OptionFollows, PathsFollow, SheetsFollow, SwitchesFollow, SwitchesAreTyped,
        Changed, Fields
  <2> QED
    BY <2>3 DEF n
<1>2. CASE Letter = "s"
  <2>1. n = [option EXCEPT !["noXsl"] = TRUE]
    BY <1>2 DEF Flag
  <2> HIDE DEF n
  <2>2. n.noXsl = TRUE /\ Changed(option, n, {"noXsl"})
    BY <2>1, OneFieldChanges DEF Fields
  <2>3. OptionFollows(option, n, Letter, value)
    BY <1>2, <2>2
    DEF OptionFollows, PathsFollow, SheetsFollow, SwitchesFollow, SwitchesAreTyped,
        Changed, Fields
  <2> QED
    BY <2>3 DEF n
<1>3. CASE Letter = "z"
  <2>1. n = [option EXCEPT !["generateMD5"] = TRUE]
    BY <1>3 DEF Flag
  <2> HIDE DEF n
  <2>2. n.generateMD5 = TRUE /\ Changed(option, n, {"generateMD5"})
    BY <2>1, OneFieldChanges DEF Fields
  <2>3. OptionFollows(option, n, Letter, value)
    BY <1>3, <2>2
    DEF OptionFollows, PathsFollow, SheetsFollow, SwitchesFollow, SwitchesAreTyped,
        Changed, Fields
  <2> QED
    BY <2>3 DEF n
<1>4. CASE Letter = "p"
  <2>1. n = option
    BY <1>4 DEF Flag
  <2> HIDE DEF n
  <2>3. OptionFollows(option, n, Letter, value)
    BY <1>4, <2>1
    DEF OptionFollows, PathsFollow, SheetsFollow, SwitchesFollow, SwitchesAreTyped
  <2> QED
    BY <2>3 DEF n
<1> QED
  BY <1>0, <1>1, <1>2, <1>3, <1>4

-----------------------------------------------------------------------------
\* The line stands, and so does what it means.
LEMMA MeaningStands ==
  ASSUME line' = line, NEW q, Taken' = q, OptionIs(option', q)
  PROVE  OptionIs(option, Taken)'
<1>1. \A letters : Uses(letters)' = Uses(letters)
  BY DEF Uses
<1>2. \A i : After(i)' = After(i)
  BY DEF After
<1>3. \A S, d : AfterLast(S, d)' = AfterLast(S, d)
  BY <1>2 DEF AfterLast
<1>4. \A letters : UsesTo(letters, q)' = UsesTo(letters, q)
  BY <1>1 DEF UsesTo
<1>5. \A letter : NamedTo(letter, q)' = NamedTo(letter, q)
  BY <1>2, <1>4 DEF NamedTo
<1>6. \A letters, d : MeantTo(letters, d, q)' = MeantTo(letters, d, q)
  BY <1>3, <1>4 DEF MeantTo
<1>7. \A letter : LastNamed(letter, q)' = LastNamed(letter, q)
  BY <1>3, <1>5 DEF LastNamed
<1>8. PathsAre(option, Taken)'
  BY <1>6 DEF PathsAre, OptionIs
<1>9. SheetsAre(option, Taken)'
  BY <1>5, <1>7 DEF SheetsAre, OptionIs
<1>10. SwitchesAre(option, Taken)'
  BY <1>4 DEF SwitchesAre, OptionIs
<1> QED
  BY <1>8, <1>9, <1>10 DEF OptionIs, Fields

LEMMA WordMeansNothing ==
  ASSUME LineIsTyped, NEW p \in Nat, p + 1 <= Len(line), ~ line[p + 1].dash
  PROVE  \A letters : UsesTo(letters, p + 1) = UsesTo(letters, p)
<1>1. DOMAIN line = 1 .. Len(line) /\ Len(line) \in Nat
  BY DEF LineIsTyped
<1>2. ASSUME NEW letters, NEW i \in Uses(letters) PROVE i <= p + 1 <=> i <= p
  <2>1. i \in Nat /\ i # p + 1
    BY <1>1, <1>2 DEF Uses
  <2> QED
    BY <2>1
<1> QED
  BY <1>2 DEF UsesTo

LEMMA WordMoves ==
  ASSUME LineIsTyped, NEW p \in Nat, p + 1 <= Len(line), ~ line[p + 1].dash,
         NEW o, NEW n, OptionIs(o, p), Changed(o, n, {"xmlfileMD5"})
  PROVE  OptionIs(n, p + 1)
<1>1. \A letters : UsesTo(letters, p + 1) = UsesTo(letters, p)
  BY WordMeansNothing
<1>2. \A letters, d : MeantTo(letters, d, p + 1) = MeantTo(letters, d, p)
  BY <1>1 DEF MeantTo
<1>3. \A letter : NamedTo(letter, p + 1) = NamedTo(letter, p)
  BY <1>1 DEF NamedTo
<1>4. \A letter : LastNamed(letter, p + 1) = LastNamed(letter, p)
  BY <1>3 DEF LastNamed
<1>5. PathsAre(n, p + 1)
  BY <1>2 DEF OptionIs, PathsAre, Changed, Fields
<1>6. SheetsAre(n, p + 1)
  BY <1>3, <1>4 DEF OptionIs, SheetsAre, Changed, Fields
<1>7. SwitchesAre(n, p + 1)
  BY <1>1 DEF OptionIs, SwitchesAre, Changed, Fields
<1> QED
  BY <1>5, <1>6, <1>7 DEF OptionIs, Changed

-----------------------------------------------------------------------------
\* The arguments, one by one.
MeaningInv ==
  /\ phase = "arguments" => LeftIsEnd /\ OptionIs(option, Taken) /\ HashIsWord
  /\ CommandLineMeans

LEMMA InitMeans == Init => MeaningInv
<1> SUFFICES ASSUME Init PROVE MeaningInv
  OBVIOUS
<1> DEFINE Arguments == [dash : BOOLEAN, letter : STRING, text : Seq(STRING)]
<1>1. line \in Seq(Arguments) /\ argv = line /\ option = DefaultOptions
      /\ phase = "arguments"
  BY CommandLinesAssumption DEF Init
<1> HIDE DEF Arguments
<1>2. Len(line) \in Nat /\ DOMAIN line = 1 .. Len(line) /\ Taken = 0
      /\ (argv = <<>> <=> Len(argv) = 0)
  BY <1>1 DEF Taken
<1>3. LeftIsEnd
  BY <1>1, <1>2 DEF LeftIsEnd, LineIsTyped, Arguments
<1>4. \A letters : UsesTo(letters, 0) = {}
  BY <1>2 DEF UsesTo, Uses
<1>5. \A letter : NamedTo(letter, 0) = {}
  BY <1>4 DEF NamedTo
<1>6. \A letters, d : MeantTo(letters, d, 0) = d
  BY <1>4 DEF MeantTo, AfterLast
<1>7. \A letter : LastNamed(letter, 0) = <<>>
  BY <1>5 DEF LastNamed, AfterLast
<1>8. PathsAre(option, 0) /\ SheetsAre(option, 0) /\ SwitchesAre(option, 0)
  <2>1. PathsAre(DefaultOptions, 0)
    BY <1>6 DEF PathsAre, DefaultOptions
  <2>2. SheetsAre(DefaultOptions, 0)
    BY <1>5, <1>7 DEF SheetsAre, DefaultOptions
  <2>3. SwitchesAre(DefaultOptions, 0)
    BY <1>4 DEF SwitchesAre, DefaultOptions
  <2> QED
    BY <1>1, <2>1, <2>2, <2>3
<1>9. OptionIs(option, Taken)
  <2>1. DOMAIN DefaultOptions = Fields
    BY DEF DefaultOptions, Fields
  <2> QED
    BY <1>1, <1>2, <1>8, <2>1 DEF OptionIs
<1>10. option.xmlfileMD5 = <<>>
  BY <1>1 DEF DefaultOptions
<1>11. CommandLineMeans
  BY <1>1 DEF CommandLineMeans
<1> QED
  BY <1>3, <1>9, <1>10, <1>11 DEF MeaningInv, HashIsWord

\* An option that is taken, alone or with its value.
LEMMA OptionIsMeant ==
  ASSUME LeftIsEnd, argv # <<>>, argv[1].dash, OptionIs(option, Taken),
         NEW n \in {1, 2}, n = 2 => Named, Take(n), line' = line,
         OptionFollows(option, option', Letter, Value)
  PROVE  LeftIsEnd' /\ OptionIs(option, Taken)' /\ option'.xmlfileMD5 = option.xmlfileMD5
<1>1. /\ Taken \in Nat /\ Taken + 1 <= Len(line) /\ argv[1] = line[Taken + 1]
      /\ Named => Taken + 2 <= Len(line) /\ ~ line[Taken + 2].dash
      /\ Value = After(Taken + 1)
  BY ArgumentsAreAhead
<1>2. n <= Len(argv)
  BY DEF LeftIsEnd, Named
<1>3. LeftIsEnd' /\ Taken' = Taken + n
  BY <1>2, TakeMoves
<1>4. OptionTaken(Taken, Taken + n)
  BY <1>1 DEF OptionTaken, LeftIsEnd, LineIsTyped
<1>5. OptionFollows(option, option', line[Taken + 1].letter, After(Taken + 1))
  BY <1>1 DEF Letter
<1>6. OptionIs(option', Taken + n)
  BY <1>4, <1>5, OptionMovesOn DEF LeftIsEnd
<1>7. OptionIs(option, Taken)'
  BY <1>3, <1>6, MeaningStands
<1> QED
  BY <1>3, <1>7 DEF OptionFollows

LEMMA ArgumentMeans ==
  ASSUME MeaningInv, ProcessArgument PROVE MeaningInv'
<1>1. /\ phase = "arguments" /\ argv # <<>> /\ line' = line
      /\ LeftIsEnd /\ OptionIs(option, Taken) /\ HashIsWord
  BY DEF ProcessArgument, MeaningInv
<1>2. DOMAIN option = Fields /\ SwitchesAreTyped(option) /\ option.xmlfileMD5 = <<>>
  BY <1>1 DEF OptionIs, SwitchesAre, SwitchesAreTyped, HashIsWord
<1>3. CASE phase' = "ended"
  BY <1>3 DEF MeaningInv, CommandLineMeans
<1>4. ASSUME phase' = "arguments", LeftIsEnd', OptionIs(option, Taken)', HashIsWord'
      PROVE  MeaningInv'
  BY <1>4 DEF MeaningInv, CommandLineMeans
<1>5. ASSUME phase' = phase, NEW n \in {1, 2}, n = 2 => Named, Take(n), argv[1].dash,
             OptionFollows(option, option', Letter, Value)
      PROVE  MeaningInv'
  <2>1. LeftIsEnd' /\ OptionIs(option, Taken)' /\ option'.xmlfileMD5 = <<>>
    BY <1>1, <1>2, <1>5, OptionIsMeant
  <2>2. HashIsWord'
    BY <2>1 DEF HashIsWord
  <2> QED
    BY <1>1, <1>4, <1>5, <2>1, <2>2
<1>6. CASE OptionWithValue
  <2>1. argv[1].dash /\ Letter \in TakesValue
    BY <1>6 DEF OptionWithValue
  <2>2. CASE InputError
    BY <1>3, <2>2 DEF InputError, Exit
  <2>3. CASE Named /\ (Letter \in MustExist => FileExists(argv[2].text))
             /\ option' = SetValue(Letter, argv[2].text) /\ Take(2) /\ phase' = phase
    <3>1. Value = argv[2].text /\ (Letter = "t" => Value # <<>>)
      BY <2>3 DEF Value, FileExists, MustExist
    <3>2. OptionFollows(option, option', Letter, Value)
      BY <1>2, <2>1, <2>3, <3>1, ValueIsFollowed
    <3> QED
      BY <1>5, <2>1, <2>3, <3>2
  <2> QED
    BY <1>6, <2>2, <2>3 DEF OptionWithValue
<1>7. CASE SchematronOption
  <2>1. argv[1].dash /\ Letter \in {"c", "j", "k"}
    BY <1>7 DEF SchematronOption
  <2>2. CASE InputError
    BY <1>3, <2>2 DEF InputError, Exit
  <2>3. CASE /\ Named /\ FileExists(argv[2].text) /\ Take(2) /\ phase' = phase
             /\ option' = DoSchematron(Letter, SetSchematron(Letter, argv[2].text, option))
    <3>1. Value = argv[2].text /\ Value # <<>>
      BY <2>3 DEF Value, FileExists
    <3>2. OptionFollows(option, option', Letter, Value)
      BY <1>2, <2>1, <2>3, <3>1, SheetIsFollowed
    <3> QED
      BY <1>5, <2>1, <2>3, <3>2
  <2>4. CASE ~ Named /\ Take(1) /\ phase' = phase /\ option' = DoSchematron(Letter, option)
    <3>1. Value = <<>>
      BY <2>4 DEF Value
    <3>2. OptionFollows(option, option', Letter, Value)
      BY <1>2, <2>1, <2>4, <3>1, SwitchIsFollowed
    <3> QED
      BY <1>5, <2>1, <2>4, <3>2
  <2> QED
    BY <1>7, <2>2, <2>3, <2>4 DEF SchematronOption
<1>8. CASE Flag
  <2>1. OptionFollows(option, option', Letter, Value)
    BY <1>2, <1>8, FlagIsFollowed
  <2>2. argv[1].dash /\ Take(1) /\ phase' = phase
    BY <1>8 DEF Flag
  <2> QED
    BY <1>5, <2>1, <2>2
<1>9. CASE Help
  BY <1>3, <1>9 DEF Help, Exit
<1>10. CASE Hash
  <2>1. ~ argv[1].dash
    BY <1>10 DEF Hash
  <2>2. CASE InputError
    BY <1>3, <2>2 DEF InputError, Exit
  <2>3. CASE /\ Len(argv) = 1 /\ Take(1) /\ phase' = phase
             /\ option' = [option EXCEPT !.xmlfileMD5 = argv[1].text]
    <3>1. Taken \in Nat /\ Taken + 1 <= Len(line) /\ argv[1] = line[Taken + 1]
      BY <1>1, ArgumentsAreAhead
    <3>2. Taken + 1 = Len(line) /\ LineIsTyped /\ 1 <= Len(argv)
      <4>1. LineIsTyped /\ Len(line) \in Nat
        BY <1>1 DEF LeftIsEnd, LineIsTyped
      <4>2. Taken = Len(line) - 1
        BY <2>3 DEF Taken
      <4>3. 1 <= Len(argv)
        BY <2>3
      <4> QED
        BY <4>1, <4>2, <4>3
    <3>3. LeftIsEnd' /\ Taken' = Taken + 1
      BY <1>1, <2>3, <3>2, TakeMoves
    <3>4. OptionIs(option', Taken + 1) /\ option'.xmlfileMD5 = argv[1].text
      <4>1. ~ line[Taken + 1].dash
        BY <2>1, <3>1
      <4>2. option' = [option EXCEPT !["xmlfileMD5"] = argv[1].text]
        BY <2>3
      <4>3. option'.xmlfileMD5 = argv[1].text /\ Changed(option, option', {"xmlfileMD5"})
        BY <1>2, <4>2, OneFieldChanges DEF Fields
      <4> QED
        BY <1>1, <3>1, <3>2, <4>1, <4>3, WordMoves
    <3>5. OptionIs(option, Taken)'
      BY <1>1, <3>3, <3>4, MeaningStands
    <3>6. argv' = <<>>
      BY <1>1, <2>3 DEF Take, LeftIsEnd
    <3>7. HashIsWord'
      BY <1>1, <2>1, <3>1, <3>2, <3>4, <3>6 DEF HashIsWord
    <3> QED
      BY <1>1, <1>4, <2>3, <3>3, <3>5, <3>7
  <2> QED
    BY <1>10, <2>2, <2>3 DEF Hash
<1> QED
  BY <1>6, <1>7, <1>8, <1>9, <1>10 DEF ProcessArgument

-----------------------------------------------------------------------------
\* At the end of the line the meaning is that of the line.
LEMMA AllIsTaken ==
  ASSUME LeftIsEnd, argv = <<>>
  PROVE  /\ \A letters : UsesTo(letters, Taken) = Uses(letters)
         /\ \A letters, d : MeantTo(letters, d, Taken) = Meant(letters, d)
         /\ \A letter : NamedTo(letter, Taken) = NamedBy(letter)
<1>1. Len(line) \in Nat /\ DOMAIN line = 1 .. Len(line) /\ Taken = Len(line)
  BY DEF LeftIsEnd, LineIsTyped, Taken
<1>2. \A letters : UsesTo(letters, Taken) = Uses(letters)
  BY <1>1 DEF UsesTo, Uses
<1>3. \A letters : LastOf(Uses(letters)) = Last(letters)
  BY DEF LastOf, Last
<1>4. \A letters, d : MeantTo(letters, d, Taken) = Meant(letters, d)
  BY <1>2, <1>3 DEF MeantTo, Meant, AfterLast
<1>5. \A letter : NamedTo(letter, Taken) = NamedBy(letter)
  BY <1>2 DEF NamedTo, NamedBy
<1> QED
  BY <1>2, <1>4, <1>5

\* A stylesheet that was not named comes from the directory of the schema.
LEMMA SheetIsMeant ==
  ASSUME LeftIsEnd, argv = <<>>, NEW letter, NEW name, NEW path,
         path = LastNamed(letter, Taken),
         LastNamed(letter, Taken) = <<>> => NamedTo(letter, Taken) = {}
  PROVE  (IF path # <<>> THEN path ELSE Append(Meant({"a"}, SchemaPath), name))
           = Stylesheet(letter, name)
<1>1. NamedTo(letter, Taken) = NamedBy(letter)
  BY AllIsTaken
<1>2. path = AfterLast(NamedBy(letter), <<>>) /\ (path = <<>> => NamedBy(letter) = {})
  BY <1>1 DEF LastNamed
<1>3. CASE NamedBy(letter) = {}
  BY <1>2, <1>3 DEF AfterLast, Stylesheet
<1>4. CASE NamedBy(letter) # {}
  <2>1. path # <<>> /\ path = After(LastOf(NamedBy(letter)))
    BY <1>2, <1>4 DEF AfterLast
  <2> QED
    BY <1>4, <2>1 DEF LastOf, Stylesheet
<1> QED
  BY <1>3, <1>4

Sheets == {"definitionSchematron", "dataSchematron", "resultsSchematron", "xslFile"}

LEMMA DefaultsFill ==
  ASSUME NEW o, DOMAIN o = Fields, NEW n, n = WithDefaults(o)
  PROVE  /\ DOMAIN n = Fields /\ \A f \in Fields \ Sheets : n[f] = o[f]
         /\ n.definitionSchematron =
              Default(o.definitionSchematron, o, "oval-definitions-schematron.xsl")
         /\ n.dataSchematron =
              Default(o.dataSchematron, o, "oval-system-characteristics-schematron.xsl")
         /\ n.resultsSchematron =
              Default(o.resultsSchematron, o, "oval-results-schematron.xsl")
         /\ ~ o.noXsl => n.xslFile = Default(o.xslFile, o, "results_to_html.xsl")
BY DEF WithDefaults, Fields, Sheets

\* As the line stands, so does what it means.
LEMMA LineMeansTheSame ==
  ASSUME line' = line
  PROVE  /\ \A letters : Uses(letters)' = Uses(letters)
         /\ \A letters, d : Meant(letters, d)' = Meant(letters, d)
         /\ \A letter, name : Stylesheet(letter, name)' = Stylesheet(letter, name)
<1>1. \A letters : Uses(letters)' = Uses(letters)
  BY DEF Uses
<1>2. \A i : After(i)' = After(i)
  BY DEF After
<1>3. \A letters : Last(letters)' = Last(letters)
  BY <1>1 DEF Last
<1>4. \A letters, d : Meant(letters, d)' = Meant(letters, d)
  BY <1>1, <1>2, <1>3 DEF Meant
<1>5. \A letter : NamedBy(letter)' = NamedBy(letter)
  BY <1>1, <1>2 DEF NamedBy
<1>6. \A S : AfterLast(S, <<>>)' = AfterLast(S, <<>>)
  BY <1>2 DEF AfterLast
<1>7. \A letter, name : Stylesheet(letter, name)' = Stylesheet(letter, name)
  <2>1. \A letter, name : Stylesheet(letter, name) =
          IF NamedBy(letter) = {} THEN Append(Meant({"a"}, SchemaPath), name)
          ELSE AfterLast(NamedBy(letter), <<>>)
    BY DEF Stylesheet, AfterLast, LastOf
  <2>2. \A letter, name : Stylesheet(letter, name)' =
          IF NamedBy(letter)' = {} THEN Append(Meant({"a"}, SchemaPath)', name)
          ELSE AfterLast(NamedBy(letter), <<>>)'
    BY DEF Stylesheet, AfterLast, LastOf
  <2>3. \A letter : AfterLast(NamedBy(letter), <<>>)' = AfterLast(NamedBy(letter), <<>>)
    BY <1>5, <1>6
  <2> QED
    BY <1>4, <1>5, <2>1, <2>2, <2>3
<1> QED
  BY <1>1, <1>4, <1>7

LEMMA CheckMeans ==
  ASSUME MeaningInv, CheckArguments PROVE MeaningInv'
<1>1. /\ phase = "arguments" /\ argv = <<>> /\ line' = line
      /\ LeftIsEnd /\ OptionIs(option, Taken) /\ HashIsWord
  BY DEF CheckArguments, MeaningInv
<1>2. CASE InputError
  BY <1>2 DEF InputError, Exit, MeaningInv, CommandLineMeans
<1>3. CASE /\ option' = WithDefaults(option) /\ phase' = "log"
           /\ ~ (WithDefaults(option).verifyXMLfile /\ WithDefaults(option).xmlfileMD5 = <<>>)
  <2> DEFINE o == option
             n == option'
  <2>1. /\ DOMAIN n = Fields /\ \A f \in Fields \ Sheets : n[f] = o[f]
        /\ n.definitionSchematron =
             Default(o.definitionSchematron, o, "oval-definitions-schematron.xsl")
        /\ n.dataSchematron =
             Default(o.dataSchematron, o, "oval-system-characteristics-schematron.xsl")
        /\ n.resultsSchematron =
             Default(o.resultsSchematron, o, "oval-results-schematron.xsl")
        /\ ~ o.noXsl => n.xslFile = Default(o.xslFile, o, "results_to_html.xsl")
    BY <1>1, <1>3, DefaultsFill DEF OptionIs
  <2>2. PathsAre(o, Taken) /\ SheetsAre(o, Taken) /\ SwitchesAre(o, Taken)
    BY <1>1 DEF OptionIs
  <2>3. /\ \A letters : UsesTo(letters, Taken) = Uses(letters)
        /\ \A letters, d : MeantTo(letters, d, Taken) = Meant(letters, d)
    BY <1>1, AllIsTaken
  <2>4. /\ \A letters : Uses(letters)' = Uses(letters)
        /\ \A letters, d : Meant(letters, d)' = Meant(letters, d)
        /\ \A letter, name : Stylesheet(letter, name)' = Stylesheet(letter, name)
    BY <1>1, LineMeansTheSame
  <2>5. o.schemapath = Meant({"a"}, SchemaPath)
    BY <2>2, <2>3 DEF PathsAre
  <2>6. \A letter, name, path :
          path = LastNamed(letter, Taken)
            /\ (LastNamed(letter, Taken) = <<>> => NamedTo(letter, Taken) = {})
          => Default(path, o, name) = Stylesheet(letter, name)
    BY <1>1, <2>5, SheetIsMeant DEF Default, BuildFilePath
  <2>7. n.definitionSchematron = Stylesheet("c", "oval-definitions-schematron.xsl")
    BY <2>1, <2>2, <2>6 DEF SheetsAre
  <2>8. n.dataSchematron = Stylesheet("j", "oval-system-characteristics-schematron.xsl")
    BY <2>1, <2>2, <2>6 DEF SheetsAre
  <2>9. n.resultsSchematron = Stylesheet("k", "oval-results-schematron.xsl")
    BY <2>1, <2>2, <2>6 DEF SheetsAre
  <2>10. Uses({"s"}) = {} => n.xslFile = Stylesheet("t", "results_to_html.xsl")
    <3>1. Uses({"s"}) = {} => ~ o.noXsl
      BY <2>2, <2>3 DEF SwitchesAre
    <3> QED
      BY <2>1, <2>2, <2>6, <3>1 DEF SheetsAre
  <2>11. /\ n.xmlfile = Meant({"o"}, <<"definitions.xml">>)
         /\ n.dataFile = Meant({"d", "i"}, <<"system-characteristics.xml">>)
         /\ n.outputFilename = Meant({"r"}, <<"results.xml">>)
         /\ n.xslOutputFile = Meant({"x"}, <<"results.html">>)
         /\ n.externalVariablesFile = Meant({"v"}, <<"external-variables.xml">>)
         /\ n.directivesConfigFile = Meant({"g"}, <<"directives.xml">>)
         /\ GetLogFileLocation(n) = Append(Meant({"y"}, <<>>), "ovaldi.log")
         /\ n.definitionIdsFile = Meant({"f"}, <<>>)
         /\ n.definitionIds = Meant({"e"}, <<>>)
    BY <2>1, <2>2, <2>3 DEF PathsAre, Fields, Sheets, GetLogFileLocation, BuildFilePath
  <2>12. /\ n.useProvidedData = (Uses({"i"}) # {})
         /\ n.limitEvaluation = (Uses({"e", "f"}) # {})
         /\ n.doDefinitionSchematron = (Uses({"c"}) # {})
         /\ n.doDataSchematron = (Uses({"j"}) # {})
         /\ n.doResultsSchematron = (Uses({"k"}) # {})
         /\ n.verifyXMLfile = (Uses({"m"}) = {})
    BY <2>1, <2>2, <2>3 DEF SwitchesAre, Fields, Sheets
  <2>13. n.verifyXMLfile => ~ line[Len(line)].dash /\ n.xmlfileMD5 = line[Len(line)].text
    <3>1. n.xmlfileMD5 = o.xmlfileMD5
      BY <2>1 DEF Fields, Sheets
    <3>2. n.verifyXMLfile => o.xmlfileMD5 # <<>>
      BY <1>3, <3>1
    <3> QED
      BY <1>1, <3>1, <3>2 DEF HashIsWord
  <2> HIDE DEF o, n
  <2>14. CommandLineMeans'
    <3>1. option' = n
      BY DEF n
    <3> QED
      BY <1>1, <2>4, <2>7, <2>8, <2>9, <2>10, <2>11, <2>12, <2>13, <3>1
      DEF CommandLineMeans, LogFile
  <2> QED
    BY <1>3, <2>14 DEF MeaningInv
<1> QED
  BY <1>2, <1>3 DEF CheckArguments

\* The steps of main leave the line and the options alone.
LEMMA MainMeans ==
  ASSUME MeaningInv, Main PROVE MeaningInv'
<1>1. line' = line /\ option' = option
  BY DEF Main, At, InitLog, PrintDigest, Prepare, VerifyHash, ParseDefinitions,
         CheckVersion, LoadDirectives, ValidateDefinitions, Collect, SaveData,
         CheckData, ParseData, Analyze, SaveResults, CheckResults,
         ApplyStylesheet, Footer
<1>2. phase \notin {"arguments", "ended"} /\ phase' # "arguments"
  BY DEF Main, At, InitLog, PrintDigest, Prepare, VerifyHash, ParseDefinitions,
         CheckVersion, LoadDirectives, ValidateDefinitions, SchematronValidate, Collect,
         SaveData, CheckData, ParseData, Analyze, SaveResults, CheckResults,
         ApplyStylesheet, Footer, Does, Goes, Raise, GivesUp, Exit
<1>3. CommandLineMeans'
  <2>1. CommandLineMeans
    BY DEF MeaningInv
  <2>2. /\ \A letters : Uses(letters)' = Uses(letters)
        /\ \A letters, d : Meant(letters, d)' = Meant(letters, d)
        /\ \A letter, name : Stylesheet(letter, name)' = Stylesheet(letter, name)
    BY <1>1, LineMeansTheSame
  <2> QED
    BY <1>1, <1>2, <2>1, <2>2 DEF CommandLineMeans, LogFile, GetLogFileLocation
<1> QED
  BY <1>2, <1>3 DEF MeaningInv

LEMMA StepMeans ==
  ASSUME MeaningInv, [Next]_vars PROVE MeaningInv'
<1>1. CASE UNCHANGED vars
  <2>1. line' = line /\ option' = option /\ phase' = phase /\ argv' = argv
    BY <1>1 DEF vars
  <2>2. /\ \A letters : Uses(letters)' = Uses(letters)
        /\ \A letters, d : Meant(letters, d)' = Meant(letters, d)
        /\ \A letter, name : Stylesheet(letter, name)' = Stylesheet(letter, name)
    BY <2>1, LineMeansTheSame
  <2>3. CommandLineMeans'
    BY <2>1, <2>2 DEF MeaningInv, CommandLineMeans, LogFile, GetLogFileLocation
  <2>4. phase = "arguments" => LeftIsEnd' /\ OptionIs(option, Taken)' /\ HashIsWord'
    <3>1. Taken' = Taken
      BY <2>1 DEF Taken
    <3>2. phase = "arguments" => OptionIs(option', Taken)
      BY <2>1 DEF MeaningInv
    <3>3. phase = "arguments" => OptionIs(option, Taken)'
      BY <2>1, <3>1, <3>2, MeaningStands
    <3> QED
      BY <2>1, <3>3 DEF MeaningInv, LeftIsEnd, LineIsTyped, Taken, HashIsWord
  <2> QED
    BY <2>1, <2>3, <2>4 DEF MeaningInv
<1>2. CASE Next
  BY <1>1, <1>2, ArgumentMeans, CheckMeans, MainMeans DEF Next, Ended
<1> QED
  BY <1>1, <1>2

\* For every command line, once the arguments are accepted every file and every
\* switch is what the line says (Main.cpp:586-981), whatever the order of its options.
THEOREM CommandLineIsMeant == Spec => []CommandLineMeans
<1>1. Init => MeaningInv
  BY InitMeans
<1>2. MeaningInv /\ [Next]_vars => MeaningInv'
  BY StepMeans
<1>3. MeaningInv => CommandLineMeans
  BY DEF MeaningInv
<1> QED
  BY <1>1, <1>2, <1>3, PTL DEF Spec
=============================================================================
