---------------------------- MODULE Interpreter ----------------------------
(***************************************************************************)
(* A run of the program (src/Main.cpp): the arguments are taken one by one, *)
(* the files they name are checked against each other, and the steps follow *)
(* in their order, from the hash of the definitions to the stylesheet, each *)
(* of which may end the run.                                                *)
(*                                                                         *)
(* A path is a sequence of names; one that does not begin with "/" is       *)
(* relative to Directory.  A file holds what it held before the run         *)
(* ("given"), or what the run has written last.  What the other components  *)
(* and libraries answer is chosen: done, or an exception.                   *)
(***************************************************************************)
EXTENDS Naturals, Sequences

CONSTANTS
  CommandLines,   \* the sequences of arguments, of Option and Word
  Disks,          \* the sets of full paths that exist before the run
  GivenHash,      \* of the definitions as they are given
  Directory,      \* the directory of the run
  SchemaPath      \* the directory of the schema, unless -a names one

VARIABLES
  line,       \* the command line
  argv,       \* what is left of it
  option,     \* the static members of Common
  phase,      \* where main is
  files,      \* what each file holds
  done,       \* the steps that were done, in their order
  failures,   \* why the others were not, or not as they should have been
  code        \* the exit code, Running before

vars == <<line, argv, option, phase, files, done, failures, code>>

Option(letter) == [dash |-> TRUE, letter |-> letter, text |-> <<>>]
Word(text)     == [dash |-> FALSE, letter |-> "", text |-> text]

Running == 2
SUCCESS == 0
FAILURE == 1

Contents == {"none", "given", "log", "data", "results", "html"}

-----------------------------------------------------------------------------
\* Files.  realpath knows only what exists (Common.cpp:695).
Root == "/"
Full(path)      == IF path # <<>> /\ Head(path) = Root THEN path ELSE Directory \o path
Holds(path)     == IF Full(path) \in DOMAIN files THEN files[Full(path)] ELSE "none"
FileExists(path)  == path # <<>> /\ Holds(path) # "none"
GetFullPath(path) == IF FileExists(path) THEN Full(path) ELSE path
BuildFilePath(directory, name) == Append(directory, name)
Written(path, content) ==
  [f \in DOMAIN files \cup {Full(path)} |-> IF f = Full(path) THEN content ELSE files[f]]

\* A command line is words and options; the directory of the run is no file.
ASSUME CommandLinesAssumption ==
  CommandLines \subseteq
    Seq([dash : BOOLEAN, letter : STRING, text : Seq(STRING)])
ASSUME DisksAssumption == \A disk \in Disks : Full(<<>>) \notin disk

GetLogFileLocation(o) == BuildFilePath(o.logFileLocation, "ovaldi.log")

DefaultOptions ==
  [xmlfile |-> <<"definitions.xml">>, dataFile |-> <<"system-characteristics.xml">>,
   outputFilename |-> <<"results.xml">>, xslOutputFile |-> <<"results.html">>,
   externalVariablesFile |-> <<"external-variables.xml">>,
   directivesConfigFile |-> <<"directives.xml">>, logFileLocation |-> <<>>,
   schemapath |-> SchemaPath, definitionIds |-> <<>>, definitionIdsFile |-> <<>>,
   xslFile |-> <<>>, definitionSchematron |-> <<>>, dataSchematron |-> <<>>,
   resultsSchematron |-> <<>>, xmlfileMD5 |-> <<>>,
   doDefinitionSchematron |-> FALSE, doDataSchematron |-> FALSE,
   doResultsSchematron |-> FALSE, noXsl |-> FALSE, generateMD5 |-> FALSE,
   useProvidedData |-> FALSE, verifyXMLfile |-> TRUE, limitEvaluation |-> FALSE]

-----------------------------------------------------------------------------
Init ==
  /\ line \in CommandLines /\ argv = line
  /\ \E disk \in Disks : files = [f \in disk |-> "given"]
  /\ option = DefaultOptions
  /\ phase = "arguments"
  /\ done = <<>> /\ failures = {} /\ code = Running

Exit(status) == phase' = "ended" /\ code' = status
InputError == Exit(FAILURE) /\ UNCHANGED <<argv, option>>

-----------------------------------------------------------------------------
\* ProcessCommandLine.  The letter after the dash is the option.
Letter == argv[1].letter
Named  == Len(argv) > 1 /\ ~ argv[2].dash

Take(n) == argv' = SubSeq(argv, n + 1, Len(argv))

\* The options that must be followed by a value, and what becomes of it.  Those of
\* input files look whether there is one.
MustExist == {"o", "v", "g", "t", "f", "i"}
TakesValue == MustExist \cup {"d", "e", "r", "x", "y", "a", "l"}
\* A slip: the paths are exchanged.
FaultySetValue(letter, value) ==
  CASE letter = "d" -> [option EXCEPT !.dataFile = value]
    [] letter = "i" -> [option EXCEPT !.dataFile = value, !.useProvidedData = TRUE]
    [] letter = "r" -> [option EXCEPT !.xslOutputFile = value]
    [] letter = "x" -> [option EXCEPT !.outputFilename = value]
    [] OTHER -> option
SetValue(letter, value) ==
  CASE letter = "d" -> [option EXCEPT !.dataFile = value]
    [] letter = "i" -> [option EXCEPT !.dataFile = value, !.useProvidedData = TRUE]
    [] letter = "e" -> [option EXCEPT !.definitionIds = value, !.limitEvaluation = TRUE]
    [] letter = "f" -> [option EXCEPT !.definitionIdsFile = value, !.limitEvaluation = TRUE]
    [] letter = "o" -> [option EXCEPT !.xmlfile = value]
    [] letter = "r" -> [option EXCEPT !.outputFilename = value]
    [] letter = "t" -> [option EXCEPT !.xslFile = value]
    [] letter = "x" -> [option EXCEPT !.xslOutputFile = value]
    [] letter = "y" -> [option EXCEPT !.logFileLocation = value]
    [] letter = "v" -> [option EXCEPT !.externalVariablesFile = value]
    [] letter = "g" -> [option EXCEPT !.directivesConfigFile = value]
    [] letter = "a" -> [option EXCEPT !.schemapath = value]
    [] OTHER -> option
OptionWithValue ==
  /\ argv[1].dash /\ Letter \in TakesValue
  /\ IF ~ Named \/ (Letter \in MustExist /\ ~ FileExists(argv[2].text)) THEN InputError
     ELSE /\ option' = SetValue(Letter, argv[2].text)
          /\ Take(2)
          /\ UNCHANGED <<phase, code>>

\* The three that may name a stylesheet.
DoSchematron(letter, o) ==
  CASE letter = "c" -> [o EXCEPT !.doDefinitionSchematron = TRUE]
    [] letter = "j" -> [o EXCEPT !.doDataSchematron = TRUE]
    [] letter = "k" -> [o EXCEPT !.doResultsSchematron = TRUE]
SetSchematron(letter, path, o) ==
  CASE letter = "c" -> [o EXCEPT !.definitionSchematron = path]
    [] letter = "j" -> [o EXCEPT !.dataSchematron = path]
    [] letter = "k" -> [o EXCEPT !.resultsSchematron = path]
SchematronOption ==
  /\ argv[1].dash /\ Letter \in {"c", "j", "k"}
  /\ IF Named /\ ~ FileExists(argv[2].text) THEN InputError
     ELSE /\ option' = DoSchematron(Letter, IF Named THEN SetSchematron(Letter, argv[2].text, option)
                                            ELSE option)
          /\ Take(IF Named THEN 2 ELSE 1)
          /\ UNCHANGED <<phase, code>>

Flag ==
  /\ argv[1].dash /\ Letter \in {"m", "s", "p", "z"}
  /\ option' = CASE Letter = "m" -> [option EXCEPT !.verifyXMLfile = FALSE]
                 [] Letter = "s" -> [option EXCEPT !.noXsl = TRUE]
                 [] Letter = "z" -> [option EXCEPT !.generateMD5 = TRUE]
                 [] Letter = "p" -> option
  /\ Take(1)
  /\ UNCHANGED <<phase, code>>

\* Help, and everything that is not known.
Letters == TakesValue \cup {"c", "j", "k", "m", "s", "p", "z"}
Help ==
  /\ argv[1].dash /\ Letter \notin Letters
  /\ Exit(SUCCESS) /\ UNCHANGED <<argv, option>>

\* The last word is the hash, if there is to be one.
Hash ==
  /\ ~ argv[1].dash
  /\ IF Len(argv) = 1 /\ option.verifyXMLfile
     THEN /\ option' = [option EXCEPT !.xmlfileMD5 = argv[1].text]
          /\ Take(1) /\ UNCHANGED <<phase, code>>
     ELSE InputError

ProcessArgument ==
  /\ phase = "arguments" /\ argv # <<>>
  /\ OptionWithValue \/ SchematronOption \/ Flag \/ Help \/ Hash
  /\ UNCHANGED <<line, files, done, failures>>

-----------------------------------------------------------------------------
\* What was not named comes from the directory of the schema, and must be there
\* even if nothing asks for it.
Default(path, o, name) == IF path # <<>> THEN path ELSE BuildFilePath(o.schemapath, name)
WithDefaults(o) ==
  [o EXCEPT
     !.definitionSchematron = Default(@, o, "oval-definitions-schematron.xsl"),
     !.dataSchematron       = Default(@, o, "oval-system-characteristics-schematron.xsl"),
     !.resultsSchematron    = Default(@, o, "oval-results-schematron.xsl"),
     !.xslFile = Default(@, IF o.noXsl THEN DefaultOptions ELSE o, "results_to_html.xsl")]
Defaulted(o) ==
  {o.definitionSchematron, o.dataSchematron, o.resultsSchematron} \cup
  (IF o.noXsl THEN {} ELSE {o.xslFile})

\* The files that are read and those that are written; two of the stylesheets are
\* compared as they were written on the command line.
\* A slip: the given system characteristics are no input.
FaultyInputs(o) ==
  {GetFullPath(f) : f \in {o.xmlfile, o.externalVariablesFile, o.xslFile, o.directivesConfigFile}}
Inputs(o) ==
  {GetFullPath(f) : f \in
     {o.xmlfile, o.externalVariablesFile, o.xslFile, o.directivesConfigFile} \cup
     (IF o.doDefinitionSchematron THEN {o.definitionSchematron} ELSE {}) \cup
     (IF o.limitEvaluation THEN {o.definitionIdsFile} ELSE {}) \cup
     (IF o.useProvidedData THEN {o.dataFile} ELSE {})} \cup
  (IF o.doDataSchematron THEN {o.dataSchematron} ELSE {}) \cup
  (IF o.doResultsSchematron THEN {o.resultsSchematron} ELSE {})
Outputs(o) ==
  {GetFullPath(f) : f \in {o.outputFilename, o.xslOutputFile, GetLogFileLocation(o)} \cup
                          (IF o.useProvidedData THEN {} ELSE {o.dataFile})}

CheckArguments ==
  /\ phase = "arguments" /\ argv = <<>>
  /\ LET o == WithDefaults(option)
     IN  IF \/ \E f \in Defaulted(o) : ~ FileExists(f)
            \/ o.verifyXMLfile /\ o.xmlfileMD5 = <<>>
            \/ Inputs(o) \cap Outputs(o) # {}
         THEN InputError
         ELSE option' = o /\ phase' = "log" /\ UNCHANGED <<argv, code>>
  /\ UNCHANGED <<line, files, done, failures>>

-----------------------------------------------------------------------------
\* main.  Every step says in the log what it is about to do.
LogFile == GetLogFileLocation(option)
Logged(path, content) ==
  [Written(path, content) EXCEPT ![Full(LogFile)] = "log"]
Say == files' = Logged(LogFile, "log")

At(step) == phase = step /\ UNCHANGED <<line, argv, option>>
Goes(next) == phase' = next /\ UNCHANGED <<code, failures>>
Does(next) == Goes(next) /\ done' = Append(done, phase)

\* main itself gives up.
GivesUp == Exit(FAILURE) /\ failures' = failures \cup {phase} /\ UNCHANGED done
\* An exception; all but the fatal ones lead to the end of main, and to success.
\* A slip: no exception ends the program.
FaultyRaise(severity) ==
  phase' = "footer" /\ failures' = failures \cup {severity} /\ UNCHANGED <<code, done>>
Raise(severity) ==
  IF severity = "fatal" THEN GivesUp
  ELSE phase' = "footer" /\ failures' = failures \cup {severity} /\ UNCHANGED <<code, done>>

\* What parses as the document it should be.
IsDocument(path, contents) == Holds(path) \in contents

\* Whether a stylesheet could be applied at all is not looked at: one that could not
\* has no complaints.
Inapplicable(xsl) == Holds(xsl) # "given"
SchematronValidate(xsl, next) ==
  \/ ~ Inapplicable(xsl) /\ (Does(next) \/ GivesUp)
  \/ phase' = next /\ failures' = failures \cup {"inapplicable"} /\ UNCHANGED <<code, done>>

InitLog ==
  /\ At("log")
  /\ \/ /\ files' = Written(LogFile, "log")
        /\ Goes(IF option.generateMD5 THEN "digest" ELSE "privileges") /\ UNCHANGED done
     \/ GivesUp /\ UNCHANGED files

PrintDigest ==
  /\ At("digest") /\ Say
  /\ IF FileExists(option.xmlfile)
     THEN Exit(SUCCESS) /\ done' = Append(done, phase) /\ UNCHANGED failures
     ELSE GivesUp

\* The connection to the system, and on Windows the privileges given up.
Prepare ==
  /\ At("privileges") /\ Say
  /\ \/ Goes(IF option.verifyXMLfile THEN "hash" ELSE "definitions") /\ UNCHANGED done
     \/ GivesUp

VerifyHash ==
  /\ At("hash") /\ Say
  /\ IF Holds(option.xmlfile) = "given" /\ option.xmlfileMD5 = GivenHash
     THEN Does("definitions") ELSE GivesUp

ParseDefinitions ==
  /\ At("definitions") /\ Say
  /\ \/ IsDocument(option.xmlfile, {"given"}) /\ Does("version")
     \/ Raise("fatal")

CheckVersion ==
  /\ At("version") /\ Say
  /\ Does("directives") \/ GivesUp

\* The file with the directives need not be there.
LoadDirectives ==
  /\ At("directives") /\ UNCHANGED files
  /\ LET next == IF option.doDefinitionSchematron THEN "definition schematron"
                 ELSE IF option.useProvidedData THEN "provided data" ELSE "collection"
     IN  Does(next) \/ (FileExists(option.directivesConfigFile) /\ Raise("fatal"))

ValidateDefinitions ==
  /\ At("definition schematron") /\ Say
  /\ SchematronValidate(option.definitionSchematron,
                        IF option.useProvidedData THEN "provided data" ELSE "collection")

Collect ==
  /\ At("collection") /\ Say
  /\ Does("save data") \/ Raise("fatal") \/ Raise("lesser")

SaveData ==
  /\ At("save data")
  /\ \/ files' = Logged(option.dataFile, "data")
        /\ Does(IF option.doDataSchematron THEN "check data" ELSE "analysis")
     \/ Say /\ Raise("fatal")

\* The file that was written is parsed again, and must follow the schema.
CheckData ==
  /\ At("check data") /\ Say
  /\ \/ IsDocument(option.dataFile, {"data"}) /\ SchematronValidate(option.dataSchematron, "analysis")
     \/ Raise("fatal")

ParseData ==
  /\ At("provided data") /\ Say
  /\ \/ IsDocument(option.dataFile, {"given"}) /\ Does("analysis")
     \/ Raise("fatal")

Analyze ==
  /\ At("analysis") /\ Say
  /\ Does("save results") \/ Raise("fatal") \/ Raise("lesser")

SaveResults ==
  /\ At("save results")
  /\ \/ files' = Logged(option.outputFilename, "results")
        /\ Does(IF option.doResultsSchematron THEN "check results"
                ELSE IF option.noXsl THEN "footer" ELSE "stylesheet")
     \/ Say /\ Raise("fatal")

CheckResults ==
  /\ At("check results") /\ Say
  /\ \/ /\ IsDocument(option.outputFilename, {"results"})
        /\ SchematronValidate(option.resultsSchematron, IF option.noXsl THEN "footer" ELSE "stylesheet")
     \/ Raise("fatal")

\* Nobody looks whether it could be applied.
ApplyStylesheet ==
  /\ At("stylesheet")
  /\ \/ /\ ~ Inapplicable(option.xslFile) /\ IsDocument(option.outputFilename, {"results"})
        /\ files' = Logged(option.xslOutputFile, "html")
        /\ Does("footer")
     \/ /\ Say
        /\ phase' = "footer" /\ failures' = failures \cup {"inapplicable"} /\ UNCHANGED <<code, done>>

Footer ==
  /\ At("footer") /\ Say
  /\ Exit(SUCCESS) /\ UNCHANGED <<done, failures>>

Main ==
  \/ InitLog \/ PrintDigest \/ Prepare \/ VerifyHash \/ ParseDefinitions \/ CheckVersion
  \/ LoadDirectives \/ ValidateDefinitions \/ Collect \/ SaveData \/ CheckData \/ ParseData
  \/ Analyze \/ SaveResults \/ CheckResults \/ ApplyStylesheet \/ Footer

\* The process is gone: any other state without a next step is a deadlock.
Ended == phase = "ended" /\ UNCHANGED vars

Next == ProcessArgument \/ CheckArguments \/ Main \/ Ended

Spec == Init /\ [][Next]_vars

-----------------------------------------------------------------------------
\* What the command line means, read off as a whole: the last use of a letter counts.
Uses(letters) == {i \in DOMAIN line : line[i].dash /\ line[i].letter \in letters}
Last(letters) == CHOOSE i \in Uses(letters) : \A j \in Uses(letters) : j <= i
After(i)      == IF i < Len(line) /\ ~ line[i + 1].dash THEN line[i + 1].text ELSE <<>>
Meant(letters, default) == IF Uses(letters) = {} THEN default ELSE After(Last(letters))
NamedBy(letter) == {i \in Uses({letter}) : After(i) # <<>>}
Stylesheet(letter, name) ==
  IF NamedBy(letter) = {} THEN Append(Meant({"a"}, SchemaPath), name)
  ELSE After(CHOOSE i \in NamedBy(letter) : \A j \in NamedBy(letter) : j <= i)

\* CommandLineMeans: once the arguments are accepted, each file and each switch is
\* what the command line says, whatever the order of its options: the last naming of
\* a file counts, the directory of the schema changes every stylesheet that is not
\* named and no other, and the data is read rather than written if any -i is there
\* (even for a path that a later -d names).
CommandLineMeans ==
  phase \notin {"arguments", "ended"} =>
    /\ option.xmlfile = Meant({"o"}, <<"definitions.xml">>)
    /\ option.dataFile = Meant({"d", "i"}, <<"system-characteristics.xml">>)
    /\ option.useProvidedData = (Uses({"i"}) # {})
    /\ option.outputFilename = Meant({"r"}, <<"results.xml">>)
    /\ option.xslOutputFile = Meant({"x"}, <<"results.html">>)
    /\ option.externalVariablesFile = Meant({"v"}, <<"external-variables.xml">>)
    /\ option.directivesConfigFile = Meant({"g"}, <<"directives.xml">>)
    /\ LogFile = Append(Meant({"y"}, <<>>), "ovaldi.log")
    /\ option.limitEvaluation = (Uses({"e", "f"}) # {})
    /\ option.definitionIdsFile = Meant({"f"}, <<>>)
    /\ option.definitionIds = Meant({"e"}, <<>>)
    /\ option.definitionSchematron = Stylesheet("c", "oval-definitions-schematron.xsl")
    /\ option.dataSchematron = Stylesheet("j", "oval-system-characteristics-schematron.xsl")
    /\ option.resultsSchematron = Stylesheet("k", "oval-results-schematron.xsl")
    /\ Uses({"s"}) = {} => option.xslFile = Stylesheet("t", "results_to_html.xsl")
    /\ option.doDefinitionSchematron = (Uses({"c"}) # {})
    /\ option.doDataSchematron = (Uses({"j"}) # {})
    /\ option.doResultsSchematron = (Uses({"k"}) # {})
    /\ option.verifyXMLfile = (Uses({"m"}) = {})
    /\ option.verifyXMLfile => ~ line[Len(line)].dash /\ option.xmlfileMD5 = line[Len(line)].text

\* InputsSurvive: a run never changes a file it was given to read (the check before
\* the run, Main.cpp:981-1026), however the paths of the inputs and of the outputs are
\* written, except that the stylesheets of -j and -k are only safe if they are named
\* by their full paths.
IsFull(path) == path = Full(path)
GivenToRead ==
  {option.xmlfile, option.externalVariablesFile, option.xslFile, option.directivesConfigFile} \cup
  (IF option.doDefinitionSchematron THEN {option.definitionSchematron} ELSE {}) \cup
  (IF option.limitEvaluation THEN {option.definitionIdsFile} ELSE {}) \cup
  (IF option.useProvidedData THEN {option.dataFile} ELSE {}) \cup
  {f \in (IF option.doDataSchematron THEN {option.dataSchematron} ELSE {}) \cup
         (IF option.doResultsSchematron THEN {option.resultsSchematron} ELSE {}) : IsFull(f)}
InputsSurvive ==
  [][phase \notin {"arguments", "ended"} =>
       \A f \in GivenToRead : Holds(f) = "given" => files'[Full(f)] = "given"]_vars

\* ExitMeansDone: a run that ends with success, and was neither asked for help nor for
\* a digest, has done every step that was asked for, in its order, and each of its
\* outputs holds what it is for - unless an exception of a lower severity or a
\* stylesheet that could not be applied left something out, or two outputs were given
\* the same name.
Asked ==
  LET when(condition, step) == IF condition THEN <<step>> ELSE <<>>
      o == option
  IN  when(o.verifyXMLfile, "hash") \o <<"definitions", "version", "directives">>
      \o when(o.doDefinitionSchematron, "definition schematron")
      \o (IF o.useProvidedData THEN <<"provided data">>
          ELSE <<"collection", "save data">> \o when(o.doDataSchematron, "check data"))
      \o <<"analysis", "save results">>
      \o when(o.doResultsSchematron, "check results") \o when(~ o.noXsl, "stylesheet")
Results == <<option.outputFilename, option.dataFile, LogFile, option.xslOutputFile>>
AsksForHelp == \E i \in DOMAIN line : line[i].dash /\ line[i].letter \notin Letters
OneName == \E i, j \in 1..4 : i # j /\ Full(Results[i]) = Full(Results[j])
ExitMeansDone ==
  phase = "ended" /\ code = SUCCESS /\ ~ AsksForHelp /\ ~ option.generateMD5 =>
    /\ failures \subseteq {"lesser", "inapplicable"}
    /\ failures = {} => done = Asked
    /\ "lesser" \notin failures /\ ~ OneName =>
         /\ Holds(option.outputFilename) = "results"
         /\ ~ option.useProvidedData => Holds(option.dataFile) = "data"
         /\ ~ option.noXsl /\ failures = {} => Holds(option.xslOutputFile) = "html"
=============================================================================
