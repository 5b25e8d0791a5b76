------------------------------ MODULE Analyzer ------------------------------
(***************************************************************************)
(* The analysis of a run: Analyzer::Run (every definition of the document)  *)
(* and Analyzer::Run(ids) (the listed definitions are analyzed, the others  *)
(* are marked as not evaluated).  A definition is parsed with everything it *)
(* extends; the parsed definitions are cached, and a definition that is in  *)
(* the cache when its turn comes is skipped: the caches have to make sure   *)
(* that it has been analyzed and written already.                          *)
(*                                                                         *)
(* The C++ call stack is the variable `stack': calls of Analyze,            *)
(* NotEvaluated and Write on a definition or on a criteria element.  The    *)
(* result of analyzing a test is part of the input.                        *)
(***************************************************************************)
EXTENDS OvalEnum

CONSTANTS
  Definitions,  \* ids of the definitions of the document
  Nodes,        \* the criteria elements of all of them
  Tests,        \* ids of the tests
  UnknownIds,   \* ids a user may list that are not in the document
  Inputs        \* the documents and lists of ids that are considered

ASSUME DistinctNames ==
  /\ Definitions \cap Nodes = {} /\ Definitions \cap Tests = {}
  /\ Nodes \cap Tests = {} /\ UnknownIds \cap Definitions = {}

\* A child of a criteria element: a criterion (a test), an extend_definition or
\* a criteria.  The negate attribute of a criteria is its own.
Child == [ref : Definitions \cup Nodes \cup Tests, negate : BOOLEAN]

Input ==
  [order    : Seq(Definitions),                  \* the definitions element
   listed   : BOOLEAN,                           \* Run(ids) rather than Run()
   ids      : Seq(Definitions \cup UnknownIds),  \* definitionIds
   root     : [Definitions -> Nodes \cup {"none"}],
   operator : [Nodes -> Operators],
   negate   : [Nodes -> BOOLEAN],
   children : [Nodes -> Seq(Child)],
   outcome  : [Tests -> Results]]                \* Test::Analyze

\* What a definition or a criteria element refers to, tests aside.
RefersTo(n, in) ==
  IF n \in Definitions THEN {in.root[n]} \ {"none"}
  ELSE {in.children[n][i].ref : i \in DOMAIN in.children[n]} \ Tests

\* What is parsed along with a definition: everything it leads to.
Parsed(n, in) ==
  {m \in Definitions \cup Nodes :
     \A S \in SUBSET (Definitions \cup Nodes) :
       n \in S /\ (\A k \in S : RefersTo(k, in) \subseteq S) => m \in S}

\* No definition extends itself.  Neither the schema nor the code enforces it:
\* parsing such a definition would not end.
Acyclic(in) ==
  \A n \in Definitions \cup Nodes : \A m \in RefersTo(n, in) : n \notin Parsed(m, in)

\* The definitions are those that stand in the definitions element.
ListsAll(in) == \A d \in Definitions : \E i \in DOMAIN in.order : in.order[i] = d

ASSUME InputsAssumption == \A in \in Inputs : in \in Input /\ Acyclic(in) /\ ListsAll(in)
ASSUME DocumentsAreFinite == IsFiniteSet(Definitions \cup Nodes)

VARIABLES
  input,        \* what is read
  todo,         \* the definitions Run still has to look at, and what to call
  stack,        \* active calls, the innermost last
  ret,          \* the result that was returned last, "none" once it is taken
  cached,       \* Definition::processedDefinitionsMap
  result,       \* the result of a definition, "none" if it is not analyzed
  testResult,   \* the result of a test, "none" if it is not analyzed
  reported,     \* the result lists of the analyzer, in one sequence
  written       \* the definitions and tests in the results document

vars == <<input, todo, stack, ret, cached, result, testResult, reported, written>>

Calls == {"Analyze", "NotEvaluated", "Write"}
Frame(call, n) == [call |-> call, node |-> n, at |-> 0, results |-> <<>>]

Top == stack[Len(stack)]
Active(calls, nodes) ==
  stack # <<>> /\ Top.call \in calls /\ Top.node \in nodes

Continue(frame) == stack' = [stack EXCEPT ![Len(stack)] = frame]
Call(n) == stack' = Append(stack, Frame(Top.call, n))
Return == stack' = SubSeq(stack, 1, Len(stack) - 1)

Evaluating == {"Analyze", "NotEvaluated"}

-----------------------------------------------------------------------------
\* Definition::Analyze and Definition::NotEvaluated.

\* A definition that has been analyzed keeps its result.
AlreadyAnalyzed ==
  /\ Active(Evaluating, Definitions)
  /\ ret = "none"
  /\ result[Top.node] # "none"
  /\ ret' = result[Top.node]
  /\ Return
  /\ UNCHANGED <<input, todo, cached, result, testResult, reported, written>>

EnterCriteria ==
  /\ Active(Evaluating, Definitions)
  /\ ret = "none"
  /\ result[Top.node] = "none"
  /\ input.root[Top.node] # "none"
  /\ Call(input.root[Top.node])
  /\ UNCHANGED <<input, todo, ret, cached, result, testResult, reported, written>>

UnsavedStoreResult(r) ==
  /\ reported' = Append(reported, [id |-> Top.node, list |-> r, result |-> r])
  /\ ret' = r
  /\ Return
  /\ UNCHANGED <<input, todo, cached, result, testResult, written>>

\* The result is stored and listed, once; NotEvaluated always uses the list of
\* the definitions that were not evaluated.
StoreResult(r) ==
  /\ result' = [result EXCEPT ![Top.node] = r]
  /\ reported' = Append(reported,
       [id     |-> Top.node,
        list   |-> IF Top.call = "Analyze" THEN r ELSE "not evaluated",
        result |-> r])
  /\ ret' = r
  /\ Return
  /\ UNCHANGED <<input, todo, cached, testResult, written>>

\* A definition without criteria is deprecated.
NoCriteria ==
  /\ Active(Evaluating, Definitions)
  /\ ret = "none"
  /\ result[Top.node] = "none"
  /\ input.root[Top.node] = "none"
  /\ StoreResult("not evaluated")

CriteriaReturns ==
  /\ Active(Evaluating, Definitions)
  /\ ret # "none"
  /\ StoreResult(ret)

-----------------------------------------------------------------------------
\* Criteria::Analyze and Criteria::NotEvaluated, with the criterion and
\* extend_definition children.

NextChild == input.children[Top.node][Len(Top.results) + 1]
ShortCircuitHasChild ==
  /\ Len(Top.results) < Len(input.children[Top.node])
  /\ ~ \E i \in DOMAIN Top.results :
         input.operator[Top.node] = "OR" /\ Top.results[i] = "true"
HasChild  == Len(Top.results) < Len(input.children[Top.node])

NegateIf(negate, r) == IF negate THEN NegateResult(r) ELSE r

\* A criterion and an extend_definition negate what they refer to; a criteria has
\* done so itself.
Answer(child, r) == IF child.ref \in Nodes THEN r ELSE NegateIf(child.negate, r)
TakeResult(r) == Continue([Top EXCEPT !.results = Append(@, r)])

OverwritingAskTest ==
  /\ Active(Evaluating, Nodes)
  /\ ret = "none"
  /\ HasChild
  /\ NextChild.ref \in Tests
  /\ LET t == NextChild.ref
         r == IF Top.call = "Analyze" THEN input.outcome[t] ELSE "not evaluated"
     IN  /\ testResult' = [testResult EXCEPT ![t] = r]
         /\ TakeResult(Answer(NextChild, r))
  /\ UNCHANGED <<input, todo, ret, cached, result, reported, written>>

\* Test::Analyze and Test::NotEvaluated: a test that has been analyzed keeps its
\* result.
AskTest ==
  /\ Active(Evaluating, Nodes)
  /\ ret = "none"
  /\ HasChild
  /\ NextChild.ref \in Tests
  /\ LET t == NextChild.ref
         r == IF testResult[t] # "none"      THEN testResult[t]
              ELSE IF Top.call = "Analyze" THEN input.outcome[t]
              ELSE "not evaluated"
     IN  /\ testResult' = [testResult EXCEPT ![t] = r]
         /\ TakeResult(Answer(NextChild, r))
  /\ UNCHANGED <<input, todo, ret, cached, result, reported, written>>

AskChild ==
  /\ Active(Evaluating, Nodes)
  /\ ret = "none"
  /\ HasChild
  /\ NextChild.ref \notin Tests
  /\ Call(NextChild.ref)
  /\ UNCHANGED <<input, todo, ret, cached, result, testResult, reported, written>>

ChildReturns ==
  /\ Active(Evaluating, Nodes)
  /\ ret # "none"
  /\ TakeResult(Answer(NextChild, ret))
  /\ ret' = "none"
  /\ UNCHANGED <<input, todo, cached, result, testResult, reported, written>>

CombineCriteria ==
  /\ Active(Evaluating, Nodes)
  /\ ret = "none"
  /\ ~HasChild
  /\ ret' = NegateIf(input.negate[Top.node],
              CombineResultsByOperator(Top.results, input.operator[Top.node]))
  /\ Return
  /\ UNCHANGED <<input, todo, cached, result, testResult, reported, written>>

-----------------------------------------------------------------------------
\* Definition::Write, Criteria::Write and the writing of their children.

IsWritten(id) == \E i \in DOMAIN written : written[i].id = id
Written(id, r) == written' = Append(written, [id |-> id, result |-> r])

\* The definition element, and then its criteria.
WriteDefinition ==
  /\ Active({"Write"}, Definitions)
  /\ ~IsWritten(Top.node)
  /\ Written(Top.node, result[Top.node])
  /\ IF input.root[Top.node] = "none" THEN Return
     ELSE Continue(Frame("Write", input.root[Top.node]))
  /\ ret' = "none"
  /\ UNCHANGED <<input, todo, cached, result, testResult, reported>>

AlreadyWritten ==
  /\ Active({"Write"}, Definitions)
  /\ IsWritten(Top.node)
  /\ Return
  /\ ret' = "none"
  /\ UNCHANGED <<input, todo, cached, result, testResult, reported, written>>

RepeatedWriteChild ==
  /\ Active({"Write"}, Nodes)
  /\ Top.at < Len(input.children[Top.node])
  /\ LET ref == input.children[Top.node][Top.at + 1].ref
     IN  IF ref \in Tests
           THEN IF IsWritten(ref) THEN UNCHANGED <<stack, written>>
                ELSE Written(ref, testResult[ref]) /\ UNCHANGED stack
           ELSE Call(ref) /\ UNCHANGED written
  /\ UNCHANGED <<input, todo, ret, cached, result, testResult, reported>>

WriteChild ==
  /\ Active({"Write"}, Nodes)
  /\ Top.at < Len(input.children[Top.node])
  /\ LET ref  == input.children[Top.node][Top.at + 1].ref
         next == [Top EXCEPT !.at = @ + 1]
     IN  IF ref \in Tests
           THEN /\ Continue(next)
                /\ IF IsWritten(ref) THEN UNCHANGED written
                   ELSE Written(ref, testResult[ref])
           ELSE /\ stack' = Append([stack EXCEPT ![Len(stack)] = next],
                                   Frame("Write", ref))
                /\ UNCHANGED written
  /\ UNCHANGED <<input, todo, ret, cached, result, testResult, reported>>

CriteriaWritten ==
  /\ Active({"Write"}, Nodes)
  /\ Top.at = Len(input.children[Top.node])
  /\ Return
  /\ UNCHANGED <<input, todo, ret, cached, result, testResult, reported, written>>

-----------------------------------------------------------------------------
\* Analyzer::Run.
Ask(call, ids) == [i \in DOMAIN ids |-> [call |-> call, id |-> ids[i]]]

Init ==
  /\ input \in Inputs
  /\ todo = IF input.listed
              THEN Ask("Analyze", input.ids) \o Ask("NotEvaluated", input.order)
              ELSE Ask("Analyze", input.order)
  /\ stack = <<>>
  /\ ret = "none"
  /\ cached = {}
  /\ result = [d \in Definitions |-> "none"]
  /\ testResult = [t \in Tests |-> "none"]
  /\ reported = <<>>
  /\ written = <<>>

\* The definition is parsed, analyzed (or marked) and written.  The call of Write
\* waits on the stack below that of Analyze.
RunDefinition ==
  /\ stack = <<>>
  /\ todo # <<>>
  /\ Head(todo).id \in Definitions \ cached
  /\ cached' = cached \cup (Parsed(Head(todo).id, input) \cap Definitions)
  /\ stack' = <<Frame("Write", Head(todo).id),
                Frame(Head(todo).call, Head(todo).id)>>
  /\ todo' = Tail(todo)
  /\ UNCHANGED <<input, ret, result, testResult, reported, written>>

\* In the cache, or not in the document (which is logged and no more).
SkipDefinition ==
  /\ stack = <<>>
  /\ todo # <<>>
  /\ Head(todo).id \notin Definitions \ cached
  /\ todo' = Tail(todo)
  /\ UNCHANGED <<input, stack, ret, cached, result, testResult, reported, written>>

\* What follows the loops: the caches are cleared.
Finish ==
  /\ stack = <<>>
  /\ todo = <<>>
  /\ cached # {}
  /\ cached' = {}
  /\ result' = [d \in Definitions |-> "none"]
  /\ testResult' = [t \in Tests |-> "none"]
  /\ UNCHANGED <<input, todo, stack, ret, reported, written>>

DefinitionStep == AlreadyAnalyzed \/ EnterCriteria \/ NoCriteria \/ CriteriaReturns
CriteriaStep   == AskTest \/ AskChild \/ ChildReturns \/ CombineCriteria
WriteStep      == WriteDefinition \/ AlreadyWritten \/ WriteChild \/ CriteriaWritten

Next ==
  \/ RunDefinition \/ SkipDefinition \/ Finish
  \/ DefinitionStep \/ CriteriaStep \/ WriteStep

\* One thread that never waits.
Spec == Init /\ [][Next]_vars /\ WF_vars(Next)

-----------------------------------------------------------------------------
Entry == [id : Definitions, list : Results, result : Results]

TypeOK ==
  /\ input \in Input
  /\ todo \in Seq([call : Evaluating, id : Definitions \cup UnknownIds])
  /\ stack \in Seq([call : Calls, node : Definitions \cup Nodes, at : Nat,
                    results : Seq(Results)])
  /\ ret \in Results \cup {"none"}
  /\ cached \subseteq Definitions
  /\ result \in [Definitions -> Results \cup {"none"}]
  /\ testResult \in [Tests -> Results \cup {"none"}]
  /\ reported \in Seq(Entry)
  /\ written \in Seq([id : Definitions \cup Tests, result : Results])

Done == stack = <<>> /\ todo = <<>> /\ cached = {}

CachedIsReported ==
  stack = <<>> => \A d \in cached : result[d] # "none" /\ IsWritten(d)

EachReportedOnce ==
  Done => \A d \in Definitions :
            /\ Cardinality({i \in DOMAIN written : written[i].id = d}) = 1
            /\ Cardinality({i \in DOMAIN reported : reported[i].id = d}) = 1

\* A definition that is found in the cache when its turn comes, and is skipped,
\* has been analyzed and written: it got into the cache as part of another one,
\* and every path from that one to it was taken.  In the end every definition
\* of the document stands exactly once in the results document and once in the
\* lists that are printed, whatever is listed and however definitions extend
\* each other (Analyzer.cpp:183, 256, 299, Definition.cpp:241-304).
CachedIsReportedOnce == CachedIsReported /\ EachReportedOnce

\* What a definition or a criteria element means: the combination of the outcomes
\* of its tests, by recursion over the criteria, without caches, stack or order.
Things == Definitions \cup Nodes \cup Tests
CombinedChildren(in, n, results) ==
  NegateIf(in.negate[n], CombineResultsByOperator(results, in.operator[n]))

Meaning(in) ==
  LET meaning[n \in Things] ==
        IF n \in Tests THEN in.outcome[n]
        ELSE IF n \in Nodes
          THEN CombinedChildren(in, n,
                 [i \in DOMAIN in.children[n] |->
                    Answer(in.children[n][i], meaning[in.children[n][i].ref])])
        ELSE IF in.root[n] = "none" THEN "not evaluated"
        ELSE meaning[in.root[n]]
  IN meaning

\* The definitions that are to be analyzed: all, or those that are listed and what
\* they extend.
Selected(in) ==
  UNION {Parsed(d, in) : d \in Definitions \cap {in.ids[i] : i \in DOMAIN in.ids}}
ToAnalyze(in) == IF in.listed THEN Selected(in) ELSE Definitions

\* A definition that is to be analyzed, or is extended by one that is, gets its
\* meaning in the results document and in the lists, although it may have been
\* met before, as part of other definitions, and although the same walk marks the
\* definitions that are not listed (Analyzer.cpp:256, 299, Definition.cpp:241-304).
MeaningIsReported ==
  LET meaning  == Meaning(input)
      analyzed == ToAnalyze(input)
  IN  /\ \A i \in DOMAIN written : written[i].id \in analyzed =>
           written[i].result = meaning[written[i].id]
      /\ \A i \in DOMAIN reported : reported[i].id \in analyzed =>
           /\ reported[i].result = meaning[reported[i].id]
           /\ reported[i].list = reported[i].result

\* Caches, stack and order leave no trace in the results: every definition is
\* reported once, and with its meaning (Analyzer.cpp:161-345).
ReportsTheMeaning == CachedIsReportedOnce /\ MeaningIsReported

\* What stands in the results document is the result the definition or the test
\* has, from the moment it is written: neither is written before it is analyzed,
\* and none is analyzed a second time with another result
\* (Definition.cpp:191-216, 241-304, Test.cpp:663-671).
WrittenIsFinal ==
  [][\A i \in DOMAIN written' :
       LET id == written'[i].id
       IN  \/ Finish
           \/ /\ id \in Definitions => result'[id] = written'[i].result
              /\ id \in Tests => testResult'[id] = written'[i].result]_vars

\* A definition that does not extend itself is analyzed in finite time.
Terminates == <>Done
=============================================================================
