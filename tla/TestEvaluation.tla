--------------------------- MODULE TestEvaluation ---------------------------
(***************************************************************************)
(* Test::Analyze: from the flag and the items of the collected object that  *)
(* a test refers to, from its check_existence, check and state_operator     *)
(* attributes and from its states, to one result.  The items are taken from *)
(* the collected object, or searched for in the system data when the system *)
(* characteristics document has no such object.                            *)
(***************************************************************************)
EXTENDS OvalEnum, OvalTables

CONSTANTS
  StateIds,   \* ids of states
  Answers,    \* what State::Analyze may return for an item that exists
  Items,      \* the items that are considered
  Tests,      \* the test elements that are considered
  MaxItems    \* bound: the most items of one object

ASSUME StateIdsAssumption == IsFiniteSet(StateIds)
ASSUME AnswersAssumption  == Answers \subseteq Results
ASSUME MaxItemsAssumption == MaxItems \in Nat

\* A test element.  `broken' are the states that cannot be found or parsed.
TestElement ==
  [object    : BOOLEAN,        \* it has an object_ref
   existence : Existences,
   check     : Checks,
   operator  : Operators,
   states    : SUBSET StateIds,
   broken    : SUBSET StateIds]

ASSUME TestsAssumption == Tests \subseteq TestElement

\* `answers' are the results of comparing the entities of the states, which only
\* takes place for an item that exists.
Item == [status : Statuses, answers : [StateIds -> Answers]]

ASSUME ItemsAssumption == Items \subseteq Item

VARIABLES
  test,         \* the test
  flag,         \* collectedObjFlag, "missing" without a collected object
  items,        \* the items of the tested items
  itemResults,  \* results of the tested items, the others being not evaluated
  result,       \* the result of the test, "none" until it is set
  pc            \* how far Analyze has come

vars == <<test, flag, items, itemResults, result, pc>>

\* Test::Parse replaces the deprecated check.
ParseCheck(t) ==
  IF t.check = "none exist"
    THEN [t EXCEPT !.existence = "none_exist", !.check = "none satisfy"]
    ELSE t

Init ==
  /\ test \in {ParseCheck(t) : t \in Tests}
  /\ flag \in Flags \cup {"missing"}
  /\ items = <<>>
  /\ itemResults = <<>>
  /\ result = "none"
  /\ pc = "collect"

SetResult(r) ==
  /\ result' = r
  /\ pc' = "analyzed"
  /\ UNCHANGED <<test, flag, items, itemResults>>

-----------------------------------------------------------------------------
\* A test without an object is an unknown_test.
NoObject ==
  /\ pc = "collect"
  /\ ~test.object
  /\ SetResult("unknown")

\* A reference of the collected object, or an item of the system data that the
\* object matches, which only an item that exists does.
AppendTestedItem(item) ==
  /\ pc = "collect"
  /\ test.object
  /\ Len(items) < MaxItems
  /\ flag = "missing" => item.status = "exists"
  /\ items' = Append(items, item)
  /\ UNCHANGED <<test, flag, itemResults, result, pc>>

\* The search comes to an item that the object cannot be compared with (its
\* status is error or not collected): the exception leaves Test::Analyze.
CandidateRaises ==
  /\ pc = "collect"
  /\ test.object
  /\ flag = "missing"
  /\ pc' = "raised"
  /\ UNCHANGED <<test, flag, items, itemResults, result>>

\* A search that found nothing makes an object that does not exist, be it that
\* there was no candidate (the unknown that is set first is overwritten).
Collected ==
  /\ pc = "collect"
  /\ test.object
  /\ flag' = IF flag # "missing" THEN flag
             ELSE IF items # <<>> THEN "complete" ELSE "does not exist"
  /\ pc' = "flag"
  /\ UNCHANGED <<test, items, itemResults, result>>

-----------------------------------------------------------------------------
\* How to proceed depends on the flag.

FlagResult(f) == IF f = "not collected" THEN "unknown" ELSE f

\* error, not applicable and not collected.
FlagDecides ==
  /\ pc = "flag"
  /\ flag \in {"error", "not applicable", "not collected"}
  /\ SetResult(IF test.existence = "any_exist" /\ test.states = {}
                 THEN "true" ELSE FlagResult(flag))

DoesNotExist ==
  /\ pc = "flag"
  /\ flag = "does not exist"
  /\ SetResult(IF test.existence \in {"none_exist", "any_exist"}
                 THEN "true" ELSE "false")

ItemStatuses == [i \in DOMAIN items |-> items[i].status]
Exists == Count(ItemStatuses, "exists")
Occurs(status) == status \in Occurring(ItemStatuses)

\* Test::EvaluateCheckExistence.
VacuousEvaluateCheckExistence ==
  CASE test.existence = "all_exist" ->
         IF Occurs("does not exist")     THEN "false"
         ELSE IF Occurs("error")         THEN "error"
         ELSE IF Occurs("not collected") THEN "unknown"
         ELSE "true"
    [] test.existence = "any_exist" ->
         IF Exists = 0 /\ Occurs("error") THEN "error" ELSE "true"
    [] OTHER -> IF Exists > 0 THEN "true" ELSE "false"

EvaluateCheckExistence ==
  CASE test.existence = "all_exist" ->
         IF Occurs("does not exist") \/ items = <<>> THEN "false"
         ELSE IF Occurs("error")                     THEN "error"
         ELSE IF Occurs("not collected")             THEN "unknown"
         ELSE "true"
    [] test.existence = "any_exist" ->
         IF Exists = 0 /\ Occurs("error") THEN "error" ELSE "true"
    [] test.existence = "at_least_one_exists" ->
         IF Exists > 0                    THEN "true"
         ELSE IF Occurs("error")          THEN "error"
         ELSE IF Occurs("not collected")  THEN "unknown"
         ELSE IF Occurs("does not exist") THEN "false"
         ELSE "error"
    [] test.existence = "none_exist" ->
         IF Exists > 0                   THEN "false"
         ELSE IF Occurs("error")         THEN "error"
         ELSE IF Occurs("not collected") THEN "unknown"
         ELSE "true"
    [] test.existence = "only_one_exists" ->
         IF Exists > 1                   THEN "false"
         ELSE IF Occurs("error")         THEN "error"
         ELSE IF Occurs("not collected") THEN "unknown"
         ELSE IF Exists = 1              THEN "true"
         ELSE "false"

\* What an incomplete object says about existence: only what further items
\* cannot change.
PartialExistence ==
  IF \/ test.existence = "none_exist" /\ Exists > 0
     \/ test.existence = "only_one_exists" /\ Exists > 1          THEN "false"
  ELSE IF \/ test.existence = "at_least_one_exists" /\ Exists > 0
          \/ test.existence = "any_exist"                         THEN "true"
  ELSE "unknown"

\* The states are looked at when existence is as it should be.
CheckState ==
  /\ pc' = "state"
  /\ UNCHANGED <<test, flag, items, itemResults, result>>

Complete ==
  /\ pc = "flag"
  /\ flag = "complete"
  /\ IF EvaluateCheckExistence = "true" /\ test.states # {}
       THEN CheckState
       ELSE SetResult(EvaluateCheckExistence)

Incomplete ==
  /\ pc = "flag"
  /\ flag = "incomplete"
  /\ IF PartialExistence = "true"
       THEN CheckState
       ELSE SetResult(PartialExistence)

-----------------------------------------------------------------------------
\* Test::EvaluateCheckState, and what is made of its result.

\* What State::Analyze returns.
Analyze(state, item) ==
  CASE item.status \in {"error", "not collected"} -> "error"
    [] item.status = "does not exist"             -> "false"
    [] item.status = "exists"                     -> item.answers[state]

\* The vector of the results of the states, in some order, which does not matter.
StateResults(states, item) ==
  LET order == CHOOSE s \in [1..Cardinality(states) -> states] :
                 \A id \in states : \E i \in DOMAIN s : s[i] = id
  IN  [i \in DOMAIN order |-> Analyze(order[i], item)]

EvaluateItem ==
  /\ pc = "state"
  /\ test.states # {}
  /\ test.states \cap test.broken = {}
  /\ Len(itemResults) < Len(items)
  /\ itemResults' =
       Append(itemResults,
              CombineResultsByOperator(
                StateResults(test.states, items[Len(itemResults) + 1]),
                test.operator))
  /\ UNCHANGED <<test, flag, items, result, pc>>

HastyUseStateResult(r) ==
  SetResult(IF flag = "complete" \/ r \in {"true", "false"} THEN r ELSE "unknown")
UseStateResult(r) ==
  SetResult(IF flag = "complete" \/ r = "false"        THEN r
            ELSE IF r = "true" /\ test.check = "at least one" THEN "true"
            ELSE "unknown")

\* A state cannot be loaded.  The error that is set for the test gives way to
\* what is made of the result.
StateRaises ==
  /\ pc = "state"
  /\ test.states \cap test.broken # {}
  /\ items # <<>>
  /\ UseStateResult("error")

StateEvaluated ==
  /\ pc = "state"
  /\ test.states = {} \/ Len(itemResults) = Len(items)
  /\ UseStateResult(IF test.states = {} THEN "true"
                    ELSE CombineResultsByCheck(itemResults, test.check))

Next ==
  \/ NoObject \/ CandidateRaises \/ Collected
  \/ \E item \in Items : AppendTestedItem(item)
  \/ FlagDecides \/ DoesNotExist \/ Complete \/ Incomplete
  \/ EvaluateItem \/ StateRaises \/ StateEvaluated

Spec == Init /\ [][Next]_vars

-----------------------------------------------------------------------------
Analyzed == pc = "analyzed" /\ test.object
Definite(r) == r \in {"true", "false"}
Loads == test.states \cap test.broken = {}

\* The results of the items that a check is about by the schema: all but those that
\* do not exist (oval-common-schema.xsd:155).
CheckedResults ==
  [i \in {k \in DOMAIN items : items[k].status # "does not exist"} |-> itemResults[i]]

\* The exception: an item that does not exist counts as one that does not satisfy the
\* states (State.cpp:71), although "each check value defines how many of the matching
\* objects (items except those with a status of does not exist) must satisfy the given
\* state" (oval-common-schema.xsd:155).  This decides where all items have to, and where
\* no other item has a say; it changes nothing else.
AbsentDecides ==
  /\ Occurs("does not exist")
  /\ test.check = "all" \/ Occurring(CheckedResults) \subseteq {"not applicable"}
AbsentResult == IF test.check = "none satisfy" THEN "true" ELSE "false"

\* A completely collected object: what stands in the results document (the
\* statuses of the items, the results of the tested items and the attributes of
\* the test) gives the result of the test by the charts of the schema, the
\* existence chart first and, if that says true, the check chart for the items that
\* it is about, but for the exception above (Test.cpp:628-653, 673-845).
CompleteMatchesCharts ==
  Analyzed /\ flag = "complete" /\ HasExistenceRow(test.existence, ItemStatuses) =>
    LET charted == ChartExistence(test.existence, ItemStatuses)
    IN  IF charted # "true" \/ test.states = {} THEN result = charted
        ELSE Loads /\ items # <<>> =>
               /\ Len(itemResults) = Len(items)
               /\ result = IF AbsentDecides THEN AbsentResult
                           ELSE ChartResult(CheckChart[test.check], CheckedResults)

\* An object that does not exist gives a test without states the result that the
\* existence chart has for the items that were looked for in vain
\* (Test.cpp:613-626).
AbsentMatchesChart ==
  /\ Analyzed
  /\ flag = "does not exist"
  /\ test.states = {}
  /\ Occurring(ItemStatuses) \subseteq {"does not exist"}
  /\ HasExistenceRow(test.existence, ItemStatuses)
  => result = ChartExistence(test.existence, ItemStatuses)

\* Where the object was collected completely, or looked for in vain, the charts of the
\* schema decide, except for AbsentDecides (Test.cpp:613-653, State.cpp:71).
MatchesCharts == CompleteMatchesCharts /\ AbsentMatchesChart

\* A test whose state cannot be loaded says true or false only where the chart
\* for existence does, without a look at the state (Test.cpp:838-841).
FailureIsNotAVerdict ==
  Analyzed /\ ~Loads /\ items # <<>> /\ Definite(result) =>
    \/ flag = "does not exist"
    \/ result = "false" /\ ChartExistence(test.existence, ItemStatuses) = "false"

\* The result of the test, had `more' been collected as well and the object been
\* complete; an item that does not exist counts as the code has it.
CompletedResult(more) ==
  LET all     == items \o more
      charted == ChartExistence(test.existence, [i \in DOMAIN all |-> all[i].status])
      results == [i \in DOMAIN all |->
                    CombineResultsByOperator(StateResults(test.states, all[i]),
                                             test.operator)]
  IN  IF charted # "true" \/ test.states = {} THEN charted
      ELSE ChartResult(CheckChart[test.check], results)

\* Further items that exist would not have changed the verdict.
VerdictStands ==
  \A answers \in [StateIds -> Answers] :
    CompletedResult(<<[status |-> "exists", answers |-> answers]>>) = result

\* A verdict over an incompletely collected object is the one a complete
\* collection would have led to, when the check is all or none satisfy
\* (Test.cpp:554-611).
IncompleteVerdictStands ==
  Analyzed /\ flag = "incomplete" /\ Loads /\ Definite(result)
  /\ test.check \in {"all", "none satisfy"} => VerdictStands

\* True and false are said only for a reason that further knowledge cannot take away:
\* neither a state that does not load nor items that were not collected could turn
\* the verdict (Test.cpp:554-611, 838-841).
VerdictsAreFounded == FailureIsNotAVerdict /\ IncompleteVerdictStands
=============================================================================
