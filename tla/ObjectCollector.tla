-------------------------- MODULE ObjectCollector --------------------------
(***************************************************************************)
(* The data collection of a run: AbsDataCollector::Run asks the object      *)
(* collector for every object of the definition document, in document      *)
(* order, and writes what was collected.  Collecting an object parses it;  *)
(* parsing computes the variables its entities and filters refer to; a     *)
(* local variable may be built from the items of another object, so its    *)
(* computation re-enters the collector; the objects a set refers to are    *)
(* collected in the same way.  The recursion is cut short by two caches:   *)
(* the collected objects, filled when Run is about to return, and the      *)
(* variables, filled before a variable is computed.                        *)
(*                                                                         *)
(* The C++ call stack is the variable `stack', one frame per active call   *)
(* of Run, of ObjectFactory::GetObjectById (Parse) and of                  *)
(* VariableFactory::GetVariable; `ret' is what the last call returned or   *)
(* threw.  All that the run reads is in the record `input'.                *)
(***************************************************************************)
EXTENDS SetOperators

CONSTANTS
  Objects,      \* ids of the objects of the document
  Variables,    \* ids of the variables of the document
  ItemIds,      \* the items of the system
  Inputs        \* the documents and system states that are considered

ASSUME DistinctIds == Objects \cap Variables = {}

Uses == Objects \cup Variables

\* What the probe of an object does: the object type is not applicable on the
\* platform or has no probe, the probe throws, or it returns items.
Answers == {"not applicable", "not supported", "throws", "items"}

\* What a variable has of its own, apart from the components it is computed
\* from: a constant or literal value, an external value that is missing or
\* invalid, a function that throws, no element in the document.
Owns == {"complete", "error", "throws", "undefined"}

\* The status of the last entity of the field an object_component asks for (the
\* one whose flag the loop leaves behind), or no such entity at all.
FieldAnswers == Statuses \cup {"missing"}

Input ==
  [order      : Seq(Objects),                  \* the objects element
   uses       : [Objects -> Seq(Uses)],        \* what parsing an object touches
   references : [Objects -> Seq(Objects)],     \* of a set: referenceOne and Two
   operator   : [Objects -> SetOperators \cup {"none"}],
   filter     : [Objects -> [ItemIds -> {"keep", "remove", "undecided"}]],
   answer     : [Objects -> Answers],
   items      : [Objects -> SUBSET ItemIds],   \* what the probe returns
   status     : [ItemIds -> Statuses],
   field      : [Objects -> FieldAnswers],
   own        : [Variables -> Owns],
   needs      : [Variables -> Seq(Uses)]]      \* the components, as evaluated

\* What the schema guarantees: a set has one or two references, which are parsed
\* with it, an object that is no set has none, and the variable components of a
\* variable are parsed before its object components are evaluated.
WellFormed(in) ==
  /\ \A o \in Objects :
       /\ \A r \in DOMAIN in.references[o] : \E k \in DOMAIN in.uses[o] :
            in.uses[o][k] = in.references[o][r]
       /\ Len(in.references[o]) \in IF in.operator[o] = "none" THEN {0} ELSE {1, 2}
  /\ \A v \in Variables : \A i, j \in DOMAIN in.needs[v] :
       in.needs[v][i] \in Objects /\ i < j => in.needs[v][j] \in Objects

ASSUME InputsAssumption == \A in \in Inputs : in \in Input /\ WellFormed(in)

VARIABLES
  input,               \* what is read
  index,               \* the next child of the objects element
  stack,               \* active calls, the innermost last
  ret,                 \* what the call that ended last returned or threw
  collectedObjects,    \* CollectedObject::collectedObjectsMap
  variableFlag,        \* AbsVariable::processedVariables, the flag of each
  written              \* the objects in the system characteristics document

vars == <<input, index, stack, ret, collectedObjects, variableFlag, written>>

Collected == [flag : Flags, items : SUBSET ItemIds]
Absent    == [flag |-> "absent", items |-> {}]

-----------------------------------------------------------------------------
\* Frames and return values.
RunFrame(o)      == [call |-> "Run", id |-> o, at |-> 0, got |-> <<>>]
ParseFrame(o)    == [call |-> "Parse", id |-> o, at |-> 0]
VariableFrame(v) == [call |-> "GetVariable", id |-> v, at |-> 0, got |-> <<>>]

NoReturn          == [kind |-> "none"]
Done              == [kind |-> "done"]
ReturnObject(o, c) == [kind |-> "object", id |-> o, object |-> c]
VariableFactoryException(v) ==
  [kind |-> "VariableFactoryException", variable |-> v]
Exception         == [kind |-> "Exception"]
Thrown            == {"VariableFactoryException", "Exception"}

Top == stack[Len(stack)]
In(call) == stack # <<>> /\ Top.call = call

\* Continue in the frame on top, in a callee, or in the caller.
Continue(frame) == stack' = [stack EXCEPT ![Len(stack)] = frame]
Call(frame, callee) ==
  stack' = Append([stack EXCEPT ![Len(stack)] = frame], callee)
Return == stack' = SubSeq(stack, 1, Len(stack) - 1)

\* An exception that nobody on this level catches (the slip: it is swallowed).
FaultyUnwind ==
  /\ ret.kind \in Thrown
  /\ Return
  /\ ret' = NoReturn
  /\ UNCHANGED <<input, index, collectedObjects, variableFlag, written>>
Unwind ==
  /\ ret.kind \in Thrown
  /\ Return
  /\ UNCHANGED <<input, index, ret, collectedObjects, variableFlag, written>>

-----------------------------------------------------------------------------
\* ObjectFactory::GetObjectById: the entities, filters and set references of an
\* object, in document order.  A var_ref gets its variable, a reference of a set
\* is parsed on the spot.
ParseNext ==
  /\ In("Parse")
  /\ ret = NoReturn
  /\ Top.at < Len(input.uses[Top.id])
  /\ LET use == input.uses[Top.id][Top.at + 1]
     IN  Call(Top, IF use \in Variables THEN VariableFrame(use)
                                        ELSE ParseFrame(use))
  /\ UNCHANGED <<input, index, ret, collectedObjects, variableFlag, written>>

ParseContinues ==
  /\ In("Parse")
  /\ ret = Done
  /\ Continue([Top EXCEPT !.at = @ + 1])
  /\ ret' = NoReturn
  /\ UNCHANGED <<input, index, collectedObjects, variableFlag, written>>

ParseEnds ==
  /\ In("Parse")
  /\ ret = NoReturn
  /\ Top.at = Len(input.uses[Top.id])
  /\ Return
  /\ ret' = Done
  /\ UNCHANGED <<input, index, collectedObjects, variableFlag, written>>

ParseFails == In("Parse") /\ Unwind

-----------------------------------------------------------------------------
\* VariableFactory::GetVariable hands out complete variables only (the slip: one
\* whose field does not exist passes, too).
FaultyOutcome(v, flag) ==
  IF flag \in {"complete", "does not exist"}
    THEN Done ELSE VariableFactoryException(v)
Outcome(v, flag) ==
  IF flag = "complete" THEN Done ELSE VariableFactoryException(v)

GetCachedVariable ==
  /\ In("GetVariable")
  /\ Top.at = 0
  /\ variableFlag[Top.id] # "absent"
  /\ Return
  /\ ret' = Outcome(Top.id, variableFlag[Top.id])
  /\ UNCHANGED <<input, index, collectedObjects, variableFlag, written>>

UndefinedVariable ==
  /\ In("GetVariable")
  /\ Top.at = 0
  /\ variableFlag[Top.id] = "absent"
  /\ input.own[Top.id] = "undefined"
  /\ Return
  /\ ret' = Exception
  /\ UNCHANGED <<input, index, collectedObjects, variableFlag, written>>

\* The flag of the AbsVariable constructor.
InitialFlag == "error"

\* The new variable is cached and then parsed.  The slips: it is cached later, or
\* a variable that is cached already is made again.
LateCacheVariable ==
  /\ In("GetVariable")
  /\ Top.at = 0
  /\ variableFlag[Top.id] = "absent"
  /\ input.own[Top.id] # "undefined"
  /\ Continue([Top EXCEPT !.at = 1])
  /\ UNCHANGED <<input, index, ret, collectedObjects, variableFlag, written>>
RepeatedCacheVariable ==
  /\ In("GetVariable")
  /\ Top.at = 0
  /\ input.own[Top.id] # "undefined"
  /\ variableFlag' = [variableFlag EXCEPT ![Top.id] = InitialFlag]
  /\ Continue([Top EXCEPT !.at = 1])
  /\ UNCHANGED <<input, index, ret, collectedObjects, written>>
CacheVariable ==
  /\ In("GetVariable")
  /\ Top.at = 0
  /\ variableFlag[Top.id] = "absent"
  /\ input.own[Top.id] # "undefined"
  /\ variableFlag' = [variableFlag EXCEPT ![Top.id] = InitialFlag]
  /\ Continue([Top EXCEPT !.at = 1])
  /\ UNCHANGED <<input, index, ret, collectedObjects, written>>

\* A variable_component gets the other variable while it is parsed, an
\* object_component runs the collector when its value is computed.
ComputeComponent ==
  /\ In("GetVariable")
  /\ ret = NoReturn
  /\ Top.at \in 1..Len(input.needs[Top.id])
  /\ LET need == input.needs[Top.id][Top.at]
     IN  Call(Top, IF need \in Variables THEN VariableFrame(need)
                                         ELSE RunFrame(need))
  /\ UNCHANGED <<input, index, ret, collectedObjects, variableFlag, written>>

\* ObjectComponent::ComputeValue: each entity of the field overwrites the flag
\* that was taken over from the object (the slip: a status is taken for a flag).
FaultyObjectComponentFlag(object, field) ==
  IF \/ object.flag \notin {"complete", "incomplete"}
     \/ object.items = {}
     \/ field \in {"missing", "error"} THEN "error" ELSE field
ObjectComponentFlag(object, field) ==
  IF \/ object.flag \notin {"complete", "incomplete"}
     \/ object.items = {}
     \/ field \in {"missing", "error"} THEN "error"
  ELSE IF field = "exists" THEN "complete" ELSE field

VariableComponentReturns ==
  /\ In("GetVariable")
  /\ Top.at >= 1
  /\ ret = Done
  /\ Continue([Top EXCEPT !.at = @ + 1])
  /\ ret' = NoReturn
  /\ UNCHANGED <<input, index, collectedObjects, variableFlag, written>>

ObjectComponentReturns ==
  /\ In("GetVariable")
  /\ Top.at >= 1
  /\ ret.kind = "object"
  /\ Continue([Top EXCEPT
        !.at = @ + 1,
        !.got = Append(@, ObjectComponentFlag(ret.object, input.field[ret.id]))])
  /\ ret' = NoReturn
  /\ UNCHANGED <<input, index, collectedObjects, variableFlag, written>>

\* All components are there; the flags are combined (a variable_component is
\* complete when it is reached, as a literal is).
ComputeVariable ==
  /\ In("GetVariable")
  /\ ret = NoReturn
  /\ Top.at = Len(input.needs[Top.id]) + 1
  /\ Return
  /\ IF input.own[Top.id] = "throws"
       THEN ret' = Exception /\ UNCHANGED variableFlag
       ELSE LET flag == CombineFlags(<<input.own[Top.id]>> \o Top.got)
            IN  /\ variableFlag' = [variableFlag EXCEPT ![Top.id] = flag]
                /\ ret' = Outcome(Top.id, flag)
  /\ UNCHANGED <<input, index, collectedObjects, written>>

\* A component could not be had: the variable stays in the cache as it is.
VariableFails == In("GetVariable") /\ Unwind

-----------------------------------------------------------------------------
\* The collected object of the top frame's object is created: CollectedObject::
\* Cache keeps an entry that is already there, Run returns the new object.
Create(c) ==
  /\ collectedObjects' =
       IF collectedObjects[Top.id] = Absent
         THEN [collectedObjects EXCEPT ![Top.id] = c] ELSE collectedObjects
  /\ ret' = ReturnObject(Top.id, c)
  /\ Return
  /\ UNCHANGED <<input, index, variableFlag, written>>

CreateError(flag) == Create([flag |-> flag, items |-> {}])

RunFromCache ==
  /\ In("Run")
  /\ Top.at = 0
  /\ collectedObjects[Top.id] # Absent
  /\ ret' = ReturnObject(Top.id, collectedObjects[Top.id])
  /\ Return
  /\ UNCHANGED <<input, index, collectedObjects, variableFlag, written>>

RunParses ==
  /\ In("Run")
  /\ Top.at = 0
  /\ collectedObjects[Top.id] = Absent
  /\ Call([Top EXCEPT !.at = 1], ParseFrame(Top.id))
  /\ UNCHANGED <<input, index, ret, collectedObjects, variableFlag, written>>

\* catch (VariableFactoryException): the object gets the flag of the variable.  The
\* slips: the object is not entered in the map, or keeps the flag of an error.
FlaglessRunCatchesVariable ==
  /\ In("Run")
  /\ Top.at = 1
  /\ ret.kind = "VariableFactoryException"
  /\ CreateError("error")
RunCatchesVariable ==
  /\ In("Run")
  /\ Top.at = 1
  /\ ret.kind = "VariableFactoryException"
  /\ CreateError(variableFlag[ret.variable])

\* catch (Exception), catch (...)
RunCatchesException ==
  /\ In("Run")
  /\ Top.at = 1
  /\ ret.kind = "Exception"
  /\ CreateError("error")

RunProcesses ==
  /\ In("Run")
  /\ Top.at = 1
  /\ ret = Done
  /\ Continue([Top EXCEPT !.at = 2])
  /\ ret' = NoReturn
  /\ UNCHANGED <<input, index, collectedObjects, variableFlag, written>>

-----------------------------------------------------------------------------
\* The flag of an object from the status of each of its items
\* (CollectedObject::AppendReferencesAndComputeFlag).
ItemsFlag(items) ==
  LET statuses == {input.status[i] : i \in items}
  IN  IF "error" \in statuses              THEN "error"
      ELSE IF "not collected" \in statuses THEN "incomplete"
      ELSE IF "exists" \in statuses        THEN "complete"
      ELSE "does not exist"

ProcessObject ==
  /\ In("Run")
  /\ Top.at = 2
  /\ ret = NoReturn
  /\ input.operator[Top.id] = "none"
  /\ LET answer == input.answer[Top.id]
         items  == input.items[Top.id]
     IN  CASE answer = "not applicable" -> CreateError("not applicable")
           [] answer = "not supported"  -> CreateError("not collected")
           [] answer = "throws"         -> CreateError("error")
           [] answer = "items"          ->
                Create([flag |-> ItemsFlag(items), items |-> items])

\* ProcessSet: run the next reference ...
CollectReference ==
  /\ In("Run")
  /\ Top.at = 2
  /\ ret = NoReturn
  /\ input.operator[Top.id] # "none"
  /\ Len(Top.got) < Len(input.references[Top.id])
  /\ Call(Top, RunFrame(input.references[Top.id][Len(Top.got) + 1]))
  /\ UNCHANGED <<input, index, ret, collectedObjects, variableFlag, written>>

\* ... and filter a copy of its items; a filter that cannot be decided for one of
\* them throws, and the set object is an error.
FilterReference ==
  /\ In("Run")
  /\ Top.at = 2
  /\ ret.kind = "object"
  /\ LET filter == input.filter[Top.id]
     IN  IF \E i \in ret.object.items : filter[i] = "undecided"
           THEN CreateError("error")
           ELSE /\ Continue([Top EXCEPT !.got = Append(@,
                     [ret.object EXCEPT
                        !.items = {i \in @ : filter[i] = "keep"}])])
                /\ ret' = NoReturn
                /\ UNCHANGED <<input, index, collectedObjects, variableFlag,
                               written>>

\* ProcessSet and ProcessSetObject, once all references are there.
ProcessSetObject ==
  /\ In("Run")
  /\ Top.at = 2
  /\ ret = NoReturn
  /\ input.operator[Top.id] # "none"
  /\ Len(Top.got) = Len(input.references[Top.id])
  /\ LET set1 == Top.got[1]
     IN  Create(IF Len(Top.got) = 2
                  THEN CombineSets(input.operator[Top.id], set1, Top.got[2])
                  ELSE [set1 EXCEPT !.flag = SettleFlag(@, set1.items)])

-----------------------------------------------------------------------------
Init ==
  /\ input \in Inputs
  /\ index = 1
  /\ stack = <<>>
  /\ ret = NoReturn
  /\ collectedObjects = [o \in Objects |-> Absent]
  /\ variableFlag = [v \in Variables |-> "absent"]
  /\ written = <<>>

\* AbsDataCollector::Run: the loop over the objects element ...
RunObject ==
  /\ stack = <<>>
  /\ index <= Len(input.order)
  /\ stack' = <<RunFrame(input.order[index])>>
  /\ index' = index + 1
  /\ ret' = NoReturn
  /\ UNCHANGED <<input, collectedObjects, variableFlag, written>>

\* ... and what follows it: all collected objects are written, the caches are
\* cleared.
WriteCollectedObjects ==
  /\ stack = <<>>
  /\ index = Len(input.order) + 1
  /\ index' = index + 1
  /\ written' = [o \in {p \in Objects : collectedObjects[p] # Absent} |->
                   collectedObjects[o]]
  /\ ret' = NoReturn
  /\ collectedObjects' = [o \in Objects |-> Absent]
  /\ variableFlag' = [v \in Variables |-> "absent"]
  /\ UNCHANGED <<input, stack>>

ParseStep == ParseNext \/ ParseContinues \/ ParseEnds \/ ParseFails

VariableStep ==
  \/ GetCachedVariable \/ UndefinedVariable \/ CacheVariable
  \/ ComputeComponent \/ VariableComponentReturns \/ ObjectComponentReturns
  \/ ComputeVariable \/ VariableFails

RunStep ==
  \/ RunFromCache \/ RunParses \/ RunCatchesVariable \/ RunCatchesException
  \/ RunProcesses \/ ProcessObject \/ CollectReference \/ FilterReference
  \/ ProcessSetObject

Next ==
  \/ RunObject \/ WriteCollectedObjects
  \/ ParseStep \/ VariableStep \/ RunStep

\* The collector is one thread that never waits, so it keeps taking steps.
Spec == Init /\ [][Next]_vars /\ WF_vars(Next)

-----------------------------------------------------------------------------
Frames ==
       [call : {"Run"}, id : Objects, at : 0..2, got : Seq(Collected)]
  \cup [call : {"Parse"}, id : Objects, at : Nat]
  \cup [call : {"GetVariable"}, id : Variables, at : Nat, got : Seq(Flags)]

Returns ==
  {NoReturn, Done, Exception}
    \cup [kind : {"object"}, id : Objects, object : Collected]
    \cup [kind : {"VariableFactoryException"}, variable : Variables]

TypeOK ==
  /\ input \in Input
  /\ index \in 1..(Len(input.order) + 2)
  /\ stack \in Seq(Frames)
  /\ ret \in Returns
  /\ collectedObjects \in [Objects -> Collected \cup {Absent}]
  /\ variableFlag \in [Variables -> Flags \cup {"absent"}]
  /\ \A o \in DOMAIN written : o \in Objects /\ written[o] \in Collected

\* The calls that compute a variable at this moment.
Computing(i) == stack[i].call = "GetVariable" /\ stack[i].at >= 1

\* A variable is never computed while it is being computed: a reference cycle
\* through variables ends at the cache, which the variable enters before it is
\* parsed (VariableFactory.cpp:86-89).
NoVariableInsideItself ==
  \A i, j \in DOMAIN stack :
    Computing(i) /\ Computing(j) /\ stack[i].id = stack[j].id => i = j

\* When an object is collected again while it is being collected, both calls
\* arrive at the same result; the second one to end is not cached and would
\* otherwise be seen by its caller only (AbsObjectCollector.cpp:67-154,
\* CollectedObject.cpp:559-571).
ReturnedIsRecorded ==
  ret.kind = "object" => collectedObjects[ret.id] = ret.object

\* An object that was looked for on the system had all its variables: as long as
\* one of them is missing, unfinished or in error, nothing is collected with it
\* (ObjectEntity.cpp:122-131, VariableFactory.cpp:98-108).
LookedFor == {"complete", "incomplete", "not applicable"}
LookedForMeansResolved ==
  \A o \in Objects : collectedObjects[o].flag \in LookedFor =>
    \A i \in DOMAIN input.uses[o] : input.uses[o][i] \in Variables =>
      variableFlag[input.uses[o][i]] = "complete"

\* What an object is collected with, and what its callers see of it, does not depend
\* on who asked first (VariableFactory.cpp:62-109, AbsObjectCollector.cpp:67-154).
AnswersAreSettled == ReturnedIsRecorded /\ LookedForMeansResolved

\* In the end every object of the document stands in the system characteristics
\* document, whatever went wrong with it or with what it refers to
\* (AbsDataCollector.cpp:151-205).
EveryObjectIsWritten ==
  index = Len(input.order) + 2 =>
    \A i \in DOMAIN input.order : input.order[i] \in DOMAIN written

\* A variable that is complete stays as it is until the caches are cleared:
\* entities keep a pointer to it (ObjectEntity.cpp:122-131).
CompleteVariableIsFinal ==
  [][\A v \in Variables :
       variableFlag[v] = "complete" =>
         \/ variableFlag'[v] = "complete"
         \/ WriteCollectedObjects]_vars

\* A run ends, however the variables and objects refer to each other, as long
\* as no set refers to itself.
Terminates == <>(index = Len(input.order) + 2)

=============================================================================
