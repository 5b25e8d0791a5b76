----------------------- MODULE ObjectCollectorProofs -----------------------
(***************************************************************************)
(* What the collector guarantees for every document.  Its cache of variables *)
(* works: the state stays well typed, no variable is computed inside its own *)
(* computation and a complete variable stays complete.  And what it answers *)
(* is settled: an object that is collected again while it is being collected *)
(* is collected as the same, and nothing is looked for with a variable that  *)
(* is not there.  Every object of the document is written in the end, and    *)
(* what is written is what it means (CollectionMeaning): the invariant says  *)
(* of every call that is active, of what it has got and of what is thrown to *)
(* it how much of the meaning is settled already.                            *)
(***************************************************************************)
EXTENDS CollectionMeaning, SharedLemmas

-----------------------------------------------------------------------------
\* The tables yield flags, and a set of collected objects is collected.

LEMMA CombinedFlagsAreAFlag ==
  ASSUME NEW flags PROVE CombineFlags(flags) \in Flags
BY DEF CombineFlags, Flags

LEMMA CombineSetsIsCollected ==
  ASSUME NEW op \in SetOperators, NEW c \in Collected, NEW d \in Collected
  PROVE  CombineSets(op, c, d) \in Collected
<1>1. CombineFlagBySetOperator(op, c.flag, d.flag) \in Flags
  BY DEF CombineFlagBySetOperator, UnionFlag, IntersectionFlag, ComplementFlag,
         SetOperators, Flags, Collected
<1>2. CombineItems(op, c.items, d.items) \in SUBSET ItemIds
  BY DEF CombineItems, UnionItems, IntersectionItems, CompelementItems,
         SetOperators, Collected
<1> QED
  BY <1>1, <1>2 DEF CombineSets, SettleFlag, Collected, Flags

LEMMA ObjectComponentFlagIsAFlag ==
  ASSUME NEW object, NEW field \in FieldAnswers
  PROVE  ObjectComponentFlag(object, field) \in Flags
BY DEF ObjectComponentFlag, FieldAnswers, Statuses, Flags

LEMMA ItemsFlagIsAFlag ==
  ASSUME NEW items PROVE ItemsFlag(items) \in Flags
BY DEF ItemsFlag, Flags

-----------------------------------------------------------------------------
\* The inductive invariant.  A variable that is being computed is in the cache
\* with the flag of an unfinished one; that is why it is not entered again and
\* why the flag that is set at the end never replaces a complete one.
UnfinishedIsError ==
  \A i \in DOMAIN stack : Computing(i) => variableFlag[stack[i].id] = InitialFlag

\* An exception carries a variable that is in the cache.
ThrownIsCached ==
  ret.kind = "VariableFactoryException" => variableFlag[ret.variable] \in Flags

IInv ==
  /\ TypeOK
  /\ input \in Inputs
  /\ ThrownIsCached
  /\ UnfinishedIsError
  /\ NoVariableInsideItself

RunFrames      == [call : {"Run"}, id : Objects, at : 0..2, got : Seq(Collected)]
ParseFrames    == [call : {"Parse"}, id : Objects, at : Nat]
VariableFrames == [call : {"GetVariable"}, id : Variables, at : Nat,
                   got : Seq(Flags)]

LEMMA TopFrame ==
  ASSUME stack \in Seq(Frames), stack # <<>>
  PROVE  /\ Top \in Frames
         /\ Top.call = "Run" => Top \in RunFrames
         /\ Top.call = "Parse" => Top \in ParseFrames
         /\ Top.call = "GetVariable" => Top \in VariableFrames
<1>1. Top \in Frames
  BY DEF Top
<1> QED
  BY <1>1 DEF Frames, RunFrames, ParseFrames, VariableFrames

LEMMA NewFrames ==
  /\ \A o \in Objects : RunFrame(o) \in Frames /\ ParseFrame(o) \in Frames
  /\ \A v \in Variables : VariableFrame(v) \in Frames
<1>1. <<>> \in Seq(Collected) /\ <<>> \in Seq(Flags)
  OBVIOUS
<1> QED
  BY <1>1 DEF RunFrame, ParseFrame, VariableFrame, Frames

\* Returning: the computations that go on keep the flag of their variable.
LEMMA ReturnKeeps ==
  ASSUME stack \in Seq(Frames), stack # <<>>, UnfinishedIsError,
         NoVariableInsideItself, Return,
         \A i \in 1..(Len(stack) - 1) :
           Computing(i) => variableFlag'[stack[i].id] = InitialFlag
  PROVE  (stack \in Seq(Frames) /\ UnfinishedIsError /\ NoVariableInsideItself)'
<1>1. /\ stack' \in Seq(Frames)
      /\ Len(stack') = Len(stack) - 1
      /\ \A i \in 1..(Len(stack) - 1) : stack'[i] = stack[i]
  BY PopFacts DEF Return
<1>2. \A i \in DOMAIN stack' :
        i \in 1..(Len(stack) - 1) /\ i \in DOMAIN stack /\ stack'[i] = stack[i]
  BY <1>1
<1> QED
  BY <1>1, <1>2 DEF UnfinishedIsError, NoVariableInsideItself, Computing

\* Continuing in the same call, and calling: no new computation.
LEMMA ContinueKeeps ==
  ASSUME stack \in Seq(Frames), stack # <<>>, UnfinishedIsError,
         NoVariableInsideItself, variableFlag' = variableFlag,
         NEW frame \in Frames, frame.call = Top.call, frame.id = Top.id,
         frame.call = "GetVariable" /\ frame.at >= 1 => Top.at >= 1,
         Continue(frame)
  PROVE  (stack \in Seq(Frames) /\ UnfinishedIsError /\ NoVariableInsideItself)'
<1>1. /\ stack' \in Seq(Frames)
      /\ Len(stack') = Len(stack)
      /\ stack'[Len(stack)] = frame
      /\ \A i \in 1..(Len(stack) - 1) : stack'[i] = stack[i]
  BY ReplaceFacts DEF Continue
<1>2. \A i \in DOMAIN stack' : /\ i \in DOMAIN stack
                              /\ Computing(i)' => Computing(i)
                              /\ stack'[i].id = stack[i].id
  BY <1>1 DEF Computing, Top
<1> QED
  BY <1>1, <1>2 DEF UnfinishedIsError, NoVariableInsideItself

LEMMA CallKeeps ==
  ASSUME stack \in Seq(Frames), stack # <<>>, UnfinishedIsError,
         NoVariableInsideItself, variableFlag' = variableFlag,
         NEW frame \in Frames, frame.call = Top.call, frame.id = Top.id,
         frame.call = "GetVariable" /\ frame.at >= 1 => Top.at >= 1,
         NEW callee \in Frames, callee.at = 0,
         Call(frame, callee)
  PROVE  (stack \in Seq(Frames) /\ UnfinishedIsError /\ NoVariableInsideItself)'
<1>1. /\ stack' \in Seq(Frames)
      /\ Len(stack') = Len(stack) + 1
      /\ stack'[Len(stack)] = frame
      /\ stack'[Len(stack) + 1] = callee
      /\ \A i \in 1..(Len(stack) - 1) : stack'[i] = stack[i]
  BY PushFacts DEF Call
<1>2. \A i \in DOMAIN stack' : Computing(i)' =>
        /\ i \in DOMAIN stack
        /\ Computing(i)
        /\ stack'[i].id = stack[i].id
  BY <1>1 DEF Computing, Top
<1> QED
  BY <1>1, <1>2 DEF UnfinishedIsError, NoVariableInsideItself

-----------------------------------------------------------------------------
\* Parsing.

\* A step that changes only the stack and what was returned.
LEMMA OnlyReturns ==
  ASSUME IInv, UNCHANGED <<input, index, collectedObjects, variableFlag, written>>,
         ret' \in Returns, ThrownIsCached',
         (stack \in Seq(Frames) /\ UnfinishedIsError /\ NoVariableInsideItself)'
  PROVE  IInv'
BY DEF IInv, TypeOK

LEMMA ReturnsAreTyped ==
  /\ NoReturn \in Returns /\ Done \in Returns /\ Exception \in Returns
  /\ \A o \in Objects, c \in Collected : ReturnObject(o, c) \in Returns
  /\ \A v \in Variables : VariableFactoryException(v) \in Returns
BY DEF Returns, NoReturn, Done, Exception, ReturnObject, VariableFactoryException

\* Returning something that is no VariableFactoryException, or one of a cached
\* variable.
LEMMA PlainReturn ==
  ASSUME IInv, stack # <<>>, Return,
         UNCHANGED <<input, index, collectedObjects, variableFlag, written>>,
         ret' \in Returns, ThrownIsCached'
  PROVE  IInv'
<1>1. \A i \in 1..(Len(stack) - 1) : i \in DOMAIN stack
  BY DEF IInv, TypeOK
<1>2. \A i \in 1..(Len(stack) - 1) :
        Computing(i) => variableFlag'[stack[i].id] = InitialFlag
  BY <1>1 DEF IInv, UnfinishedIsError
<1>3. (stack \in Seq(Frames) /\ UnfinishedIsError /\ NoVariableInsideItself)'
  BY <1>2, ReturnKeeps DEF IInv, TypeOK
<1> QED
  BY <1>3, OnlyReturns

LEMMA UnwindKeeps ==
  ASSUME IInv, stack # <<>>, Unwind PROVE IInv'
<1>1. ret' \in Returns /\ ThrownIsCached'
  BY DEF Unwind, IInv, TypeOK, ThrownIsCached
<1> QED
  BY <1>1, PlainReturn DEF Unwind

LEMMA ParseKeeps ==
  ASSUME IInv, ParseStep PROVE IInv'
<1>1. CASE ParseNext
  <2> DEFINE use == input.uses[Top.id][Top.at + 1]
             callee == IF use \in Variables THEN VariableFrame(use)
                                            ELSE ParseFrame(use)
  <2>1. stack # <<>> /\ stack \in Seq(Frames) /\ Top.call = "Parse"
    BY <1>1 DEF ParseNext, In, IInv, TypeOK
  <2>2. Top \in Frames /\ Top \in ParseFrames
    BY <2>1, TopFrame
  <2>3. use \in Uses
    <3>1. Top.id \in Objects /\ Top.at \in Nat
      BY <2>2 DEF ParseFrames
    <3>2. input.uses[Top.id] \in Seq(Uses)
      BY <3>1 DEF IInv, TypeOK, Input
    <3> QED
      BY <1>1, <3>1, <3>2 DEF ParseNext
  <2>4. callee \in Frames /\ callee.at = 0
    <3>1. use \in Variables => VariableFrame(use) \in Frames
      BY NewFrames
    <3>2. use \notin Variables => ParseFrame(use) \in Frames
      BY <2>3, NewFrames DEF Uses
    <3> QED
      BY <3>1, <3>2 DEF VariableFrame, ParseFrame
  <2>5. Call(Top, callee)
    BY <1>1 DEF ParseNext
  <2> HIDE DEF callee
  <2>6. (stack \in Seq(Frames) /\ UnfinishedIsError /\ NoVariableInsideItself)'
    BY <1>1, <2>1, <2>2, <2>4, <2>5, CallKeeps DEF IInv, ParseNext
  <2> QED
    BY <1>1, <2>6, OnlyReturns DEF ParseNext, IInv, TypeOK, ThrownIsCached
<1>2. CASE ParseContinues
  <2> DEFINE frame == [Top EXCEPT !.at = @ + 1]
  <2>1. stack # <<>> /\ stack \in Seq(Frames) /\ Top.call = "Parse"
    BY <1>2 DEF ParseContinues, In, IInv, TypeOK
  <2>2. Top \in ParseFrames
    BY <2>1, TopFrame
  <2>3. frame \in ParseFrames /\ frame.id = Top.id
    BY <2>2 DEF ParseFrames
  <2>4. frame \in Frames /\ frame.call = "Parse"
    BY <2>3 DEF ParseFrames, Frames
  <2>5. Continue(frame)
    BY <1>2 DEF ParseContinues
  <2> HIDE DEF frame
  <2>6. (stack \in Seq(Frames) /\ UnfinishedIsError /\ NoVariableInsideItself)'
    BY <1>2, <2>1, <2>3, <2>4, <2>5, ContinueKeeps DEF IInv, ParseContinues
  <2>7. ret' \in Returns /\ ThrownIsCached'
    BY <1>2, ReturnsAreTyped DEF ParseContinues, ThrownIsCached, NoReturn
  <2> QED
    BY <1>2, <2>6, <2>7, OnlyReturns DEF ParseContinues
<1>3. CASE ParseEnds
  <2>1. ret' \in Returns /\ ThrownIsCached'
    BY <1>3, ReturnsAreTyped DEF ParseEnds, ThrownIsCached, Done
  <2> QED
    BY <1>3, <2>1, PlainReturn DEF ParseEnds, In
<1>4. CASE ParseFails
  BY <1>4, UnwindKeeps DEF ParseFails, In
<1> QED
  BY <1>1, <1>2, <1>3, <1>4 DEF ParseStep

-----------------------------------------------------------------------------
\* Variables.

\* What GetVariable returns for a variable that is in the cache.
LEMMA OutcomeFacts ==
  ASSUME NEW v \in Variables, NEW flag
  PROVE  /\ Outcome(v, flag) \in Returns
         /\ Outcome(v, flag).kind = "VariableFactoryException"
              => Outcome(v, flag).variable = v
<1>1. Outcome(v, flag) \in {Done, VariableFactoryException(v)}
  BY DEF Outcome
<1>2. Done.kind = "done" /\ VariableFactoryException(v).variable = v
  BY DEF Done, VariableFactoryException
<1> QED
  BY <1>1, <1>2, ReturnsAreTyped

\* The variable of the call on top.
LEMMA TopVariable ==
  ASSUME IInv, In("GetVariable")
  PROVE  /\ stack \in Seq(Frames) /\ stack # <<>>
         /\ Top \in Frames /\ Top \in VariableFrames
         /\ Top.id \in Variables
         /\ Len(stack) \in DOMAIN stack /\ stack[Len(stack)] = Top
<1>1. stack \in Seq(Frames) /\ stack # <<>> /\ Top.call = "GetVariable"
  BY DEF In, IInv, TypeOK
<1>2. Top \in Frames /\ Top \in VariableFrames
  BY <1>1, TopFrame
<1> QED
  BY <1>1, <1>2 DEF VariableFrames, Top

\* The variable enters the cache and its computation starts: no other one of the
\* same variable is going on, or it would be in the cache.
LEMMA CacheVariableKeeps ==
  ASSUME IInv, CacheVariable PROVE IInv'
<1> DEFINE v     == Top.id
           frame == [Top EXCEPT !.at = 1]
           n     == Len(stack)
<1>1. /\ stack \in Seq(Frames) /\ stack # <<>>
      /\ Top \in VariableFrames /\ v \in Variables
      /\ n \in DOMAIN stack /\ stack[n] = Top
  BY TopVariable DEF CacheVariable
<1>2. frame \in VariableFrames /\ frame.id = v
  BY <1>1 DEF VariableFrames
<1>3. frame \in Frames
  BY <1>2 DEF VariableFrames, Frames
<1>4. Continue(frame)
  BY DEF CacheVariable
<1> HIDE DEF frame
<1>5. /\ stack' \in Seq(Frames)
      /\ Len(stack') = n
      /\ stack'[n] = frame
      /\ \A i \in 1..(n - 1) : stack'[i] = stack[i]
  BY <1>1, <1>3, <1>4, ReplaceFacts DEF Continue
<1>6. InitialFlag \in Flags
  BY DEF InitialFlag, Flags
<1>7. /\ variableFlag' \in [Variables -> Flags \cup {"absent"}]
      /\ variableFlag'[v] = InitialFlag
      /\ \A w \in Variables : w # v => variableFlag'[w] = variableFlag[w]
  BY <1>1, <1>6 DEF CacheVariable, IInv, TypeOK
<1>8. variableFlag[v] = "absent" /\ InitialFlag # "absent"
  BY DEF CacheVariable, InitialFlag
<1>9. \A i \in 1..(n - 1) : Computing(i) => stack[i].id # v
  BY <1>1, <1>8 DEF IInv, UnfinishedIsError
<1>10. \A i \in DOMAIN stack' : i # n => i \in 1..(n - 1) /\ i \in DOMAIN stack
  BY <1>1, <1>5
<1>11. \A i \in DOMAIN stack' : i # n =>
         /\ stack'[i] = stack[i]
         /\ Computing(i)' => Computing(i) /\ stack[i].id \in Variables
  <2> SUFFICES ASSUME NEW i \in DOMAIN stack', i # n
               PROVE  /\ stack'[i] = stack[i]
                      /\ Computing(i)' => Computing(i) /\ stack[i].id \in Variables
    OBVIOUS
  <2>1. stack'[i] = stack[i] /\ stack[i] \in Frames
    BY <1>1, <1>5, <1>10
  <2> QED
    BY <2>1 DEF Computing, Frames
<1>12. UnfinishedIsError'
  BY <1>2, <1>5, <1>7, <1>9, <1>10, <1>11 DEF UnfinishedIsError, IInv
<1>13. NoVariableInsideItself'
  BY <1>2, <1>5, <1>9, <1>10, <1>11 DEF NoVariableInsideItself, IInv
<1>14. ThrownIsCached'
  <2> SUFFICES ASSUME ret.kind = "VariableFactoryException"
               PROVE  variableFlag'[ret.variable] \in Flags
    BY DEF ThrownIsCached, CacheVariable
  <2>1. variableFlag[ret.variable] \in Flags
    BY DEF IInv, ThrownIsCached
  <2>2. ret.variable \in Variables
    BY DEF IInv, TypeOK, Returns, NoReturn, Done, Exception
  <2> QED
    BY <1>6, <1>7, <2>1, <2>2
<1> QED
  BY <1>5, <1>7, <1>12, <1>13, <1>14 DEF CacheVariable, IInv, TypeOK

\* The computation ends: the flag of the variable is set.
LEMMA ComputeVariableKeeps ==
  ASSUME IInv, ComputeVariable PROVE IInv'
<1> DEFINE v    == Top.id
           n    == Len(stack)
           flag == CombineFlags(<<input.own[v]>> \o Top.got)
<1>1. /\ stack \in Seq(Frames) /\ stack # <<>>
      /\ Top \in VariableFrames /\ v \in Variables
      /\ n \in DOMAIN stack /\ stack[n] = Top
  BY TopVariable DEF ComputeVariable
<1>2. flag \in Flags
  BY CombinedFlagsAreAFlag
<1> HIDE DEF flag
<1>3. Return
  BY DEF ComputeVariable
<1>4. CASE input.own[v] = "throws"
  <2>1. ret' = Exception /\ UNCHANGED variableFlag
    BY <1>4 DEF ComputeVariable
  <2>2. ret' \in Returns /\ ThrownIsCached'
    BY <2>1, ReturnsAreTyped DEF ThrownIsCached, Exception
  <2> QED
    BY <1>1, <1>3, <2>1, <2>2, PlainReturn DEF ComputeVariable
<1>5. CASE input.own[v] # "throws"
  <2>1. /\ variableFlag' = [variableFlag EXCEPT ![v] = flag]
        /\ ret' = Outcome(v, flag)
    BY <1>5 DEF ComputeVariable, flag
  <2>2. /\ variableFlag' \in [Variables -> Flags \cup {"absent"}]
        /\ variableFlag'[v] = flag
        /\ \A w \in Variables : w # v => variableFlag'[w] = variableFlag[w]
    BY <1>1, <1>2, <2>1 DEF IInv, TypeOK
  <2>3. ret' \in Returns /\ ThrownIsCached'
    BY <1>1, <1>2, <2>1, <2>2, OutcomeFacts DEF ThrownIsCached
  <2>4. Computing(n)
    BY <1>1 DEF ComputeVariable, Computing, In, IInv, TypeOK, Input, VariableFrames
  <2>5. \A i \in 1..(n - 1) :
          Computing(i) => variableFlag'[stack[i].id] = InitialFlag
    <3> SUFFICES ASSUME NEW i \in 1..(n - 1), Computing(i)
                 PROVE  variableFlag'[stack[i].id] = InitialFlag
      OBVIOUS
    <3>1. i \in DOMAIN stack /\ i # n /\ stack[i] \in Frames
      BY <1>1
    <3>2. stack[i].id # v /\ stack[i].id \in Variables
      BY <1>1, <2>4, <3>1 DEF IInv, NoVariableInsideItself, Computing, Frames
    <3> QED
      BY <2>2, <3>1, <3>2 DEF IInv, UnfinishedIsError
  <2>6. (stack \in Seq(Frames) /\ UnfinishedIsError /\ NoVariableInsideItself)'
    BY <1>1, <1>3, <2>5, ReturnKeeps DEF IInv
  <2> QED
    BY <2>2, <2>3, <2>6 DEF ComputeVariable, IInv, TypeOK
<1> QED
  BY <1>4, <1>5

\* The next component of a variable is asked for, or has been computed.
LEMMA ComputeComponentKeeps ==
  ASSUME IInv, ComputeComponent PROVE IInv'
<1> DEFINE need   == input.needs[Top.id][Top.at]
           callee == IF need \in Variables THEN VariableFrame(need)
                                          ELSE RunFrame(need)
<1>1. /\ stack \in Seq(Frames) /\ stack # <<>>
      /\ Top \in Frames /\ Top.id \in Variables
  BY TopVariable DEF ComputeComponent
<1>2. need \in Uses
  <2>1. input.needs[Top.id] \in Seq(Uses)
    BY <1>1 DEF IInv, TypeOK, Input
  <2> QED
    BY <2>1 DEF ComputeComponent
<1>3. callee \in Frames /\ callee.at = 0
  <2>1. need \in Variables => VariableFrame(need) \in Frames
    BY NewFrames
  <2>2. need \notin Variables => RunFrame(need) \in Frames
    BY <1>2, NewFrames DEF Uses
  <2> QED
    BY <2>1, <2>2 DEF VariableFrame, RunFrame
<1>4. Call(Top, callee)
  BY DEF ComputeComponent
<1> HIDE DEF callee
<1>5. (stack \in Seq(Frames) /\ UnfinishedIsError /\ NoVariableInsideItself)'
  BY <1>1, <1>3, <1>4, CallKeeps DEF IInv, ComputeComponent
<1> QED
  BY <1>5, OnlyReturns DEF ComputeComponent, IInv, TypeOK, ThrownIsCached

LEMMA ComponentReturnsKeeps ==
  ASSUME IInv, VariableComponentReturns \/ ObjectComponentReturns PROVE IInv'
<1>1. /\ stack \in Seq(Frames) /\ stack # <<>>
      /\ Top \in VariableFrames /\ Top.at >= 1
  BY TopVariable DEF VariableComponentReturns, ObjectComponentReturns
<1>2. PICK frame \in VariableFrames : frame.id = Top.id /\ Continue(frame)
  <2>1. CASE VariableComponentReturns
    <3>1. [Top EXCEPT !.at = @ + 1] \in VariableFrames
      BY <1>1 DEF VariableFrames
    <3> QED
      BY <1>1, <2>1, <3>1 DEF VariableComponentReturns, VariableFrames
  <2>2. CASE ObjectComponentReturns
    <3> DEFINE f == ObjectComponentFlag(ret.object, input.field[ret.id])
               frame == [Top EXCEPT !.at = @ + 1, !.got = Append(@, f)]
    <3>1. ret.id \in Objects
      BY <2>2 DEF ObjectComponentReturns, IInv, TypeOK, Returns, NoReturn, Done,
                  Exception
    <3>2. input.field[ret.id] \in FieldAnswers
      BY <3>1 DEF IInv, TypeOK, Input
    <3>3. f \in Flags
      BY <3>2, ObjectComponentFlagIsAFlag
    <3> HIDE DEF f
    <3>4. frame \in VariableFrames /\ frame.id = Top.id
      <4> DEFINE got  == Append(Top.got, f)
                 next == [Top EXCEPT !.at = @ + 1]
      <4>1. got \in Seq(Flags)
        BY <1>1, <3>3 DEF VariableFrames
      <4>2. next \in VariableFrames /\ next.id = Top.id
        BY <1>1 DEF VariableFrames
      <4>3. frame = [next EXCEPT !.got = got]
        BY Zenon
      <4> HIDE DEF next, got, frame
      <4> QED
        BY <4>1, <4>2, <4>3 DEF VariableFrames
    <3> QED
      BY <2>2, <3>4 DEF ObjectComponentReturns, f
  <2> QED
    BY <2>1, <2>2
<1>3. frame \in Frames /\ frame.call = Top.call
  BY <1>1, <1>2 DEF VariableFrames, Frames
<1>4. variableFlag' = variableFlag /\ ret' = NoReturn
  BY DEF VariableComponentReturns, ObjectComponentReturns
<1>5. (stack \in Seq(Frames) /\ UnfinishedIsError /\ NoVariableInsideItself)'
  BY <1>1, <1>2, <1>3, <1>4, ContinueKeeps DEF IInv
<1>6. ret' \in Returns /\ ThrownIsCached'
  BY <1>4, ReturnsAreTyped DEF ThrownIsCached, NoReturn
<1> QED
  BY <1>5, <1>6, OnlyReturns DEF VariableComponentReturns, ObjectComponentReturns

LEMMA VariableKeeps ==
  ASSUME IInv, VariableStep PROVE IInv'
<1>1. CASE GetCachedVariable
  <2>1. stack # <<>> /\ Top.id \in Variables
    BY <1>1, TopVariable DEF GetCachedVariable
  <2>2. variableFlag[Top.id] \in Flags
    BY <1>1, <2>1 DEF GetCachedVariable, IInv, TypeOK
  <2>3. ret' \in Returns /\ ThrownIsCached'
    BY <1>1, <2>1, <2>2, OutcomeFacts DEF GetCachedVariable, ThrownIsCached
  <2> QED
    BY <1>1, <2>1, <2>3, PlainReturn DEF GetCachedVariable
<1>2. CASE UndefinedVariable
  <2>1. ret' \in Returns /\ ThrownIsCached'
    BY <1>2, ReturnsAreTyped DEF UndefinedVariable, ThrownIsCached, Exception
  <2> QED
    BY <1>2, <2>1, PlainReturn DEF UndefinedVariable, In
<1>3. CASE VariableFails
  BY <1>3, UnwindKeeps DEF VariableFails, In
<1> QED
  BY <1>1, <1>2, <1>3, CacheVariableKeeps, ComputeComponentKeeps,
     ComponentReturnsKeeps, ComputeVariableKeeps DEF VariableStep

-----------------------------------------------------------------------------
\* Running.

LEMMA TopRun ==
  ASSUME IInv, In("Run")
  PROVE  /\ stack \in Seq(Frames) /\ stack # <<>>
         /\ Top \in Frames /\ Top \in RunFrames /\ Top.call = "Run"
         /\ Top.id \in Objects /\ Top.got \in Seq(Collected)
<1>1. stack \in Seq(Frames) /\ stack # <<>> /\ Top.call = "Run"
  BY DEF In, IInv, TypeOK
<1>2. Top \in Frames /\ Top \in RunFrames
  BY <1>1, TopFrame
<1> QED
  BY <1>1, <1>2 DEF RunFrames

\* A collected object is created and returned.
LEMMA CreateKeeps ==
  ASSUME IInv, In("Run"), NEW c \in Collected, Create(c) PROVE IInv'
<1>1. stack \in Seq(Frames) /\ stack # <<>> /\ Top.id \in Objects
  BY TopRun
<1>2. collectedObjects' \in [Objects -> Collected \cup {Absent}]
  BY <1>1 DEF Create, IInv, TypeOK
<1>3. ret' \in Returns /\ ThrownIsCached'
  BY <1>1, ReturnsAreTyped DEF Create, ThrownIsCached, ReturnObject
<1>4. \A i \in 1..(Len(stack) - 1) :
        Computing(i) => variableFlag'[stack[i].id] = InitialFlag
  <2>1. \A i \in 1..(Len(stack) - 1) : i \in DOMAIN stack
    BY <1>1
  <2> QED
    BY <2>1 DEF Create, IInv, UnfinishedIsError
<1>5. (stack \in Seq(Frames) /\ UnfinishedIsError /\ NoVariableInsideItself)'
  BY <1>1, <1>4, ReturnKeeps DEF IInv, Create
<1> QED
  BY <1>2, <1>3, <1>5 DEF Create, IInv, TypeOK

LEMMA CreateErrorKeeps ==
  ASSUME IInv, In("Run"), NEW flag \in Flags, CreateError(flag) PROVE IInv'
<1> DEFINE c == [flag |-> flag, items |-> {}]
<1>1. c \in Collected
  BY DEF Collected
<1>2. Create(c)
  BY DEF CreateError
<1> HIDE DEF c
<1> QED
  BY <1>1, <1>2, CreateKeeps

\* Continuing, or calling, in a call of Run.
LEMMA RunContinues ==
  ASSUME IInv, In("Run"), NEW frame \in RunFrames, frame.id = Top.id,
         Continue(frame), ret' = NoReturn,
         UNCHANGED <<input, index, collectedObjects, variableFlag, written>>
  PROVE  IInv'
<1>1. stack \in Seq(Frames) /\ stack # <<>> /\ Top.call = "Run"
  BY TopRun
<1>2. frame \in Frames /\ frame.call = "Run"
  BY DEF RunFrames, Frames
<1>3. (stack \in Seq(Frames) /\ UnfinishedIsError /\ NoVariableInsideItself)'
  BY <1>1, <1>2, ContinueKeeps DEF IInv
<1>4. ret' \in Returns /\ ThrownIsCached'
  BY ReturnsAreTyped DEF ThrownIsCached, NoReturn
<1> QED
  BY <1>3, <1>4, OnlyReturns

LEMMA RunCalls ==
  ASSUME IInv, In("Run"), NEW frame \in RunFrames, frame.id = Top.id,
         NEW callee \in Frames, callee.at = 0, Call(frame, callee),
         UNCHANGED <<input, index, ret, collectedObjects, variableFlag, written>>
  PROVE  IInv'
<1>1. stack \in Seq(Frames) /\ stack # <<>> /\ Top.call = "Run"
  BY TopRun
<1>2. frame \in Frames /\ frame.call = "Run"
  BY DEF RunFrames, Frames
<1>3. (stack \in Seq(Frames) /\ UnfinishedIsError /\ NoVariableInsideItself)'
  BY <1>1, <1>2, CallKeeps DEF IInv
<1> QED
  BY <1>3, OnlyReturns DEF IInv, TypeOK, ThrownIsCached

LEMMA ProcessObjectKeeps ==
  ASSUME IInv, ProcessObject PROVE IInv'
<1> DEFINE answer == input.answer[Top.id]
           items  == input.items[Top.id]
           c      == [flag |-> ItemsFlag(items), items |-> items]
<1>1. In("Run") /\ Top.id \in Objects
  BY TopRun DEF ProcessObject
<1>2. answer \in Answers /\ items \in SUBSET ItemIds
  BY <1>1 DEF IInv, TypeOK, Input
<1>3. c \in Collected
  <2>1. ItemsFlag(items) \in Flags
    BY ItemsFlagIsAFlag
  <2> QED
    BY <1>2, <2>1 DEF Collected
<1>4. \/ CreateError("not applicable") \/ CreateError("not collected")
      \/ CreateError("error") \/ Create(c)
  BY <1>2 DEF ProcessObject, Answers
<1>5. {"not applicable", "not collected", "error"} \subseteq Flags
  BY DEF Flags
<1> HIDE DEF c
<1> QED
  BY <1>1, <1>3, <1>4, <1>5, CreateKeeps, CreateErrorKeeps

LEMMA FilterReferenceKeeps ==
  ASSUME IInv, FilterReference PROVE IInv'
<1> DEFINE filter == input.filter[Top.id]
           kept   == [ret.object EXCEPT
                        !.items = {i \in @ : filter[i] = "keep"}]
           frame  == [Top EXCEPT !.got = Append(@, kept)]
<1>1. In("Run") /\ Top \in RunFrames /\ Top.got \in Seq(Collected)
  BY TopRun DEF FilterReference
<1>2. ret.object \in Collected
  BY DEF FilterReference, IInv, TypeOK, Returns, NoReturn, Done, Exception
<1>3. kept \in Collected
  BY <1>2 DEF Collected
<1>4. \/ CreateError("error")
      \/ /\ Continue(frame)
         /\ ret' = NoReturn
         /\ UNCHANGED <<input, index, collectedObjects, variableFlag, written>>
  BY DEF FilterReference
<1> HIDE DEF kept
<1>5. frame \in RunFrames /\ frame.id = Top.id
  <2>1. Append(Top.got, kept) \in Seq(Collected)
    BY <1>1, <1>3
  <2> QED
    BY <1>1, <2>1 DEF RunFrames
<1> HIDE DEF frame
<1>6. "error" \in Flags
  BY DEF Flags
<1> QED
  BY <1>1, <1>4, <1>5, <1>6, RunContinues, CreateErrorKeeps

LEMMA ProcessSetObjectKeeps ==
  ASSUME IInv, ProcessSetObject PROVE IInv'
<1> DEFINE got  == Top.got
           op   == input.operator[Top.id]
           refs == input.references[Top.id]
           one  == [got[1] EXCEPT !.flag = SettleFlag(@, got[1].items)]
           two  == CombineSets(op, got[1], got[2])
<1>1. In("Run") /\ Top.id \in Objects /\ got \in Seq(Collected)
  BY TopRun DEF ProcessSetObject
<1>2. op \in SetOperators /\ Len(got) \in {1, 2}
  <2>1. op \in SetOperators \cup {"none"}
    BY <1>1 DEF IInv, TypeOK, Input
  <2>2. op # "none" /\ Len(got) = Len(refs)
    BY DEF ProcessSetObject
  <2>3. Len(refs) \in IF op = "none" THEN {0} ELSE {1, 2}
    BY <1>1, InputsAssumption DEF IInv, WellFormed
  <2> QED
    BY <2>1, <2>2, <2>3
<1>3. \/ Len(got) = 2 /\ Create(two)
      \/ Len(got) = 1 /\ Create(one)
  BY <1>2 DEF ProcessSetObject
<1>4. got[1] \in Collected
  BY <1>1, <1>2
<1>5. Len(got) = 2 => two \in Collected
  <2> SUFFICES ASSUME Len(got) = 2 PROVE two \in Collected
    OBVIOUS
  <2>1. got[2] \in Collected
    BY <1>1
  <2> QED
    BY <1>2, <1>4, <2>1, CombineSetsIsCollected
<1>6. one \in Collected
  <2>1. SettleFlag(got[1].flag, got[1].items) \in Flags
    BY <1>4 DEF SettleFlag, Collected, Flags
  <2> QED
    BY <1>4, <2>1 DEF Collected
<1> HIDE DEF one, two, got
<1> QED
  BY <1>1, <1>3, <1>5, <1>6, CreateKeeps

LEMMA RunKeeps ==
  ASSUME IInv, RunStep PROVE IInv'
<1>1. CASE RunFromCache
  <2>1. stack # <<>> /\ Top.id \in Objects
    BY <1>1, TopRun DEF RunFromCache
  <2>2. collectedObjects[Top.id] \in Collected
    BY <1>1, <2>1 DEF RunFromCache, IInv, TypeOK
  <2>3. ret' \in Returns /\ ThrownIsCached'
    BY <1>1, <2>1, <2>2, ReturnsAreTyped
    DEF RunFromCache, ThrownIsCached, ReturnObject
  <2> QED
    BY <1>1, <2>1, <2>3, PlainReturn DEF RunFromCache
<1>2. CASE RunParses
  <2> DEFINE frame == [Top EXCEPT !.at = 1]
             callee == ParseFrame(Top.id)
  <2>1. In("Run") /\ Top \in RunFrames /\ Top.id \in Objects
    BY <1>2, TopRun DEF RunParses
  <2>2. frame \in RunFrames /\ frame.id = Top.id
    BY <2>1 DEF RunFrames
  <2>3. callee \in Frames /\ callee.at = 0
    BY <2>1, NewFrames DEF ParseFrame
  <2>4. Call(frame, callee)
    BY <1>2 DEF RunParses
  <2> HIDE DEF frame, callee
  <2> QED
    BY <1>2, <2>1, <2>2, <2>3, <2>4, RunCalls DEF RunParses
<1>3. CASE RunCatchesVariable
  <2>1. variableFlag[ret.variable] \in Flags
    BY <1>3 DEF RunCatchesVariable, IInv, ThrownIsCached
  <2> QED
    BY <1>3, <2>1, CreateErrorKeeps DEF RunCatchesVariable
<1>4. CASE RunCatchesException
  <2>1. "error" \in Flags
    BY DEF Flags
  <2> QED
    BY <1>4, <2>1, CreateErrorKeeps DEF RunCatchesException
<1>5. CASE RunProcesses
  <2> DEFINE frame == [Top EXCEPT !.at = 2]
  <2>1. In("Run") /\ Top \in RunFrames
    BY <1>5, TopRun DEF RunProcesses
  <2>2. frame \in RunFrames /\ frame.id = Top.id
    BY <2>1 DEF RunFrames
  <2>3. Continue(frame)
    BY <1>5 DEF RunProcesses
  <2> HIDE DEF frame
  <2> QED
    BY <1>5, <2>1, <2>2, <2>3, RunContinues DEF RunProcesses
<1>6. CASE CollectReference
  <2> DEFINE refs   == input.references[Top.id]
             callee == RunFrame(refs[Len(Top.got) + 1])
  <2>1. /\ In("Run") /\ Top \in RunFrames /\ Top.id \in Objects
        /\ Top.got \in Seq(Collected)
    BY <1>6, TopRun DEF CollectReference
  <2>2. refs[Len(Top.got) + 1] \in Objects
    <3>1. refs \in Seq(Objects)
      BY <2>1 DEF IInv, TypeOK, Input
    <3> QED
      BY <1>6, <2>1, <3>1 DEF CollectReference
  <2>3. callee \in Frames /\ callee.at = 0
    BY <2>2, NewFrames DEF RunFrame
  <2>4. Call(Top, callee)
    BY <1>6 DEF CollectReference
  <2> HIDE DEF callee
  <2> QED
    BY <1>6, <2>1, <2>3, <2>4, RunCalls DEF CollectReference
<1> QED
  BY <1>1, <1>2, <1>3, <1>4, <1>5, <1>6, ProcessObjectKeeps,
     FilterReferenceKeeps, ProcessSetObjectKeeps DEF RunStep

-----------------------------------------------------------------------------
\* The data collector, and the theorems.

LEMMA InitOK == Init => IInv
<1> SUFFICES ASSUME Init PROVE IInv
  OBVIOUS
<1>1. input \in Inputs /\ input \in Input
  BY InputsAssumption DEF Init
<1>2. index \in 1..(Len(input.order) + 2)
  BY <1>1 DEF Init, Input
<1>3. stack \in Seq(Frames) /\ DOMAIN stack = {}
  BY DEF Init
<1>4. TypeOK
  BY <1>1, <1>2, <1>3 DEF Init, TypeOK, Returns
<1> QED
  BY <1>1, <1>3, <1>4
  DEF Init, IInv, ThrownIsCached, UnfinishedIsError, NoVariableInsideItself,
      NoReturn

LEMMA RunObjectKeeps ==
  ASSUME IInv, RunObject PROVE IInv'
<1> DEFINE frame == RunFrame(input.order[index])
<1>1. input.order \in Seq(Objects) /\ index \in Nat /\ index >= 1
  BY DEF IInv, TypeOK, Input
<1>2. frame \in Frames /\ frame.call = "Run"
  <2>1. input.order[index] \in Objects
    BY <1>1 DEF RunObject
  <2> QED
    BY <2>1, NewFrames DEF RunFrame
<1>3. stack' = <<frame>>
  BY DEF RunObject
<1> HIDE DEF frame
<1>4. stack' \in Seq(Frames) /\ \A i \in DOMAIN stack' : i = 1 /\ stack'[i] = frame
  BY <1>2, <1>3
<1>5. UnfinishedIsError' /\ NoVariableInsideItself'
  BY <1>2, <1>4 DEF UnfinishedIsError, NoVariableInsideItself, Computing
<1>6. ret' \in Returns /\ ThrownIsCached'
  BY ReturnsAreTyped DEF RunObject, ThrownIsCached, NoReturn
<1>7. index' \in 1..(Len(input.order) + 2)
  BY <1>1 DEF RunObject
<1> QED
  BY <1>4, <1>5, <1>6, <1>7 DEF RunObject, IInv, TypeOK

LEMMA WriteKeeps ==
  ASSUME IInv, WriteCollectedObjects PROVE IInv'
<1>1. ret' \in Returns /\ ThrownIsCached'
  BY ReturnsAreTyped DEF WriteCollectedObjects, ThrownIsCached, NoReturn
<1>2. index' \in 1..(Len(input.order) + 2)
  <2>1. Len(input.order) \in Nat
    BY DEF IInv, TypeOK, Input
  <2> QED
    BY <2>1 DEF WriteCollectedObjects
<1>3. stack' = stack /\ DOMAIN stack = {}
  BY DEF WriteCollectedObjects
<1>4. UnfinishedIsError' /\ NoVariableInsideItself'
  BY <1>3 DEF UnfinishedIsError, NoVariableInsideItself
<1>5. \A o \in DOMAIN written' : o \in Objects /\ written'[o] \in Collected
  BY DEF WriteCollectedObjects, IInv, TypeOK
<1>6. /\ collectedObjects' \in [Objects -> Collected \cup {Absent}]
      /\ variableFlag' \in [Variables -> Flags \cup {"absent"}]
  BY DEF WriteCollectedObjects
<1> QED
  BY <1>1, <1>2, <1>3, <1>4, <1>5, <1>6 DEF WriteCollectedObjects, IInv, TypeOK

LEMMA NextOK == IInv /\ [Next]_vars => IInv'
<1> SUFFICES ASSUME IInv, [Next]_vars PROVE IInv'
  OBVIOUS
<1>1. CASE UNCHANGED vars
  BY <1>1 DEF vars, IInv, TypeOK, ThrownIsCached, UnfinishedIsError,
              NoVariableInsideItself, Computing
<1> QED
  BY <1>1, RunObjectKeeps, WriteKeeps, ParseKeeps, VariableKeeps, RunKeeps
  DEF Next

LEMMA Invariance == Spec => []IInv
BY InitOK, NextOK, PTL DEF Spec

\* The collector's state is well typed in every run on every document.
THEOREM TypeCorrect == Spec => []TypeOK
<1>1. IInv => TypeOK
  BY DEF IInv
<1> QED
  BY <1>1, Invariance, PTL

\* No variable is computed while it is being computed, in every run on every
\* document, however its variables and objects refer to each other.
THEOREM VariablesAreNotReentered == Spec => []NoVariableInsideItself
<1>1. IInv => NoVariableInsideItself
  BY DEF IInv
<1> QED
  BY <1>1, Invariance, PTL

\* Only two actions change the flag of a variable, and neither changes one that is
\* complete: the first needs one that is not cached, the second one that is not
\* finished.
LEMMA CompleteStays ==
  ASSUME IInv, [Next]_vars, NEW v \in Variables, variableFlag[v] = "complete"
  PROVE  variableFlag'[v] = "complete" \/ WriteCollectedObjects
<1>1. CASE UNCHANGED variableFlag
  BY <1>1
<1>2. CASE CacheVariable
  <2>1. variableFlag[Top.id] = "absent"
    BY <1>2 DEF CacheVariable
  <2>2. variableFlag' = [variableFlag EXCEPT ![Top.id] = InitialFlag]
    BY <1>2 DEF CacheVariable
  <2>3. v # Top.id
    BY <2>1
  <2> QED
    BY <2>2, <2>3 DEF IInv, TypeOK
<1>3. CASE ComputeVariable
  <2>1. /\ Len(stack) \in DOMAIN stack /\ stack[Len(stack)] = Top
        /\ Top.id \in Variables
    BY <1>3, TopVariable DEF ComputeVariable
  <2>2. Computing(Len(stack))
    BY <1>3, <2>1 DEF ComputeVariable, Computing, In, IInv, TypeOK, Input
  <2>3. variableFlag[Top.id] = "error"
    BY <2>1, <2>2 DEF IInv, UnfinishedIsError, InitialFlag
  <2>4. v # Top.id
    BY <2>3
  <2>5. \/ variableFlag' = variableFlag
        \/ \E flag : variableFlag' = [variableFlag EXCEPT ![Top.id] = flag]
    BY <1>3 DEF ComputeVariable
  <2> QED
    BY <2>4, <2>5 DEF IInv, TypeOK
<1>4. \/ UNCHANGED variableFlag \/ CacheVariable \/ ComputeVariable
      \/ WriteCollectedObjects
  <2>1. ParseStep => UNCHANGED variableFlag
    BY DEF ParseStep, ParseNext, ParseContinues, ParseEnds, ParseFails, Unwind
  <2>2. VariableStep =>
          CacheVariable \/ ComputeVariable \/ UNCHANGED variableFlag
    BY DEF VariableStep, GetCachedVariable, UndefinedVariable, ComputeComponent,
           VariableComponentReturns, ObjectComponentReturns, VariableFails, Unwind
  <2>3. RunStep => UNCHANGED variableFlag
    <3>1. ProcessObject => UNCHANGED variableFlag
      <4>1. \A c : Create(c) => UNCHANGED variableFlag
        BY DEF Create
      <4>2. \A flag : CreateError(flag) => UNCHANGED variableFlag
        BY <4>1 DEF CreateError
      <4> SUFFICES ASSUME ProcessObject PROVE UNCHANGED variableFlag
        OBVIOUS
      <4>3. input.answer[Top.id] \in Answers
        BY TopRun DEF ProcessObject, IInv, TypeOK, Input
      <4> QED
        BY <4>1, <4>2, <4>3 DEF ProcessObject, Answers
    <3> QED
      BY <3>1 DEF RunStep, RunFromCache, RunParses, RunCatchesVariable,
         RunCatchesException, RunProcesses, CollectReference, FilterReference,
         ProcessSetObject, Create, CreateError
  <2> QED
    BY <2>1, <2>2, <2>3 DEF Next, RunObject, vars
<1> QED
  BY <1>1, <1>2, <1>3, <1>4

\* A complete variable is neither computed again nor downgraded before the caches
\* are cleared, in every run on every document.
THEOREM CompleteVariablesStay == Spec => CompleteVariableIsFinal
<1>1. IInv /\ [Next]_vars =>
        [\A v \in Variables :
           variableFlag[v] = "complete" =>
             \/ variableFlag'[v] = "complete"
             \/ WriteCollectedObjects]_vars
  BY CompleteStays
<1> QED
  BY <1>1, Invariance, PTL DEF Spec, CompleteVariableIsFinal

-----------------------------------------------------------------------------
\* What a call waits for: a call, by its function and its id.
Calls == {"Run", "Parse", "GetVariable"}

Waits(in, frame, call, id) ==
  \/ /\ frame.call = "Run" /\ frame.at = 1
     /\ call = "Parse" /\ id = frame.id
  \/ /\ frame.call = "Run" /\ frame.at = 2
     /\ call = "Run" /\ id \in Objects
     /\ \E k \in DOMAIN in.uses[frame.id] : in.uses[frame.id][k] = id
  \/ /\ frame.call = "Parse" /\ frame.at + 1 \in DOMAIN in.uses[frame.id]
     /\ id = in.uses[frame.id][frame.at + 1]
     /\ call = IF id \in Variables THEN "GetVariable" ELSE "Parse"
  \/ /\ frame.call = "GetVariable" /\ frame.at \in DOMAIN in.needs[frame.id]
     /\ id = in.needs[frame.id][frame.at]
     /\ call = IF id \in Variables THEN "GetVariable" ELSE "Run"

\* Every call but the last waits for the next one, and the last one for what was
\* returned.
Linked ==
  \A i \in 1..(Len(stack) - 1) : Waits(input, stack[i], stack[i + 1].call, stack[i + 1].id)

Returned ==
  stack # <<>> /\ ret # NoReturn =>
    \E call \in Calls, id \in Uses :
      Waits(input, Top, call, id) /\ (ret.kind = "object" <=> call = "Run")

\* Parsing goes to the end of what is used, and the objects among the components of a
\* variable come last.
WithinUses ==
  \A i \in DOMAIN stack :
    stack[i].call = "Parse" => stack[i].at <= Len(input.uses[stack[i].id])

ObjectsLast ==
  \A i \in DOMAIN stack : stack[i].call = "GetVariable" /\ stack[i].got # <<>> =>
    \A k \in DOMAIN input.needs[stack[i].id] :
      k >= stack[i].at => input.needs[stack[i].id][k] \in Objects

Shape == Linked /\ Returned /\ WithinUses /\ ObjectsLast

\* What the three movements of the stack do to its frames.
LEMMA Popped ==
  ASSUME stack \in Seq(Frames), stack # <<>>, Return
  PROVE  /\ stack' \in Seq(Frames) /\ Len(stack) \in Nat /\ Len(stack) >= 1
         /\ Len(stack') = Len(stack) - 1
         /\ \A i \in 1..(Len(stack) - 1) : stack'[i] = stack[i]
         /\ DOMAIN stack' = 1..(Len(stack) - 1) /\ DOMAIN stack = 1..Len(stack)
         /\ stack' # <<>> => Len(stack) >= 2 /\ Top' = stack[Len(stack) - 1]
<1>1. /\ stack' \in Seq(Frames) /\ Len(stack') = Len(stack) - 1
      /\ \A i \in 1..(Len(stack) - 1) : stack'[i] = stack[i]
  BY PopFacts DEF Return
<1>2. Len(stack) \in Nat /\ Len(stack) >= 1 /\ DOMAIN stack = 1..Len(stack)
  OBVIOUS
<1>3. DOMAIN stack' = 1..(Len(stack) - 1)
  BY <1>1
<1>4. stack' # <<>> => Len(stack) >= 2 /\ Top' = stack[Len(stack) - 1]
  BY <1>1, <1>2 DEF Top
<1> QED
  BY <1>1, <1>2, <1>3, <1>4

LEMMA Continued ==
  ASSUME stack \in Seq(Frames), stack # <<>>, NEW frame \in Frames, Continue(frame)
  PROVE  /\ stack' \in Seq(Frames) /\ Len(stack) \in Nat /\ Len(stack) >= 1
         /\ Len(stack') = Len(stack) /\ stack' # <<>>
         /\ \A i \in 1..(Len(stack) - 1) : stack'[i] = stack[i]
         /\ stack'[Len(stack)] = frame /\ Top' = frame
         /\ DOMAIN stack' = 1..Len(stack) /\ DOMAIN stack = 1..Len(stack)
<1>1. /\ stack' \in Seq(Frames) /\ Len(stack') = Len(stack)
      /\ stack'[Len(stack)] = frame
      /\ \A i \in 1..(Len(stack) - 1) : stack'[i] = stack[i]
  BY ReplaceFacts DEF Continue
<1>2. Len(stack) \in Nat /\ Len(stack) >= 1 /\ DOMAIN stack = 1..Len(stack)
  OBVIOUS
<1>3. DOMAIN stack' = 1..Len(stack) /\ stack' # <<>>
  BY <1>1, <1>2
<1> QED
  BY <1>1, <1>2, <1>3 DEF Top

LEMMA Called ==
  ASSUME stack \in Seq(Frames), stack # <<>>, NEW frame \in Frames,
         NEW callee \in Frames, Call(frame, callee)
  PROVE  /\ stack' \in Seq(Frames) /\ Len(stack) \in Nat /\ Len(stack) >= 1
         /\ Len(stack') = Len(stack) + 1 /\ stack' # <<>>
         /\ \A i \in 1..(Len(stack) - 1) : stack'[i] = stack[i]
         /\ stack'[Len(stack)] = frame
         /\ stack'[Len(stack) + 1] = callee /\ Top' = callee
         /\ DOMAIN stack' = 1..(Len(stack) + 1) /\ DOMAIN stack = 1..Len(stack)
<1>1. /\ stack' \in Seq(Frames) /\ Len(stack') = Len(stack) + 1
      /\ stack'[Len(stack)] = frame
      /\ stack'[Len(stack) + 1] = callee
      /\ \A i \in 1..(Len(stack) - 1) : stack'[i] = stack[i]
  BY PushFacts DEF Call
<1>2. Len(stack) \in Nat /\ Len(stack) >= 1 /\ DOMAIN stack = 1..Len(stack)
  OBVIOUS
<1>3. DOMAIN stack' = 1..(Len(stack) + 1) /\ stack' # <<>>
  BY <1>1, <1>2
<1> QED
  BY <1>1, <1>2, <1>3 DEF Top

LEMMA ShapePops ==
  ASSUME IInv, Shape, stack # <<>>, Return, input' = input,
         ret'.kind = "object" <=> Top.call = "Run"
  PROVE  Shape'
<1> DEFINE n == Len(stack)
<1>1. stack \in Seq(Frames)
  BY DEF IInv, TypeOK
<1>2. /\ n \in Nat /\ n >= 1 /\ Len(stack') = n - 1
      /\ \A i \in 1..(n - 1) : stack'[i] = stack[i]
      /\ DOMAIN stack' = 1..(n - 1) /\ DOMAIN stack = 1..n
      /\ stack' # <<>> => n >= 2 /\ Top' = stack[n - 1]
  BY <1>1, Popped
<1>3. Top = stack[n] /\ Top.call \in Calls /\ Top.id \in Uses
  BY <1>1, TopFrame DEF Top, Frames, Calls, Uses
<1> HIDE DEF n
<1>4. Linked'
  <2> SUFFICES ASSUME NEW i \in 1..(n - 2)
               PROVE  Waits(input, stack'[i], stack'[i + 1].call, stack'[i + 1].id)
    BY <1>2 DEF Linked
  <2>1. i \in 1..(n - 1) /\ i + 1 \in 1..(n - 1)
    BY <1>2
  <2>2. Waits(input, stack[i], stack[i + 1].call, stack[i + 1].id)
    BY <2>1 DEF Shape, Linked, n
  <2> QED
    BY <1>2, <2>1, <2>2
<1>5. Returned'
  <2> SUFFICES ASSUME stack' # <<>>
               PROVE  \E call \in Calls, id \in Uses :
                        Waits(input, Top', call, id) /\ (ret'.kind = "object" <=> call = "Run")
    BY DEF Returned
  <2>1. n - 1 \in 1..(n - 1) /\ n - 1 + 1 = n
    BY <1>2
  <2>2. Waits(input, stack[n - 1], Top.call, Top.id)
    BY <1>3, <2>1 DEF Shape, Linked, n
  <2> QED
    BY <1>2, <1>3, <2>2
<1>6. WithinUses' /\ ObjectsLast'
  <2>1. \A i \in DOMAIN stack' : i \in DOMAIN stack /\ stack'[i] = stack[i]
    BY <1>2
  <2> QED
    BY <2>1 DEF Shape, WithinUses, ObjectsLast
<1> QED
  BY <1>4, <1>5, <1>6 DEF Shape

LEMMA ShapeContinues ==
  ASSUME IInv, Shape, stack # <<>>, input' = input, ret' = NoReturn,
         NEW frame \in Frames, frame.call = Top.call, frame.id = Top.id, Continue(frame),
         frame.call = "Parse" => frame.at <= Len(input.uses[frame.id]),
         frame.call = "GetVariable" /\ frame.got # <<>> =>
           \A k \in DOMAIN input.needs[frame.id] :
             k >= frame.at => input.needs[frame.id][k] \in Objects
  PROVE  Shape'
<1> DEFINE n == Len(stack)
<1>1. stack \in Seq(Frames)
  BY DEF IInv, TypeOK
<1>2. /\ n \in Nat /\ n >= 1 /\ Len(stack') = n
      /\ \A i \in 1..(n - 1) : stack'[i] = stack[i]
      /\ stack'[n] = frame
      /\ DOMAIN stack' = 1..n /\ DOMAIN stack = 1..n
  BY <1>1, Continued
<1>3. Top = stack[n]
  BY DEF Top
<1> HIDE DEF n
<1>4. Linked'
  <2> SUFFICES ASSUME NEW i \in 1..(n - 1)
               PROVE  Waits(input, stack'[i], stack'[i + 1].call, stack'[i + 1].id)
    BY <1>2 DEF Linked
  <2>1. Waits(input, stack[i], stack[i + 1].call, stack[i + 1].id)
    BY DEF Shape, Linked, n
  <2>2. i + 1 \in 1..(n - 1) \/ i + 1 = n
    BY <1>2
  <2>3. stack'[i + 1].call = stack[i + 1].call /\ stack'[i + 1].id = stack[i + 1].id
    BY <1>2, <1>3, <2>2
  <2> QED
    BY <1>2, <2>1, <2>3
<1>5. Returned'
  BY DEF Returned
<1>6. WithinUses' /\ ObjectsLast'
  <2>1. \A i \in DOMAIN stack' :
          stack'[i] = frame \/ (i \in DOMAIN stack /\ stack'[i] = stack[i])
    BY <1>2
  <2>2. WithinUses'
    BY <2>1 DEF Shape, WithinUses
  <2>3. ObjectsLast'
    BY <2>1 DEF Shape, ObjectsLast
  <2> QED
    BY <2>2, <2>3
<1> QED
  BY <1>4, <1>5, <1>6 DEF Shape

LEMMA ShapeCalls ==
  ASSUME IInv, Shape, stack # <<>>, input' = input, ret' = NoReturn,
         NEW frame \in Frames, frame.call = Top.call, frame.id = Top.id,
         NEW callee \in Frames, Call(frame, callee), callee.at = 0,
         callee.call = "GetVariable" => callee.got = <<>>,
         frame = Top \/ frame.call = "Run",
         Waits(input, frame, callee.call, callee.id)
  PROVE  Shape'
<1> DEFINE n == Len(stack)
<1>1. stack \in Seq(Frames)
  BY DEF IInv, TypeOK
<1>2. /\ n \in Nat /\ n >= 1 /\ Len(stack') = n + 1
      /\ \A i \in 1..(n - 1) : stack'[i] = stack[i]
      /\ stack'[n] = frame /\ stack'[n + 1] = callee
      /\ DOMAIN stack' = 1..(n + 1) /\ DOMAIN stack = 1..n
  BY <1>1, Called
<1>3. Top = stack[n] /\ n \in DOMAIN stack
  BY <1>2 DEF Top
<1> HIDE DEF n
<1>4. Linked'
  <2> SUFFICES ASSUME NEW i \in 1..n
               PROVE  Waits(input, stack'[i], stack'[i + 1].call, stack'[i + 1].id)
    BY <1>2 DEF Linked
  <2>1. CASE i = n
    BY <1>2, <2>1
  <2>2. CASE i # n
    <3>1. i \in 1..(n - 1)
      BY <1>2, <2>2
    <3>2. Waits(input, stack[i], stack[i + 1].call, stack[i + 1].id)
      BY <3>1 DEF Shape, Linked, n
    <3>3. i + 1 \in 1..(n - 1) \/ i + 1 = n
      BY <1>2, <3>1
    <3>4. stack'[i + 1].call = stack[i + 1].call /\ stack'[i + 1].id = stack[i + 1].id
      BY <1>2, <1>3, <3>3
    <3> QED
      BY <1>2, <3>1, <3>2, <3>4
  <2> QED
    BY <2>1, <2>2
<1>5. Returned'
  BY DEF Returned
<1>6. WithinUses' /\ ObjectsLast'
  <2>1. \A i \in DOMAIN stack' :
          \/ stack'[i] = frame \/ stack'[i] = callee
          \/ i \in DOMAIN stack /\ stack'[i] = stack[i]
    BY <1>2
  <2>2. frame.call = "Parse" => frame.at <= Len(input.uses[frame.id])
    BY <1>3 DEF Shape, WithinUses
  <2>3. callee.call = "Parse" => callee.at <= Len(input.uses[callee.id])
    <3> SUFFICES ASSUME callee.call = "Parse"
                 PROVE  0 <= Len(input.uses[callee.id])
      OBVIOUS
    <3>1. callee.id \in Objects
      BY DEF Frames
    <3> QED
      BY <3>1 DEF IInv, TypeOK, Input
  <2>4. WithinUses'
    BY <2>1, <2>2, <2>3 DEF Shape, WithinUses
  <2>5. frame.call = "GetVariable" => frame = Top
    OBVIOUS
  <2>6. ObjectsLast'
    BY <1>3, <2>1, <2>5 DEF Shape, ObjectsLast
  <2> QED
    BY <2>4, <2>6
<1> QED
  BY <1>4, <1>5, <1>6 DEF Shape

\* A call that has just been made has nothing returned to it.
LEMMA NothingReturned ==
  ASSUME IInv, Shape, stack # <<>>, Top.call # "Parse", Top.at = 0
  PROVE  ret = NoReturn
<1>1. Top.call = "GetVariable" => Top.id \in Variables
  BY TopFrame DEF IInv, TypeOK, VariableFrames
<1>2. Top.call = "GetVariable" => 0 \notin DOMAIN input.needs[Top.id]
  BY <1>1 DEF IInv, TypeOK, Input
<1> QED
  BY <1>2 DEF Shape, Returned, Waits

-----------------------------------------------------------------------------
\* The steps by what they do to the stack.

\* A set asks for one reference after the other.
AsksFor(in, frame, id) ==
  LET next == Len(frame.got) + 1
  IN  next \in DOMAIN in.references[frame.id] /\ id = in.references[frame.id][next]

\* A call is made.
PushStep(frame, callee) ==
  /\ stack # <<>> /\ frame \in Frames /\ callee \in Frames /\ Call(frame, callee)
  /\ frame.call = Top.call /\ frame.id = Top.id
  /\ \/ frame = Top
     \/ /\ Top.call = "Run" /\ Top.at = 0 /\ frame.at = 1 /\ frame.got = Top.got
        /\ collectedObjects[Top.id] = Absent
  /\ callee.at = 0 /\ (callee.call # "Parse" => callee.got = <<>>)
  /\ (frame.call = "Run" /\ frame.at = 2 => AsksFor(input, frame, callee.id))
  /\ Waits(input, frame, callee.call, callee.id)
  /\ ret = NoReturn /\ UNCHANGED <<input, ret, collectedObjects, variableFlag>>

\* The last call goes on.
ContinueStep(frame) ==
  /\ stack # <<>> /\ frame \in Frames /\ Continue(frame)
  /\ frame.call = Top.call /\ frame.id = Top.id
  /\ ret' = NoReturn /\ UNCHANGED <<input, collectedObjects>>

\* The last call returns, an object if it is a call of Run.
PopStep ==
  /\ stack # <<>> /\ Return /\ input' = input
  /\ ret'.kind = "object" <=> Top.call = "Run"

LEMMA TopParse ==
  ASSUME IInv, In("Parse")
  PROVE  /\ stack \in Seq(Frames) /\ stack # <<>> /\ Top.call = "Parse"
         /\ Top \in Frames /\ Top.id \in Objects /\ Top.at \in Nat
         /\ input.uses[Top.id] \in Seq(Uses)
<1>1. stack \in Seq(Frames) /\ stack # <<>> /\ Top.call = "Parse"
  BY DEF In, IInv, TypeOK
<1>2. Top \in Frames /\ Top \in ParseFrames
  BY <1>1, TopFrame
<1> QED
  BY <1>1, <1>2 DEF ParseFrames, IInv, TypeOK, Input

LEMMA TopComputing ==
  ASSUME IInv, In("GetVariable")
  PROVE  /\ stack \in Seq(Frames) /\ stack # <<>> /\ Top.call = "GetVariable"
         /\ Top \in Frames /\ Top \in VariableFrames /\ Top.id \in Variables
         /\ Top.at \in Nat /\ Top.got \in Seq(Flags)
         /\ input.needs[Top.id] \in Seq(Uses)
<1>1. /\ stack \in Seq(Frames) /\ stack # <<>> /\ Top \in Frames
      /\ Top \in VariableFrames
  BY TopVariable
<1> QED
  BY <1>1 DEF In, VariableFrames, IInv, TypeOK, Input

LEMMA CalledFrames ==
  /\ \A o \in Objects :
       /\ RunFrame(o) \in Frames /\ RunFrame(o).call = "Run"
       /\ RunFrame(o).id = o /\ RunFrame(o).at = 0 /\ RunFrame(o).got = <<>>
       /\ ParseFrame(o) \in Frames /\ ParseFrame(o).call = "Parse"
       /\ ParseFrame(o).id = o /\ ParseFrame(o).at = 0
  /\ \A v \in Variables :
       /\ VariableFrame(v) \in Frames /\ VariableFrame(v).call = "GetVariable"
       /\ VariableFrame(v).id = v /\ VariableFrame(v).at = 0
       /\ VariableFrame(v).got = <<>>
BY NewFrames DEF RunFrame, ParseFrame, VariableFrame

LEMMA ParsePushes ==
  ASSUME IInv, ParseNext
  PROVE  \E callee : PushStep(Top, callee)
<1> DEFINE use == input.uses[Top.id][Top.at + 1]
           callee == IF use \in Variables THEN VariableFrame(use) ELSE ParseFrame(use)
<1>1. /\ stack # <<>> /\ Top.call = "Parse" /\ Top \in Frames
      /\ Top.id \in Objects /\ Top.at \in Nat /\ input.uses[Top.id] \in Seq(Uses)
  BY TopParse DEF ParseNext
<1>2. Top.at + 1 \in DOMAIN input.uses[Top.id] /\ use \in Uses
  BY <1>1 DEF ParseNext
<1>3. Call(Top, callee) /\ ret = NoReturn
      /\ UNCHANGED <<input, ret, collectedObjects, variableFlag>>
  BY DEF ParseNext
<1>4. CASE use \in Variables
  <2>1. /\ callee \in Frames /\ callee.call = "GetVariable" /\ callee.id = use
        /\ callee.at = 0 /\ callee.got = <<>>
    BY <1>4, CalledFrames
  <2> HIDE DEF callee
  <2>2. Waits(input, Top, callee.call, callee.id)
    BY <1>1, <1>2, <1>4, <2>1 DEF Waits
  <2> QED
    BY <1>1, <1>3, <2>1, <2>2 DEF PushStep
<1>5. CASE use \notin Variables
  <2>1. use \in Objects
    BY <1>2, <1>5 DEF Uses
  <2>2. /\ callee \in Frames /\ callee.call = "Parse" /\ callee.id = use
        /\ callee.at = 0
    BY <1>5, <2>1, CalledFrames
  <2> HIDE DEF callee
  <2>3. Waits(input, Top, callee.call, callee.id)
    BY <1>1, <1>2, <1>5, <2>2 DEF Waits
  <2> QED
    BY <1>1, <1>3, <2>2, <2>3 DEF PushStep
<1> QED
  BY <1>4, <1>5

LEMMA ComponentPushes ==
  ASSUME IInv, ComputeComponent
  PROVE  \E callee : PushStep(Top, callee)
<1> DEFINE need == input.needs[Top.id][Top.at]
           callee == IF need \in Variables THEN VariableFrame(need) ELSE RunFrame(need)
<1>1. /\ stack # <<>> /\ Top.call = "GetVariable" /\ Top \in Frames
      /\ Top.id \in Variables /\ Top.at \in Nat /\ input.needs[Top.id] \in Seq(Uses)
  BY TopComputing DEF ComputeComponent
<1>2. Top.at \in DOMAIN input.needs[Top.id] /\ need \in Uses
  BY <1>1 DEF ComputeComponent
<1>3. Call(Top, callee) /\ ret = NoReturn
      /\ UNCHANGED <<input, ret, collectedObjects, variableFlag>>
  BY DEF ComputeComponent
<1>4. CASE need \in Variables
  <2>1. /\ callee \in Frames /\ callee.call = "GetVariable" /\ callee.id = need
        /\ callee.at = 0 /\ callee.got = <<>>
    BY <1>4, CalledFrames
  <2> HIDE DEF callee
  <2>2. Waits(input, Top, callee.call, callee.id)
    BY <1>1, <1>2, <1>4, <2>1 DEF Waits
  <2> QED
    BY <1>1, <1>3, <2>1, <2>2 DEF PushStep
<1>5. CASE need \notin Variables
  <2>1. need \in Objects
    BY <1>2, <1>5 DEF Uses
  <2>2. /\ callee \in Frames /\ callee.call = "Run" /\ callee.id = need
        /\ callee.at = 0 /\ callee.got = <<>>
    BY <1>5, <2>1, CalledFrames
  <2> HIDE DEF callee
  <2>3. Waits(input, Top, callee.call, callee.id)
    BY <1>1, <1>2, <1>5, <2>2 DEF Waits
  <2> QED
    BY <1>1, <1>3, <2>2, <2>3 DEF PushStep
<1> QED
  BY <1>4, <1>5

LEMMA ReferencePushes ==
  ASSUME IInv, CollectReference
  PROVE  \E callee : PushStep(Top, callee)
<1> DEFINE refs == input.references[Top.id]
           o == refs[Len(Top.got) + 1]
           callee == RunFrame(o)
<1>1. /\ stack # <<>> /\ Top.call = "Run" /\ Top \in Frames /\ Top.id \in Objects
      /\ Top.got \in Seq(Collected) /\ Top.at = 2
  BY TopRun DEF CollectReference
<1>2. refs \in Seq(Objects) /\ input.uses[Top.id] \in Seq(Uses)
  BY <1>1 DEF IInv, TypeOK, Input
<1>3. Len(Top.got) + 1 \in DOMAIN refs
  BY <1>1, <1>2 DEF CollectReference
<1>4. o \in Objects
  BY <1>2, <1>3
<1>5. \E k \in DOMAIN input.uses[Top.id] : input.uses[Top.id][k] = o
  BY <1>1, <1>3, InputsAssumption DEF IInv, WellFormed
<1>6. /\ callee \in Frames /\ callee.call = "Run" /\ callee.id = o /\ callee.at = 0
      /\ callee.got = <<>> /\ AsksFor(input, Top, o)
  BY <1>3, <1>4, CalledFrames DEF AsksFor
<1>7. Call(Top, callee) /\ ret = NoReturn
      /\ UNCHANGED <<input, ret, collectedObjects, variableFlag>>
  BY DEF CollectReference
<1> HIDE DEF callee
<1>8. Waits(input, Top, callee.call, callee.id)
  BY <1>1, <1>4, <1>5, <1>6 DEF Waits
<1> QED
  BY <1>1, <1>6, <1>7, <1>8 DEF PushStep

LEMMA RunPushes ==
  ASSUME IInv, Shape, RunParses
  PROVE  \E frame, callee : PushStep(frame, callee)
<1> DEFINE frame == [Top EXCEPT !.at = 1]
           callee == ParseFrame(Top.id)
<1>1. /\ stack # <<>> /\ Top.call = "Run" /\ Top \in RunFrames /\ Top.id \in Objects
      /\ Top.at = 0
  BY TopRun DEF RunParses
<1>2. /\ frame \in RunFrames /\ frame.id = Top.id /\ frame.at = 1 /\ frame.call = "Run"
      /\ frame.got = Top.got
  BY <1>1 DEF RunFrames
<1>3. frame \in Frames
  BY <1>2 DEF RunFrames, Frames
<1>4. /\ callee \in Frames /\ callee.call = "Parse" /\ callee.id = Top.id
      /\ callee.at = 0
  BY <1>1, CalledFrames
<1>5. /\ Call(frame, callee) /\ collectedObjects[Top.id] = Absent
      /\ UNCHANGED <<input, ret, collectedObjects, variableFlag>>
  BY DEF RunParses
<1> HIDE DEF frame, callee
<1>6. ret = NoReturn
  BY <1>1, NothingReturned
<1>7. Waits(input, frame, callee.call, callee.id)
  BY <1>2, <1>4 DEF Waits
<1> QED
  BY <1>1, <1>2, <1>3, <1>4, <1>5, <1>6, <1>7 DEF PushStep

LEMMA Pushes ==
  ASSUME IInv, Shape, ParseNext \/ ComputeComponent \/ CollectReference \/ RunParses
  PROVE  \E frame, callee : PushStep(frame, callee)
BY ParsePushes, ComponentPushes, ReferencePushes, RunPushes

LEMMA PushKeepsShape ==
  ASSUME IInv, Shape, NEW frame, NEW callee, PushStep(frame, callee) PROVE Shape'
BY ShapeCalls DEF PushStep

\* What is returned to the last call: only a call that waits for it gets it.
LEMMA ReturnedTo ==
  ASSUME IInv, Shape, stack # <<>>, ret # NoReturn
  PROVE  /\ Top.call = "Parse" =>
              ret.kind # "object" /\ Top.at + 1 \in DOMAIN input.uses[Top.id]
         /\ Top.call = "Run" =>
              \/ Top.at = 1 /\ ret.kind # "object"
              \/ Top.at = 2 /\ ret.kind = "object"
         /\ Top.call = "GetVariable" =>
              /\ Top.at \in DOMAIN input.needs[Top.id] /\ Top.at >= 1
              /\ ret.kind = "object" <=> input.needs[Top.id][Top.at] \in Objects
<1>1. PICK call \in Calls, id \in Uses :
        Waits(input, Top, call, id) /\ (ret.kind = "object" <=> call = "Run")
  BY DEF Shape, Returned
<1>2. Top.call = "GetVariable" => input.needs[Top.id] \in Seq(Uses)
  BY TopFrame DEF IInv, TypeOK, Input, VariableFrames
<1>3. id \in Variables => id \notin Objects
  BY DistinctIds
<1>4. id \notin Variables => id \in Objects
  BY DEF Uses
<1> QED
  BY <1>1, <1>2, <1>3, <1>4 DEF Waits

LEMMA ParseContinueMoves ==
  ASSUME IInv, ParseContinues
  PROVE  \E frame \in ParseFrames :
           ContinueStep(frame) /\ frame.call = "Parse" /\ frame.at = Top.at + 1
<1> DEFINE frame == [Top EXCEPT !.at = @ + 1]
<1>1. stack # <<>> /\ stack \in Seq(Frames) /\ Top.call = "Parse"
  BY DEF ParseContinues, In, IInv, TypeOK
<1>2. Top \in ParseFrames
  BY <1>1, TopFrame
<1>3. /\ frame \in ParseFrames /\ frame.id = Top.id /\ frame.at = Top.at + 1
      /\ frame.call = "Parse"
  BY <1>2 DEF ParseFrames
<1>4. frame \in Frames
  BY <1>3 DEF ParseFrames, Frames
<1>5. /\ Continue(frame) /\ ret' = NoReturn
      /\ UNCHANGED <<input, collectedObjects>>
  BY DEF ParseContinues
<1> HIDE DEF frame
<1> QED
  BY <1>1, <1>3, <1>4, <1>5 DEF ContinueStep

LEMMA CacheMoves ==
  ASSUME IInv, Shape, CacheVariable
  PROVE  \E frame \in VariableFrames :
           /\ ContinueStep(frame) /\ frame.call = "GetVariable"
           /\ frame.at = 1 /\ frame.got = Top.got
<1> DEFINE frame == [Top EXCEPT !.at = 1]
<1>1. stack # <<>> /\ Top \in VariableFrames /\ Top.call = "GetVariable" /\ Top.at = 0
  BY TopComputing DEF CacheVariable
<1>2. /\ frame \in VariableFrames /\ frame.id = Top.id /\ frame.at = 1
      /\ frame.got = Top.got /\ frame.call = "GetVariable"
  BY <1>1 DEF VariableFrames
<1>3. frame \in Frames
  BY <1>2 DEF VariableFrames, Frames
<1>4. Continue(frame) /\ UNCHANGED <<input, ret, collectedObjects>>
  BY DEF CacheVariable
<1>5. ret = NoReturn
  BY <1>1, NothingReturned
<1> HIDE DEF frame
<1> QED
  BY <1>1, <1>2, <1>3, <1>4, <1>5 DEF ContinueStep

LEMMA ComponentMoves ==
  ASSUME IInv, VariableComponentReturns
  PROVE  \E frame \in VariableFrames :
           /\ ContinueStep(frame) /\ frame.call = "GetVariable"
           /\ frame.at = Top.at + 1 /\ frame.got = Top.got
<1> DEFINE frame == [Top EXCEPT !.at = @ + 1]
<1>1. stack # <<>> /\ Top \in VariableFrames /\ Top.call = "GetVariable"
  BY TopComputing DEF VariableComponentReturns
<1>2. /\ frame \in VariableFrames /\ frame.id = Top.id /\ frame.at = Top.at + 1
      /\ frame.got = Top.got /\ frame.call = "GetVariable"
  BY <1>1 DEF VariableFrames
<1>3. frame \in Frames
  BY <1>2 DEF VariableFrames, Frames
<1>4. Continue(frame) /\ ret' = NoReturn /\ UNCHANGED <<input, collectedObjects>>
  BY DEF VariableComponentReturns
<1> HIDE DEF frame
<1> QED
  BY <1>1, <1>2, <1>3, <1>4 DEF ContinueStep

LEMMA ObjectMoves ==
  ASSUME IInv, ObjectComponentReturns
  PROVE  \E frame \in VariableFrames :
           /\ ContinueStep(frame) /\ frame.call = "GetVariable"
           /\ frame.at = Top.at + 1
           /\ frame.got = Append(Top.got, ObjectComponentFlag(ret.object, input.field[ret.id]))
<1> DEFINE f == ObjectComponentFlag(ret.object, input.field[ret.id])
           frame == [Top EXCEPT !.at = @ + 1, !.got = Append(@, f)]
<1>1. /\ stack # <<>> /\ Top \in VariableFrames /\ Top.call = "GetVariable"
      /\ Top.got \in Seq(Flags)
  BY TopComputing DEF ObjectComponentReturns
<1>2. ret.id \in Objects
  BY DEF ObjectComponentReturns, IInv, TypeOK, Returns, NoReturn, Done, Exception
<1>3. input.field[ret.id] \in FieldAnswers
  BY <1>2 DEF IInv, TypeOK, Input
<1>4. f \in Flags
  BY <1>3, ObjectComponentFlagIsAFlag
<1>5. Continue(frame) /\ ret' = NoReturn /\ UNCHANGED <<input, collectedObjects>>
  BY DEF ObjectComponentReturns
<1> HIDE DEF f
<1>6. /\ frame \in VariableFrames /\ frame.id = Top.id /\ frame.at = Top.at + 1
      /\ frame.got = Append(Top.got, f) /\ frame.call = "GetVariable"
  <2> DEFINE got  == Append(Top.got, f)
             next == [Top EXCEPT !.at = @ + 1]
  <2>1. got \in Seq(Flags)
    BY <1>1, <1>4
  <2>2. next \in VariableFrames /\ next.id = Top.id /\ next.at = Top.at + 1
    BY <1>1 DEF VariableFrames
  <2>3. frame = [next EXCEPT !.got = got]
    BY Zenon
  <2> HIDE DEF next, frame
  <2>4. frame \in VariableFrames /\ frame.id = Top.id /\ frame.at = Top.at + 1
    <3> HIDE DEF got
    <3> QED
      BY <2>1, <2>2, <2>3 DEF VariableFrames
  <2>5. frame.got = got
    <3> HIDE DEF got
    <3> QED
      BY <2>1, <2>2, <2>3 DEF VariableFrames
  <2> QED
    BY <2>4, <2>5 DEF VariableFrames
<1>7. frame \in Frames
  BY <1>6 DEF VariableFrames, Frames
<1> HIDE DEF frame
<1> QED
  BY <1>1, <1>5, <1>6, <1>7 DEF ContinueStep, f

LEMMA ProcessMoves ==
  ASSUME IInv, RunProcesses
  PROVE  \E frame \in RunFrames :
           /\ ContinueStep(frame) /\ frame.call = "Run" /\ frame.at = 2
           /\ frame.got = Top.got
<1> DEFINE frame == [Top EXCEPT !.at = 2]
<1>1. stack # <<>> /\ Top \in RunFrames /\ Top.call = "Run"
  BY TopRun DEF RunProcesses
<1>2. frame \in RunFrames /\ frame.id = Top.id /\ frame.at = 2 /\ frame.call = "Run"
      /\ frame.got = Top.got
  BY <1>1 DEF RunFrames
<1>3. frame \in Frames
  BY <1>2 DEF RunFrames, Frames
<1>4. Continue(frame) /\ ret' = NoReturn /\ UNCHANGED <<input, collectedObjects>>
  BY DEF RunProcesses
<1> HIDE DEF frame
<1> QED
  BY <1>1, <1>2, <1>3, <1>4 DEF ContinueStep

LEMMA FilterMoves ==
  ASSUME IInv, FilterReference
  PROVE  \/ CreateError("error") /\ \E x \in ret.object.items : input.filter[Top.id][x] = "undecided"
         \/ /\ \A x \in ret.object.items : input.filter[Top.id][x] # "undecided"
            /\ \E frame \in RunFrames :
                 /\ ContinueStep(frame) /\ frame.call = "Run" /\ frame.at = 2
                 /\ variableFlag' = variableFlag
                 /\ frame.got = Append(Top.got,
                      [flag  |-> ret.object.flag,
                       items |-> {x \in ret.object.items : input.filter[Top.id][x] = "keep"}])
<1> DEFINE filter == input.filter[Top.id]
           kept   == [ret.object EXCEPT
                        !.items = {i \in @ : filter[i] = "keep"}]
           frame  == [Top EXCEPT !.got = Append(@, kept)]
<1>1. /\ stack # <<>> /\ Top \in RunFrames /\ Top.call = "Run" /\ Top.at = 2
      /\ Top.got \in Seq(Collected)
  BY TopRun DEF FilterReference
<1>2. ret.object \in Collected
  BY DEF FilterReference, IInv, TypeOK, Returns, NoReturn, Done, Exception
<1>3. /\ kept \in Collected
      /\ kept = [flag  |-> ret.object.flag,
                 items |-> {x \in ret.object.items : filter[x] = "keep"}]
  BY <1>2 DEF Collected
<1>4. \/ CreateError("error") /\ \E i \in ret.object.items : filter[i] = "undecided"
      \/ /\ Continue(frame)
         /\ ret' = NoReturn /\ \A i \in ret.object.items : filter[i] # "undecided"
         /\ UNCHANGED <<input, index, collectedObjects, variableFlag, written>>
  BY DEF FilterReference
<1> HIDE DEF kept
<1>5. /\ frame \in RunFrames /\ frame.id = Top.id /\ frame.at = 2 /\ frame.call = "Run"
      /\ frame.got = Append(Top.got, kept)
  <2>1. Append(Top.got, kept) \in Seq(Collected)
    BY <1>1, <1>3
  <2> QED
    BY <1>1, <2>1 DEF RunFrames
<1>6. frame \in Frames
  BY <1>5 DEF RunFrames, Frames
<1> HIDE DEF frame
<1>7. ASSUME Continue(frame), ret' = NoReturn,
             UNCHANGED <<input, index, collectedObjects, variableFlag, written>>
      PROVE  ContinueStep(frame) /\ variableFlag' = variableFlag
  BY <1>1, <1>5, <1>6, <1>7 DEF ContinueStep
<1> QED
  BY <1>3, <1>4, <1>5, <1>7

\* The two ways in which a call of Run goes to its end.
LEMMA ProcessingCreates ==
  ASSUME IInv, ProcessObject \/ ProcessSetObject
  PROVE  In("Run") /\ Top.at = 2 /\ ret = NoReturn /\ \E c : Create(c)
<1>1. In("Run") /\ Top.at = 2 /\ ret = NoReturn /\ Top.id \in Objects
  BY TopRun DEF ProcessObject, ProcessSetObject
<1>2. CASE ProcessObject
  <2>1. input.answer[Top.id] \in Answers
    BY <1>1 DEF IInv, TypeOK, Input
  <2>2. \/ CreateError("not applicable") \/ CreateError("not collected")
        \/ CreateError("error") \/ \E c : Create(c)
    BY <1>2, <2>1 DEF ProcessObject, Answers
  <2> QED
    BY <1>1, <2>2 DEF CreateError
<1>3. CASE ProcessSetObject
  BY <1>1, <1>3 DEF ProcessSetObject
<1> QED
  BY <1>2, <1>3

LEMMA CreatePops ==
  ASSUME IInv, In("Run"), NEW c, Create(c)
  PROVE  PopStep /\ variableFlag' = variableFlag /\ ret' = ReturnObject(Top.id, c)
<1>1. stack # <<>> /\ Top.call = "Run"
  BY DEF In
<1>2. /\ Return /\ UNCHANGED <<input, variableFlag>>
      /\ ret' = ReturnObject(Top.id, c)
  BY DEF Create
<1>3. ret'.kind = "object"
  BY <1>2 DEF ReturnObject
<1> QED
  BY <1>1, <1>2, <1>3 DEF PopStep

LEMMA OutcomeKind ==
  ASSUME NEW v, NEW flag
  PROVE  /\ Outcome(v, flag).kind # "object"
         /\ Outcome(v, flag) = Done <=> flag = "complete"
         /\ flag # "complete" =>
              /\ Outcome(v, flag).kind = "VariableFactoryException"
              /\ Outcome(v, flag).variable = v
BY DEF Outcome, Done, VariableFactoryException

LEMMA ParsePops ==
  ASSUME ParseEnds \/ ParseFails PROVE PopStep /\ Top.call = "Parse"
<1>1. CASE ParseEnds
  <2>1. ret'.kind # "object"
    BY <1>1 DEF ParseEnds, Done
  <2> QED
    BY <1>1, <2>1 DEF ParseEnds, In, PopStep
<1>2. CASE ParseFails
  BY <1>2 DEF ParseFails, Unwind, Thrown, In, PopStep
<1> QED
  BY <1>1, <1>2

LEMMA VariablePops ==
  ASSUME GetCachedVariable \/ UndefinedVariable \/ ComputeVariable \/ VariableFails
  PROVE  PopStep /\ Top.call = "GetVariable"
<1>1. CASE GetCachedVariable
  <2>1. ret'.kind # "object"
    BY <1>1, OutcomeKind DEF GetCachedVariable
  <2> QED
    BY <1>1, <2>1 DEF GetCachedVariable, In, PopStep
<1>2. CASE UndefinedVariable
  <2>1. ret'.kind # "object"
    BY <1>2 DEF UndefinedVariable, Exception
  <2> QED
    BY <1>2, <2>1 DEF UndefinedVariable, In, PopStep
<1>3. CASE ComputeVariable
  <2>1. ret' = Exception \/ \E flag : ret' = Outcome(Top.id, flag)
    BY <1>3 DEF ComputeVariable
  <2>2. ret'.kind # "object"
    BY <2>1, OutcomeKind DEF Exception
  <2> QED
    BY <1>3, <2>2 DEF ComputeVariable, In, PopStep
<1>4. CASE VariableFails
  BY <1>4 DEF VariableFails, Unwind, Thrown, In, PopStep
<1> QED
  BY <1>1, <1>2, <1>3, <1>4

LEMMA RunPops ==
  ASSUME IInv,
         \/ RunFromCache \/ RunCatchesVariable \/ RunCatchesException
         \/ ProcessObject \/ ProcessSetObject \/ (FilterReference /\ CreateError("error"))
  PROVE  PopStep /\ Top.call = "Run" /\ variableFlag' = variableFlag
<1>1. CASE RunFromCache
  <2>1. ret'.kind = "object"
    BY <1>1 DEF RunFromCache, ReturnObject
  <2> QED
    BY <1>1, <2>1 DEF RunFromCache, In, PopStep
<1>2. CASE ~ RunFromCache
  <2>1. In("Run") /\ \E c : Create(c)
    BY <1>2, ProcessingCreates
    DEF RunCatchesVariable, RunCatchesException, FilterReference, CreateError
  <2> QED
    BY <2>1, CreatePops DEF In
<1> QED
  BY <1>1, <1>2

LEMMA StepKeepsShape ==
  ASSUME IInv, Shape, Next PROVE Shape'
<1>1. CASE PopStep
  BY <1>1, ShapePops DEF PopStep
<1>2. CASE ParseContinues
  <2>1. PICK frame \in ParseFrames :
          ContinueStep(frame) /\ frame.call = "Parse" /\ frame.at = Top.at + 1
    BY <1>2, ParseContinueMoves
  <2>2. Top.at + 1 \in DOMAIN input.uses[Top.id] /\ input.uses[Top.id] \in Seq(Uses)
    BY <1>2, ReturnedTo, TopParse DEF ParseContinues, In, Done, NoReturn
  <2>3. frame.at <= Len(input.uses[frame.id])
    BY <2>1, <2>2 DEF ContinueStep
  <2> QED
    BY <2>1, <2>3, ShapeContinues DEF ContinueStep
<1>3. CASE CacheVariable
  <2>1. PICK frame \in VariableFrames :
          /\ ContinueStep(frame) /\ frame.call = "GetVariable"
          /\ frame.at = 1 /\ frame.got = Top.got
    BY <1>3, CacheMoves
  <2>2. Top \in VariableFrames /\ Top.at = 0 /\ Top.call = "GetVariable" /\ stack # <<>>
    BY <1>3, TopComputing DEF CacheVariable
  <2>3. Len(stack) \in DOMAIN stack /\ stack[Len(stack)] = Top
    BY <2>2 DEF Top, IInv, TypeOK
  <2>4. Top.got # <<>> =>
          \A k \in DOMAIN input.needs[Top.id] : k >= 0 => input.needs[Top.id][k] \in Objects
    BY <2>2, <2>3 DEF Shape, ObjectsLast
  <2>5. input.needs[Top.id] \in Seq(Uses)
    BY <1>3, TopComputing DEF CacheVariable
  <2>6. frame.got # <<>> =>
          \A k \in DOMAIN input.needs[frame.id] :
            k >= frame.at => input.needs[frame.id][k] \in Objects
    BY <2>1, <2>4, <2>5 DEF ContinueStep
  <2> QED
    BY <2>1, <2>6, ShapeContinues DEF ContinueStep
<1>4. CASE VariableComponentReturns
  <2>1. PICK frame \in VariableFrames :
          /\ ContinueStep(frame) /\ frame.call = "GetVariable"
          /\ frame.at = Top.at + 1 /\ frame.got = Top.got
    BY <1>4, ComponentMoves
  <2>2. /\ Top \in VariableFrames /\ Top.call = "GetVariable" /\ stack # <<>>
        /\ Top.at \in Nat /\ input.needs[Top.id] \in Seq(Uses)
    BY <1>4, TopComputing DEF VariableComponentReturns
  <2>3. Len(stack) \in DOMAIN stack /\ stack[Len(stack)] = Top
    BY <2>2 DEF Top, IInv, TypeOK
  <2>4. Top.got # <<>> =>
          \A k \in DOMAIN input.needs[Top.id] :
            k >= Top.at => input.needs[Top.id][k] \in Objects
    BY <2>2, <2>3 DEF Shape, ObjectsLast
  <2>5. frame.got # <<>> =>
          \A k \in DOMAIN input.needs[frame.id] :
            k >= frame.at => input.needs[frame.id][k] \in Objects
    BY <2>1, <2>2, <2>4 DEF ContinueStep
  <2> QED
    BY <2>1, <2>5, ShapeContinues DEF ContinueStep
<1>5. CASE ObjectComponentReturns
  <2>1. PICK frame \in VariableFrames :
          /\ ContinueStep(frame) /\ frame.call = "GetVariable"
          /\ frame.at = Top.at + 1
    BY <1>5, ObjectMoves
  <2>2. /\ Top.call = "GetVariable" /\ stack # <<>> /\ Top.id \in Variables
        /\ Top.at \in Nat /\ input.needs[Top.id] \in Seq(Uses)
    BY <1>5, TopComputing DEF ObjectComponentReturns
  <2>3. /\ Top.at \in DOMAIN input.needs[Top.id]
        /\ input.needs[Top.id][Top.at] \in Objects
    BY <1>5, <2>2, ReturnedTo DEF ObjectComponentReturns, NoReturn
  <2>4. \A k \in DOMAIN input.needs[Top.id] :
          Top.at < k => input.needs[Top.id][k] \in Objects
    BY <2>2, <2>3, InputsAssumption DEF IInv, WellFormed
  <2>5. \A k \in DOMAIN input.needs[frame.id] :
          k >= frame.at => input.needs[frame.id][k] \in Objects
    BY <2>1, <2>2, <2>4 DEF ContinueStep
  <2> QED
    BY <2>1, <2>5, ShapeContinues DEF ContinueStep
<1>6. CASE RunProcesses
  <2>1. PICK frame \in RunFrames :
          ContinueStep(frame) /\ frame.call = "Run" /\ frame.at = 2
    BY <1>6, ProcessMoves
  <2> QED
    BY <2>1, ShapeContinues DEF ContinueStep
<1>7. CASE FilterReference /\ ~ CreateError("error")
  <2>1. PICK frame \in RunFrames :
          ContinueStep(frame) /\ frame.call = "Run" /\ frame.at = 2
    BY <1>7, FilterMoves
  <2> QED
    BY <2>1, ShapeContinues DEF ContinueStep
<1>8. CASE ParseNext \/ ComputeComponent \/ CollectReference \/ RunParses
  BY <1>8, Pushes, PushKeepsShape
<1>9. CASE RunObject \/ WriteCollectedObjects
  <2>1. /\ ret' = NoReturn /\ stack' \in Seq(Frames)
        /\ Len(stack') \in {0, 1}
        /\ \A i \in DOMAIN stack' : stack'[i].call = "Run"
    <3>1. CASE RunObject
      <4>1. RunFrame(input.order[index]) \in Frames /\ stack' = <<RunFrame(input.order[index])>>
        <5>1. input.order \in Seq(Objects) /\ index \in 1..Len(input.order)
          BY <3>1 DEF RunObject, IInv, TypeOK, Input
        <5> QED
          BY <3>1, <5>1, CalledFrames DEF RunObject
      <4>2. RunFrame(input.order[index]).call = "Run"
        BY DEF RunFrame
      <4> QED
        BY <3>1, <4>1, <4>2 DEF RunObject
    <3>2. CASE WriteCollectedObjects
      BY <3>2 DEF WriteCollectedObjects, IInv, TypeOK
    <3> QED
      BY <1>9, <3>1, <3>2
  <2> QED
    BY <2>1 DEF Shape, Linked, Returned, WithinUses, ObjectsLast
<1> QED
  BY <1>1, <1>2, <1>3, <1>4, <1>5, <1>6, <1>7, <1>8, <1>9, ParsePops, VariablePops, RunPops
  DEF Next, ParseStep, VariableStep, RunStep

-----------------------------------------------------------------------------
\* What is there when some variables are complete.  A variable is one of them; an object
\* is there if, and only if, everything it uses is; and more complete variables take
\* nothing away.
LEMMA ThereVariable ==
  ASSUME NEW in, NEW complete, complete \subseteq Variables, NEW v \in Variables
  PROVE  v \in There(in, complete) <=> v \in complete
BY DistinctIds DEF There

LEMMA ThereIntro ==
  ASSUME NEW in, NEW complete, NEW o \in Objects,
         \A k \in DOMAIN in.uses[o] : in.uses[o][k] \in There(in, complete)
  PROVE  o \in There(in, complete)
<1> SUFFICES ASSUME NEW parsed \in SUBSET Objects, ClosedUnderParsing(in, complete, parsed)
             PROVE  o \in parsed
  BY DEF There
<1>1. \A k \in DOMAIN in.uses[o] : in.uses[o][k] \in complete \cup parsed
  BY DEF There
<1> QED
  BY <1>1 DEF ClosedUnderParsing

LEMMA ThereElim ==
  ASSUME NEW in, NEW complete, complete \subseteq Variables,
         NEW o \in Objects, o \in There(in, complete)
  PROVE  \A k \in DOMAIN in.uses[o] : in.uses[o][k] \in There(in, complete)
<1> DEFINE AllThere(p) == \A k \in DOMAIN in.uses[p] : in.uses[p][k] \in There(in, complete)
           parsed == {p \in Objects : p \in There(in, complete) /\ AllThere(p)}
<1>1. ASSUME NEW p \in Objects,
             \A k \in DOMAIN in.uses[p] : in.uses[p][k] \in complete \cup parsed
      PROVE  p \in parsed
  <2>1. complete \subseteq There(in, complete)
    BY DEF There
  <2>2. AllThere(p)
    BY <1>1, <2>1
  <2> QED
    BY <2>2, ThereIntro
<1>2. ClosedUnderParsing(in, complete, parsed)
  BY <1>1 DEF ClosedUnderParsing
<1>3. o \notin complete
  BY DistinctIds
<1> QED
  BY <1>2, <1>3 DEF There

LEMMA ThereGrows ==
  ASSUME NEW in, NEW complete, NEW more, complete \subseteq more
  PROVE  There(in, complete) \subseteq There(in, more)
<1>1. ASSUME NEW parsed \in SUBSET Objects, ClosedUnderParsing(in, more, parsed)
      PROVE  ClosedUnderParsing(in, complete, parsed)
  BY <1>1 DEF ClosedUnderParsing
<1> QED
  BY <1>1 DEF There

\* What is ready with the flags that the variables have.
CompleteIn(flags) == {v \in Variables : flags[v] = "complete"}
Ready(in, flags, use) == use \in There(in, CompleteIn(flags))

LEMMA ReadyVariable ==
  ASSUME NEW in, NEW flags, NEW v \in Variables
  PROVE  Ready(in, flags, v) <=> flags[v] = "complete"
BY ThereVariable DEF Ready, CompleteIn

LEMMA ReadyIntro ==
  ASSUME NEW in, NEW flags, NEW o \in Objects,
         \A k \in DOMAIN in.uses[o] : Ready(in, flags, in.uses[o][k])
  PROVE  Ready(in, flags, o)
BY ThereIntro DEF Ready

LEMMA ReadyElim ==
  ASSUME NEW in, NEW flags, NEW o \in Objects, Ready(in, flags, o)
  PROVE  \A k \in DOMAIN in.uses[o] : Ready(in, flags, in.uses[o][k])
<1>1. CompleteIn(flags) \subseteq Variables
  BY DEF CompleteIn
<1> QED
  BY <1>1, ThereElim DEF Ready

\* What is ready stays so while complete variables stay complete.
LEMMA ReadyGrows ==
  ASSUME NEW in, NEW flags, NEW flags2, NEW use,
         \A v \in Variables : flags[v] = "complete" => flags2[v] = "complete",
         Ready(in, flags, use)
  PROVE  Ready(in, flags2, use)
<1>1. CompleteIn(flags) \subseteq CompleteIn(flags2)
  BY DEF CompleteIn
<1> QED
  BY <1>1, ThereGrows DEF Ready

LEMMA ObjectsAreNoVariables ==
  \A o \in Objects : o \notin Variables
BY DistinctIds

\* What an active call stands for.  A call of Parse has got what it is behind, a call
\* of Run that has parsed its object is for a settled one, and what is called on its
\* behalf is ready, too.
FrameIsReady(in, flags, frame) ==
  /\ frame.call = "Parse" =>
       \A k \in 1..frame.at : Ready(in, flags, in.uses[frame.id][k])
  /\ frame.call = "Run" /\ frame.at = 2 => Ready(in, flags, frame.id)

Processing(frame) == frame.call = "Run" /\ frame.at = 2

CalleeIsReady(in, flags, frame) ==
  /\ Ready(in, flags, frame.id)
  /\ frame.call = "GetVariable" => frame.at = 0

CallsAreReady == \A i \in DOMAIN stack : FrameIsReady(input, variableFlag, stack[i])

SettledAbove ==
  \A i, j \in DOMAIN stack :
    i < j /\ Processing(stack[i]) => CalleeIsReady(input, variableFlag, stack[j])

\* A call of Parse or GetVariable returns if, and only if, it had to.
ReturnedMeans ==
  stack # <<>> /\ ret # NoReturn =>
    \A call, id : Waits(input, Top, call, id) /\ call # "Run" =>
      (ret = Done <=> Ready(input, variableFlag, id))

Known == CallsAreReady /\ SettledAbove /\ ReturnedMeans

Grows == \A v \in Variables : variableFlag[v] = "complete" => variableFlag'[v] = "complete"

LEMMA FramesGrow ==
  ASSUME Grows, NEW frame
  PROVE  /\ FrameIsReady(input, variableFlag, frame) => FrameIsReady(input, variableFlag', frame)
         /\ CalleeIsReady(input, variableFlag, frame) => CalleeIsReady(input, variableFlag', frame)
         /\ \A use : Ready(input, variableFlag, use) => Ready(input, variableFlag', use)
<1>1. \A use : Ready(input, variableFlag, use) => Ready(input, variableFlag', use)
  BY ReadyGrows DEF Grows
<1> QED
  BY <1>1 DEF FrameIsReady, CalleeIsReady

LEMMA StepGrows ==
  ASSUME IInv, Next, stack # <<>> PROVE Grows
<1>1. ~ WriteCollectedObjects
  BY DEF WriteCollectedObjects
<1> QED
  BY <1>1, CompleteStays DEF Grows

LEMMA WaitsForOne ==
  ASSUME NEW in, NEW frame, NEW call, NEW id, NEW call2, NEW id2,
         Waits(in, frame, call, id), Waits(in, frame, call2, id2), call2 # "Run"
  PROVE  call2 = call /\ id2 = id
BY DEF Waits

\* What is called on behalf of a ready call is ready.
LEMMA CalledIsReady ==
  ASSUME IInv, NEW frame \in Frames, NEW call, NEW id, Waits(input, frame, call, id),
         \/ CalleeIsReady(input, variableFlag, frame)
         \/ Processing(frame) /\ FrameIsReady(input, variableFlag, frame)
  PROVE  Ready(input, variableFlag, id)
<1>1. frame.call \in {"Run", "Parse"} => frame.id \in Objects
  BY DEF Frames
<1>2. frame.call \in {"Run", "Parse"} => Ready(input, variableFlag, frame.id)
  BY <1>1 DEF CalleeIsReady, FrameIsReady, Processing
<1>3. frame.call \in {"Run", "Parse"} =>
        \A k \in DOMAIN input.uses[frame.id] : Ready(input, variableFlag, input.uses[frame.id][k])
  BY <1>1, <1>2, ReadyElim
<1>4. frame.call # "GetVariable"
  <2> SUFFICES ASSUME frame.call = "GetVariable" PROVE FALSE
    OBVIOUS
  <2>1. frame.at = 0
    BY DEF CalleeIsReady, Processing
  <2>2. frame.id \in Variables
    BY DEF Frames
  <2>3. input.needs[frame.id] \in Seq(Uses)
    BY <2>2 DEF IInv, TypeOK, Input
  <2>4. frame.at \in DOMAIN input.needs[frame.id]
    BY DEF Waits
  <2> QED
    BY <2>1, <2>3, <2>4
<1>5. CASE frame.call = "Parse"
  BY <1>3, <1>5 DEF Waits
<1>6. CASE frame.call = "Run" /\ frame.at = 1
  BY <1>1, <1>2, <1>6 DEF Waits
<1>7. CASE frame.call = "Run" /\ frame.at = 2
  BY <1>3, <1>7 DEF Waits
<1> QED
  BY <1>4, <1>5, <1>6, <1>7 DEF Waits

LEMMA KnownPops ==
  ASSUME IInv, Shape, Known, stack # <<>>, Return, input' = input, Grows,
         Top.call # "Run" => (ret' = Done <=> Ready(input, variableFlag', Top.id))
  PROVE  Known'
<1> DEFINE n == Len(stack)
<1>1. stack \in Seq(Frames)
  BY DEF IInv, TypeOK
<1>2. /\ n \in Nat /\ n >= 1 /\ Len(stack') = n - 1
      /\ \A i \in 1..(n - 1) : stack'[i] = stack[i]
      /\ DOMAIN stack' = 1..(n - 1) /\ DOMAIN stack = 1..n
      /\ stack' # <<>> => n >= 2 /\ Top' = stack[n - 1]
  BY <1>1, Popped
<1>3. Top = stack[n]
  BY DEF Top
<1> HIDE DEF n
<1>4. \A i \in DOMAIN stack' : i \in DOMAIN stack /\ stack'[i] = stack[i]
  BY <1>2
<1>5. CallsAreReady'
  BY <1>4, FramesGrow DEF Known, CallsAreReady
<1>6. SettledAbove'
  BY <1>4, FramesGrow DEF Known, SettledAbove
<1>7. ReturnedMeans'
  <2> SUFFICES ASSUME stack' # <<>>, NEW call, NEW id,
                      Waits(input, Top', call, id), call # "Run"
               PROVE  ret' = Done <=> Ready(input, variableFlag', id)
    BY DEF ReturnedMeans
  <2>1. n - 1 \in 1..(n - 1) /\ n - 1 + 1 = n
    BY <1>2
  <2>2. Waits(input, Top', Top.call, Top.id)
    BY <1>2, <1>3, <2>1 DEF Shape, Linked, n
  <2>3. call = Top.call /\ id = Top.id
    BY <2>2, WaitsForOne
  <2> QED
    BY <2>3
<1> QED
  BY <1>5, <1>6, <1>7 DEF Known

LEMMA KnownContinues ==
  ASSUME IInv, Known, Grows, NEW frame, ContinueStep(frame),
         FrameIsReady(input, variableFlag', frame),
         CalleeIsReady(input, variableFlag, Top) => CalleeIsReady(input, variableFlag', frame)
  PROVE  Known'
<1> DEFINE n == Len(stack)
<1>1. stack \in Seq(Frames) /\ stack # <<>> /\ input' = input /\ ret' = NoReturn
  BY DEF IInv, TypeOK, ContinueStep
<1>2. /\ n \in Nat /\ n >= 1 /\ Len(stack') = n
      /\ \A i \in 1..(n - 1) : stack'[i] = stack[i]
      /\ stack'[n] = frame
      /\ DOMAIN stack' = 1..n /\ DOMAIN stack = 1..n
  BY <1>1, Continued DEF ContinueStep
<1>3. Top = stack[n]
  BY DEF Top
<1> HIDE DEF n
<1>4. \A i \in DOMAIN stack' :
        i \in DOMAIN stack /\ (i < n => stack'[i] = stack[i]) /\ (i >= n => i = n)
  BY <1>2
<1>5. CallsAreReady'
  <2> SUFFICES ASSUME NEW i \in DOMAIN stack'
               PROVE  FrameIsReady(input, variableFlag', stack'[i])
    BY <1>1 DEF CallsAreReady
  <2>1. CASE i = n
    BY <1>2, <2>1
  <2>2. CASE i # n
    <3>1. stack'[i] = stack[i] /\ i \in DOMAIN stack
      BY <1>2, <2>2
    <3> QED
      BY <3>1, FramesGrow DEF Known, CallsAreReady
  <2> QED
    BY <2>1, <2>2
<1>6. SettledAbove'
  <2> SUFFICES ASSUME NEW i \in DOMAIN stack', NEW j \in DOMAIN stack',
                      i < j, Processing(stack'[i])
               PROVE  CalleeIsReady(input, variableFlag', stack'[j])
    BY <1>1 DEF SettledAbove
  <2>1. i \in DOMAIN stack /\ j \in DOMAIN stack /\ stack'[i] = stack[i]
    BY <1>2
  <2>2. CalleeIsReady(input, variableFlag, stack[j])
    BY <2>1 DEF Known, SettledAbove
  <2>3. CASE j = n
    BY <1>2, <1>3, <2>2, <2>3
  <2>4. CASE j # n
    <3>1. stack'[j] = stack[j]
      BY <1>2, <2>4
    <3> QED
      BY <2>2, <3>1, FramesGrow
  <2> QED
    BY <2>3, <2>4
<1>7. ReturnedMeans'
  BY <1>1 DEF ReturnedMeans
<1> QED
  BY <1>5, <1>6, <1>7 DEF Known

LEMMA KnownPushes ==
  ASSUME IInv, Known, NEW frame, NEW callee, PushStep(frame, callee)
  PROVE  Known'
<1> DEFINE n == Len(stack)
<1>1. /\ stack \in Seq(Frames) /\ stack # <<>> /\ input' = input /\ ret' = NoReturn
      /\ variableFlag' = variableFlag /\ frame \in Frames /\ callee \in Frames
      /\ frame.call = Top.call /\ frame.id = Top.id
      /\ frame = Top \/ (frame.call = "Run" /\ frame.at = 1)
      /\ callee.at = 0 /\ Waits(input, frame, callee.call, callee.id)
  BY DEF IInv, TypeOK, PushStep
<1>2. /\ n \in Nat /\ n >= 1 /\ Len(stack') = n + 1
      /\ \A i \in 1..(n - 1) : stack'[i] = stack[i]
      /\ stack'[n] = frame /\ stack'[n + 1] = callee
      /\ DOMAIN stack' = 1..(n + 1) /\ DOMAIN stack = 1..n
  BY <1>1, Called DEF PushStep
<1>3. Top = stack[n] /\ n \in DOMAIN stack
  BY <1>2 DEF Top
<1> HIDE DEF n
<1>4. FrameIsReady(input, variableFlag, frame)
  BY <1>1, <1>3 DEF Known, CallsAreReady, FrameIsReady
<1>5. FrameIsReady(input, variableFlag, callee)
  BY <1>1 DEF FrameIsReady
<1>6. CalleeIsReady(input, variableFlag, Top) => CalleeIsReady(input, variableFlag, frame)
  BY <1>1 DEF CalleeIsReady
<1>7. \/ CalleeIsReady(input, variableFlag, frame)
      \/ Processing(frame)
      => CalleeIsReady(input, variableFlag, callee)
  BY <1>1, <1>4, CalledIsReady DEF CalleeIsReady
<1>8. CallsAreReady'
  <2> SUFFICES ASSUME NEW i \in DOMAIN stack'
               PROVE  FrameIsReady(input, variableFlag, stack'[i])
    BY <1>1 DEF CallsAreReady
  <2>1. CASE i \in {n, n + 1}
    BY <1>2, <1>4, <1>5, <2>1
  <2>2. CASE i \notin {n, n + 1}
    <3>1. stack'[i] = stack[i] /\ i \in DOMAIN stack
      BY <1>2, <2>2
    <3> QED
      BY <3>1 DEF Known, CallsAreReady
  <2> QED
    BY <2>1, <2>2
<1>9. SettledAbove'
  <2> SUFFICES ASSUME NEW i \in DOMAIN stack', NEW j \in DOMAIN stack',
                      i < j, Processing(stack'[i])
               PROVE  CalleeIsReady(input, variableFlag, stack'[j])
    BY <1>1 DEF SettledAbove
  <2>1. CASE i = n
    <3>1. j = n + 1
      BY <1>2, <2>1
    <3> QED
      BY <1>2, <1>7, <2>1, <3>1
  <2>2. CASE i # n
    <3>1. i \in 1..(n - 1) /\ i \in DOMAIN stack /\ stack'[i] = stack[i]
      BY <1>2, <2>2
    <3>2. CASE j < n
      <4>1. j \in DOMAIN stack /\ stack'[j] = stack[j]
        BY <1>2, <3>2
      <4> QED
        BY <3>1, <4>1 DEF Known, SettledAbove
    <3>3. CASE j >= n
      <4>1. i < n
        BY <1>2, <3>1
      <4>2. CalleeIsReady(input, variableFlag, Top)
        BY <1>3, <3>1, <4>1 DEF Known, SettledAbove
      <4>3. j = n \/ j = n + 1
        BY <1>2, <3>3
      <4> QED
        BY <1>2, <1>6, <1>7, <4>2, <4>3
    <3> QED
      BY <1>2, <3>2, <3>3
  <2> QED
    BY <2>1, <2>2
<1>10. ReturnedMeans'
  BY <1>1 DEF ReturnedMeans
<1> QED
  BY <1>8, <1>9, <1>10 DEF Known

\* What was returned to a call of Parse or of Run says whether what it waits for is
\* ready.
LEMMA ReturnedIsMeant ==
  ASSUME IInv, Shape, Known, stack # <<>>, ret # NoReturn, ret.kind # "object"
  PROVE  /\ Top.call = "Parse" =>
              (ret = Done <=> Ready(input, variableFlag, input.uses[Top.id][Top.at + 1]))
         /\ Top.call = "Run" => (ret = Done <=> Ready(input, variableFlag, Top.id))
<1>1. PICK call \in Calls, id \in Uses :
        Waits(input, Top, call, id) /\ (ret.kind = "object" <=> call = "Run")
  BY DEF Shape, Returned
<1>2. ret = Done <=> Ready(input, variableFlag, id)
  BY <1>1 DEF Known, ReturnedMeans
<1> QED
  BY <1>1, <1>2 DEF Waits

LEMMA ParseReturns ==
  ASSUME IInv, Shape, Known, ParseEnds \/ ParseFails
  PROVE  ret' = Done <=> Ready(input, variableFlag', Top.id)
<1>1. /\ stack # <<>> /\ Top.call = "Parse" /\ Top.id \in Objects /\ Top.at \in Nat
      /\ input.uses[Top.id] \in Seq(Uses) /\ stack \in Seq(Frames)
  BY TopParse DEF ParseEnds, ParseFails
<1>2. FrameIsReady(input, variableFlag, Top)
  BY <1>1 DEF Known, CallsAreReady, Top
<1>3. CASE ParseEnds
  <2>1. \A k \in DOMAIN input.uses[Top.id] : Ready(input, variableFlag, input.uses[Top.id][k])
    BY <1>1, <1>2, <1>3 DEF ParseEnds, FrameIsReady
  <2>2. Ready(input, variableFlag, Top.id)
    BY <1>1, <2>1, ReadyIntro
  <2> QED
    BY <1>1, <1>3, <2>2 DEF ParseEnds
<1>4. CASE ParseFails
  <2>1. /\ ret # NoReturn /\ ret # Done /\ ret.kind # "object" /\ ret' = ret
        /\ variableFlag' = variableFlag
    BY <1>4 DEF ParseFails, Unwind, Thrown, NoReturn, Done
  <2>2. ~ Ready(input, variableFlag, input.uses[Top.id][Top.at + 1])
    BY <1>1, <2>1, ReturnedIsMeant
  <2>3. Top.at + 1 \in DOMAIN input.uses[Top.id]
    BY <1>1, <2>1, ReturnedTo
  <2>4. ~ Ready(input, variableFlag, Top.id)
    BY <1>1, <2>2, <2>3, ReadyElim
  <2> QED
    BY <1>1, <2>1, <2>4
<1> QED
  BY <1>3, <1>4

\* A call of GetVariable is computing when it has gone on or gets something.
LEMMA TopIsUnfinished ==
  ASSUME IInv, In("GetVariable"), Top.at >= 1
  PROVE  variableFlag[Top.id] = "error" /\ Computing(Len(stack))
<1>1. Len(stack) \in DOMAIN stack /\ stack[Len(stack)] = Top
  BY TopComputing DEF Top
<1>2. Computing(Len(stack))
  BY <1>1 DEF Computing, In
<1> QED
  BY <1>1, <1>2 DEF IInv, UnfinishedIsError, InitialFlag

LEMMA VariableReturns ==
  ASSUME IInv, Shape,
         GetCachedVariable \/ UndefinedVariable \/ ComputeVariable \/ VariableFails
  PROVE  /\ ret' = Done <=> Ready(input, variableFlag', Top.id)
         /\ ret' # Done => ret'.kind \in Thrown
<1>1. /\ stack # <<>> /\ Top.call = "GetVariable" /\ Top.id \in Variables
      /\ In("GetVariable") /\ input.needs[Top.id] \in Seq(Uses) /\ Top.at \in Nat
      /\ variableFlag \in [Variables -> Flags \cup {"absent"}]
  BY TopComputing DEF GetCachedVariable, UndefinedVariable, ComputeVariable, VariableFails,
                      IInv, TypeOK
<1> SUFFICES /\ ret' = Done <=> variableFlag'[Top.id] = "complete"
             /\ ret' # Done => ret'.kind \in Thrown
  BY <1>1, ReadyVariable
<1>2. CASE GetCachedVariable
  BY <1>2, OutcomeKind DEF GetCachedVariable, Thrown
<1>3. CASE UndefinedVariable
  BY <1>3 DEF UndefinedVariable, Exception, Done, Thrown
<1>4. CASE ComputeVariable
  <2>1. Top.at >= 1
    BY <1>1, <1>4 DEF ComputeVariable
  <2>2. variableFlag[Top.id] = "error"
    BY <1>1, <2>1, TopIsUnfinished
  <2>3. CASE ret' = Exception /\ UNCHANGED variableFlag
    BY <2>2, <2>3 DEF Exception, Done, Thrown
  <2>4. ASSUME NEW flag, variableFlag' = [variableFlag EXCEPT ![Top.id] = flag],
               ret' = Outcome(Top.id, flag)
        PROVE  /\ ret' = Done <=> variableFlag'[Top.id] = "complete"
               /\ ret' # Done => ret'.kind \in Thrown
    <3>1. variableFlag'[Top.id] = flag
      BY <1>1, <2>4
    <3> QED
      BY <2>4, <3>1, OutcomeKind DEF Thrown
  <2> QED
    BY <1>4, <2>3, <2>4 DEF ComputeVariable
<1>5. CASE VariableFails
  <2>1. ret' = ret /\ ret.kind \in Thrown /\ variableFlag' = variableFlag
    BY <1>5 DEF VariableFails, Unwind
  <2>2. ret # NoReturn /\ ret # Done
    BY <2>1 DEF NoReturn, Done, Thrown
  <2>3. Top.at >= 1
    BY <1>1, <2>2, ReturnedTo
  <2>4. variableFlag[Top.id] = "error"
    BY <1>1, <2>3, TopIsUnfinished
  <2> QED
    BY <2>1, <2>2, <2>4
<1> QED
  BY <1>2, <1>3, <1>4, <1>5

LEMMA StepKeepsKnown ==
  ASSUME IInv, Shape, Known, Next PROVE Known'
<1>0. stack # <<>> => /\ Grows /\ FrameIsReady(input, variableFlag, Top)
                      /\ Top = stack[Len(stack)] /\ Len(stack) \in DOMAIN stack
  <2> SUFFICES ASSUME stack # <<>>
               PROVE  Grows /\ FrameIsReady(input, variableFlag, Top) /\ Len(stack) \in DOMAIN stack
    BY DEF Top
  <2>1. Len(stack) \in DOMAIN stack
    BY DEF IInv, TypeOK
  <2> QED
    BY <2>1, StepGrows DEF Known, CallsAreReady, Top
<1>1. CASE ParseContinues
  <2>1. PICK frame \in ParseFrames :
          ContinueStep(frame) /\ frame.call = "Parse" /\ frame.at = Top.at + 1
    BY <1>1, ParseContinueMoves
  <2>2. /\ stack # <<>> /\ Top.call = "Parse" /\ Top.at \in Nat /\ frame.id = Top.id
        /\ variableFlag' = variableFlag /\ ret = Done
    BY <1>1, <2>1, TopParse DEF ParseContinues, ContinueStep
  <2>3. Ready(input, variableFlag, input.uses[Top.id][Top.at + 1])
    BY <2>2, ReturnedIsMeant DEF Done, NoReturn
  <2>4. FrameIsReady(input, variableFlag', frame)
    BY <1>0, <2>1, <2>2, <2>3 DEF FrameIsReady
  <2>5. CalleeIsReady(input, variableFlag, Top) => CalleeIsReady(input, variableFlag', frame)
    BY <2>1, <2>2 DEF CalleeIsReady
  <2> QED
    BY <1>0, <2>1, <2>2, <2>4, <2>5, KnownContinues
<1>2. CASE CacheVariable
  <2>1. PICK frame \in VariableFrames :
          ContinueStep(frame) /\ frame.call = "GetVariable" /\ frame.at = 1
    BY <1>2, CacheMoves
  <2>2. stack # <<>> /\ Top.id \in Variables /\ variableFlag[Top.id] # "complete"
    BY <1>2, TopComputing DEF CacheVariable
  <2>3. ~ CalleeIsReady(input, variableFlag, Top)
    BY <2>2, ReadyVariable DEF CalleeIsReady
  <2>4. FrameIsReady(input, variableFlag', frame)
    BY <2>1 DEF FrameIsReady
  <2> QED
    BY <1>0, <2>1, <2>2, <2>3, <2>4, KnownContinues
<1>3. CASE VariableComponentReturns \/ ObjectComponentReturns
  <2>1. PICK frame \in VariableFrames :
          ContinueStep(frame) /\ frame.call = "GetVariable"
    BY <1>3, ComponentMoves, ObjectMoves
  <2>2. stack # <<>> /\ Top.call = "GetVariable" /\ Top.at >= 1 /\ Top.at \in Nat
    BY <1>3, TopComputing DEF VariableComponentReturns, ObjectComponentReturns
  <2>3. ~ CalleeIsReady(input, variableFlag, Top)
    BY <2>2 DEF CalleeIsReady
  <2>4. FrameIsReady(input, variableFlag', frame)
    BY <2>1 DEF FrameIsReady
  <2> QED
    BY <1>0, <2>1, <2>2, <2>3, <2>4, KnownContinues
<1>4. CASE RunProcesses
  <2>1. PICK frame \in RunFrames :
          ContinueStep(frame) /\ frame.call = "Run" /\ frame.at = 2
    BY <1>4, ProcessMoves
  <2>2. /\ stack # <<>> /\ Top.call = "Run" /\ Top.id \in Objects /\ frame.id = Top.id
        /\ variableFlag' = variableFlag /\ ret = Done
    BY <1>4, <2>1, TopRun DEF RunProcesses, ContinueStep
  <2>3. Ready(input, variableFlag, Top.id)
    BY <2>2, ReturnedIsMeant DEF Done, NoReturn
  <2>4. FrameIsReady(input, variableFlag', frame)
    BY <2>1, <2>2, <2>3 DEF FrameIsReady
  <2>5. CalleeIsReady(input, variableFlag, Top) => CalleeIsReady(input, variableFlag', frame)
    BY <2>1, <2>2 DEF CalleeIsReady
  <2> QED
    BY <1>0, <2>1, <2>2, <2>4, <2>5, KnownContinues
<1>5. CASE FilterReference /\ ~ CreateError("error")
  <2>1. PICK frame \in RunFrames :
          /\ ContinueStep(frame) /\ frame.call = "Run" /\ frame.at = 2
          /\ variableFlag' = variableFlag
    BY <1>5, FilterMoves
  <2>2. stack # <<>> /\ Top.call = "Run" /\ Top.at = 2 /\ frame.id = Top.id
    BY <1>5, <2>1, TopRun DEF FilterReference, ContinueStep
  <2>3. FrameIsReady(input, variableFlag', frame)
    BY <1>0, <2>1, <2>2 DEF FrameIsReady
  <2>4. CalleeIsReady(input, variableFlag, Top) => CalleeIsReady(input, variableFlag', frame)
    BY <2>1, <2>2 DEF CalleeIsReady
  <2> QED
    BY <1>0, <2>1, <2>2, <2>3, <2>4, KnownContinues
<1>6. CASE ParseEnds \/ ParseFails
  BY <1>0, <1>6, ParsePops, ParseReturns, KnownPops DEF PopStep
<1>7. CASE GetCachedVariable \/ UndefinedVariable \/ ComputeVariable \/ VariableFails
  BY <1>0, <1>7, VariablePops, VariableReturns, KnownPops DEF PopStep
<1>8. CASE \/ RunFromCache \/ RunCatchesVariable \/ RunCatchesException
           \/ ProcessObject \/ ProcessSetObject \/ (FilterReference /\ CreateError("error"))
  BY <1>0, <1>8, RunPops, KnownPops DEF PopStep
<1>9. CASE ParseNext \/ ComputeComponent \/ CollectReference \/ RunParses
  BY <1>9, Pushes, KnownPushes
<1>10. CASE RunObject \/ WriteCollectedObjects
  <2>1. /\ ret' = NoReturn
        /\ \/ stack' = <<>>
           \/ stack' = <<RunFrame(input.order[index])>> /\ input' = input
    BY <1>10 DEF RunObject, WriteCollectedObjects
  <2>2. CASE stack' = <<>>
    BY <2>1, <2>2 DEF Known, CallsAreReady, SettledAbove, ReturnedMeans
  <2>3. CASE stack' = <<RunFrame(input.order[index])>>
    <3>1. DOMAIN stack' = {1} /\ stack'[1].call = "Run" /\ stack'[1].at = 0
      BY <2>3 DEF RunFrame
    <3> QED
      BY <2>1, <3>1 DEF Known, CallsAreReady, SettledAbove, ReturnedMeans, FrameIsReady, Processing
  <2> QED
    BY <2>1, <2>2, <2>3
<1> QED
  BY <1>1, <1>2, <1>3, <1>4, <1>5, <1>6, <1>7, <1>8, <1>9, <1>10
  DEF Next, ParseStep, VariableStep, RunStep

-----------------------------------------------------------------------------
\* The flags a variable can have: those of the fields and of a failure.
OwnFlags == {"error", "complete", "does not exist", "not collected"}

OwnFrame(in, frame) ==
  frame.call = "GetVariable" =>
    /\ \A k \in DOMAIN frame.got : frame.got[k] \in OwnFlags
    /\ frame.at >= 1 => in.own[frame.id] # "undefined"

FlagsAreOwn ==
  /\ \A v \in Variables : variableFlag[v] \in OwnFlags \cup {"absent"}
  /\ \A i \in DOMAIN stack : OwnFrame(input, stack[i])
  /\ ret.kind = "VariableFactoryException" => variableFlag[ret.variable] # "complete"

LEMMA OwnFlagsCombine ==
  ASSUME NEW flags, \A i \in DOMAIN flags : flags[i] \in OwnFlags
  PROVE  CombineFlags(flags) \in OwnFlags
BY DEF CombineFlags, Occurring, OwnFlags

LEMMA OwnObjectFlag ==
  ASSUME NEW object, NEW field \in FieldAnswers
  PROVE  /\ ObjectComponentFlag(object, field) \in OwnFlags
         /\ object.flag = "error" => ObjectComponentFlag(object, field) = "error"
BY DEF ObjectComponentFlag, FieldAnswers, Statuses, OwnFlags

\* The sequence of the own flag and of those of the components.
LEMMA OwnThenGot ==
  ASSUME NEW own, NEW S, NEW got \in Seq(S)
  PROVE  /\ DOMAIN (<<own>> \o got) = 1..(Len(got) + 1)
         /\ (<<own>> \o got)[1] = own
         /\ \A k \in DOMAIN got : (<<own>> \o got)[k + 1] = got[k]
         /\ \A k \in DOMAIN (<<own>> \o got) : k = 1 \/ k - 1 \in DOMAIN got
OBVIOUS

LEMMA OwnFrames ==
  ASSUME IInv, FlagsAreOwn, input' = input, NEW frame, NEW callee,
         OwnFrame(input, frame), OwnFrame(input, callee),
         \/ stack # <<>> /\ Return
         \/ stack # <<>> /\ frame \in Frames /\ Continue(frame)
         \/ stack # <<>> /\ frame \in Frames /\ callee \in Frames /\ Call(frame, callee)
  PROVE  \A i \in DOMAIN stack' : OwnFrame(input', stack'[i])
<1>1. stack \in Seq(Frames)
  BY DEF IInv, TypeOK
<1>2. \A i \in DOMAIN stack' :
        stack'[i] \in {frame, callee} \/ (i \in DOMAIN stack /\ stack'[i] = stack[i])
  <2>1. CASE stack # <<>> /\ Return
    BY <1>1, <2>1, Popped
  <2>2. CASE stack # <<>> /\ frame \in Frames /\ Continue(frame)
    <3>1. /\ DOMAIN stack' = 1..Len(stack) /\ DOMAIN stack = 1..Len(stack)
          /\ Len(stack) \in Nat /\ stack'[Len(stack)] = frame
          /\ \A i \in 1..(Len(stack) - 1) : stack'[i] = stack[i]
      BY <1>1, <2>2, Continued
    <3> QED
      BY <3>1
  <2>3. CASE stack # <<>> /\ frame \in Frames /\ callee \in Frames /\ Call(frame, callee)
    <3>1. /\ DOMAIN stack' = 1..(Len(stack) + 1) /\ DOMAIN stack = 1..Len(stack)
          /\ Len(stack) \in Nat /\ stack'[Len(stack)] = frame
          /\ stack'[Len(stack) + 1] = callee
          /\ \A i \in 1..(Len(stack) - 1) : stack'[i] = stack[i]
      BY <1>1, <2>3, Called
    <3> QED
      BY <3>1
  <2> QED
    BY <2>1, <2>2, <2>3
<1> QED
  BY <1>2 DEF FlagsAreOwn

LEMMA ComputedFlagIsOwn ==
  ASSUME IInv, FlagsAreOwn, ComputeVariable, input.own[Top.id] # "throws"
  PROVE  CombineFlags(<<input.own[Top.id]>> \o Top.got) \in OwnFlags
<1> DEFINE own == input.own[Top.id]
           all == <<own>> \o Top.got
<1>1. /\ stack # <<>> /\ Top.call = "GetVariable" /\ Top.id \in Variables
      /\ Top.got \in Seq(Flags) /\ input.needs[Top.id] \in Seq(Uses)
      /\ Len(stack) \in DOMAIN stack
  BY TopComputing DEF ComputeVariable
<1>2. OwnFrame(input, Top) /\ Top.at >= 1
  BY <1>1 DEF FlagsAreOwn, Top, ComputeVariable
<1>3. own \in Owns
  BY <1>1 DEF IInv, TypeOK, Input
<1>4. own \in OwnFlags
  BY <1>1, <1>2, <1>3 DEF OwnFrame, Owns, OwnFlags
<1>5. \A k \in DOMAIN Top.got : Top.got[k] \in OwnFlags
  BY <1>1, <1>2 DEF OwnFrame
<1>6. \A k \in DOMAIN all : all[k] \in OwnFlags
  <2> TAKE k \in DOMAIN all
  <2> HIDE DEF own
  <2>1. CASE k = 1
    BY <1>1, <1>4, <2>1, OwnThenGot
  <2>2. CASE k # 1
    <3>1. k - 1 \in DOMAIN Top.got /\ all[k - 1 + 1] = Top.got[k - 1]
      BY <1>1, <2>2, OwnThenGot
    <3>2. k - 1 + 1 = k
      BY <1>1, OwnThenGot
    <3> QED
      BY <1>5, <3>1, <3>2
  <2> QED
    BY <2>1, <2>2
<1> HIDE DEF all
<1>7. CombineFlags(all) \in OwnFlags
  BY <1>6, OwnFlagsCombine
<1> QED
  BY <1>7 DEF all

LEMMA StepKeepsOwn ==
  ASSUME IInv, Shape, FlagsAreOwn, Next PROVE FlagsAreOwn'
<1> DEFINE NoVariable == ret'.kind # "VariableFactoryException"
<1>0. /\ stack # <<>> => OwnFrame(input, Top)
      /\ variableFlag \in [Variables -> Flags \cup {"absent"}]
      /\ \A v \in Variables : variableFlag[v] \in OwnFlags \cup {"absent"}
      /\ ret.kind = "VariableFactoryException" => variableFlag[ret.variable] # "complete"
      /\ NoReturn.kind # "VariableFactoryException" /\ Done.kind # "VariableFactoryException"
      /\ Exception.kind # "VariableFactoryException"
  <2>1. stack # <<>> => Len(stack) \in DOMAIN stack
    BY DEF IInv, TypeOK
  <2> QED
    BY <2>1 DEF FlagsAreOwn, Top, IInv, TypeOK, NoReturn, Done, Exception
\* The three parts, where the flags of the variables stay.
<1>1. ASSUME variableFlag' = variableFlag, input' = input, stack # <<>>,
             NEW frame, NEW callee, OwnFrame(input, frame), OwnFrame(input, callee),
             \/ Return
             \/ frame \in Frames /\ Continue(frame)
             \/ frame \in Frames /\ callee \in Frames /\ Call(frame, callee),
             \/ ret' = ret
             \/ NoVariable
             \/ variableFlag[ret'.variable] # "complete"
      PROVE  FlagsAreOwn'
  <2>1. \A i \in DOMAIN stack' : OwnFrame(input', stack'[i])
    BY <1>1, OwnFrames
  <2> QED
    BY <1>0, <1>1, <2>1 DEF FlagsAreOwn
<1>2. CASE ParseContinues \/ RunProcesses
  <2>1. \E frame \in ParseFrames \cup RunFrames : ContinueStep(frame) /\ frame.call # "GetVariable"
    BY <1>2, ParseContinueMoves, ProcessMoves DEF ParseFrames, RunFrames
  <2>2. variableFlag' = variableFlag /\ ret' = NoReturn
    BY <1>2 DEF ParseContinues, RunProcesses
  <2> QED
    BY <1>0, <1>1, <2>1, <2>2 DEF ContinueStep, OwnFrame
<1>3. CASE CacheVariable
  <2>1. PICK frame \in VariableFrames :
          /\ ContinueStep(frame) /\ frame.call = "GetVariable"
          /\ frame.at = 1 /\ frame.got = Top.got
    BY <1>3, CacheMoves
  <2>2. /\ stack # <<>> /\ Top.call = "GetVariable" /\ Top.id \in Variables
        /\ input.own[Top.id] # "undefined"
        /\ variableFlag' = [variableFlag EXCEPT ![Top.id] = InitialFlag]
    BY <1>3, TopComputing DEF CacheVariable
  <2>3. OwnFrame(input, frame)
    BY <1>0, <2>1, <2>2 DEF OwnFrame, ContinueStep
  <2>4. \A i \in DOMAIN stack' : OwnFrame(input', stack'[i])
    BY <2>1, <2>3, OwnFrames DEF ContinueStep
  <2>5. \A v \in Variables : variableFlag'[v] \in OwnFlags \cup {"absent"}
    BY <1>0, <2>2 DEF InitialFlag, OwnFlags
  <2> QED
    BY <1>0, <2>1, <2>4, <2>5 DEF FlagsAreOwn, ContinueStep
<1>4. CASE VariableComponentReturns
  <2>1. PICK frame \in VariableFrames :
          /\ ContinueStep(frame) /\ frame.call = "GetVariable" /\ frame.got = Top.got
    BY <1>4, ComponentMoves
  <2>2. /\ stack # <<>> /\ Top.call = "GetVariable" /\ Top.at >= 1
        /\ variableFlag' = variableFlag
    BY <1>4, TopComputing DEF VariableComponentReturns
  <2>3. OwnFrame(input, frame)
    BY <1>0, <2>1, <2>2 DEF OwnFrame, ContinueStep
  <2> QED
    BY <1>0, <1>1, <2>1, <2>2, <2>3 DEF ContinueStep
<1>5. CASE ObjectComponentReturns
  <2> DEFINE flag == ObjectComponentFlag(ret.object, input.field[ret.id])
  <2>1. PICK frame \in VariableFrames :
          /\ ContinueStep(frame) /\ frame.call = "GetVariable"
          /\ frame.got = Append(Top.got, flag)
    BY <1>5, ObjectMoves
  <2>2. /\ stack # <<>> /\ Top.call = "GetVariable" /\ Top.at >= 1
        /\ Top.got \in Seq(Flags) /\ variableFlag' = variableFlag
    BY <1>5, TopComputing DEF ObjectComponentReturns
  <2>3. ret.id \in Objects
    BY <1>5 DEF ObjectComponentReturns, IInv, TypeOK, Returns, NoReturn, Done, Exception
  <2>4. input.field[ret.id] \in FieldAnswers
    BY <2>3 DEF IInv, TypeOK, Input
  <2>5. flag \in OwnFlags
    BY <2>4, OwnObjectFlag
  <2> HIDE DEF flag
  <2>6. \A k \in DOMAIN frame.got : frame.got[k] = flag \/
          (k \in DOMAIN Top.got /\ frame.got[k] = Top.got[k])
    BY <2>1, <2>2
  <2>7. OwnFrame(input, frame)
    <3>1. \A k \in DOMAIN frame.got : frame.got[k] \in OwnFlags
      BY <1>0, <2>2, <2>5, <2>6 DEF OwnFrame
    <3> QED
      BY <1>0, <2>1, <2>2, <3>1 DEF OwnFrame, ContinueStep
  <2> QED
    BY <1>0, <1>1, <2>1, <2>2, <2>7 DEF ContinueStep
<1>6. CASE FilterReference /\ ~ CreateError("error")
  <2>1. \E frame \in RunFrames :
          ContinueStep(frame) /\ frame.call = "Run" /\ variableFlag' = variableFlag
    BY <1>6, FilterMoves
  <2> QED
    BY <1>0, <1>1, <2>1 DEF ContinueStep, OwnFrame
<1>7. CASE ParseEnds \/ ParseFails \/ VariableFails
  <2>1. /\ stack # <<>> /\ Return /\ input' = input
        /\ variableFlag' = variableFlag /\ ret' \in {ret, Done}
    BY <1>7, ParsePops, VariablePops DEF PopStep, ParseEnds, ParseFails, VariableFails, Unwind
  <2> QED
    BY <1>0, <1>1, <2>1 DEF OwnFrame
<1>8. CASE GetCachedVariable \/ UndefinedVariable
  <2>1. /\ stack # <<>> /\ Return /\ input' = input /\ variableFlag' = variableFlag
        /\ ret' = Exception \/ ret' = Outcome(Top.id, variableFlag[Top.id])
    BY <1>8, VariablePops DEF PopStep, GetCachedVariable, UndefinedVariable
  <2>2. NoVariable \/ variableFlag[ret'.variable] # "complete"
    BY <1>0, <2>1, OutcomeKind
  <2> QED
    BY <1>0, <1>1, <2>1, <2>2
<1>9. CASE ComputeVariable
  <2> DEFINE flag == CombineFlags(<<input.own[Top.id]>> \o Top.got)
  <2>1. stack # <<>> /\ Return /\ input' = input /\ Top.id \in Variables
    BY <1>9, VariablePops, TopComputing DEF PopStep, ComputeVariable
  <2>2. CASE input.own[Top.id] = "throws"
    BY <1>0, <1>1, <1>9, <2>1, <2>2 DEF ComputeVariable
  <2>3. CASE input.own[Top.id] # "throws"
    <3>1. /\ variableFlag' = [variableFlag EXCEPT ![Top.id] = flag]
          /\ ret' = Outcome(Top.id, flag)
      BY <1>9, <2>3 DEF ComputeVariable
    <3>2. flag \in OwnFlags
      BY <1>9, <2>3, ComputedFlagIsOwn
    <3> HIDE DEF flag
    <3>3. \A v \in Variables : variableFlag'[v] \in OwnFlags \cup {"absent"}
      BY <1>0, <2>1, <3>1, <3>2
    <3>4. NoVariable \/ variableFlag'[ret'.variable] # "complete"
      BY <1>0, <2>1, <3>1, OutcomeKind
    <3>5. \A i \in DOMAIN stack' : OwnFrame(input', stack'[i])
      BY <1>0, <2>1, OwnFrames
    <3> QED
      BY <3>3, <3>4, <3>5 DEF FlagsAreOwn
  <2> QED
    BY <2>2, <2>3
<1>10. CASE \/ RunFromCache \/ RunCatchesVariable \/ RunCatchesException
            \/ ProcessObject \/ ProcessSetObject \/ (FilterReference /\ CreateError("error"))
  <2>1. PopStep /\ Top.call = "Run" /\ variableFlag' = variableFlag
    BY <1>10, RunPops
  <2> QED
    BY <1>0, <1>1, <2>1 DEF PopStep
<1>11. CASE ParseNext \/ ComputeComponent \/ CollectReference \/ RunParses
  <2>1. PICK frame, callee : PushStep(frame, callee)
    BY <1>11, Pushes
  <2>2. OwnFrame(input, frame) /\ OwnFrame(input, callee)
    BY <1>0, <2>1 DEF PushStep, OwnFrame
  <2> QED
    BY <1>1, <2>1, <2>2 DEF PushStep
<1>12. CASE RunObject \/ WriteCollectedObjects
  <2>1. /\ ret' = NoReturn /\ stack = <<>>
        /\ \/ stack' = <<>>
           \/ stack' = <<RunFrame(input.order[index])>> /\ input' = input
        /\ \/ variableFlag' = variableFlag
           \/ variableFlag' = [v \in Variables |-> "absent"]
    BY <1>12 DEF RunObject, WriteCollectedObjects
  <2>2. \A i \in DOMAIN stack' : OwnFrame(input', stack'[i])
    <3>1. CASE stack' = <<>>
      BY <3>1
    <3>2. CASE stack' = <<RunFrame(input.order[index])>>
      <4>1. DOMAIN stack' = {1} /\ stack'[1].call = "Run"
        BY <3>2 DEF RunFrame
      <4> QED
        BY <4>1 DEF OwnFrame
    <3> QED
      BY <2>1, <3>1, <3>2
  <2> QED
    BY <1>0, <2>1, <2>2 DEF FlagsAreOwn
<1> QED
  BY <1>2, <1>3, <1>4, <1>5, <1>6, <1>7, <1>8, <1>9, <1>10, <1>11, <1>12
  DEF Next, ParseStep, VariableStep, RunStep

-----------------------------------------------------------------------------
\* Objects that are parsed within their own parsing.

LEMMA Callees ==
  ASSUME IInv, Shape, NEW i \in 1..(Len(stack) - 1)
  PROVE  /\ i \in DOMAIN stack /\ i + 1 \in DOMAIN stack
         /\ stack[i] \in Frames /\ stack[i + 1] \in Frames
         /\ stack[i].call = "Parse" =>
              /\ stack[i].id \in Objects /\ stack[i].at \in Nat
              /\ stack[i].at + 1 \in DOMAIN input.uses[stack[i].id]
              /\ stack[i + 1].id = input.uses[stack[i].id][stack[i].at + 1]
              /\ stack[i + 1].call = IF stack[i + 1].id \in Variables
                                       THEN "GetVariable" ELSE "Parse"
         /\ stack[i].call = "Run" =>
              \/ /\ stack[i].at = 1
                 /\ stack[i + 1].call = "Parse" /\ stack[i + 1].id = stack[i].id
              \/ /\ stack[i].at = 2
                 /\ stack[i + 1].call = "Run" /\ stack[i + 1].id \in Objects
                 /\ \E k \in DOMAIN input.uses[stack[i].id] :
                      input.uses[stack[i].id][k] = stack[i + 1].id
         /\ stack[i].call = "GetVariable" =>
              Computing(i) /\ variableFlag[stack[i].id] = "error"
<1>1. stack \in Seq(Frames) /\ i \in DOMAIN stack /\ i + 1 \in DOMAIN stack
  BY DEF IInv, TypeOK
<1>2. stack[i] \in Frames /\ stack[i + 1] \in Frames
  BY <1>1
<1>3. Waits(input, stack[i], stack[i + 1].call, stack[i + 1].id)
  BY DEF Shape, Linked
<1>4. stack[i].call = "Parse" => stack[i].id \in Objects /\ stack[i].at \in Nat
  BY <1>2 DEF Frames
<1>5. stack[i].call = "GetVariable" => Computing(i)
  <2> SUFFICES ASSUME stack[i].call = "GetVariable" PROVE stack[i].at >= 1
    BY DEF Computing
  <2>1. stack[i].at \in DOMAIN input.needs[stack[i].id] /\ stack[i].id \in Variables
    BY <1>2, <1>3 DEF Waits, Frames
  <2>2. input.needs[stack[i].id] \in Seq(Uses)
    BY <2>1 DEF IInv, TypeOK, Input
  <2> QED
    BY <2>1, <2>2
<1>6. stack[i].call = "GetVariable" => variableFlag[stack[i].id] = "error"
  BY <1>1, <1>5 DEF IInv, UnfinishedIsError, InitialFlag
<1>7. stack[i].call = "Parse" =>
        /\ stack[i].at + 1 \in DOMAIN input.uses[stack[i].id]
        /\ stack[i + 1].id = input.uses[stack[i].id][stack[i].at + 1]
        /\ stack[i + 1].call = IF stack[i + 1].id \in Variables
                                 THEN "GetVariable" ELSE "Parse"
  BY <1>3 DEF Waits
<1>8. stack[i].call = "Run" =>
        \/ /\ stack[i].at = 1
           /\ stack[i + 1].call = "Parse" /\ stack[i + 1].id = stack[i].id
        \/ /\ stack[i].at = 2
           /\ stack[i + 1].call = "Run" /\ stack[i + 1].id \in Objects
           /\ \E k \in DOMAIN input.uses[stack[i].id] :
                input.uses[stack[i].id][k] = stack[i + 1].id
  BY <1>3 DEF Waits
<1> QED
  BY <1>1, <1>2, <1>4, <1>5, <1>6, <1>7, <1>8

\* When a call comes back to an object that is being parsed, or processed, none of
\* the objects on the way is settled: each of them uses another one of them, or a
\* variable that is not finished.
LEMMA Unsettled ==
  ASSUME IInv, Shape, NEW i \in DOMAIN stack, NEW j \in DOMAIN stack, i < j,
         stack[j].call # "GetVariable", stack[j].id = stack[i].id,
         \/ stack[i].call = "Parse"
         \/ Processing(stack[i]) /\ stack[j].call = "Run"
  PROVE  \A m \in i..(j - 1) :
           stack[m].call # "GetVariable" => ~ Ready(input, variableFlag, stack[m].id)
<1> DEFINE InWay(m) == m \in i..(j - 1) /\ stack[m].call # "GetVariable"
           Way == {o \in Objects : \E m \in i..(j - 1) : InWay(m) /\ stack[m].id = o}
           X == Objects \ Way
           Stuck(o) == \E k \in DOMAIN input.uses[o] :
                         input.uses[o][k] \notin CompleteIn(variableFlag) \cup X
<1>1. /\ i \in Nat /\ j \in Nat /\ stack \in Seq(Frames) /\ j <= Len(stack)
      /\ \A m \in i..(j - 1) : m \in 1..(Len(stack) - 1) /\ m \in DOMAIN stack
                               /\ stack[m] \in Frames
  BY DEF IInv, TypeOK
<1>2. \A m \in i..(j - 1) : m + 1 \in i..(j - 1) \/ m + 1 = j
  BY <1>1
<1>3. \A m : InWay(m) => stack[m].id \in Way /\ stack[m].id \in Objects
  BY <1>1 DEF Frames
<1>4. InWay(i)
  BY <1>1 DEF Processing
\* Whatever is called on the way and is no variable is on the way.
<1>5. ASSUME NEW m \in i..(j - 1), stack[m + 1].call # "GetVariable"
      PROVE  stack[m + 1].id \in Way
  BY <1>2, <1>3, <1>4, <1>5
\* What is parsed.
<1>6. ASSUME NEW m \in i..(j - 1), stack[m].call = "Parse"
      PROVE  Stuck(stack[m].id)
  <2> DEFINE use == stack[m + 1].id
  <2>1. /\ stack[m].at + 1 \in DOMAIN input.uses[stack[m].id]
        /\ use = input.uses[stack[m].id][stack[m].at + 1]
        /\ stack[m + 1].call = IF use \in Variables THEN "GetVariable" ELSE "Parse"
    BY <1>1, <1>6, Callees
  <2>2. CASE use \in Variables
    <3>1. m + 1 \in i..(j - 1) /\ stack[m + 1].call = "GetVariable"
      BY <1>2, <2>1, <2>2
    <3>2. variableFlag[use] = "error"
      BY <1>1, <3>1, Callees
    <3> QED
      BY <2>1, <2>2, <3>2, DistinctIds DEF CompleteIn
  <2>3. CASE use \notin Variables
    <3>1. use \in Way
      BY <1>5, <2>1, <2>3
    <3> QED
      BY <2>1, <2>3, <3>1 DEF CompleteIn
  <2> QED
    BY <2>2, <2>3
\* What is processed, and what runs to be parsed.
<1>7. ASSUME NEW m \in i..(j - 1), stack[m].call = "Run"
      PROVE  Stuck(stack[m].id)
  <2>1. \/ /\ stack[m + 1].call = "Parse" /\ stack[m + 1].id = stack[m].id
        \/ /\ stack[m + 1].call = "Run" /\ stack[m + 1].id \in Objects
           /\ \E k \in DOMAIN input.uses[stack[m].id] :
                input.uses[stack[m].id][k] = stack[m + 1].id
    BY <1>1, <1>7, Callees
  <2>2. CASE stack[m + 1].call = "Run"
    <3>1. stack[m + 1].id \in Way /\ stack[m + 1].id \notin Variables
      BY <1>5, <2>1, <2>2, DistinctIds
    <3> QED
      BY <2>1, <2>2, <3>1 DEF CompleteIn
  <2>3. CASE stack[m + 1].call = "Parse"
    <3>1. stack[m + 1].id = stack[m].id
      BY <2>1, <2>3
    <3>2. CASE m + 1 = j
      <4>1. stack[i].call = "Parse" /\ stack[i].id = stack[m].id
        BY <2>3, <3>1, <3>2
      <4> QED
        BY <1>4, <1>6, <4>1
    <3>3. CASE m + 1 \in i..(j - 1)
      BY <1>6, <2>3, <3>1, <3>3
    <3> QED
      BY <1>2, <3>2, <3>3
  <2> QED
    BY <2>1, <2>2, <2>3
<1>8. \A o \in Way : Stuck(o)
  <2> SUFFICES ASSUME NEW m, InWay(m) PROVE Stuck(stack[m].id)
    OBVIOUS
  <2>1. stack[m].call \in {"Parse", "Run"}
    BY <1>1 DEF Frames
  <2> QED
    BY <1>6, <1>7, <2>1
<1>9. ClosedUnderParsing(input, CompleteIn(variableFlag), X)
  BY <1>8 DEF ClosedUnderParsing
<1>10. \A o \in Way : ~ Ready(input, variableFlag, o)
  BY <1>9, DistinctIds DEF Ready, There, CompleteIn
<1> QED
  BY <1>3, <1>10

\* An object that is parsed within its own parsing is parsed up to the same place at
\* most ...
Behind ==
  \A i, j \in DOMAIN stack :
    i < j /\ stack[i].call = "Parse" /\ stack[j].call = "Parse" /\ stack[i].id = stack[j].id
      => stack[j].at <= stack[i].at

\* ... and what is thrown to the inner one of two calls for an object is an error, or
\* the flag of a variable that is one.
ErrorObject == [flag |-> "error", items |-> {}]

BadReturn ==
  \/ ret.kind = "Exception"
  \/ ret.kind = "VariableFactoryException" /\ variableFlag[ret.variable] = "error"
  \/ ret.kind = "object" /\ ret.object = ErrorObject

Outer(i) ==
  /\ i \in DOMAIN stack /\ i < Len(stack)
  /\ stack[i].call = Top.call /\ stack[i].id = Top.id

ThrownAgain ==
  stack # <<>> /\ ret.kind \in Thrown /\ Top.call \in {"Parse", "Run"} =>
    \A i \in DOMAIN stack : Outer(i) => BadReturn

LEMMA StepKeepsBehind ==
  ASSUME IInv, Shape, Known, Behind, Next PROVE Behind'
<1> DEFINE n == Len(stack)
<1>0. stack \in Seq(Frames)
  BY DEF IInv, TypeOK
<1>1. ASSUME stack # <<>>, Return PROVE Behind'
  <2>1. \A i \in DOMAIN stack' : i \in DOMAIN stack /\ stack'[i] = stack[i]
    BY <1>0, <1>1, Popped
  <2> QED
    BY <2>1 DEF Behind
<1>2. ASSUME NEW frame, ContinueStep(frame),
             frame.call = "Parse" =>
               \A i \in DOMAIN stack : Outer(i) => frame.at <= stack[i].at
      PROVE  Behind'
  <2>1. /\ n \in Nat /\ n >= 1
        /\ \A i \in 1..(n - 1) : stack'[i] = stack[i]
        /\ stack'[n] = frame
        /\ DOMAIN stack' = 1..n /\ DOMAIN stack = 1..n
    BY <1>0, <1>2, Continued DEF ContinueStep
  <2>2. frame.call = Top.call /\ frame.id = Top.id
    BY <1>2 DEF ContinueStep
  <2> SUFFICES ASSUME NEW i \in DOMAIN stack', NEW j \in DOMAIN stack', i < j,
                      stack'[i].call = "Parse", stack'[j].call = "Parse",
                      stack'[i].id = stack'[j].id
               PROVE  stack'[j].at <= stack'[i].at
    BY DEF Behind
  <2> HIDE DEF n
  <2>3. i \in 1..(n - 1) /\ i \in DOMAIN stack /\ j \in DOMAIN stack /\ stack'[i] = stack[i]
    BY <2>1
  <2>4. CASE j = n
    <3>1. Outer(i)
      BY <2>1, <2>2, <2>3, <2>4 DEF Outer, n
    <3> QED
      BY <1>2, <2>1, <2>3, <2>4, <3>1
  <2>5. CASE j # n
    <3>1. stack'[j] = stack[j]
      BY <2>1, <2>5
    <3> QED
      BY <2>3, <3>1 DEF Behind
  <2> QED
    BY <2>4, <2>5
<1>3. ASSUME NEW frame, NEW callee, PushStep(frame, callee) PROVE Behind'
  <2>1. /\ n \in Nat /\ n >= 1
        /\ \A i \in 1..(n - 1) : stack'[i] = stack[i]
        /\ stack'[n] = frame /\ stack'[n + 1] = callee
        /\ DOMAIN stack' = 1..(n + 1) /\ DOMAIN stack = 1..n
        /\ frame \in Frames /\ callee.at = 0
        /\ frame.call = "Parse" => frame = Top
    BY <1>0, <1>3, Called DEF PushStep
  <2>2. Top = stack[n]
    BY DEF Top
  <2> SUFFICES ASSUME NEW i \in DOMAIN stack', NEW j \in DOMAIN stack', i < j,
                      stack'[i].call = "Parse", stack'[j].call = "Parse",
                      stack'[i].id = stack'[j].id
               PROVE  stack'[j].at <= stack'[i].at
    BY DEF Behind
  <2> HIDE DEF n
  <2>3. i \in DOMAIN stack /\ stack'[i] = stack[i]
    BY <2>1, <2>2
  <2>4. CASE j = n + 1
    <3>1. stack[i].at \in Nat
      BY <1>0, <2>3 DEF Frames
    <3> QED
      BY <2>1, <2>3, <2>4, <3>1
  <2>5. CASE j # n + 1
    <3>1. j \in DOMAIN stack /\ stack'[j] = stack[j]
      BY <2>1, <2>2, <2>5
    <3> QED
      BY <2>3, <3>1 DEF Behind
  <2> QED
    BY <2>4, <2>5
<1>4. CASE ParseContinues
  <2>1. PICK frame \in ParseFrames :
          ContinueStep(frame) /\ frame.call = "Parse" /\ frame.at = Top.at + 1
    BY <1>4, ParseContinueMoves
  <2>2. /\ stack # <<>> /\ Top.call = "Parse" /\ Top.at \in Nat /\ ret = Done
        /\ n \in DOMAIN stack /\ Top = stack[n] /\ n \in Nat /\ DOMAIN stack = 1..n
    BY <1>0, <1>4, TopParse DEF ParseContinues, Top
  <2>3. Ready(input, variableFlag, input.uses[Top.id][Top.at + 1])
    BY <2>2, ReturnedIsMeant DEF Done, NoReturn
  <2>4. ASSUME NEW i \in DOMAIN stack, Outer(i), ~ (frame.at <= stack[i].at)
        PROVE  FALSE
    <3>1. /\ i \in 1..(n - 1) /\ i < n /\ stack[i].call = "Parse" /\ stack[i].id = Top.id
      BY <2>2, <2>4 DEF Outer
    <3>2. stack[i].at \in Nat /\ Top.at <= stack[i].at
      BY <2>2, <3>1, Callees DEF Behind
    <3>3. stack[i].at = Top.at
      BY <2>1, <2>2, <2>4, <3>2
    <3>4. stack[i + 1].id = input.uses[Top.id][Top.at + 1]
      BY <3>1, <3>3, Callees
    <3>5. \A m \in i..(n - 1) :
            stack[m].call # "GetVariable" => ~ Ready(input, variableFlag, stack[m].id)
      BY <2>2, <3>1, Unsettled
    <3>6. CASE i + 1 = n
      <4>1. stack[i + 1].id \in Objects /\ ~ Ready(input, variableFlag, stack[i + 1].id)
        BY <2>2, <3>1, <3>5, <3>6, Callees
      <4> QED
        BY <2>3, <3>4, <4>1
    <3>7. CASE i + 1 # n
      <4>1. i + 1 \in i..(n - 1) /\ i + 1 \in 1..(n - 1)
        BY <2>2, <3>1, <3>7
      <4>2. CASE stack[i + 1].call = "GetVariable"
        <5>1. variableFlag[stack[i + 1].id] = "error" /\ stack[i + 1].id \in Variables
          BY <3>1, <4>1, <4>2, Callees
        <5> QED
          BY <2>3, <3>4, <5>1, ReadyVariable
      <4>3. CASE stack[i + 1].call # "GetVariable"
        <5>1. stack[i + 1].id \notin Variables
          BY <3>1, <4>3, Callees
        <5>2. ~ Ready(input, variableFlag, stack[i + 1].id)
          BY <3>5, <4>1, <4>3
        <5> QED
          BY <2>3, <3>4, <5>1, <5>2
      <4> QED
        BY <4>2, <4>3
    <3> QED
      BY <3>6, <3>7
  <2> QED
    BY <1>2, <2>1, <2>4
<1>5. CASE \/ CacheVariable \/ VariableComponentReturns \/ ObjectComponentReturns
           \/ RunProcesses \/ (FilterReference /\ ~ CreateError("error"))
  <2>1. \E frame \in VariableFrames \cup RunFrames :
          ContinueStep(frame) /\ frame.call # "Parse"
    BY <1>5, CacheMoves, ComponentMoves, ObjectMoves, ProcessMoves, FilterMoves
    DEF VariableFrames, RunFrames
  <2> QED
    BY <1>2, <2>1
<1>6. CASE PopStep
  BY <1>1, <1>6 DEF PopStep
<1>7. CASE ParseNext \/ ComputeComponent \/ CollectReference \/ RunParses
  BY <1>3, <1>7, Pushes
<1>8. CASE RunObject \/ WriteCollectedObjects
  <2>1. stack' = <<>> \/ stack' = <<RunFrame(input.order[index])>>
    BY <1>8 DEF RunObject, WriteCollectedObjects
  <2>2. \A i, j \in DOMAIN stack' : ~ (i < j)
    BY <2>1
  <2> QED
    BY <2>2 DEF Behind
<1> QED
  BY <1>4, <1>5, <1>6, <1>7, <1>8, ParsePops, VariablePops, RunPops
  DEF Next, ParseStep, VariableStep, RunStep

LEMMA ParsedAgain ==
  ASSUME IInv, Shape, Known, Behind, NEW i \in DOMAIN stack,
         NEW p \in 1..(Len(stack) - 1), i < p,
         stack[i].call = "Parse", stack[p].call = "Parse", stack[i].id = stack[p].id,
         ~ Ready(input, variableFlag, stack[p + 1].id)
  PROVE  /\ stack[i + 1].id = stack[p + 1].id /\ stack[i + 1].call = stack[p + 1].call
         /\ i + 1 \in DOMAIN stack /\ i + 1 < p + 1
         /\ stack[i + 1].call = "GetVariable" =>
              Computing(i + 1) /\ variableFlag[stack[i + 1].id] = "error"
<1>1. /\ i \in 1..(Len(stack) - 1) /\ i + 1 \in 1..(Len(stack) - 1)
      /\ p \in DOMAIN stack /\ stack \in Seq(Frames) /\ Len(stack) \in Nat
  BY DEF IInv, TypeOK
<1>2. /\ stack[i].at \in Nat /\ stack[p].at \in Nat /\ stack[p].at <= stack[i].at
      /\ stack[i + 1].id = input.uses[stack[i].id][stack[i].at + 1]
      /\ stack[p + 1].id = input.uses[stack[p].id][stack[p].at + 1]
      /\ stack[i + 1].call = IF stack[i + 1].id \in Variables THEN "GetVariable" ELSE "Parse"
      /\ stack[p + 1].call = IF stack[p + 1].id \in Variables THEN "GetVariable" ELSE "Parse"
  BY <1>1, Callees DEF Behind
<1>3. FrameIsReady(input, variableFlag, stack[i])
  BY DEF Known, CallsAreReady
<1>4. ~ (stack[p].at < stack[i].at)
  <2> SUFFICES ASSUME stack[p].at < stack[i].at PROVE FALSE
    OBVIOUS
  <2>1. stack[p].at + 1 \in 1..stack[i].at
    BY <1>2
  <2> QED
    BY <1>2, <1>3, <2>1 DEF FrameIsReady
<1>5. stack[p].at = stack[i].at
  BY <1>2, <1>4
<1>6. stack[i + 1].id = stack[p + 1].id /\ stack[i + 1].call = stack[p + 1].call
  BY <1>2, <1>5
<1>7. stack[i + 1].call = "GetVariable" =>
        Computing(i + 1) /\ variableFlag[stack[i + 1].id] = "error"
  BY <1>1, Callees
<1> QED
  BY <1>1, <1>6, <1>7

LEMMA ThrownKeeps ==
  ASSUME IInv, Shape, Known, Behind, ThrownAgain, Grows,
         \/ ParseFails \/ GetCachedVariable \/ UndefinedVariable
         \/ ComputeVariable \/ VariableFails
  PROVE  ThrownAgain'
<1> DEFINE n == Len(stack)
           p == n - 1
<1>1. /\ stack # <<>> /\ Return /\ input' = input
      /\ Top.call \in {"Parse", "GetVariable"}
      /\ stack \in Seq(Frames)
  BY ParsePops, VariablePops DEF PopStep, IInv, TypeOK
<1>2. /\ n \in Nat /\ n >= 1 /\ Len(stack') = n - 1
      /\ \A i \in 1..(n - 1) : stack'[i] = stack[i]
      /\ DOMAIN stack' = 1..(n - 1) /\ DOMAIN stack = 1..n
      /\ stack' # <<>> => n >= 2 /\ Top' = stack[n - 1]
  BY <1>1, Popped
<1>3. Top = stack[n]
  BY DEF Top
<1> SUFFICES ASSUME stack' # <<>>, ret'.kind \in Thrown, Top'.call \in {"Parse", "Run"},
                    NEW i \in DOMAIN stack', Outer(i)'
             PROVE  BadReturn'
  BY DEF ThrownAgain
<1>4. /\ i \in DOMAIN stack /\ i < p /\ stack[i].call = stack[p].call
      /\ stack[i].id = stack[p].id /\ stack[p].call \in {"Parse", "Run"}
      /\ p \in 1..(n - 1) /\ p + 1 = n /\ i \in 1..(n - 1)
      /\ i + 1 \in DOMAIN stack /\ i + 1 < n
  BY <1>2 DEF Outer
<1>5. ret' # Done
  BY DEF Done, Thrown
<1>6. ~ Ready(input, variableFlag, Top.id)
  <2>1. ~ Ready(input, variableFlag', Top.id)
    BY <1>5, ParseReturns, VariableReturns
  <2> QED
    BY <2>1, FramesGrow
<1> HIDE DEF p, n
\* What was thrown before, to the inner call, is thrown on.
<1>7. ASSUME ParseFails, stack[i + 1].call = Top.call, stack[i + 1].id = Top.id
      PROVE  BadReturn'
  <2>1. /\ ret.kind \in Thrown /\ ret' = ret /\ variableFlag' = variableFlag
        /\ Top.call = "Parse"
    BY <1>7 DEF ParseFails, Unwind, In
  <2>2. Outer(i + 1)
    BY <1>4, <1>7 DEF Outer, n
  <2>3. BadReturn
    BY <1>1, <1>4, <2>1, <2>2 DEF ThrownAgain
  <2> QED
    BY <2>1, <2>3 DEF BadReturn
<1>8. CASE stack[p].call = "Parse"
  <2>1. /\ stack[i + 1].id = Top.id /\ stack[i + 1].call = Top.call
        /\ stack[i + 1].call = "GetVariable" =>
             Computing(i + 1) /\ variableFlag[stack[i + 1].id] = "error"
    BY <1>3, <1>4, <1>6, <1>8, ParsedAgain DEF n
  <2>2. CASE ParseFails
    BY <1>7, <2>1, <2>2
  <2>3. CASE GetCachedVariable
    <3>1. /\ variableFlag[Top.id] = "error" /\ variableFlag' = variableFlag
          /\ ret' = Outcome(Top.id, variableFlag[Top.id])
      BY <2>1, <2>3 DEF GetCachedVariable, In
    <3>2. ret'.kind = "VariableFactoryException" /\ ret'.variable = Top.id
      BY <3>1, OutcomeKind
    <3> QED
      BY <3>1, <3>2 DEF BadReturn
  <2>4. CASE UndefinedVariable
    BY <2>4 DEF UndefinedVariable, Exception, BadReturn
  <2>5. CASE ComputeVariable \/ VariableFails
    <3>1. Top.call = "GetVariable" /\ Computing(i + 1)
      BY <2>1, <2>5 DEF ComputeVariable, VariableFails, In
    <3>2. Top.at >= 1
      <4>1. CASE ComputeVariable
        BY <4>1, TopComputing DEF ComputeVariable
      <4>2. CASE VariableFails
        <5>1. ret # NoReturn
          BY <4>2 DEF VariableFails, Unwind, NoReturn, Thrown
        <5> QED
          BY <1>1, <3>1, <5>1, ReturnedTo
      <4> QED
        BY <2>5, <4>1, <4>2
    <3>3. Computing(n)
      BY <1>3, <3>1, <3>2 DEF Computing
    <3>4. n \in DOMAIN stack /\ stack[i + 1].id = stack[n].id /\ i + 1 # n
      BY <1>2, <1>3, <1>4, <2>1
    <3> QED
      BY <1>4, <3>1, <3>3, <3>4 DEF IInv, NoVariableInsideItself
  <2> QED
    BY <2>2, <2>3, <2>4, <2>5
<1>9. CASE stack[p].call = "Run"
  <2>1. Top.call = "Parse" /\ Top.id = stack[p].id /\ stack[p].at = 1
    BY <1>1, <1>3, <1>4, <1>9, Callees DEF n
  <2>2. ParseFails
    BY <2>1 DEF GetCachedVariable, UndefinedVariable, ComputeVariable, VariableFails, In
  <2>3. CASE stack[i].at = 1
    <3>1. stack[i + 1].call = "Parse" /\ stack[i + 1].id = stack[i].id
      BY <1>4, <1>9, <2>3, Callees DEF n
    <3> QED
      BY <1>4, <1>7, <2>1, <2>2, <3>1
  <2>4. CASE stack[i].at # 1
    <3>1. Processing(stack[i]) /\ stack[i].id \in Objects
      BY <1>4, <1>9, <2>4, Callees DEF Processing, n, Frames
    <3>2. Ready(input, variableFlag, stack[i].id)
      BY <1>4, <3>1 DEF Known, CallsAreReady, FrameIsReady, Processing
    <3> QED
      BY <1>4, <1>6, <2>1, <3>1, <3>2
  <2> QED
    BY <2>3, <2>4
<1> QED
  BY <1>4, <1>8, <1>9

LEMMA StepKeepsThrown ==
  ASSUME IInv, Shape, Known, Behind, ThrownAgain, Next PROVE ThrownAgain'
<1>1. CASE \/ ParseFails \/ GetCachedVariable \/ UndefinedVariable
           \/ ComputeVariable \/ VariableFails
  <2>1. stack # <<>>
    BY <1>1 DEF ParseFails, GetCachedVariable, UndefinedVariable, ComputeVariable,
                VariableFails, In
  <2> QED
    BY <1>1, <2>1, StepGrows, ThrownKeeps
<1> SUFFICES ASSUME ~ \/ ParseFails \/ GetCachedVariable \/ UndefinedVariable
                      \/ ComputeVariable \/ VariableFails
             PROVE  ret'.kind \notin Thrown
  BY <1>1 DEF ThrownAgain
<1>2. NoReturn.kind \notin Thrown /\ Done.kind \notin Thrown
  BY DEF NoReturn, Done, Thrown
<1>3. CASE \/ ParseContinues \/ CacheVariable \/ VariableComponentReturns
           \/ ObjectComponentReturns \/ RunProcesses
           \/ (FilterReference /\ ~ CreateError("error"))
  <2>1. \E frame : ContinueStep(frame)
    BY <1>3, ParseContinueMoves, CacheMoves, ComponentMoves, ObjectMoves, ProcessMoves,
       FilterMoves
  <2> QED
    BY <1>2, <2>1 DEF ContinueStep
<1>4. CASE \/ RunFromCache \/ RunCatchesVariable \/ RunCatchesException
           \/ ProcessObject \/ ProcessSetObject \/ (FilterReference /\ CreateError("error"))
  <2>1. ret'.kind = "object"
    BY <1>4, RunPops DEF PopStep
  <2> QED
    BY <2>1 DEF Thrown
<1>5. CASE ParseNext \/ ComputeComponent \/ CollectReference \/ RunParses
  <2>1. \E frame, callee : PushStep(frame, callee)
    BY <1>5, Pushes
  <2> QED
    BY <1>2, <2>1 DEF PushStep
<1>6. CASE ParseEnds \/ RunObject \/ WriteCollectedObjects
  BY <1>2, <1>6 DEF ParseEnds, RunObject, WriteCollectedObjects
<1> QED
  BY <1>3, <1>4, <1>5, <1>6 DEF Next, ParseStep, VariableStep, RunStep

-----------------------------------------------------------------------------
\* What is recorded.  An object that is processed is not recorded yet: when it was
\* recorded within its own parsing, it was recorded as an error, and the error comes
\* to it through a component of a variable, or has come.
RunIsNew ==
  \A i \in DOMAIN stack : Processing(stack[i]) => collectedObjects[stack[i].id] = Absent

HasError(frame) ==
  /\ frame.call = "GetVariable" /\ frame.at >= 1
  /\ \E k \in DOMAIN frame.got : frame.got[k] = "error"

Doomed(i) ==
  \/ \E j \in DOMAIN stack : j > i /\ HasError(stack[j])
  \/ BadReturn /\ \A m \in DOMAIN stack : m > i => ~ Processing(stack[m])

CollectedInside ==
  \A i \in DOMAIN stack :
    /\ stack[i].call = "Run" /\ stack[i].at = 1
    /\ collectedObjects[stack[i].id] # Absent
    => collectedObjects[stack[i].id] = ErrorObject /\ Doomed(i)

Recorded == RunIsNew /\ CollectedInside /\ AnswersAreSettled

LEMMA GoodReturns ==
  ~ NoReturn.kind \in {"Exception", "VariableFactoryException", "object"}
  /\ ~ Done.kind \in {"Exception", "VariableFactoryException", "object"}
BY DEF NoReturn, Done

\* An object that is looked for keeps its variables while they stay complete.
LEMMA LookedForStays ==
  ASSUME LookedForMeansResolved, Grows, UNCHANGED <<input, collectedObjects>>
  PROVE  LookedForMeansResolved'
BY DEF LookedForMeansResolved, Grows

LEMMA RecordedPushes ==
  ASSUME IInv, Recorded, NEW frame, NEW callee, PushStep(frame, callee)
  PROVE  Recorded'
<1> DEFINE n == Len(stack)
<1>1. /\ stack \in Seq(Frames) /\ stack # <<>> /\ frame \in Frames /\ callee \in Frames
      /\ ret = NoReturn /\ UNCHANGED <<input, ret, collectedObjects, variableFlag>>
      /\ frame.call = Top.call /\ frame.id = Top.id /\ callee.at = 0
      /\ \/ frame = Top
         \/ /\ Top.call = "Run" /\ Top.at = 0 /\ frame.at = 1
            /\ collectedObjects[Top.id] = Absent
  BY DEF IInv, TypeOK, PushStep
<1>2. /\ n \in Nat /\ n >= 1
      /\ \A i \in 1..(n - 1) : stack'[i] = stack[i]
      /\ stack'[n] = frame /\ stack'[n + 1] = callee
      /\ DOMAIN stack' = 1..(n + 1) /\ DOMAIN stack = 1..n
  BY <1>1, Called DEF PushStep
<1>3. Top = stack[n] /\ n \in DOMAIN stack
  BY <1>2 DEF Top
<1>4. ~ BadReturn
  BY <1>1, GoodReturns DEF BadReturn
<1> HIDE DEF n
<1>5. \A i \in DOMAIN stack' : \/ i \in 1..(n - 1) /\ stack'[i] = stack[i] /\ i \in DOMAIN stack
                               \/ i = n /\ stack'[i] = frame
                               \/ i = n + 1 /\ stack'[i] = callee
  BY <1>2
<1>6. RunIsNew'
  <2>1. Processing(frame) => collectedObjects[frame.id] = Absent
    BY <1>1, <1>3 DEF Processing, Recorded, RunIsNew
  <2>2. ~ Processing(callee)
    BY <1>1 DEF Processing
  <2> QED
    BY <1>1, <1>5, <2>1, <2>2 DEF Recorded, RunIsNew
<1>7. CollectedInside'
  <2> SUFFICES ASSUME NEW i \in DOMAIN stack', stack'[i].call = "Run", stack'[i].at = 1,
                      collectedObjects[stack'[i].id] # Absent
               PROVE  collectedObjects[stack'[i].id] = ErrorObject /\ Doomed(i)'
    BY <1>1 DEF CollectedInside
  <2>1. i # n + 1
    BY <1>1, <1>2
  <2>2. i # n
    <3> SUFFICES ASSUME i = n PROVE FALSE
      OBVIOUS
    <3>1. frame = Top
      BY <1>1, <1>2
    <3>2. Doomed(n)
      BY <1>2, <1>3, <3>1 DEF Recorded, CollectedInside
    <3> QED
      BY <1>2, <1>4, <3>2 DEF Doomed
  <2>3. i \in 1..(n - 1) /\ i \in DOMAIN stack /\ stack'[i] = stack[i]
    BY <1>5, <2>1, <2>2
  <2>4. collectedObjects[stack[i].id] = ErrorObject /\ Doomed(i)
    BY <2>3 DEF Recorded, CollectedInside
  <2>5. PICK j \in DOMAIN stack : j > i /\ HasError(stack[j])
    BY <1>4, <2>4 DEF Doomed
  <2>6. stack'[j] = stack[j] /\ j \in DOMAIN stack'
    BY <1>1, <1>2, <1>3, <2>5 DEF HasError
  <2> QED
    BY <2>3, <2>4, <2>5, <2>6 DEF Doomed
<1>8. AnswersAreSettled'
  BY <1>1 DEF Recorded, AnswersAreSettled, ReturnedIsRecorded, LookedForMeansResolved
<1> QED
  BY <1>6, <1>7, <1>8 DEF Recorded

LEMMA RecordedContinues ==
  ASSUME IInv, Recorded, Grows, NEW frame, ContinueStep(frame),
         Processing(frame) => collectedObjects[frame.id] = Absent,
         ~ (frame.call = "Run" /\ frame.at = 1),
         HasError(Top) => HasError(frame),
         BadReturn => HasError(frame) \/ Processing(Top)
  PROVE  Recorded'
<1> DEFINE n == Len(stack)
<1>1. /\ stack \in Seq(Frames) /\ stack # <<>> /\ frame \in Frames
      /\ ret' = NoReturn /\ UNCHANGED <<input, collectedObjects>>
  BY DEF IInv, TypeOK, ContinueStep
<1>2. /\ n \in Nat /\ n >= 1
      /\ \A i \in 1..(n - 1) : stack'[i] = stack[i]
      /\ stack'[n] = frame
      /\ DOMAIN stack' = 1..n /\ DOMAIN stack = 1..n
  BY <1>1, Continued DEF ContinueStep
<1>3. Top = stack[n] /\ n \in DOMAIN stack
  BY <1>2 DEF Top
<1> HIDE DEF n
<1>5. \A i \in DOMAIN stack' : \/ i \in 1..(n - 1) /\ stack'[i] = stack[i] /\ i \in DOMAIN stack
                               \/ i = n /\ stack'[i] = frame
  BY <1>2
<1>6. RunIsNew'
  BY <1>1, <1>5 DEF Recorded, RunIsNew
<1>7. CollectedInside'
  <2> SUFFICES ASSUME NEW i \in DOMAIN stack', stack'[i].call = "Run", stack'[i].at = 1,
                      collectedObjects[stack'[i].id] # Absent
               PROVE  collectedObjects[stack'[i].id] = ErrorObject /\ Doomed(i)'
    BY <1>1 DEF CollectedInside
  <2>1. i \in 1..(n - 1) /\ i \in DOMAIN stack /\ stack'[i] = stack[i] /\ n > i
    BY <1>2, <1>5
  <2>2. collectedObjects[stack[i].id] = ErrorObject /\ Doomed(i)
    BY <2>1 DEF Recorded, CollectedInside
  <2>3. \E j \in DOMAIN stack' : j > i /\ HasError(stack'[j])
    <3>1. CASE \E j \in DOMAIN stack : j > i /\ HasError(stack[j])
      <4>1. PICK j \in DOMAIN stack : j > i /\ HasError(stack[j])
        BY <3>1
      <4>2. CASE j = n
        BY <1>2, <1>3, <4>1, <4>2
      <4>3. CASE j # n
        BY <1>2, <4>1, <4>3
      <4> QED
        BY <4>2, <4>3
    <3>2. CASE BadReturn /\ \A m \in DOMAIN stack : m > i => ~ Processing(stack[m])
      <4>1. HasError(frame)
        BY <1>3, <2>1, <3>2
      <4> QED
        BY <1>2, <2>1, <4>1
    <3> QED
      BY <2>2, <3>1, <3>2 DEF Doomed
  <2> QED
    BY <2>1, <2>2, <2>3 DEF Doomed
<1>8. AnswersAreSettled'
  BY <1>1, LookedForStays, GoodReturns DEF Recorded, AnswersAreSettled, ReturnedIsRecorded
<1> QED
  BY <1>6, <1>7, <1>8 DEF Recorded

LEMMA RecordedPops ==
  ASSUME IInv, Recorded, Grows, stack # <<>>, Return, UNCHANGED <<input, collectedObjects>>,
         BadReturn => BadReturn',
         HasError(Top) =>
           BadReturn' /\ \A m \in DOMAIN stack : m < Len(stack) => ~ Processing(stack[m]),
         ReturnedIsRecorded'
  PROVE  Recorded'
<1> DEFINE n == Len(stack)
<1>1. stack \in Seq(Frames)
  BY DEF IInv, TypeOK
<1>2. /\ n \in Nat /\ n >= 1
      /\ \A i \in 1..(n - 1) : stack'[i] = stack[i]
      /\ DOMAIN stack' = 1..(n - 1) /\ DOMAIN stack = 1..n
  BY <1>1, Popped
<1>3. Top = stack[n] /\ n \in DOMAIN stack
  BY <1>2 DEF Top
<1>4. HasError(Top) =>
        BadReturn' /\ \A m \in DOMAIN stack : m < n => ~ Processing(stack[m])
  OBVIOUS
<1> HIDE DEF n
<1>5. \A i \in DOMAIN stack' : i \in DOMAIN stack /\ stack'[i] = stack[i] /\ i < n
  BY <1>2
<1>6. RunIsNew'
  BY <1>5 DEF Recorded, RunIsNew
<1>7. CollectedInside'
  <2> SUFFICES ASSUME NEW i \in DOMAIN stack', stack'[i].call = "Run", stack'[i].at = 1,
                      collectedObjects[stack'[i].id] # Absent
               PROVE  collectedObjects[stack'[i].id] = ErrorObject /\ Doomed(i)'
    BY DEF CollectedInside
  <2>1. i \in DOMAIN stack /\ stack'[i] = stack[i]
    BY <1>5
  <2>2. collectedObjects[stack[i].id] = ErrorObject /\ Doomed(i)
    BY <2>1 DEF Recorded, CollectedInside
  <2>3. Doomed(i)'
    <3>1. CASE \E j \in DOMAIN stack : j > i /\ HasError(stack[j])
      <4>1. PICK j \in DOMAIN stack : j > i /\ HasError(stack[j])
        BY <3>1
      <4>2. CASE j = n
        <5>1. BadReturn' /\ \A m \in DOMAIN stack' : ~ Processing(stack'[m])
          BY <1>3, <1>4, <1>5, <4>1, <4>2
        <5> QED
          BY <5>1 DEF Doomed
      <4>3. CASE j # n
        <5>1. j \in DOMAIN stack' /\ stack'[j] = stack[j]
          BY <1>2, <4>3
        <5> QED
          BY <4>1, <5>1 DEF Doomed
      <4> QED
        BY <4>2, <4>3
    <3>2. CASE BadReturn /\ \A m \in DOMAIN stack : m > i => ~ Processing(stack[m])
      <4>1. \A m \in DOMAIN stack' : m > i => ~ Processing(stack'[m])
        BY <1>5, <3>2
      <4> QED
        BY <3>2, <4>1 DEF Doomed
    <3> QED
      BY <2>2, <3>1, <3>2 DEF Doomed
  <2> QED
    BY <2>1, <2>2, <2>3
<1>8. AnswersAreSettled'
  BY LookedForStays DEF Recorded, AnswersAreSettled
<1> QED
  BY <1>6, <1>7, <1>8 DEF Recorded

\* An object is created by a call of Run that was thrown to, or that processes it.
LEMMA RecordedCreates ==
  ASSUME IInv, Shape, Known, ThrownAgain, Recorded, In("Run"), NEW c, Create(c),
         \/ /\ Top.at = 1 /\ ret.kind \in Thrown /\ c.flag \notin LookedFor
            /\ BadReturn => c = ErrorObject
         \/ Top.at = 2
  PROVE  Recorded'
<1> DEFINE n == Len(stack)
<1>1. /\ stack \in Seq(Frames) /\ stack # <<>> /\ Return /\ Top.call = "Run"
      /\ Top.id \in Objects /\ UNCHANGED <<input, variableFlag>>
      /\ ret' = ReturnObject(Top.id, c)
      /\ collectedObjects' = IF collectedObjects[Top.id] = Absent
                               THEN [collectedObjects EXCEPT ![Top.id] = c]
                               ELSE collectedObjects
  BY TopRun DEF Create
<1>2. /\ n \in Nat /\ n >= 1
      /\ \A i \in 1..(n - 1) : stack'[i] = stack[i]
      /\ DOMAIN stack' = 1..(n - 1) /\ DOMAIN stack = 1..n
  BY <1>1, Popped
<1>3. Top = stack[n] /\ n \in DOMAIN stack
  BY <1>2 DEF Top
<1>4. DOMAIN collectedObjects = Objects
  BY DEF IInv, TypeOK
<1>5. /\ ret'.kind = "object" /\ ret'.id = Top.id /\ ret'.object = c
      /\ c = ErrorObject => BadReturn'
  BY <1>1 DEF ReturnObject, BadReturn
<1>6. \A o \in Objects : \/ collectedObjects'[o] = collectedObjects[o]
                        \/ /\ o = Top.id /\ collectedObjects[o] = Absent
                           /\ collectedObjects'[o] = c
  BY <1>1, <1>4
<1>7. \A o \in Objects : collectedObjects[o] # Absent =>
        collectedObjects'[o] = collectedObjects[o]
  BY <1>6
<1>8. collectedObjects[Top.id] = Absent => collectedObjects'[Top.id] = c
  BY <1>1, <1>4
<1>9. Top.at = 2 => Processing(Top) /\ Ready(input, variableFlag, Top.id)
  BY <1>1, <1>3 DEF Known, CallsAreReady, FrameIsReady, Processing
<1>10. ThrownAgain /\ (Top.at # 2 => ret.kind \in Thrown /\ (BadReturn => c = ErrorObject))
  OBVIOUS
<1> HIDE DEF n
<1>11. \A i \in DOMAIN stack' : /\ i \in DOMAIN stack /\ stack'[i] = stack[i] /\ i < n
                                /\ i \in 1..(n - 1) /\ stack[i] \in Frames
  BY <1>1, <1>2
\* An outer call that waits for the parsing of the same object: it is not settled.
<1>12. ASSUME NEW i \in 1..(n - 1), stack[i].call = "Run", stack[i].at = 1,
              stack[i].id = Top.id
       PROVE  ~ Ready(input, variableFlag, Top.id)
  <2>1. stack[i + 1].call = "Parse" /\ stack[i + 1].id = stack[i].id
    BY <1>12, Callees DEF n
  <2>2. i + 1 \in DOMAIN stack /\ i + 1 < n
    <3>1. i + 1 # n
      BY <1>1, <1>3, <2>1
    <3> QED
      BY <1>2, <3>1
  <2>3. i + 1 \in (i + 1)..(n - 1)
    BY <1>2, <2>2
  <2>4. ~ Ready(input, variableFlag, stack[i + 1].id)
    BY <1>1, <1>3, <1>12, <2>1, <2>2, <2>3, Unsettled
  <2> QED
    BY <1>12, <2>1, <2>4
<1>13. RunIsNew'
  <2> SUFFICES ASSUME NEW i \in DOMAIN stack', Processing(stack'[i])
               PROVE  collectedObjects'[stack'[i].id] = Absent
    BY DEF RunIsNew
  <2>1. /\ i \in DOMAIN stack /\ stack'[i] = stack[i] /\ i < n /\ stack[i] \in Frames
        /\ i \in i..(n - 1) /\ stack[i].call = "Run" /\ stack[i].id \in Objects
    BY <1>2, <1>11 DEF Processing, Frames
  <2>2. collectedObjects[stack[i].id] = Absent
    BY <2>1 DEF Recorded, RunIsNew
  <2>3. Ready(input, variableFlag, stack[i].id)
    BY <2>1 DEF Known, CallsAreReady, FrameIsReady, Processing
  <2>4. stack[i].id # Top.id
    BY <1>1, <1>3, <2>1, <2>3, Unsettled
  <2> QED
    BY <1>6, <2>1, <2>2, <2>4
<1>14. CollectedInside'
  <2> SUFFICES ASSUME NEW i \in DOMAIN stack', stack'[i].call = "Run", stack'[i].at = 1,
                      collectedObjects'[stack'[i].id] # Absent
               PROVE  collectedObjects'[stack'[i].id] = ErrorObject /\ Doomed(i)'
    BY DEF CollectedInside
  <2>1. /\ i \in DOMAIN stack /\ stack'[i] = stack[i] /\ i < n /\ i \in 1..(n - 1)
        /\ stack[i].id \in Objects
    BY <1>11 DEF Frames
  <2>2. CASE collectedObjects[stack[i].id] # Absent
    <3>1. /\ collectedObjects[stack[i].id] = ErrorObject /\ Doomed(i)
          /\ collectedObjects'[stack[i].id] = ErrorObject
      BY <1>7, <2>1, <2>2 DEF Recorded, CollectedInside
    <3>2. CASE \E j \in DOMAIN stack : j > i /\ HasError(stack[j])
      <4>1. PICK j \in DOMAIN stack : j > i /\ HasError(stack[j])
        BY <3>2
      <4>2. j # n
        BY <1>1, <1>3, <4>1 DEF HasError
      <4>3. j \in DOMAIN stack' /\ stack'[j] = stack[j]
        BY <1>2, <4>2
      <4> QED
        BY <2>1, <3>1, <4>1, <4>3 DEF Doomed
    <3>3. CASE BadReturn /\ \A m \in DOMAIN stack : m > i => ~ Processing(stack[m])
      <4>1. ~ Processing(Top)
        BY <1>2, <1>3, <2>1, <3>3
      <4>2. c = ErrorObject
        BY <1>9, <1>10, <3>3, <4>1
      <4>3. \A m \in DOMAIN stack' : m > i => ~ Processing(stack'[m])
        BY <1>11, <3>3
      <4> QED
        BY <1>5, <2>1, <3>1, <4>2, <4>3 DEF Doomed
    <3> QED
      BY <3>1, <3>2, <3>3 DEF Doomed
  <2>3. CASE collectedObjects[stack[i].id] = Absent
    <3>1. stack[i].id = Top.id /\ collectedObjects'[stack[i].id] = c
      BY <1>6, <2>1, <2>3
    <3>2. ~ Ready(input, variableFlag, Top.id)
      BY <1>12, <2>1, <3>1
    <3>3. ret.kind \in Thrown /\ (BadReturn => c = ErrorObject)
      BY <1>9, <1>10, <3>2
    <3>4. Outer(i)
      BY <1>1, <2>1, <3>1 DEF Outer, n
    <3>5. BadReturn
      BY <1>1, <1>10, <2>1, <3>3, <3>4 DEF ThrownAgain
    <3>6. \A m \in DOMAIN stack' : m > i => ~ Processing(stack'[m])
      <4> SUFFICES ASSUME NEW m \in DOMAIN stack, m < n, Processing(stack[m]) PROVE FALSE
        BY <1>11
      <4>1. CalleeIsReady(input, variableFlag, Top)
        BY <1>3 DEF Known, SettledAbove
      <4> QED
        BY <1>1, <3>2, <4>1 DEF CalleeIsReady
    <3> QED
      BY <1>5, <2>1, <3>1, <3>3, <3>5, <3>6 DEF Doomed
  <2> QED
    BY <2>2, <2>3
<1>15. ReturnedIsRecorded'
  <2>1. CASE collectedObjects[Top.id] = Absent
    BY <1>5, <1>8, <2>1 DEF ReturnedIsRecorded
  <2>2. CASE collectedObjects[Top.id] # Absent
    <3>1. Top.at # 2
      BY <1>3, <1>9, <2>2 DEF Recorded, RunIsNew
    <3>2. collectedObjects[Top.id] = ErrorObject /\ Doomed(n)
      BY <1>1, <1>3, <2>2, <3>1 DEF Recorded, CollectedInside
    <3>3. BadReturn
      BY <1>2, <3>2 DEF Doomed, HasError
    <3> QED
      BY <1>1, <1>5, <1>7, <1>10, <2>2, <3>1, <3>2, <3>3 DEF ReturnedIsRecorded
  <2> QED
    BY <2>1, <2>2
<1>16. LookedForMeansResolved'
  <2> SUFFICES ASSUME NEW o \in Objects, collectedObjects'[o].flag \in LookedFor,
                      NEW i \in DOMAIN input.uses[o], input.uses[o][i] \in Variables
               PROVE  variableFlag[input.uses[o][i]] = "complete"
    BY <1>1 DEF LookedForMeansResolved
  <2>1. CASE collectedObjects'[o] = collectedObjects[o]
    BY <2>1 DEF Recorded, AnswersAreSettled, LookedForMeansResolved
  <2>2. CASE o = Top.id /\ collectedObjects'[o] = c
    <3>1. Ready(input, variableFlag, o)
      BY <1>9, <2>2
    <3> QED
      BY <3>1, ReadyElim, ReadyVariable
  <2> QED
    BY <1>6, <2>1, <2>2
<1> QED
  BY <1>13, <1>14, <1>15, <1>16 DEF Recorded, AnswersAreSettled

LEMMA ContinuesRecorded ==
  ASSUME IInv, Shape, Known, Recorded, Grows,
         \/ ParseContinues \/ CacheVariable \/ VariableComponentReturns
         \/ ObjectComponentReturns \/ RunProcesses
         \/ (FilterReference /\ ~ CreateError("error"))
  PROVE  Recorded'
<1>1. CASE ParseContinues
  <2>1. PICK frame \in ParseFrames : ContinueStep(frame) /\ frame.call = "Parse"
    BY <1>1, ParseContinueMoves
  <2>2. Top.call = "Parse" /\ ret = Done
    BY <1>1 DEF ParseContinues, In
  <2>3. ~ HasError(Top) /\ ~ BadReturn /\ ~ Processing(frame)
    BY <2>1, <2>2, GoodReturns DEF HasError, BadReturn, Processing
  <2> QED
    BY <2>1, <2>3, RecordedContinues
<1>2. CASE CacheVariable
  <2>1. PICK frame \in VariableFrames : ContinueStep(frame) /\ frame.call = "GetVariable"
    BY <1>2, CacheMoves
  <2>2. stack # <<>> /\ Top.call = "GetVariable" /\ Top.at = 0
    BY <1>2 DEF CacheVariable, In
  <2>3. ret = NoReturn
    BY <2>2, NothingReturned
  <2>4. ~ HasError(Top) /\ ~ BadReturn /\ ~ Processing(frame)
    BY <2>1, <2>2, <2>3, GoodReturns DEF HasError, BadReturn, Processing
  <2> QED
    BY <2>1, <2>4, RecordedContinues
<1>3. CASE VariableComponentReturns
  <2>1. PICK frame \in VariableFrames :
          /\ ContinueStep(frame) /\ frame.call = "GetVariable"
          /\ frame.at = Top.at + 1 /\ frame.got = Top.got
    BY <1>3, ComponentMoves
  <2>2. Top.at \in Nat /\ ret = Done
    BY <1>3, TopComputing DEF VariableComponentReturns
  <2>3. ~ BadReturn /\ ~ Processing(frame)
    BY <2>1, <2>2, GoodReturns DEF BadReturn, Processing
  <2>4. HasError(Top) => HasError(frame)
    BY <2>1, <2>2 DEF HasError
  <2> QED
    BY <2>1, <2>3, <2>4, RecordedContinues
<1>4. CASE ObjectComponentReturns
  <2> DEFINE flag == ObjectComponentFlag(ret.object, input.field[ret.id])
  <2>1. PICK frame \in VariableFrames :
          /\ ContinueStep(frame) /\ frame.call = "GetVariable"
          /\ frame.at = Top.at + 1 /\ frame.got = Append(Top.got, flag)
    BY <1>4, ObjectMoves
  <2>2. Top.at \in Nat /\ Top.got \in Seq(Flags) /\ ret.kind = "object"
    BY <1>4, TopComputing DEF ObjectComponentReturns
  <2>3. ret.id \in Objects
    BY <2>2 DEF IInv, TypeOK, Returns, NoReturn, Done, Exception
  <2>4. input.field[ret.id] \in FieldAnswers
    BY <2>3 DEF IInv, TypeOK, Input
  <2>5. BadReturn => flag = "error"
    <3>1. BadReturn => ret.object.flag = "error"
      BY <2>2 DEF BadReturn, ErrorObject
    <3> QED
      BY <2>4, <3>1, OwnObjectFlag
  <2> HIDE DEF flag
  <2>6. /\ \A k \in DOMAIN Top.got : k \in DOMAIN frame.got /\ frame.got[k] = Top.got[k]
        /\ Len(Top.got) + 1 \in DOMAIN frame.got /\ frame.got[Len(Top.got) + 1] = flag
    BY <2>1, <2>2
  <2>7. HasError(Top) => HasError(frame)
    BY <2>1, <2>2, <2>6 DEF HasError
  <2>8. BadReturn => HasError(frame)
    BY <2>1, <2>2, <2>5, <2>6 DEF HasError
  <2>9. ~ Processing(frame)
    BY <2>1 DEF Processing
  <2> QED
    BY <2>1, <2>7, <2>8, <2>9, RecordedContinues
<1>5. CASE RunProcesses
  <2>1. PICK frame \in RunFrames :
          ContinueStep(frame) /\ frame.call = "Run" /\ frame.at = 2
    BY <1>5, ProcessMoves
  <2>2. /\ stack # <<>> /\ stack \in Seq(Frames) /\ Top.call = "Run" /\ Top.at = 1
        /\ frame.id = Top.id /\ ret = Done
    BY <1>5, <2>1, TopRun DEF RunProcesses, ContinueStep
  <2>3. Len(stack) \in DOMAIN stack /\ Top = stack[Len(stack)] /\ Len(stack) \in Nat
        /\ DOMAIN stack = 1..Len(stack)
    BY <2>2 DEF Top
  <2>4. ~ HasError(Top) /\ ~ BadReturn
    BY <2>2, GoodReturns DEF HasError, BadReturn
  <2>5. collectedObjects[frame.id] = Absent
    <3>1. ~ Doomed(Len(stack))
      BY <2>3, <2>4 DEF Doomed
    <3> QED
      BY <2>2, <2>3, <3>1 DEF Recorded, CollectedInside
  <2> QED
    BY <2>1, <2>4, <2>5, RecordedContinues
<1>6. CASE FilterReference /\ ~ CreateError("error")
  <2>1. PICK frame \in RunFrames :
          ContinueStep(frame) /\ frame.call = "Run" /\ frame.at = 2
    BY <1>6, FilterMoves
  <2>2. /\ stack # <<>> /\ stack \in Seq(Frames) /\ Top.call = "Run" /\ Top.at = 2
        /\ frame.id = Top.id
    BY <1>6, <2>1, TopRun DEF FilterReference, ContinueStep
  <2>3. Len(stack) \in DOMAIN stack /\ Top = stack[Len(stack)]
    BY <2>2 DEF Top
  <2>4. ~ HasError(Top) /\ Processing(Top)
    BY <2>2 DEF HasError, Processing
  <2>5. collectedObjects[frame.id] = Absent
    BY <2>2, <2>3, <2>4 DEF Recorded, RunIsNew
  <2> QED
    BY <2>1, <2>4, <2>5, RecordedContinues
<1> QED
  BY <1>1, <1>2, <1>3, <1>4, <1>5, <1>6

\* A variable with the flag of an error among its components is an error.
LEMMA ErrorIsThrown ==
  ASSUME IInv, ComputeVariable, HasError(Top) PROVE BadReturn'
<1> DEFINE all == <<input.own[Top.id]>> \o Top.got
<1>1. /\ Top.id \in Variables /\ Top.got \in Seq(Flags)
      /\ variableFlag \in [Variables -> Flags \cup {"absent"}]
  BY TopComputing DEF ComputeVariable, IInv, TypeOK
<1>2. CASE input.own[Top.id] = "throws"
  <2>1. ret' = Exception
    BY <1>2 DEF ComputeVariable
  <2> QED
    BY <2>1 DEF BadReturn, Exception
<1>3. CASE input.own[Top.id] # "throws"
  <2>1. /\ variableFlag' = [variableFlag EXCEPT ![Top.id] = CombineFlags(all)]
        /\ ret' = Outcome(Top.id, CombineFlags(all))
    BY <1>3 DEF ComputeVariable
  <2>2. PICK k \in DOMAIN Top.got : Top.got[k] = "error"
    BY DEF HasError
  <2>3. k + 1 \in DOMAIN all /\ all[k + 1] = "error"
    BY <1>1, <2>2, OwnThenGot
  <2> HIDE DEF all
  <2>4. CombineFlags(all) = "error"
    BY <2>3 DEF CombineFlags, Occurring
  <2>5. ret'.kind = "VariableFactoryException" /\ ret'.variable = Top.id
    BY <2>1, <2>4, OutcomeKind
  <2>6. variableFlag'[Top.id] = "error"
    BY <1>1, <2>1, <2>4
  <2> QED
    BY <2>5, <2>6 DEF BadReturn
<1> QED
  BY <1>2, <1>3

LEMMA PopsRecorded ==
  ASSUME IInv, Shape, Known, Recorded, Grows,
         \/ ParseEnds \/ ParseFails \/ GetCachedVariable \/ UndefinedVariable
         \/ ComputeVariable \/ VariableFails \/ RunFromCache
  PROVE  Recorded'
<1>1. /\ stack # <<>> /\ stack \in Seq(Frames) /\ Return /\ UNCHANGED <<input, collectedObjects>>
  <2>1. PopStep
    BY ParsePops, VariablePops, RunPops
  <2>2. collectedObjects' = collectedObjects
    BY DEF ParseEnds, ParseFails, GetCachedVariable, UndefinedVariable,
           ComputeVariable, VariableFails, RunFromCache, Unwind
  <2> QED
    BY <2>1, <2>2 DEF PopStep, IInv, TypeOK
<1>2. Len(stack) \in DOMAIN stack /\ Top = stack[Len(stack)]
  BY <1>1 DEF Top
<1>3. CASE ParseEnds
  <2>1. Top.call = "Parse" /\ ret = NoReturn /\ ret' = Done
    BY <1>3 DEF ParseEnds, In
  <2> QED
    BY <1>1, <2>1, GoodReturns, RecordedPops DEF HasError, BadReturn, ReturnedIsRecorded
<1>4. CASE ParseFails
  <2>1. /\ Top.call = "Parse" /\ ret' = ret /\ variableFlag' = variableFlag
        /\ ret.kind \in Thrown
    BY <1>4 DEF ParseFails, In, Unwind
  <2>2. ~ HasError(Top) /\ (BadReturn => BadReturn') /\ ReturnedIsRecorded'
    BY <2>1 DEF HasError, BadReturn, ReturnedIsRecorded, Thrown
  <2> QED
    BY <1>1, <2>2, RecordedPops
<1>5. CASE GetCachedVariable \/ UndefinedVariable
  <2>1. Top.call = "GetVariable" /\ Top.at = 0
    BY <1>5 DEF GetCachedVariable, UndefinedVariable, In
  <2>2. ret = NoReturn
    BY <1>1, <2>1, NothingReturned
  <2>3. ret'.kind # "object"
    BY <1>5, VariablePops DEF PopStep
  <2>4. ~ HasError(Top) /\ ~ BadReturn /\ ReturnedIsRecorded'
    BY <2>1, <2>2, <2>3, GoodReturns DEF HasError, BadReturn, ReturnedIsRecorded
  <2> QED
    BY <1>1, <2>4, RecordedPops
<1>6. CASE ComputeVariable
  <2>1. /\ Top.call = "GetVariable" /\ Top.at >= 1 /\ Top.at \in Nat /\ ret = NoReturn
    BY <1>6, TopComputing DEF ComputeVariable, In
  <2>2. ret'.kind # "object"
    BY <1>6, VariablePops DEF PopStep
  <2>3. ~ BadReturn /\ ReturnedIsRecorded'
    BY <2>1, <2>2, GoodReturns DEF BadReturn, ReturnedIsRecorded
  <2>4. \A m \in DOMAIN stack : m < Len(stack) => ~ Processing(stack[m])
    BY <1>2, <2>1 DEF Known, SettledAbove, CalleeIsReady
  <2>5. HasError(Top) => BadReturn'
    BY <1>6, ErrorIsThrown
  <2> QED
    BY <1>1, <2>3, <2>4, <2>5, RecordedPops
<1>7. CASE VariableFails
  <2>1. /\ Top.call = "GetVariable" /\ ret' = ret /\ variableFlag' = variableFlag
        /\ ret.kind \in Thrown
    BY <1>7 DEF VariableFails, In, Unwind
  <2>2. (BadReturn => BadReturn') /\ ReturnedIsRecorded'
    BY <2>1 DEF BadReturn, ReturnedIsRecorded, Thrown
  <2>3. ~ HasError(Top)
    <3> SUFFICES ASSUME HasError(Top) PROVE FALSE
      OBVIOUS
    <3>1. ret # NoReturn /\ ret.kind # "object"
      BY <2>1 DEF Thrown, NoReturn
    <3>2. /\ Top.at \in DOMAIN input.needs[Top.id]
          /\ input.needs[Top.id][Top.at] \notin Objects
      BY <1>1, <2>1, <3>1, ReturnedTo
    <3>3. Top.got # <<>>
      BY DEF HasError
    <3>4. Top.at \in Nat
      BY <1>7, TopComputing DEF VariableFails
    <3> QED
      BY <1>2, <2>1, <3>2, <3>3, <3>4 DEF Shape, ObjectsLast
  <2> QED
    BY <1>1, <2>2, <2>3, RecordedPops
<1>8. CASE RunFromCache
  <2>1. /\ Top.call = "Run" /\ Top.at = 0 /\ Top.id \in Objects
        /\ ret' = ReturnObject(Top.id, collectedObjects[Top.id])
    BY <1>8, TopRun DEF RunFromCache
  <2>2. ret = NoReturn
    BY <1>1, <2>1, NothingReturned
  <2>3. ReturnedIsRecorded'
    BY <1>1, <2>1 DEF ReturnObject, ReturnedIsRecorded
  <2>4. ~ HasError(Top) /\ ~ BadReturn
    BY <2>1, <2>2, GoodReturns DEF HasError, BadReturn
  <2> QED
    BY <1>1, <2>3, <2>4, RecordedPops
<1> QED
  BY <1>3, <1>4, <1>5, <1>6, <1>7, <1>8

LEMMA CreatesRecorded ==
  ASSUME IInv, Shape, Known, FlagsAreOwn, ThrownAgain, Recorded,
         \/ RunCatchesVariable \/ RunCatchesException \/ ProcessObject
         \/ ProcessSetObject \/ (FilterReference /\ CreateError("error"))
  PROVE  Recorded'
<1>1. CASE RunCatchesVariable
  <2> DEFINE flag == variableFlag[ret.variable]
             c == [flag |-> flag, items |-> {}]
  <2>1. /\ In("Run") /\ Top.at = 1 /\ ret.kind = "VariableFactoryException"
        /\ Create(c)
    BY <1>1 DEF RunCatchesVariable, CreateError
  <2>2. ret.variable \in Variables
    BY <2>1 DEF IInv, TypeOK, Returns, NoReturn, Done, Exception
  <2>3. flag \in Flags /\ flag \in OwnFlags \cup {"absent"} /\ flag # "complete"
    BY <2>1, <2>2 DEF IInv, ThrownIsCached, FlagsAreOwn
  <2>4. flag \notin LookedFor
    BY <2>3 DEF LookedFor, OwnFlags, Flags
  <2>5. BadReturn => c = ErrorObject
    BY <2>1 DEF BadReturn, ErrorObject
  <2>6. c.flag \notin LookedFor
    BY <2>4
  <2> HIDE DEF c
  <2> QED
    BY <2>1, <2>5, <2>6, RecordedCreates DEF Thrown
<1>2. CASE RunCatchesException
  <2>1. In("Run") /\ Top.at = 1 /\ ret.kind = "Exception" /\ Create(ErrorObject)
    BY <1>2 DEF RunCatchesException, CreateError, ErrorObject
  <2>2. ErrorObject.flag \notin LookedFor
    BY DEF ErrorObject, LookedFor
  <2> QED
    BY <2>1, <2>2, RecordedCreates DEF Thrown
<1>3. CASE ProcessObject \/ ProcessSetObject \/ (FilterReference /\ CreateError("error"))
  <2>1. In("Run") /\ Top.at = 2 /\ \E c : Create(c)
    BY <1>3, ProcessingCreates DEF FilterReference, CreateError
  <2> QED
    BY <2>1, RecordedCreates
<1> QED
  BY <1>1, <1>2, <1>3

-----------------------------------------------------------------------------
\* The invariant, which is inductive together with IInv.
SettledInv ==
  /\ IInv /\ Shape /\ Known /\ FlagsAreOwn /\ Behind /\ ThrownAgain /\ Recorded

LEMMA StepKeepsRecorded ==
  ASSUME SettledInv, Next PROVE Recorded'
<1>1. IInv /\ Shape /\ Known /\ FlagsAreOwn /\ Behind /\ ThrownAgain /\ Recorded
  BY DEF SettledInv
<1>2. CASE ParseNext \/ ComputeComponent \/ CollectReference \/ RunParses
  BY <1>1, <1>2, Pushes, RecordedPushes
<1>3. CASE RunObject
  <2>1. /\ DOMAIN stack' = {1} /\ stack'[1].at = 0 /\ ret' = NoReturn
        /\ UNCHANGED <<input, collectedObjects, variableFlag>>
    BY <1>3 DEF RunObject, RunFrame
  <2>2. RunIsNew' /\ CollectedInside'
    BY <2>1 DEF RunIsNew, CollectedInside, Processing
  <2>3. ReturnedIsRecorded'
    BY <2>1, GoodReturns DEF ReturnedIsRecorded
  <2>4. LookedForMeansResolved'
    BY <1>1, <2>1 DEF Recorded, AnswersAreSettled, LookedForMeansResolved
  <2> QED
    BY <2>2, <2>3, <2>4 DEF Recorded, AnswersAreSettled
<1>4. CASE WriteCollectedObjects
  <2>1. /\ stack' = <<>> /\ ret' = NoReturn
        /\ \A o \in Objects : collectedObjects'[o].flag = "absent"
    BY <1>4 DEF WriteCollectedObjects, Absent
  <2>2. RunIsNew' /\ CollectedInside'
    BY <2>1 DEF RunIsNew, CollectedInside
  <2>3. ReturnedIsRecorded'
    BY <2>1, GoodReturns DEF ReturnedIsRecorded
  <2>4. LookedForMeansResolved'
    BY <2>1 DEF LookedForMeansResolved, LookedFor
  <2> QED
    BY <2>2, <2>3, <2>4 DEF Recorded, AnswersAreSettled
<1>5. CASE ~ (RunObject \/ WriteCollectedObjects)
  <2>1. stack # <<>>
    BY <1>5 DEF Next, ParseStep, VariableStep, RunStep, ParseNext, ParseContinues,
       ParseEnds, ParseFails, GetCachedVariable, UndefinedVariable, CacheVariable,
       ComputeComponent, VariableComponentReturns, ObjectComponentReturns,
       ComputeVariable, VariableFails, RunFromCache, RunParses, RunCatchesVariable,
       RunCatchesException, RunProcesses, ProcessObject, CollectReference,
       FilterReference, ProcessSetObject, In
  <2>2. Grows
    BY <1>1, <2>1, StepGrows
  <2> QED
    BY <1>1, <1>2, <1>5, <2>2, ContinuesRecorded, PopsRecorded, CreatesRecorded
    DEF Next, ParseStep, VariableStep, RunStep
<1> QED
  BY <1>3, <1>4, <1>5

LEMMA InitSettles == Init => SettledInv
<1> SUFFICES ASSUME Init PROVE SettledInv
  OBVIOUS
<1>1. /\ IInv /\ stack = <<>> /\ ret = NoReturn
      /\ \A o \in Objects : collectedObjects[o].flag = "absent"
      /\ \A v \in Variables : variableFlag[v] = "absent"
  BY InitOK DEF Init, Absent
<1>2. DOMAIN stack = {} /\ Len(stack) = 0
  BY <1>1
<1>3. Shape
  BY <1>1, <1>2 DEF Shape, Linked, Returned, WithinUses, ObjectsLast
<1>4. Known /\ Behind /\ ThrownAgain
  BY <1>1, <1>2 DEF Known, CallsAreReady, SettledAbove, ReturnedMeans, Behind, ThrownAgain
<1>5. FlagsAreOwn
  BY <1>1, <1>2, GoodReturns DEF FlagsAreOwn
<1>6. Recorded
  BY <1>1, <1>2, GoodReturns
  DEF Recorded, RunIsNew, CollectedInside, AnswersAreSettled, ReturnedIsRecorded,
      LookedForMeansResolved, LookedFor
<1> QED
  BY <1>1, <1>3, <1>4, <1>5, <1>6 DEF SettledInv

LEMMA NextSettles == SettledInv /\ [Next]_vars => SettledInv'
<1> SUFFICES ASSUME SettledInv, [Next]_vars PROVE SettledInv'
  OBVIOUS
<1>1. IInv'
  BY NextOK DEF SettledInv
<1>2. CASE Next
  BY <1>1, <1>2, StepKeepsShape, StepKeepsKnown, StepKeepsOwn, StepKeepsBehind,
     StepKeepsThrown, StepKeepsRecorded
  DEF SettledInv
<1>3. CASE UNCHANGED vars
  <2>1. /\ UNCHANGED <<input, stack, ret, collectedObjects, variableFlag>> /\ Top' = Top
    BY <1>3 DEF vars, Top
  <2>2. Shape'
    BY <2>1 DEF SettledInv, Shape, Linked, Returned, WithinUses, ObjectsLast
  <2>3. Known'
    BY <2>1 DEF SettledInv, Known, CallsAreReady, SettledAbove, ReturnedMeans
  <2>4. FlagsAreOwn' /\ Behind'
    BY <2>1 DEF SettledInv, FlagsAreOwn, Behind
  <2>5. BadReturn' = BadReturn
    BY <2>1 DEF BadReturn
  <2>6. ThrownAgain'
    BY <2>1, <2>5 DEF SettledInv, ThrownAgain, Outer
  <2>7. Recorded'
    BY <2>1, <2>5 DEF SettledInv, Recorded, RunIsNew, CollectedInside, Doomed,
       AnswersAreSettled, ReturnedIsRecorded, LookedForMeansResolved
  <2> QED
    BY <1>1, <2>2, <2>3, <2>4, <2>6, <2>7 DEF SettledInv
<1> QED
  BY <1>2, <1>3

\* What an object is collected with, and what its callers see of it, does not depend
\* on who asked first, in every run on every document, however its objects, sets and
\* variables refer to each other (AbsObjectCollector.cpp:67-154).
THEOREM WhatIsAnsweredIsSettled == Spec => []AnswersAreSettled
<1>1. SettledInv => AnswersAreSettled
  BY DEF SettledInv, Recorded
<1> QED
  BY <1>1, InitSettles, NextSettles, PTL DEF Spec

-----------------------------------------------------------------------------
\* Every object is written.  The call at the bottom of the stack is for the object whose
\* turn it is; those before have been collected.
Bottom ==
  stack # <<>> =>
    /\ index - 1 \in DOMAIN input.order
    /\ stack[1].call = "Run" /\ stack[1].id = input.order[index - 1]

HadItsTurn(k) == k \in DOMAIN input.order /\ k < index /\ (k = index - 1 => stack = <<>>)

TurnsTaken ==
  index <= Len(input.order) + 1 =>
    \A k \in DOMAIN input.order : HadItsTurn(k) => collectedObjects[input.order[k]] # Absent

LoopInv == Bottom /\ TurnsTaken /\ EveryObjectIsWritten

\* A step of a call leaves the loop alone and forgets no object.
LEMMA CallsLeaveTheLoop ==
  ASSUME IInv, Next, stack # <<>>
  PROVE  /\ UNCHANGED <<input, index, written>>
         /\ \A o \in Objects : collectedObjects[o] # Absent => collectedObjects'[o] = collectedObjects[o]
<1>1. ASSUME NEW c, Create(c)
      PROVE  /\ UNCHANGED <<input, index, written>>
             /\ \A o \in Objects :
                  collectedObjects[o] # Absent => collectedObjects'[o] = collectedObjects[o]
  BY <1>1 DEF Create, IInv, TypeOK
<1>2. CASE ParseStep \/ VariableStep
  BY <1>2 DEF ParseStep, VariableStep, ParseNext, ParseContinues, ParseEnds, ParseFails,
     GetCachedVariable, UndefinedVariable, CacheVariable, ComputeComponent,
     VariableComponentReturns, ObjectComponentReturns, ComputeVariable, VariableFails, Unwind
<1>3. CASE RunStep
  <2>1. CASE RunFromCache \/ RunParses \/ RunProcesses \/ CollectReference
    BY <2>1 DEF RunFromCache, RunParses, RunProcesses, CollectReference
  <2>2. CASE RunCatchesVariable \/ RunCatchesException
    BY <1>1, <2>2 DEF RunCatchesVariable, RunCatchesException, CreateError
  <2>3. CASE ProcessObject \/ ProcessSetObject
    BY <1>1, <2>3, ProcessingCreates
  <2>4. CASE FilterReference
    BY <1>1, <2>4 DEF FilterReference, CreateError
  <2> QED
    BY <1>3, <2>1, <2>2, <2>3, <2>4 DEF RunStep
<1> QED
  BY <1>2, <1>3 DEF Next, RunObject, WriteCollectedObjects

\* The object of a call that returns is collected.
LEMMA ReturnedIsCollected ==
  ASSUME IInv, IInv', Recorded',
         \/ RunFromCache \/ RunCatchesVariable \/ RunCatchesException
         \/ ProcessObject \/ ProcessSetObject \/ (FilterReference /\ CreateError("error"))
  PROVE  collectedObjects'[Top.id] # Absent
<1>1. \E c : ret' = ReturnObject(Top.id, c)
  <2>1. CASE RunFromCache
    BY <2>1 DEF RunFromCache
  <2>2. CASE ~ RunFromCache
    <3>1. \E c : Create(c)
      BY <2>2, ProcessingCreates
      DEF RunCatchesVariable, RunCatchesException, FilterReference, CreateError
    <3> QED
      BY <3>1 DEF Create
  <2> QED
    BY <2>1, <2>2
<1>2. ret'.kind = "object" /\ ret'.id = Top.id
  BY <1>1 DEF ReturnObject
<1>3. collectedObjects'[Top.id] = ret'.object
  BY <1>2 DEF Recorded, AnswersAreSettled, ReturnedIsRecorded
<1>4. ret'.object \in Collected
  BY <1>2 DEF IInv, TypeOK, Returns, NoReturn, Done, Exception
<1>5. ret'.object.flag \in Flags /\ Absent.flag \notin Flags
  BY <1>4 DEF Collected, Flags, Absent
<1>6. ret'.object # Absent
  BY <1>5
<1> QED
  BY <1>3, <1>6

\* The lowest call stays while others are made or return; it returns its object.
LEMMA BottomStays ==
  ASSUME SettledInv, SettledInv', Next, stack # <<>>, stack[1].call = "Run"
  PROVE  \/ stack' # <<>> /\ stack'[1].call = stack[1].call /\ stack'[1].id = stack[1].id
         \/ stack' = <<>> /\ collectedObjects'[stack[1].id] # Absent
<1> DEFINE n == Len(stack)
           Stays == stack' # <<>> /\ stack'[1].call = stack[1].call /\ stack'[1].id = stack[1].id
<1>1. /\ stack \in Seq(Frames) /\ n \in Nat /\ n >= 1 /\ Top = stack[n]
      /\ IInv /\ IInv' /\ Shape /\ Recorded'
  BY DEF SettledInv, IInv, TypeOK, Top
<1>2. ASSUME PopStep PROVE Stays \/ (n = 1 /\ stack' = <<>>)
  <2>1. Len(stack') = n - 1 /\ stack' \in Seq(Frames) /\ \A i \in 1 .. n - 1 : stack'[i] = stack[i]
    BY <1>1, <1>2, Popped DEF PopStep
  <2> QED
    BY <1>1, <2>1
<1>3. ASSUME NEW frame, ContinueStep(frame) PROVE Stays
  <2>1. stack' = [stack EXCEPT ![n] = frame]
    BY <1>3 DEF ContinueStep, Continue
  <2>2. frame.call = stack[n].call /\ frame.id = stack[n].id
    BY <1>1, <1>3 DEF ContinueStep
  <2> QED
    BY <1>1, <2>1, <2>2
<1>4. ASSUME NEW frame, NEW callee, PushStep(frame, callee) PROVE Stays
  <2>1. stack' = Append([stack EXCEPT ![n] = frame], callee) /\ frame \in Frames /\ callee \in Frames
    BY <1>4 DEF PushStep, Call
  <2>2. frame.call = stack[n].call /\ frame.id = stack[n].id
    BY <1>1, <1>4 DEF PushStep
  <2>3. stack'[1] = [stack EXCEPT ![n] = frame][1] /\ stack' # <<>>
    BY <1>1, <2>1
  <2> QED
    BY <1>1, <2>2, <2>3
<1> HIDE DEF Stays
<1>5. CASE ParseNext \/ ComputeComponent \/ CollectReference \/ RunParses
  BY <1>1, <1>4, <1>5, Pushes DEF Stays
<1>6. CASE \/ ParseContinues \/ CacheVariable \/ VariableComponentReturns
           \/ ObjectComponentReturns \/ RunProcesses
           \/ (FilterReference /\ ~ CreateError("error"))
  <2>1. \E frame : ContinueStep(frame)
    BY <1>1, <1>6, ParseContinueMoves, CacheMoves, ComponentMoves, ObjectMoves, ProcessMoves,
       FilterMoves
  <2> QED
    BY <1>3, <2>1 DEF Stays
<1>7. CASE \/ ParseEnds \/ ParseFails
           \/ GetCachedVariable \/ UndefinedVariable \/ ComputeVariable \/ VariableFails
  BY <1>1, <1>2, <1>7, ParsePops, VariablePops DEF Stays
<1>8. CASE \/ RunFromCache \/ RunCatchesVariable \/ RunCatchesException
           \/ ProcessObject \/ ProcessSetObject \/ (FilterReference /\ CreateError("error"))
  <2>1. PopStep
    BY <1>1, <1>8, RunPops
  <2>2. collectedObjects'[Top.id] # Absent
    BY <1>1, <1>8, ReturnedIsCollected
  <2> QED
    BY <1>1, <1>2, <2>1, <2>2 DEF Stays
<1>9. ~ RunObject /\ ~ WriteCollectedObjects
  BY DEF RunObject, WriteCollectedObjects
<1> QED
  BY <1>5, <1>6, <1>7, <1>8, <1>9 DEF Next, ParseStep, VariableStep, RunStep

LEMMA NextTakesTurns == SettledInv /\ SettledInv' /\ LoopInv /\ [Next]_vars => LoopInv'
<1> SUFFICES ASSUME SettledInv, SettledInv', LoopInv, [Next]_vars PROVE LoopInv'
  OBVIOUS
<1>1. /\ input.order \in Seq(Objects) /\ Len(input.order) \in Nat
      /\ DOMAIN input.order = 1 .. Len(input.order)
      /\ index \in 1 .. Len(input.order) + 2
      /\ \A k \in DOMAIN input.order : input.order[k] \in Objects
  BY DEF SettledInv, IInv, TypeOK, Input
<1>2. CASE UNCHANGED vars
  BY <1>2 DEF vars, LoopInv, Bottom, TurnsTaken, HadItsTurn, EveryObjectIsWritten
<1>3. CASE RunObject
  <2>1. /\ stack = <<>> /\ index <= Len(input.order) /\ index' = index + 1
        /\ stack' = <<RunFrame(input.order[index])>>
        /\ UNCHANGED <<input, collectedObjects, written>>
    BY <1>3 DEF RunObject
  <2>2. Bottom'
    BY <1>1, <2>1 DEF Bottom, RunFrame
  <2>3. TurnsTaken'
    BY <1>1, <2>1 DEF LoopInv, TurnsTaken, HadItsTurn
  <2>4. EveryObjectIsWritten'
    BY <1>1, <2>1 DEF EveryObjectIsWritten
  <2> QED
    BY <2>2, <2>3, <2>4 DEF LoopInv
<1>4. CASE WriteCollectedObjects
  <2>1. /\ stack = <<>> /\ index = Len(input.order) + 1 /\ index' = index + 1
        /\ UNCHANGED <<input, stack>>
        /\ DOMAIN written' = {p \in Objects : collectedObjects[p] # Absent}
    BY <1>4 DEF WriteCollectedObjects
  <2>2. \A k \in DOMAIN input.order : collectedObjects[input.order[k]] # Absent
    BY <1>1, <2>1 DEF LoopInv, TurnsTaken, HadItsTurn
  <2>3. EveryObjectIsWritten'
    BY <1>1, <2>1, <2>2 DEF EveryObjectIsWritten
  <2> QED
    BY <1>1, <2>1, <2>3 DEF LoopInv, Bottom, TurnsTaken
<1>5. CASE Next /\ stack # <<>>
  <2>1. /\ UNCHANGED <<input, index, written>>
        /\ \A o \in Objects :
             collectedObjects[o] # Absent => collectedObjects'[o] = collectedObjects[o]
    BY <1>5, CallsLeaveTheLoop DEF SettledInv
  <2>2. /\ index - 1 \in DOMAIN input.order
        /\ stack[1].call = "Run" /\ stack[1].id = input.order[index - 1]
    BY <1>5 DEF LoopInv, Bottom
  <2>3. \/ stack' # <<>> /\ stack'[1].call = stack[1].call /\ stack'[1].id = stack[1].id
        \/ stack' = <<>> /\ collectedObjects'[stack[1].id] # Absent
    BY <1>5, <2>2, BottomStays
  <2>4. Bottom'
    BY <2>1, <2>2, <2>3 DEF Bottom
  <2>5. ASSUME index <= Len(input.order) + 1, NEW k \in DOMAIN input.order, HadItsTurn(k)'
        PROVE  collectedObjects'[input.order[k]] # Absent
    <3>1. CASE k = index - 1
      BY <2>1, <2>2, <2>3, <2>5, <3>1 DEF HadItsTurn
    <3>2. CASE k # index - 1
      <4>1. HadItsTurn(k)
        BY <2>1, <2>5, <3>2 DEF HadItsTurn
      <4>2. collectedObjects[input.order[k]] # Absent /\ input.order[k] \in Objects
        BY <1>1, <2>5, <4>1 DEF LoopInv, TurnsTaken
      <4> QED
        BY <2>1, <4>2
    <3> QED
      BY <3>1, <3>2
  <2>6. TurnsTaken'
    BY <2>1, <2>5 DEF TurnsTaken
  <2>7. EveryObjectIsWritten'
    BY <2>1 DEF LoopInv, EveryObjectIsWritten
  <2> QED
    BY <2>4, <2>6, <2>7 DEF LoopInv
<1>6. Next /\ stack = <<>> => RunObject \/ WriteCollectedObjects
  BY DEF Next, ParseStep, VariableStep, RunStep, ParseNext, ParseContinues, ParseEnds,
     ParseFails, GetCachedVariable, UndefinedVariable, CacheVariable, ComputeComponent,
     VariableComponentReturns, ObjectComponentReturns, ComputeVariable, VariableFails,
     RunFromCache, RunParses, RunCatchesVariable, RunCatchesException, RunProcesses,
     ProcessObject, CollectReference, FilterReference, ProcessSetObject, In
<1> QED
  BY <1>2, <1>3, <1>4, <1>5, <1>6

\* The loop reaches every object of the document, and every object that is reached is
\* collected and written, in every run on every document, cycles and failures included
\* (AbsDataCollector.cpp:151-205).
THEOREM EveryObjectStands == Spec => []EveryObjectIsWritten
<1>1. Init => LoopInv
  <2> SUFFICES ASSUME Init PROVE LoopInv
    OBVIOUS
  <2>1. input.order \in Seq(Objects) /\ Len(input.order) \in Nat
    BY InputsAssumption DEF Init, Input
  <2> QED
    BY <2>1 DEF Init, LoopInv, Bottom, TurnsTaken, HadItsTurn, EveryObjectIsWritten
<1>2. LoopInv => EveryObjectIsWritten
  BY DEF LoopInv
<1> QED
  BY <1>1, <1>2, InitSettles, NextSettles, NextTakesTurns, PTL DEF Spec

-----------------------------------------------------------------------------
\* What is settled of the meaning while calls are active.

\* The variables that are complete, and what is collected, at this moment.
Complete == CompleteIn(variableFlag)
Found    == [o \in {p \in Objects : collectedObjects[p] # Absent} |-> collectedObjects[o]]

\* A computation is lost that has got an error, or is about to: what was returned to it
\* is thrown, or an object without items, and no set on the way takes it.
FailedReturn == ret.kind \in Thrown \/ (ret.kind = "object" /\ ret.object.items = {})

Lost(i) ==
  \/ \E j \in DOMAIN stack : j >= i /\ HasError(stack[j])
  \/ FailedReturn /\ \A m \in DOMAIN stack : m > i => ~ Processing(stack[m])

\* The variables that will never be complete: those without an element, those that are
\* finished otherwise, and those whose computation is lost.
Broken ==
  {v \in Variables :
     \/ input.own[v] = "undefined"
     \/ /\ variableFlag[v] \notin {"absent", "complete"}
        /\ \A i \in DOMAIN stack : Computing(i) /\ stack[i].id = v => Lost(i)}

BrokenFlag(v) == IF input.own[v] = "undefined" THEN "error" ELSE variableFlag[v]

\* u is stopped by w, whatever the variables come to that are neither complete nor
\* broken; and what goes back to v in that way.
SurelyStoppedBy(in, complete, broken, u, w) ==
  \E i \in DOMAIN Parsed(in, u) :
    /\ w = Parsed(in, u)[i] /\ w \notin There(in, Variables \ broken)
    /\ u \in Variables => w \in Variables
    /\ \A j \in 1 .. i - 1 : Parsed(in, u)[j] \in There(in, complete)
GoesBackTo(in, complete, broken, o, v) ==
  \A reached \in SUBSET Uses :
    /\ o \in reached
    /\ \A u \in reached, w \in Uses : SurelyStoppedBy(in, complete, broken, u, w) => w \in reached
    => v \in reached

\* A use will never be there, and the flag is that of a variable where it began.
FailsAs(use, flag) ==
  /\ use \notin There(input, Variables \ Broken)
  /\ \E v \in Broken : GoesBackTo(input, Complete, Broken, use, v) /\ flag = BrokenFlag(v)

\* The items and the flag of an object that is settled, as far as they are known.
IsMeaning(in, m, o, c) ==
  IF in.operator[o] = "none" THEN c = SimpleMeaning(in, o)
  ELSE /\ c = SetMeaning(in, m, o)
       /\ \/ Unclear(in, m, o)
          \/ \A i \in DOMAIN in.references[o] : in.references[o][i] \in DOMAIN m

ObjectIsMeant(o) ==
  \/ o \in There(input, Complete) /\ IsMeaning(input, Found, o, Found[o])
  \/ Found[o].items = {} /\ FailsAs(o, Found[o].flag)

ObjectsAreMeant == \A o \in DOMAIN Found : ObjectIsMeant(o)

\* A variable that is not complete and whose computation has ended has the flag of its
\* components, or of what stopped it.
Finished(v) ==
  /\ variableFlag[v] \notin {"absent", "complete"}
  /\ \A i \in DOMAIN stack : ~ (Computing(i) /\ stack[i].id = v)
FlagIsMeant(v) ==
  \/ /\ variableFlag[v] = "error"
     /\ \/ input.own[v] = "throws"
        \/ \E i \in DOMAIN input.needs[v] : input.needs[v][i] \in Broken
  \/ /\ input.own[v] # "throws"
     /\ \A i \in DOMAIN input.needs[v] : input.needs[v][i] \in Complete \cup DOMAIN Found
     /\ variableFlag[v] = ComputedFlag(input, Found, v)

VariablesAreMeant == \A v \in Variables : Finished(v) => FlagIsMeant(v)

CompleteIsMeant == Complete \subseteq CompleteVariables(input, Found)

UndefinedIsUncached ==
  \A v \in Variables : input.own[v] = "undefined" => variableFlag[v] = "absent"

\* A set gets what it asks for, and a variable the component it is at.
GetsWhatItAskedFor ==
  /\ \A i \in 1..(Len(stack) - 1) :
       Processing(stack[i]) => AsksFor(input, stack[i], stack[i + 1].id)
  /\ stack # <<>> /\ ret.kind = "object" =>
       /\ Processing(Top) => AsksFor(input, Top, ret.id)
       /\ Top.call = "GetVariable" => ret.id = input.needs[Top.id][Top.at]

\* What a call has got are the parts of a set, or the flags of the objects among the
\* components of a variable, as far as it has come.
GotOfSet(in, m, frame) ==
  /\ Len(frame.got) <= Len(in.references[frame.id])
  /\ \A k \in DOMAIN frame.got :
       LET ref == in.references[frame.id][k]
       IN  /\ ref \in DOMAIN m
           /\ \A x \in m[ref].items : in.filter[frame.id][x] # "undecided"
           /\ frame.got[k] = Part(in, m, frame.id, k)

Had(in, frame, j) == j < frame.at /\ in.needs[frame.id][j] \in Objects
HadFlag(in, m, frame, j) == ComponentFlag(in, m, in.needs[frame.id][j])
GotOfVariable(in, m, complete, frame) ==
  LET needs == in.needs[frame.id]
  IN  /\ frame.at <= Len(needs) + 1
      /\ \A j \in DOMAIN needs : j < frame.at => needs[j] \in complete \cup DOMAIN m
      /\ \A k \in DOMAIN frame.got : \E j \in DOMAIN needs :
           Had(in, frame, j) /\ frame.got[k] = HadFlag(in, m, frame, j)
      /\ \A j \in DOMAIN needs : Had(in, frame, j) =>
           \E k \in DOMAIN frame.got : frame.got[k] = HadFlag(in, m, frame, j)

GotOfFrame(in, m, complete, frame) ==
  /\ Processing(frame) => GotOfSet(in, m, frame)
  /\ frame.call = "Run" /\ frame.at # 2 => frame.got = <<>>
  /\ frame.call = "GetVariable" =>
       IF frame.at = 0 THEN frame.got = <<>> ELSE GotOfVariable(in, m, complete, frame)

GotIsMeant == \A i \in DOMAIN stack : GotOfFrame(input, Found, Complete, stack[i])

\* What is thrown says that what is waited for will never be there, and why.
ThrownFlag == IF ret.kind = "Exception" THEN "error" ELSE variableFlag[ret.variable]

ThrownIsMeant ==
  stack # <<>> /\ ret.kind \in Thrown =>
    \A call \in Calls, id \in Uses :
      Waits(input, Top, call, id) /\ call # "Run" => FailsAs(id, ThrownFlag)

-----------------------------------------------------------------------------
\* What is known of the meaning grows: nothing that is collected changes, and no more is
\* needed of it than what is collected.
Extends(more, m) ==
  DOMAIN m \subseteq DOMAIN more /\ \A o \in DOMAIN m : more[o] = m[o]

LEMMA ComponentFlagStays ==
  ASSUME NEW in, NEW m, NEW more, Extends(more, m), NEW need \in Variables \cup DOMAIN m
  PROVE  ComponentFlag(in, more, need) = ComponentFlag(in, m, need)
BY DEF ComponentFlag, Extends

LEMMA ComputedFlagStays ==
  ASSUME NEW in, NEW m, NEW more, Extends(more, m), NEW v,
         \A i \in DOMAIN in.needs[v] : in.needs[v][i] \in Variables \cup DOMAIN m
  PROVE  ComputedFlag(in, more, v) = ComputedFlag(in, m, v)
<1>1. \A i \in DOMAIN in.needs[v] :
        ComponentFlag(in, more, in.needs[v][i]) = ComponentFlag(in, m, in.needs[v][i])
  BY ComponentFlagStays
<1>2. [i \in DOMAIN in.needs[v] |-> ComponentFlag(in, more, in.needs[v][i])]
        = [i \in DOMAIN in.needs[v] |-> ComponentFlag(in, m, in.needs[v][i])]
  BY <1>1
<1> QED
  BY <1>2 DEF ComputedFlag

LEMMA PartStays ==
  ASSUME NEW in, NEW m, NEW more, Extends(more, m), NEW o, NEW i,
         in.references[o][i] \in DOMAIN m
  PROVE  Part(in, more, o, i) = Part(in, m, o, i)
BY DEF Part, Extends

LEMMA IsMeaningStays ==
  ASSUME NEW in, NEW m, NEW more, Extends(more, m), NEW o, NEW c,
         in.references[o] \in Seq(Objects),
         Len(in.references[o]) \in IF in.operator[o] = "none" THEN {0} ELSE {1, 2},
         IsMeaning(in, m, o, c)
  PROVE  IsMeaning(in, more, o, c)
<1>1. CASE in.operator[o] = "none"
  BY <1>1 DEF IsMeaning
<1>2. CASE in.operator[o] # "none" /\ Unclear(in, m, o)
  <2>1. Unclear(in, more, o)
    BY <1>2 DEF Unclear, Extends
  <2> QED
    BY <1>2, <2>1 DEF IsMeaning, SetMeaning
<1>3. CASE in.operator[o] # "none" /\ ~ Unclear(in, m, o)
  <2>1. \A i \in DOMAIN in.references[o] : in.references[o][i] \in DOMAIN m
    BY <1>3 DEF IsMeaning
  <2>2. ~ Unclear(in, more, o)
    BY <1>3, <2>1 DEF Unclear, Extends
  <2>3. \A i \in DOMAIN in.references[o] : Part(in, more, o, i) = Part(in, m, o, i)
    BY <2>1, PartStays
  <2>4. /\ Part(in, more, o, 1) = Part(in, m, o, 1)
        /\ Len(in.references[o]) # 1 => Part(in, more, o, 2) = Part(in, m, o, 2)
    BY <1>3, <2>3
  <2>5. SetMeaning(in, more, o) = SetMeaning(in, m, o)
    BY <1>3, <2>2, <2>4 DEF SetMeaning
  <2>6. \A i \in DOMAIN in.references[o] : in.references[o][i] \in DOMAIN more
    BY <2>1 DEF Extends
  <2> QED
    BY <1>3, <2>5, <2>6 DEF IsMeaning
<1> QED
  BY <1>1, <1>2, <1>3

LEMMA CompleteVariablesGrow ==
  ASSUME NEW in, NEW m, NEW more, Extends(more, m)
  PROVE  CompleteVariables(in, m) \subseteq CompleteVariables(in, more)
<1>1. ASSUME NEW complete \in SUBSET Variables, ClosedUnderComputing(in, more, complete)
      PROVE  ClosedUnderComputing(in, m, complete)
  <2> SUFFICES ASSUME NEW v \in Variables, ComputedFrom(in, m, complete, v)
               PROVE  ComputedFrom(in, more, complete, v)
    BY <1>1 DEF ClosedUnderComputing
  <2>1. ComputedFlag(in, more, v) = ComputedFlag(in, m, v)
    BY ComputedFlagStays DEF ComputedFrom
  <2> QED
    BY <2>1 DEF ComputedFrom, Extends
<1> QED
  BY <1>1 DEF CompleteVariables

\* What goes back to a variable goes back to it when more is complete or broken.
LEMMA StoppedGrows ==
  ASSUME NEW in, NEW complete, NEW more, complete \subseteq more,
         NEW broken, NEW others, broken \subseteq others, NEW u, NEW w,
         SurelyStoppedBy(in, complete, broken, u, w)
  PROVE  SurelyStoppedBy(in, more, others, u, w)
<1>1. There(in, complete) \subseteq There(in, more)
  BY ThereGrows
<1>2. Variables \ others \subseteq Variables \ broken
  OBVIOUS
<1>3. There(in, Variables \ others) \subseteq There(in, Variables \ broken)
  BY <1>2, ThereGrows
<1> QED
  BY <1>1, <1>3 DEF SurelyStoppedBy

LEMMA GoesBackGrows ==
  ASSUME NEW in, NEW complete, NEW more, complete \subseteq more,
         NEW broken, NEW others, broken \subseteq others, NEW o, NEW v,
         GoesBackTo(in, complete, broken, o, v)
  PROVE  GoesBackTo(in, more, others, o, v)
BY StoppedGrows DEF GoesBackTo

LEMMA GoesBackToItself ==
  ASSUME NEW in, NEW complete, NEW broken, NEW o
  PROVE  GoesBackTo(in, complete, broken, o, o)
BY DEF GoesBackTo

LEMMA GoesBackThrough ==
  ASSUME NEW in, NEW complete, NEW broken, NEW o, NEW w \in Uses, NEW v,
         SurelyStoppedBy(in, complete, broken, o, w),
         GoesBackTo(in, complete, broken, w, v)
  PROVE  GoesBackTo(in, complete, broken, o, v)
BY DEF GoesBackTo

-----------------------------------------------------------------------------
\* A step of a call: what is complete, broken or collected stays so.
Advances ==
  /\ input' = input
  /\ Complete \subseteq Complete' /\ Broken \subseteq Broken'
  /\ \A v \in Broken : BrokenFlag(v)' = BrokenFlag(v)
  /\ Extends(Found', Found)

LEMMA FailsStays ==
  ASSUME Advances, NEW use, NEW flag, FailsAs(use, flag)
  PROVE  FailsAs(use, flag)'
<1>1. Variables \ Broken' \subseteq Variables \ Broken
  BY DEF Advances
<1>2. use \notin There(input, Variables \ Broken')
  BY <1>1, ThereGrows DEF FailsAs
<1>3. PICK v \in Broken : /\ GoesBackTo(input, Complete, Broken, use, v)
                          /\ flag = BrokenFlag(v)
  BY DEF FailsAs
<1>4. GoesBackTo(input, Complete', Broken', use, v)
  BY <1>3, GoesBackGrows DEF Advances
<1>5. input' = input /\ v \in Broken' /\ flag = BrokenFlag(v)'
  BY <1>3 DEF Advances
<1> QED
  BY <1>2, <1>4, <1>5 DEF FailsAs

LEMMA ObjectStaysMeant ==
  ASSUME IInv, Advances, NEW o \in DOMAIN Found, ObjectIsMeant(o)
  PROVE  ObjectIsMeant(o)'
<1>1. Found'[o] = Found[o] /\ Extends(Found', Found) /\ input' = input
  BY DEF Advances, Extends
<1>2. o \in Objects
  BY DEF Found
<1>3. /\ input.references[o] \in Seq(Objects)
      /\ Len(input.references[o]) \in IF input.operator[o] = "none" THEN {0} ELSE {1, 2}
  BY <1>2, InputsAssumption DEF IInv, TypeOK, Input, WellFormed
<1>4. CASE o \in There(input, Complete) /\ IsMeaning(input, Found, o, Found[o])
  <2>1. o \in There(input, Complete')
    BY <1>4, ThereGrows DEF Advances
  <2>2. IsMeaning(input, Found', o, Found[o])
    BY <1>1, <1>3, <1>4, IsMeaningStays
  <2> QED
    BY <1>1, <2>1, <2>2 DEF ObjectIsMeant
<1>5. CASE Found[o].items = {} /\ FailsAs(o, Found[o].flag)
  <2>1. PICK flag : flag = Found[o].flag
    OBVIOUS
  <2>2. FailsAs(o, flag)'
    BY <1>5, <2>1, FailsStays
  <2> QED
    BY <1>1, <1>5, <2>1, <2>2 DEF ObjectIsMeant
<1> QED
  BY <1>4, <1>5 DEF ObjectIsMeant

-----------------------------------------------------------------------------
\* A lost computation stays lost: what was returned is thrown on, or becomes an error
\* among what the computation got.
LEMMA FailedKinds ==
  ~ NoReturn.kind \in Thrown \cup {"object"} /\ ~ Done.kind \in Thrown \cup {"object"}
BY GoodReturns DEF Thrown

LEMMA LostPushes ==
  ASSUME IInv, NEW frame, NEW callee, PushStep(frame, callee), NEW i \in DOMAIN stack, Lost(i)
  PROVE  Lost(i)'
<1> DEFINE n == Len(stack)
<1>1. /\ stack \in Seq(Frames) /\ stack # <<>> /\ ret = NoReturn
      /\ frame = Top \/ Top.call = "Run"
  BY DEF IInv, TypeOK, PushStep
<1>2. /\ \A j \in 1..(n - 1) : stack'[j] = stack[j]
      /\ stack'[n] = frame
      /\ DOMAIN stack' = 1..(n + 1) /\ DOMAIN stack = 1..n /\ n \in Nat
  BY <1>1, Called DEF PushStep
<1>3. Top = stack[n]
  BY DEF Top
<1> HIDE DEF n
<1>4. ~ FailedReturn
  BY <1>1, FailedKinds DEF FailedReturn
<1>5. PICK j \in DOMAIN stack : j >= i /\ HasError(stack[j])
  BY <1>4 DEF Lost
<1>6. j \in DOMAIN stack' /\ stack'[j] = stack[j]
  <2>1. j = n => frame = Top
    BY <1>1, <1>3, <1>5 DEF HasError
  <2> QED
    BY <1>2, <1>3, <2>1
<1> QED
  BY <1>5, <1>6 DEF Lost

LEMMA LostContinues ==
  ASSUME IInv, NEW frame, ContinueStep(frame),
         HasError(Top) => HasError(frame),
         FailedReturn => HasError(frame) \/ Processing(Top),
         NEW i \in DOMAIN stack, Computing(i), Lost(i)
  PROVE  Lost(i)'
<1> DEFINE n == Len(stack)
<1>1. stack \in Seq(Frames) /\ stack # <<>> /\ frame \in Frames
  BY DEF IInv, TypeOK, ContinueStep
<1>2. /\ \A j \in 1..(n - 1) : stack'[j] = stack[j]
      /\ stack'[n] = frame
      /\ DOMAIN stack' = 1..n /\ DOMAIN stack = 1..n /\ n \in Nat /\ n >= 1
  BY <1>1, Continued DEF ContinueStep
<1>3. Top = stack[n]
  BY DEF Top
<1> HIDE DEF n
<1>4. CASE \E j \in DOMAIN stack : j >= i /\ HasError(stack[j])
  <2>1. PICK j \in DOMAIN stack : j >= i /\ HasError(stack[j])
    BY <1>4
  <2>2. j \in DOMAIN stack' /\ HasError(stack'[j])
    BY <1>2, <1>3, <2>1
  <2> QED
    BY <2>1, <2>2 DEF Lost
<1>5. CASE FailedReturn /\ \A m \in DOMAIN stack : m > i => ~ Processing(stack[m])
  <2>1. n \in DOMAIN stack /\ n >= i
    BY <1>2
  <2>2. ~ Processing(Top)
    BY <1>2, <1>3, <1>5, <2>1 DEF Computing, Processing
  <2>3. HasError(stack'[n]) /\ n \in DOMAIN stack'
    BY <1>2, <1>5, <2>2
  <2> QED
    BY <2>1, <2>3 DEF Lost
<1> QED
  BY <1>4, <1>5 DEF Lost

LEMMA LostPops ==
  ASSUME IInv, stack # <<>>, Return,
         FailedReturn => FailedReturn' \/ Processing(Top),
         HasError(Top) =>
           FailedReturn' /\ \A m \in DOMAIN stack : m < Len(stack) => ~ Processing(stack[m]),
         NEW i \in DOMAIN stack', Lost(i)
  PROVE  Lost(i)'
<1> DEFINE n == Len(stack)
<1>1. stack \in Seq(Frames)
  BY DEF IInv, TypeOK
<1>2. /\ n \in Nat /\ n >= 1
      /\ \A j \in 1..(n - 1) : stack'[j] = stack[j]
      /\ DOMAIN stack' = 1..(n - 1) /\ DOMAIN stack = 1..n
  BY <1>1, Popped
<1>3. Top = stack[n]
  BY DEF Top
<1>4. HasError(Top) =>
        FailedReturn' /\ \A m \in DOMAIN stack : m < n => ~ Processing(stack[m])
  OBVIOUS
<1> HIDE DEF n
<1>5. CASE \E j \in DOMAIN stack : j >= i /\ HasError(stack[j])
  <2>1. PICK j \in DOMAIN stack : j >= i /\ HasError(stack[j])
    BY <1>5
  <2>2. CASE j = n
    <3>1. FailedReturn' /\ \A m \in DOMAIN stack' : ~ Processing(stack'[m])
      BY <1>2, <1>3, <1>4, <2>1, <2>2
    <3> QED
      BY <3>1 DEF Lost
  <2>3. CASE j # n
    <3>1. j \in DOMAIN stack' /\ stack'[j] = stack[j]
      BY <1>2, <2>3
    <3> QED
      BY <2>1, <3>1 DEF Lost
  <2> QED
    BY <2>2, <2>3
<1>6. CASE FailedReturn /\ \A m \in DOMAIN stack : m > i => ~ Processing(stack[m])
  <2>1. n \in DOMAIN stack /\ n > i
    BY <1>2
  <2>2. FailedReturn'
    BY <1>3, <1>6, <2>1
  <2>3. \A m \in DOMAIN stack' : m > i => ~ Processing(stack'[m])
    BY <1>2, <1>6
  <2> QED
    BY <2>2, <2>3 DEF Lost
<1> QED
  BY <1>5, <1>6 DEF Lost

\* So does a broken variable, when its flag does not change and nobody starts to compute
\* it again.
LEMMA BrokenStays ==
  ASSUME input' = input,
         \A v \in Broken : input.own[v] # "undefined" => variableFlag'[v] = variableFlag[v],
         \A i \in DOMAIN stack' : Computing(i)' =>
           \/ variableFlag[stack'[i].id] = "absent"
           \/ i \in DOMAIN stack /\ Computing(i) /\ stack'[i].id = stack[i].id,
         \A i \in DOMAIN stack' : i \in DOMAIN stack /\ Computing(i) /\ Lost(i) => Lost(i)'
  PROVE  Broken \subseteq Broken' /\ \A v \in Broken : BrokenFlag(v)' = BrokenFlag(v)
<1> SUFFICES ASSUME NEW v \in Broken
             PROVE  v \in Broken' /\ BrokenFlag(v)' = BrokenFlag(v)
  OBVIOUS
<1>1. CASE input.own[v] = "undefined"
  BY <1>1 DEF Broken, BrokenFlag
<1>2. CASE input.own[v] # "undefined"
  <2>1. /\ v \in Variables /\ variableFlag[v] \notin {"absent", "complete"}
        /\ variableFlag'[v] = variableFlag[v]
        /\ \A i \in DOMAIN stack : Computing(i) /\ stack[i].id = v => Lost(i)
    BY <1>2 DEF Broken
  <2>2. ASSUME NEW i \in DOMAIN stack', Computing(i)', stack'[i].id = v
        PROVE  Lost(i)'
    <3>1. i \in DOMAIN stack /\ Computing(i) /\ stack[i].id = v
      BY <2>1, <2>2
    <3> QED
      BY <2>1, <3>1
  <2>3. v \in Broken'
    BY <2>1, <2>2 DEF Broken
  <2> QED
    BY <1>2, <2>1, <2>3 DEF BrokenFlag
<1> QED
  BY <1>1, <1>2

-----------------------------------------------------------------------------
\* Every step of a call advances.
LEMMA FoundGrows ==
  ASSUME IInv, Next, stack # <<>> PROVE Extends(Found', Found)
BY CallsLeaveTheLoop DEF Found, Extends

LEMMA CompleteGrows ==
  ASSUME IInv, Next, stack # <<>> PROVE Complete \subseteq Complete'
BY StepGrows DEF Complete, CompleteIn, Grows

\* The last call goes on, and is not less lost.
GoesOn(frame) ==
  /\ ContinueStep(frame)
  /\ HasError(Top) => HasError(frame)
  /\ FailedReturn => HasError(frame) \/ Processing(Top)
  /\ frame.call = "GetVariable" =>
       frame.at >= 1 /\ (Top.at >= 1 \/ variableFlag[Top.id] = "absent")

LEMMA EmptyIsAnError ==
  ASSUME NEW object, NEW field, object.items = {}
  PROVE  ObjectComponentFlag(object, field) = "error"
BY DEF ObjectComponentFlag

LEMMA StepsGoOn ==
  ASSUME IInv, Shape,
         \/ ParseContinues \/ CacheVariable \/ VariableComponentReturns
         \/ ObjectComponentReturns \/ RunProcesses
         \/ (FilterReference /\ ~ CreateError("error"))
  PROVE  \E frame : GoesOn(frame)
<1>1. CASE ParseContinues
  <2>1. PICK frame \in ParseFrames : ContinueStep(frame) /\ frame.call = "Parse"
    BY <1>1, ParseContinueMoves
  <2>2. Top.call = "Parse" /\ ret = Done
    BY <1>1 DEF ParseContinues, In
  <2>3. ~ HasError(Top) /\ ~ FailedReturn
    BY <2>2, FailedKinds DEF HasError, FailedReturn
  <2> QED
    BY <2>1, <2>3 DEF GoesOn
<1>2. CASE CacheVariable
  <2>1. PICK frame \in VariableFrames :
          ContinueStep(frame) /\ frame.call = "GetVariable" /\ frame.at = 1
    BY <1>2, CacheMoves
  <2>2. stack # <<>> /\ Top.call = "GetVariable" /\ Top.at = 0 /\ variableFlag[Top.id] = "absent"
    BY <1>2 DEF CacheVariable, In
  <2>3. ret = NoReturn
    BY <2>2, NothingReturned
  <2>4. ~ HasError(Top) /\ ~ FailedReturn
    BY <2>2, <2>3, FailedKinds DEF HasError, FailedReturn
  <2> QED
    BY <2>1, <2>2, <2>4 DEF GoesOn
<1>3. CASE VariableComponentReturns
  <2>1. PICK frame \in VariableFrames :
          /\ ContinueStep(frame) /\ frame.call = "GetVariable"
          /\ frame.at = Top.at + 1 /\ frame.got = Top.got
    BY <1>3, ComponentMoves
  <2>2. Top.at \in Nat /\ Top.at >= 1 /\ ret = Done
    BY <1>3, TopComputing DEF VariableComponentReturns
  <2>3. ~ FailedReturn
    BY <2>2, FailedKinds DEF FailedReturn
  <2>4. HasError(Top) => HasError(frame)
    BY <2>1, <2>2 DEF HasError
  <2> QED
    BY <2>1, <2>2, <2>3, <2>4 DEF GoesOn
<1>4. CASE ObjectComponentReturns
  <2> DEFINE flag == ObjectComponentFlag(ret.object, input.field[ret.id])
  <2>1. PICK frame \in VariableFrames :
          /\ ContinueStep(frame) /\ frame.call = "GetVariable"
          /\ frame.at = Top.at + 1 /\ frame.got = Append(Top.got, flag)
    BY <1>4, ObjectMoves
  <2>2. Top.at \in Nat /\ Top.at >= 1 /\ Top.got \in Seq(Flags) /\ ret.kind = "object"
    BY <1>4, TopComputing DEF ObjectComponentReturns
  <2>3. FailedReturn => flag = "error"
    BY <2>2, EmptyIsAnError DEF FailedReturn, Thrown
  <2> HIDE DEF flag
  <2>4. /\ \A k \in DOMAIN Top.got : k \in DOMAIN frame.got /\ frame.got[k] = Top.got[k]
        /\ Len(Top.got) + 1 \in DOMAIN frame.got /\ frame.got[Len(Top.got) + 1] = flag
    BY <2>1, <2>2
  <2>5. HasError(Top) => HasError(frame)
    BY <2>1, <2>2, <2>4 DEF HasError
  <2>6. FailedReturn => HasError(frame)
    BY <2>1, <2>2, <2>3, <2>4 DEF HasError
  <2> QED
    BY <2>1, <2>2, <2>5, <2>6 DEF GoesOn
<1>5. CASE RunProcesses
  <2>1. PICK frame \in RunFrames : ContinueStep(frame) /\ frame.call = "Run" /\ frame.at = 2
    BY <1>5, ProcessMoves
  <2>2. Top.call = "Run" /\ ret = Done
    BY <1>5 DEF RunProcesses, In
  <2>3. ~ HasError(Top) /\ ~ FailedReturn
    BY <2>2, FailedKinds DEF HasError, FailedReturn
  <2> QED
    BY <2>1, <2>3 DEF GoesOn
<1>6. CASE FilterReference /\ ~ CreateError("error")
  <2>1. PICK frame \in RunFrames : ContinueStep(frame) /\ frame.call = "Run" /\ frame.at = 2
    BY <1>6, FilterMoves
  <2>2. ~ HasError(Top) /\ Processing(Top)
    BY <1>6 DEF FilterReference, In, HasError, Processing
  <2> QED
    BY <2>1, <2>2 DEF GoesOn
<1> QED
  BY <1>1, <1>2, <1>3, <1>4, <1>5, <1>6

\* The last call returns, and what it failed with is returned.
FailsOn ==
  /\ stack # <<>> /\ Return
  /\ FailedReturn => FailedReturn' \/ Processing(Top)
  /\ HasError(Top) =>
       FailedReturn' /\ \A m \in DOMAIN stack : m < Len(stack) => ~ Processing(stack[m])

LEMMA ThrownFails ==
  ASSUME ret.kind \in Thrown PROVE FailedReturn
BY DEF FailedReturn

LEMMA NotDoneIsThrown ==
  ASSUME IInv, Shape, HasError(Top), ComputeVariable
  PROVE  ret'.kind \in Thrown
<1>1. ret' # Done
  BY ErrorIsThrown, GoodReturns DEF BadReturn
<1> QED
  BY <1>1, VariableReturns

LEMMA ComputingStands ==
  ASSUME IInv, Known, In("GetVariable"), Top.at >= 1
  PROVE  \A m \in DOMAIN stack : m < Len(stack) => ~ Processing(stack[m])
<1>1. /\ Len(stack) \in DOMAIN stack /\ Top = stack[Len(stack)]
      /\ Top.call = "GetVariable" /\ Top.at \in Nat
  BY TopComputing DEF Top
<1> QED
  BY <1>1 DEF Known, SettledAbove, CalleeIsReady

LEMMA StepsFailOn ==
  ASSUME IInv, Shape, Known,
         \/ ParseEnds \/ ParseFails \/ GetCachedVariable \/ UndefinedVariable
         \/ ComputeVariable \/ VariableFails \/ RunFromCache \/ RunCatchesVariable
         \/ RunCatchesException \/ ProcessObject \/ ProcessSetObject
         \/ (FilterReference /\ CreateError("error"))
  PROVE  FailsOn
<1>1. stack # <<>> /\ Return
  BY ParsePops, VariablePops, RunPops DEF PopStep
<1>2. CASE ParseEnds
  <2>1. Top.call = "Parse" /\ ret = NoReturn
    BY <1>2 DEF ParseEnds, In
  <2> QED
    BY <1>1, <2>1, FailedKinds DEF FailsOn, HasError, FailedReturn
<1>3. CASE ParseFails
  <2>1. Top.call = "Parse" /\ ret' = ret /\ ret.kind \in Thrown
    BY <1>3 DEF ParseFails, In, Unwind
  <2> QED
    BY <1>1, <2>1 DEF FailsOn, HasError, FailedReturn
<1>4. CASE GetCachedVariable \/ UndefinedVariable \/ RunFromCache
  <2>1. Top.call # "Parse" /\ Top.at = 0
    BY <1>4 DEF GetCachedVariable, UndefinedVariable, RunFromCache, In
  <2>2. ret = NoReturn
    BY <1>1, <2>1, NothingReturned
  <2> QED
    BY <1>1, <2>1, <2>2, FailedKinds DEF FailsOn, HasError, FailedReturn
<1>5. CASE ComputeVariable
  <2>1. In("GetVariable") /\ Top.at >= 1 /\ ret = NoReturn
    BY <1>5, TopComputing DEF ComputeVariable
  <2>2. ~ FailedReturn
    BY <2>1, FailedKinds DEF FailedReturn
  <2>3. HasError(Top) => FailedReturn'
    BY <1>5, NotDoneIsThrown DEF FailedReturn
  <2> QED
    BY <1>1, <2>1, <2>2, <2>3, ComputingStands DEF FailsOn
<1>6. CASE VariableFails
  <2>1. In("GetVariable") /\ ret' = ret /\ ret.kind \in Thrown
    BY <1>6 DEF VariableFails, Unwind
  <2>2. FailedReturn'
    BY <2>1 DEF FailedReturn
  <2>3. HasError(Top) => Top.at >= 1
    BY DEF HasError
  <2> QED
    BY <1>1, <2>1, <2>2, <2>3, ComputingStands DEF FailsOn
<1>7. CASE RunCatchesVariable \/ RunCatchesException
  <2>1. Top.call = "Run" /\ \E flag : ret' = ReturnObject(Top.id, [flag |-> flag, items |-> {}])
    BY <1>7 DEF RunCatchesVariable, RunCatchesException, CreateError, Create, In
  <2>2. FailedReturn'
    BY <2>1 DEF ReturnObject, FailedReturn
  <2> QED
    BY <1>1, <2>1, <2>2 DEF FailsOn, HasError
<1>8. CASE ProcessObject \/ ProcessSetObject \/ (FilterReference /\ CreateError("error"))
  <2>1. In("Run") /\ Top.at = 2
    BY <1>8, ProcessingCreates DEF FilterReference
  <2> QED
    BY <1>1, <2>1 DEF FailsOn, HasError, Processing, In
<1> QED
  BY <1>2, <1>3, <1>4, <1>5, <1>6, <1>7, <1>8

LEMMA PushKeepsBroken ==
  ASSUME IInv, NEW frame, NEW callee, PushStep(frame, callee)
  PROVE  Broken \subseteq Broken' /\ \A v \in Broken : BrokenFlag(v)' = BrokenFlag(v)
<1> DEFINE n == Len(stack)
<1>1. /\ stack \in Seq(Frames) /\ stack # <<>> /\ UNCHANGED <<input, variableFlag>>
      /\ frame = Top \/ Top.call = "Run"
      /\ frame.call = Top.call /\ callee.at = 0
  BY DEF IInv, TypeOK, PushStep
<1>2. /\ \A j \in 1..(n - 1) : stack'[j] = stack[j]
      /\ stack'[n] = frame /\ stack'[n + 1] = callee
      /\ DOMAIN stack' = 1..(n + 1) /\ DOMAIN stack = 1..n /\ n \in Nat /\ n >= 1
  BY <1>1, Called DEF PushStep
<1>3. Top = stack[n]
  BY DEF Top
<1> HIDE DEF n
<1>4. ASSUME NEW i \in DOMAIN stack', Computing(i)'
      PROVE  i \in DOMAIN stack /\ Computing(i) /\ stack'[i].id = stack[i].id
  <2>1. i # n + 1
    BY <1>1, <1>2, <1>4 DEF Computing
  <2>2. i = n => frame = Top
    BY <1>1, <1>2, <1>4 DEF Computing
  <2>3. i \in DOMAIN stack /\ stack'[i] = stack[i]
    BY <1>2, <1>3, <2>1, <2>2
  <2> QED
    BY <1>4, <2>3 DEF Computing
<1>5. \A i \in DOMAIN stack : Lost(i) => Lost(i)'
  BY LostPushes
<1> QED
  BY <1>1, <1>4, <1>5, BrokenStays

LEMMA GoingOnKeepsBroken ==
  ASSUME IInv, NEW frame, GoesOn(frame), variableFlag' = variableFlag \/ CacheVariable
  PROVE  Broken \subseteq Broken' /\ \A v \in Broken : BrokenFlag(v)' = BrokenFlag(v)
<1> DEFINE n == Len(stack)
<1>1. /\ stack \in Seq(Frames) /\ stack # <<>> /\ input' = input /\ frame \in Frames
      /\ frame.call = Top.call /\ frame.id = Top.id
      /\ frame.call = "GetVariable" => Top.at >= 1 \/ variableFlag[Top.id] = "absent"
  BY DEF IInv, TypeOK, GoesOn, ContinueStep
<1>2. /\ \A j \in 1..(n - 1) : stack'[j] = stack[j]
      /\ stack'[n] = frame
      /\ DOMAIN stack' = 1..n /\ DOMAIN stack = 1..n /\ n \in Nat /\ n >= 1
  BY <1>1, Continued DEF GoesOn, ContinueStep
<1>3. Top = stack[n]
  BY DEF Top
<1> HIDE DEF n
<1>4. ASSUME NEW i \in DOMAIN stack', Computing(i)'
      PROVE  \/ variableFlag[stack'[i].id] = "absent"
             \/ i \in DOMAIN stack /\ Computing(i) /\ stack'[i].id = stack[i].id
  <2>1. CASE i = n
    BY <1>1, <1>2, <1>3, <1>4, <2>1 DEF Computing
  <2>2. CASE i # n
    <3>1. i \in DOMAIN stack /\ stack'[i] = stack[i]
      BY <1>2, <2>2
    <3> QED
      BY <1>4, <3>1 DEF Computing
  <2> QED
    BY <2>1, <2>2
<1>5. \A i \in DOMAIN stack : Computing(i) /\ Lost(i) => Lost(i)'
  BY LostContinues DEF GoesOn
<1>6. \A v \in Broken : input.own[v] # "undefined" => variableFlag'[v] = variableFlag[v]
  <2> SUFFICES ASSUME CacheVariable,
                      NEW v \in Broken, input.own[v] # "undefined"
               PROVE  variableFlag'[v] = variableFlag[v]
    OBVIOUS
  <2>1. /\ variableFlag[Top.id] = "absent"
        /\ variableFlag' = [variableFlag EXCEPT ![Top.id] = InitialFlag]
    BY DEF CacheVariable
  <2>2. v \in Variables /\ variableFlag[v] # "absent"
    BY DEF Broken
  <2> QED
    BY <2>1, <2>2 DEF IInv, TypeOK
<1> QED
  BY <1>1, <1>4, <1>5, <1>6, BrokenStays

\* The flag of a variable that is computed, when it is lost already.
LEMMA LostIsAnError ==
  ASSUME IInv, Shape, ComputeVariable, Lost(Len(stack))
  PROVE  variableFlag' = variableFlag
<1>1. /\ stack # <<>> /\ stack \in Seq(Frames) /\ Top.id \in Variables /\ ret = NoReturn
      /\ In("GetVariable") /\ Top.at \in Nat /\ Top.at >= 1 /\ Top.got \in Seq(Flags)
      /\ variableFlag \in [Variables -> Flags \cup {"absent"}]
  BY TopComputing DEF ComputeVariable, IInv, TypeOK
<1>2. variableFlag[Top.id] = "error"
  BY <1>1, TopIsUnfinished
<1>3. ~ FailedReturn
  BY <1>1, FailedKinds DEF FailedReturn
<1>4. HasError(Top)
  <2>1. PICK j \in DOMAIN stack : j >= Len(stack) /\ HasError(stack[j])
    BY <1>3 DEF Lost
  <2>2. j = Len(stack)
    BY <1>1, <2>1
  <2> QED
    BY <2>1, <2>2 DEF Top
<1>5. PICK k \in DOMAIN Top.got : Top.got[k] = "error"
  BY <1>4 DEF HasError
<1> DEFINE all == <<input.own[Top.id]>> \o Top.got
<1>6. k + 1 \in DOMAIN all /\ all[k + 1] = "error"
  BY <1>1, <1>5, OwnThenGot
<1>7. variableFlag' = variableFlag \/ variableFlag' = [variableFlag EXCEPT ![Top.id] = CombineFlags(all)]
  BY DEF ComputeVariable
<1> HIDE DEF all
<1>8. CombineFlags(all) = "error"
  BY <1>6 DEF CombineFlags, Occurring
<1> QED
  BY <1>1, <1>2, <1>7, <1>8

LEMMA FailingOnKeepsBroken ==
  ASSUME IInv, Shape, FailsOn, input' = input, variableFlag' = variableFlag \/ ComputeVariable
  PROVE  Broken \subseteq Broken' /\ \A v \in Broken : BrokenFlag(v)' = BrokenFlag(v)
<1> DEFINE n == Len(stack)
<1>1. stack \in Seq(Frames) /\ stack # <<>> /\ Return
  BY DEF IInv, TypeOK, FailsOn
<1>2. /\ \A j \in 1..(n - 1) : stack'[j] = stack[j]
      /\ DOMAIN stack' = 1..(n - 1) /\ DOMAIN stack = 1..n /\ n \in Nat /\ n >= 1
  BY <1>1, Popped
<1>3. Top = stack[n]
  BY DEF Top
<1>4. \A i \in DOMAIN stack' : Lost(i) => Lost(i)'
  BY LostPops DEF FailsOn
<1>5. \A v \in Broken : input.own[v] # "undefined" => variableFlag'[v] = variableFlag[v]
  <2> SUFFICES ASSUME ComputeVariable, NEW v \in Broken, input.own[v] # "undefined"
               PROVE  variableFlag'[v] = variableFlag[v]
    OBVIOUS
  <2>1. CASE v = Top.id
    <3>1. In("GetVariable") /\ Top.at >= 1
      BY TopComputing DEF ComputeVariable
    <3>2. Computing(n) /\ n \in DOMAIN stack /\ stack[n].id = v
      BY <1>2, <1>3, <2>1, <3>1 DEF Computing, In
    <3>3. Lost(n)
      BY <3>2 DEF Broken
    <3> QED
      BY <3>3, LostIsAnError
  <2>2. CASE v # Top.id
    BY <2>2 DEF ComputeVariable, IInv, TypeOK, Broken
  <2> QED
    BY <2>1, <2>2
<1> HIDE DEF n
<1>6. \A i \in DOMAIN stack' : Computing(i)' =>
        i \in DOMAIN stack /\ Computing(i) /\ stack'[i].id = stack[i].id
  BY <1>2 DEF Computing
<1> QED
  BY <1>4, <1>5, <1>6, BrokenStays

LEMMA StepAdvances ==
  ASSUME IInv, Shape, Known, Next, stack # <<>> PROVE Advances
<1>1. /\ input' = input /\ Complete \subseteq Complete' /\ Extends(Found', Found)
  BY CallsLeaveTheLoop, CompleteGrows, FoundGrows
<1> SUFFICES Broken \subseteq Broken' /\ \A v \in Broken : BrokenFlag(v)' = BrokenFlag(v)
  BY <1>1 DEF Advances
<1>2. CASE ParseNext \/ ComputeComponent \/ CollectReference \/ RunParses
  BY <1>2, Pushes, PushKeepsBroken
<1>3. CASE \/ ParseContinues \/ CacheVariable \/ VariableComponentReturns
           \/ ObjectComponentReturns \/ RunProcesses
           \/ (FilterReference /\ ~ CreateError("error"))
  <2>1. variableFlag' = variableFlag \/ CacheVariable
    BY <1>3 DEF ParseContinues, VariableComponentReturns, ObjectComponentReturns,
       RunProcesses, FilterReference
  <2> QED
    BY <1>3, <2>1, StepsGoOn, GoingOnKeepsBroken
<1>4. CASE \/ ParseEnds \/ ParseFails \/ GetCachedVariable \/ UndefinedVariable
           \/ ComputeVariable \/ VariableFails \/ RunFromCache \/ RunCatchesVariable
           \/ RunCatchesException \/ ProcessObject \/ ProcessSetObject
           \/ (FilterReference /\ CreateError("error"))
  <2>1. variableFlag' = variableFlag \/ ComputeVariable
    BY <1>4, RunPops DEF ParseEnds, ParseFails, GetCachedVariable, UndefinedVariable,
       VariableFails, Unwind
  <2> QED
    BY <1>1, <1>4, <2>1, StepsFailOn, FailingOnKeepsBroken
<1>5. ~ RunObject /\ ~ WriteCollectedObjects
  BY DEF RunObject, WriteCollectedObjects
<1> QED
  BY <1>2, <1>3, <1>4, <1>5 DEF Next, ParseStep, VariableStep, RunStep

-----------------------------------------------------------------------------
\* A variable without an element is not cached.
LEMMA UncachedStays ==
  ASSUME IInv, UndefinedIsUncached, Next PROVE UndefinedIsUncached'
<1>0. variableFlag \in [Variables -> Flags \cup {"absent"}]
  BY DEF IInv, TypeOK
<1>1. CASE CacheVariable
  BY <1>0, <1>1 DEF CacheVariable, UndefinedIsUncached
<1>2. CASE ComputeVariable
  <2>1. Top.id \in Variables /\ In("GetVariable") /\ Top.at >= 1
    BY <1>2, TopComputing DEF ComputeVariable
  <2>2. variableFlag[Top.id] = "error"
    BY <2>1, TopIsUnfinished
  <2>3. /\ input' = input
        /\ variableFlag' = variableFlag
           \/ \E flag : variableFlag' = [variableFlag EXCEPT ![Top.id] = flag]
    BY <1>2 DEF ComputeVariable
  <2> QED
    BY <1>0, <2>1, <2>2, <2>3 DEF UndefinedIsUncached
<1>3. CASE WriteCollectedObjects
  BY <1>3 DEF WriteCollectedObjects, UndefinedIsUncached
<1>4. CASE UNCHANGED <<input, variableFlag>>
  BY <1>4 DEF UndefinedIsUncached
<1>5. CASE ProcessObject \/ ProcessSetObject
  BY <1>4, <1>5, RunPops DEF PopStep
<1> QED
  BY <1>1, <1>2, <1>3, <1>4, <1>5 DEF Next, ParseStep, VariableStep, RunStep, RunObject,
     ParseNext, ParseContinues, ParseEnds, ParseFails, GetCachedVariable, UndefinedVariable,
     ComputeComponent, VariableComponentReturns, ObjectComponentReturns, VariableFails,
     RunFromCache, RunParses, RunCatchesVariable, RunCatchesException, RunProcesses,
     CollectReference, FilterReference, Unwind, CreateError, Create

-----------------------------------------------------------------------------
\* What was asked for is what is got.
LEMMA AskedPushes ==
  ASSUME IInv, GetsWhatItAskedFor, NEW frame, NEW callee, PushStep(frame, callee)
  PROVE  GetsWhatItAskedFor'
<1> DEFINE n == Len(stack)
<1>1. /\ stack \in Seq(Frames) /\ stack # <<>> /\ ret' = NoReturn /\ input' = input
      /\ frame.id = Top.id
      /\ Processing(frame) => AsksFor(input, frame, callee.id)
  BY DEF IInv, TypeOK, PushStep, Processing
<1>2. /\ \A j \in 1..(n - 1) : stack'[j] = stack[j]
      /\ stack'[n] = frame /\ stack'[n + 1] = callee
      /\ Len(stack') = n + 1 /\ n \in Nat /\ n >= 1
  BY <1>1, Called DEF PushStep
<1>3. Top = stack[n]
  BY DEF Top
<1> HIDE DEF n
<1>4. ASSUME NEW i \in 1..(Len(stack') - 1), Processing(stack'[i])
      PROVE  AsksFor(input, stack'[i], stack'[i + 1].id)
  <2>1. CASE i = n
    BY <1>1, <1>2, <1>4, <2>1
  <2>2. CASE i # n
    <3>1. i \in 1..(n - 1) /\ stack'[i] = stack[i]
      BY <1>2, <2>2
    <3>2. stack'[i + 1].id = stack[i + 1].id
      <4>1. CASE i + 1 = n
        BY <1>1, <1>2, <1>3, <4>1
      <4>2. CASE i + 1 # n
        BY <1>2, <3>1, <4>2
      <4> QED
        BY <4>1, <4>2
    <3> QED
      BY <1>4, <3>1, <3>2 DEF GetsWhatItAskedFor, n
  <2> QED
    BY <2>1, <2>2
<1> QED
  BY <1>1, <1>4, FailedKinds DEF GetsWhatItAskedFor

LEMMA AskedContinues ==
  ASSUME IInv, GetsWhatItAskedFor, NEW frame, ContinueStep(frame)
  PROVE  GetsWhatItAskedFor'
<1> DEFINE n == Len(stack)
<1>1. /\ stack \in Seq(Frames) /\ stack # <<>> /\ ret' = NoReturn /\ input' = input
      /\ frame.id = Top.id
  BY DEF IInv, TypeOK, ContinueStep
<1>2. /\ \A j \in 1..(n - 1) : stack'[j] = stack[j]
      /\ stack'[n] = frame
      /\ Len(stack') = n /\ n \in Nat /\ n >= 1
  BY <1>1, Continued DEF ContinueStep
<1>3. Top = stack[n]
  BY DEF Top
<1> HIDE DEF n
<1>4. ASSUME NEW i \in 1..(Len(stack') - 1), Processing(stack'[i])
      PROVE  AsksFor(input, stack'[i], stack'[i + 1].id)
  <2>1. i \in 1..(n - 1) /\ stack'[i] = stack[i]
    BY <1>2
  <2>2. stack'[i + 1].id = stack[i + 1].id
    <3>1. CASE i + 1 = n
      BY <1>1, <1>2, <1>3, <3>1
    <3>2. CASE i + 1 # n
      BY <1>2, <2>1, <3>2
    <3> QED
      BY <3>1, <3>2
  <2> QED
    BY <1>4, <2>1, <2>2 DEF GetsWhatItAskedFor, n
<1> QED
  BY <1>1, <1>4, FailedKinds DEF GetsWhatItAskedFor

LEMMA AskedPops ==
  ASSUME IInv, Shape, GetsWhatItAskedFor, PopStep, ret'.kind = "object" => ret'.id = Top.id
  PROVE  GetsWhatItAskedFor'
<1> DEFINE n == Len(stack)
<1>1. /\ stack \in Seq(Frames) /\ stack # <<>> /\ input' = input /\ Return
      /\ ret'.kind = "object" => Top.call = "Run"
  BY DEF IInv, TypeOK, PopStep
<1>2. /\ \A j \in 1..(n - 1) : stack'[j] = stack[j]
      /\ Len(stack') = n - 1 /\ n \in Nat /\ n >= 1
      /\ stack' # <<>> => n >= 2 /\ Top' = stack[n - 1]
  BY <1>1, Popped
<1>3. Top = stack[n]
  BY DEF Top
<1> HIDE DEF n
<1>4. ASSUME NEW i \in 1..(Len(stack') - 1), Processing(stack'[i])
      PROVE  AsksFor(input, stack'[i], stack'[i + 1].id)
  <2>1. i \in 1..(n - 1) /\ stack'[i] = stack[i] /\ stack'[i + 1] = stack[i + 1]
    BY <1>2
  <2> QED
    BY <1>4, <2>1 DEF GetsWhatItAskedFor, n
<1>5. ASSUME stack' # <<>>, ret'.kind = "object"
      PROVE  /\ Processing(Top') => AsksFor(input, Top', ret'.id)
             /\ Top'.call = "GetVariable" => ret'.id = input.needs[Top'.id][Top'.at]
  <2>1. n - 1 \in 1..(n - 1) /\ n - 1 + 1 = n /\ Top' = stack[n - 1]
    BY <1>2, <1>5
  <2>2. Processing(Top') => AsksFor(input, Top', Top.id)
    BY <1>3, <2>1 DEF GetsWhatItAskedFor, n
  <2>3. Waits(input, Top', Top.call, Top.id)
    BY <1>3, <2>1 DEF Shape, Linked, n
  <2>4. Top'.call = "GetVariable" => Top.id = input.needs[Top'.id][Top'.at]
    BY <2>3 DEF Waits
  <2> QED
    BY <1>5, <2>2, <2>4
<1> QED
  BY <1>1, <1>4, <1>5 DEF GetsWhatItAskedFor

LEMMA ReturnsItsOwn ==
  ASSUME IInv,
         \/ ParseEnds \/ ParseFails \/ GetCachedVariable \/ UndefinedVariable
         \/ ComputeVariable \/ VariableFails \/ RunFromCache \/ RunCatchesVariable
         \/ RunCatchesException \/ ProcessObject \/ ProcessSetObject
         \/ (FilterReference /\ CreateError("error"))
  PROVE  PopStep /\ (ret'.kind = "object" => ret'.id = Top.id)
<1>1. CASE ParseEnds \/ ParseFails
  BY <1>1, ParsePops DEF PopStep
<1>2. CASE GetCachedVariable \/ UndefinedVariable \/ ComputeVariable \/ VariableFails
  BY <1>2, VariablePops DEF PopStep
<1>3. CASE RunFromCache
  BY <1>3, RunPops DEF RunFromCache, ReturnObject
<1>4. CASE \/ RunCatchesVariable \/ RunCatchesException \/ ProcessObject \/ ProcessSetObject
           \/ (FilterReference /\ CreateError("error"))
  <2>1. \E c : Create(c)
    BY <1>4, ProcessingCreates DEF RunCatchesVariable, RunCatchesException, CreateError
  <2>2. ret'.id = Top.id
    BY <2>1 DEF Create, ReturnObject
  <2> QED
    BY <1>4, <2>2, RunPops
<1> QED
  BY <1>1, <1>2, <1>3, <1>4

LEMMA StepKeepsAsked ==
  ASSUME IInv, Shape, GetsWhatItAskedFor, Next PROVE GetsWhatItAskedFor'
<1>1. CASE ParseNext \/ ComputeComponent \/ CollectReference \/ RunParses
  BY <1>1, Pushes, AskedPushes
<1>2. CASE \/ ParseContinues \/ CacheVariable \/ VariableComponentReturns
           \/ ObjectComponentReturns \/ RunProcesses
           \/ (FilterReference /\ ~ CreateError("error"))
  BY <1>2, StepsGoOn, AskedContinues DEF GoesOn
<1>3. CASE \/ ParseEnds \/ ParseFails \/ GetCachedVariable \/ UndefinedVariable
           \/ ComputeVariable \/ VariableFails \/ RunFromCache \/ RunCatchesVariable
           \/ RunCatchesException \/ ProcessObject \/ ProcessSetObject
           \/ (FilterReference /\ CreateError("error"))
  BY <1>3, ReturnsItsOwn, AskedPops
<1>4. CASE RunObject \/ WriteCollectedObjects
  <2>1. ret' = NoReturn /\ (stack' = <<>> \/ stack' = <<RunFrame(input.order[index])>>)
    BY <1>4 DEF RunObject, WriteCollectedObjects
  <2>2. Len(stack') = 0 \/ Len(stack') = 1
    BY <2>1
  <2>3. \A i \in 1..(Len(stack') - 1) : FALSE
    BY <2>2
  <2> QED
    BY <2>1, <2>3, FailedKinds DEF GetsWhatItAskedFor
<1> QED
  BY <1>1, <1>2, <1>3, <1>4 DEF Next, ParseStep, VariableStep, RunStep

-----------------------------------------------------------------------------
\* What a call has got is meant.
LEMMA GotGrows ==
  ASSUME NEW in, NEW m, NEW more, Extends(more, m),
         NEW complete \in SUBSET Variables, NEW all, complete \subseteq all,
         NEW frame, GotOfFrame(in, m, complete, frame)
  PROVE  GotOfFrame(in, more, all, frame)
<1>1. ASSUME GotOfSet(in, m, frame) PROVE GotOfSet(in, more, frame)
  <2> DEFINE ref(k) == in.references[frame.id][k]
  <2>1. ASSUME NEW k \in DOMAIN frame.got
        PROVE  /\ ref(k) \in DOMAIN more
               /\ \A x \in more[ref(k)].items : in.filter[frame.id][x] # "undecided"
               /\ frame.got[k] = Part(in, more, frame.id, k)
    <3>1. /\ ref(k) \in DOMAIN m
          /\ \A x \in m[ref(k)].items : in.filter[frame.id][x] # "undecided"
          /\ frame.got[k] = Part(in, m, frame.id, k)
      BY <1>1 DEF GotOfSet
    <3>2. Part(in, more, frame.id, k) = Part(in, m, frame.id, k)
      BY <3>1, PartStays
    <3> QED
      BY <3>1, <3>2 DEF Extends
  <2> QED
    BY <1>1, <2>1 DEF GotOfSet
<1>2. ASSUME GotOfVariable(in, m, complete, frame) PROVE GotOfVariable(in, more, all, frame)
  <2>1. ASSUME NEW j \in DOMAIN in.needs[frame.id], j < frame.at
        PROVE  /\ in.needs[frame.id][j] \in all \cup DOMAIN more
               /\ HadFlag(in, more, frame, j) = HadFlag(in, m, frame, j)
    <3>1. in.needs[frame.id][j] \in complete \cup DOMAIN m
      BY <1>2, <2>1 DEF GotOfVariable
    <3> QED
      BY <3>1, ComponentFlagStays DEF Extends, HadFlag
  <2> QED
    BY <1>2, <2>1 DEF GotOfVariable, Had
<1> QED
  BY <1>1, <1>2 DEF GotOfFrame

LEMMA GotStays ==
  ASSUME GotIsMeant, Advances, NEW i \in DOMAIN stack
  PROVE  GotOfFrame(input, Found', Complete', stack[i])
<1>1. Complete \in SUBSET Variables
  BY DEF Complete, CompleteIn
<1>2. GotOfFrame(input, Found, Complete, stack[i])
  BY DEF GotIsMeant
<1> QED
  BY <1>1, <1>2, GotGrows DEF Advances

LEMMA GotPushes ==
  ASSUME IInv, GotIsMeant, Advances, NEW frame, NEW callee, PushStep(frame, callee)
  PROVE  GotIsMeant'
<1> DEFINE n == Len(stack)
<1>1. /\ stack \in Seq(Frames) /\ stack # <<>> /\ input' = input
      /\ frame = Top \/ (frame.call = "Run" /\ frame.at = 1 /\ Top.call = "Run" /\ Top.at = 0
                         /\ frame.got = Top.got)
      /\ callee.at = 0 /\ (callee.call # "Parse" => callee.got = <<>>)
  BY DEF IInv, TypeOK, PushStep
<1>2. /\ \A j \in 1..(n - 1) : stack'[j] = stack[j]
      /\ stack'[n] = frame /\ stack'[n + 1] = callee
      /\ DOMAIN stack' = 1..(n + 1) /\ DOMAIN stack = 1..n /\ n \in Nat /\ n >= 1
  BY <1>1, Called DEF PushStep
<1>3. Top = stack[n] /\ n \in DOMAIN stack
  BY <1>2 DEF Top
<1> HIDE DEF n
<1>4. \A j \in DOMAIN stack : GotOfFrame(input, Found', Complete', stack[j])
  BY GotStays
<1>5. GotOfFrame(input, Found', Complete', frame)
  <2>1. GotOfFrame(input, Found', Complete', Top)
    BY <1>3, <1>4
  <2> QED
    BY <1>1, <2>1 DEF GotOfFrame, Processing
<1>6. GotOfFrame(input, Found', Complete', callee)
  BY <1>1 DEF GotOfFrame, Processing
<1>7. \A j \in DOMAIN stack' : GotOfFrame(input, Found', Complete', stack'[j])
  <2> SUFFICES ASSUME NEW j \in DOMAIN stack'
               PROVE  GotOfFrame(input, Found', Complete', stack'[j])
    OBVIOUS
  <2>1. CASE j \in 1..(n - 1)
    BY <1>2, <1>4, <2>1
  <2>2. CASE j = n \/ j = n + 1
    BY <1>2, <1>5, <1>6, <2>2
  <2> QED
    BY <1>2, <2>1, <2>2
<1> QED
  BY <1>1, <1>7 DEF GotIsMeant

LEMMA GotContinues ==
  ASSUME IInv, GotIsMeant, Advances, NEW frame, ContinueStep(frame),
         GotOfFrame(input, Found', Complete', frame)
  PROVE  GotIsMeant'
<1> DEFINE n == Len(stack)
<1>1. stack \in Seq(Frames) /\ stack # <<>> /\ input' = input
  BY DEF IInv, TypeOK, ContinueStep
<1>2. /\ \A j \in 1..(n - 1) : stack'[j] = stack[j]
      /\ stack'[n] = frame
      /\ DOMAIN stack' = 1..n /\ DOMAIN stack = 1..n /\ n \in Nat /\ n >= 1
  BY <1>1, Continued DEF ContinueStep
<1> HIDE DEF n
<1>3. \A j \in DOMAIN stack : GotOfFrame(input, Found', Complete', stack[j])
  BY GotStays
<1>4. \A j \in DOMAIN stack' : GotOfFrame(input, Found', Complete', stack'[j])
  <2> SUFFICES ASSUME NEW j \in DOMAIN stack'
               PROVE  GotOfFrame(input, Found', Complete', stack'[j])
    OBVIOUS
  <2>1. CASE j \in 1..(n - 1)
    BY <1>2, <1>3, <2>1
  <2>2. CASE j = n
    BY <1>2, <2>2
  <2> QED
    BY <1>2, <2>1, <2>2
<1> QED
  BY <1>1, <1>4 DEF GotIsMeant

LEMMA GotPops ==
  ASSUME IInv, GotIsMeant, Advances, PopStep PROVE GotIsMeant'
<1>1. stack \in Seq(Frames) /\ stack # <<>> /\ input' = input /\ Return
  BY DEF IInv, TypeOK, PopStep
<1>2. \A j \in DOMAIN stack' : j \in DOMAIN stack /\ stack'[j] = stack[j]
  BY <1>1, Popped
<1>3. \A j \in DOMAIN stack' : GotOfFrame(input, Found', Complete', stack'[j])
  BY <1>2, GotStays
<1> QED
  BY <1>1, <1>3 DEF GotIsMeant

LEMMA ReturnedIsFound ==
  ASSUME IInv, ReturnedIsRecorded, ret.kind = "object"
  PROVE  ret.id \in Objects /\ ret.id \in DOMAIN Found /\ Found[ret.id] = ret.object
<1>1. ret.id \in Objects /\ ret.object \in Collected
  BY DEF IInv, TypeOK, Returns, NoReturn, Done, Exception
<1>2. ret.object.flag \in Flags /\ Absent.flag \notin Flags
  BY <1>1 DEF Collected, Flags, Absent
<1>3. collectedObjects[ret.id] = ret.object /\ ret.object # Absent
  BY <1>2 DEF ReturnedIsRecorded
<1> QED
  BY <1>1, <1>3 DEF Found

\* One component more, and one part more.
LEMMA VariableGoesOn ==
  ASSUME NEW in, NEW m, NEW complete, NEW frame, NEW next, NEW need,
         in.needs[frame.id] \in Seq(Uses), frame.at \in Nat, frame.at >= 1,
         frame.at \in DOMAIN in.needs[frame.id], need = in.needs[frame.id][frame.at],
         GotOfVariable(in, m, complete, frame),
         next.id = frame.id, next.at = frame.at + 1, frame.got \in Seq(Flags),
         \/ need \notin Objects /\ need \in complete /\ next.got = frame.got
         \/ /\ need \in Objects /\ need \in DOMAIN m
            /\ next.got = Append(frame.got, ComponentFlag(in, m, need))
  PROVE  GotOfVariable(in, m, complete, next)
<1> DEFINE needs == in.needs[frame.id]
           last == frame.at
           flag(j) == HadFlag(in, m, frame, j)
<1>1. /\ \A j \in DOMAIN needs : j < last => needs[j] \in complete \cup DOMAIN m
      /\ \A k \in DOMAIN frame.got : \E j \in DOMAIN needs :
           Had(in, frame, j) /\ frame.got[k] = flag(j)
      /\ \A j \in DOMAIN needs : Had(in, frame, j) =>
           \E k \in DOMAIN frame.got : frame.got[k] = flag(j)
  BY DEF GotOfVariable
<1>2. /\ in.needs[next.id] = needs /\ next.at <= Len(needs) + 1
      /\ \A j \in DOMAIN needs : j < next.at <=> j < last \/ j = last
      /\ \A j \in DOMAIN needs : HadFlag(in, m, next, j) = flag(j)
  <2>1. in.needs[next.id] = needs
    OBVIOUS
  <2>2. \A j \in DOMAIN needs : HadFlag(in, m, next, j) = flag(j)
    BY <2>1 DEF HadFlag
  <2> HIDE DEF flag
  <2>3. needs \in Seq(Uses) /\ last \in DOMAIN needs /\ next.at = last + 1
    OBVIOUS
  <2> HIDE DEF needs, last
  <2> QED
    BY <2>1, <2>2, <2>3
<1>3. \A j \in DOMAIN needs :
        Had(in, next, j) <=> Had(in, frame, j) \/ (j = last /\ need \in Objects)
  BY <1>2 DEF Had
<1>4. \A j \in DOMAIN needs : j < next.at => needs[j] \in complete \cup DOMAIN m
  BY <1>1, <1>2
<1>5. last \in DOMAIN needs /\ flag(last) = ComponentFlag(in, m, need)
  BY DEF HadFlag
<1> HIDE DEF flag
<1>6. /\ \A k \in DOMAIN next.got : \E j \in DOMAIN needs :
           Had(in, next, j) /\ next.got[k] = flag(j)
      /\ \A j \in DOMAIN needs : Had(in, next, j) =>
           \E k \in DOMAIN next.got : next.got[k] = flag(j)
  <2>1. CASE need \notin Objects /\ next.got = frame.got
    BY <1>1, <1>3, <2>1
  <2>2. CASE need \in Objects /\ next.got = Append(frame.got, ComponentFlag(in, m, need))
    <3>1. /\ \A k \in DOMAIN next.got :
               \/ k \in DOMAIN frame.got /\ next.got[k] = frame.got[k]
               \/ next.got[k] = flag(last)
          /\ \A k \in DOMAIN frame.got : k \in DOMAIN next.got /\ next.got[k] = frame.got[k]
          /\ \E k \in DOMAIN next.got : next.got[k] = flag(last)
      <4>1. next.got = Append(frame.got, flag(last))
        BY <1>5, <2>2
      <4>2. /\ Len(next.got) = Len(frame.got) + 1 /\ Len(frame.got) \in Nat
            /\ DOMAIN next.got = 1..(Len(frame.got) + 1) /\ DOMAIN frame.got = 1..Len(frame.got)
            /\ \A k \in 1..Len(frame.got) : next.got[k] = frame.got[k]
            /\ next.got[Len(frame.got) + 1] = flag(last)
        BY <4>1
      <4> QED
        BY <4>2
    <3>2. Had(in, next, last)
      BY <1>3, <1>5, <2>2
    <3>3. \A k \in DOMAIN next.got : \E j \in DOMAIN needs :
            Had(in, next, j) /\ next.got[k] = flag(j)
      BY <1>1, <1>3, <1>5, <3>1, <3>2
    <3>4. \A j \in DOMAIN needs : Had(in, next, j) =>
            \E k \in DOMAIN next.got : next.got[k] = flag(j)
      BY <1>1, <1>3, <3>1
    <3> QED
      BY <3>3, <3>4
  <2> QED
    BY <2>1, <2>2
<1> HIDE DEF needs
<1> QED
  BY <1>2, <1>4, <1>6 DEF GotOfVariable

LEMMA SetGoesOn ==
  ASSUME NEW in, NEW m, NEW frame, NEW next, NEW ref,
         in.references[frame.id] \in Seq(Objects), frame.got \in Seq(Collected),
         GotOfSet(in, m, frame), AsksFor(in, frame, ref), ref \in DOMAIN m,
         \A x \in m[ref].items : in.filter[frame.id][x] # "undecided",
         next.id = frame.id,
         next.got = Append(frame.got,
                      [flag  |-> m[ref].flag,
                       items |-> {x \in m[ref].items : in.filter[frame.id][x] = "keep"}])
  PROVE  GotOfSet(in, m, next)
<1> DEFINE k == Len(frame.got) + 1
           part == Part(in, m, frame.id, k)
<1>1. k \in DOMAIN in.references[frame.id] /\ ref = in.references[frame.id][k]
  BY DEF AsksFor
<1>2. next.got = Append(frame.got, part)
  BY <1>1 DEF Part
<1> HIDE DEF part
<1>3. /\ Len(frame.got) \in Nat /\ Len(next.got) = k
      /\ \A j \in DOMAIN next.got : j = k \/ (j \in DOMAIN frame.got /\ next.got[j] = frame.got[j])
      /\ next.got[k] = part
  BY <1>2
<1>4. Len(next.got) <= Len(in.references[next.id])
  BY <1>1, <1>3
<1> HIDE DEF k
<1> DEFINE refs(j) == in.references[next.id][j]
<1>5. ASSUME NEW j \in DOMAIN next.got
      PROVE  /\ refs(j) \in DOMAIN m
             /\ \A x \in m[refs(j)].items : in.filter[next.id][x] # "undecided"
             /\ next.got[j] = Part(in, m, next.id, j)
  <2>1. CASE j = k
    BY <1>1, <1>3, <2>1 DEF part
  <2>2. CASE j # k
    <3>1. j \in DOMAIN frame.got /\ next.got[j] = frame.got[j]
      BY <1>3, <2>2
    <3> QED
      BY <3>1 DEF GotOfSet
  <2> QED
    BY <2>1, <2>2
<1> QED
  BY <1>4, <1>5 DEF GotOfSet

LEMMA VariableKeepsGot ==
  ASSUME IInv, Shape, Known, ReturnedIsRecorded, GotIsMeant, GetsWhatItAskedFor, Advances,
         CacheVariable \/ VariableComponentReturns \/ ObjectComponentReturns
  PROVE  GotIsMeant'
<1>1. /\ stack # <<>> /\ Top.call = "GetVariable" /\ Top.id \in Variables /\ Top.at \in Nat
      /\ Top.got \in Seq(Flags) /\ input.needs[Top.id] \in Seq(Uses)
      /\ stack \in Seq(Frames)
  BY TopComputing DEF CacheVariable, VariableComponentReturns, ObjectComponentReturns
<1>2. GotOfFrame(input, Found', Complete', Top)
  BY <1>1, GotStays DEF Top
<1>3. CASE CacheVariable
  <2>1. PICK frame \in VariableFrames :
          /\ ContinueStep(frame) /\ frame.call = "GetVariable"
          /\ frame.at = 1 /\ frame.got = Top.got
    BY <1>3, CacheMoves
  <2>2. frame.got = <<>> /\ frame.id = Top.id
    BY <1>1, <1>2, <1>3, <2>1 DEF CacheVariable, GotOfFrame, ContinueStep
  <2>3. GotOfVariable(input, Found', Complete', frame)
    BY <1>1, <2>1, <2>2 DEF GotOfVariable, Had
  <2>4. GotOfFrame(input, Found', Complete', frame)
    BY <2>1, <2>3 DEF GotOfFrame, Processing
  <2> QED
    BY <2>1, <2>4, GotContinues
<1>4. CASE VariableComponentReturns
  <2>1. PICK frame \in VariableFrames :
          /\ ContinueStep(frame) /\ frame.call = "GetVariable"
          /\ frame.at = Top.at + 1 /\ frame.got = Top.got
    BY <1>4, ComponentMoves
  <2>2. PICK need : need = input.needs[Top.id][Top.at]
    OBVIOUS
  <2>3. Top.at >= 1 /\ ret = Done /\ ret # NoReturn /\ ret.kind # "object"
    BY <1>4 DEF VariableComponentReturns, Done, NoReturn
  <2>4. Top.at \in DOMAIN input.needs[Top.id] /\ need \notin Objects
    BY <1>1, <2>2, <2>3, ReturnedTo
  <2>5. need \in Variables
    BY <1>1, <2>2, <2>4 DEF Uses
  <2>6. Waits(input, Top, "GetVariable", need)
    BY <1>1, <2>2, <2>4, <2>5 DEF Waits
  <2>7. Ready(input, variableFlag, need)
    BY <1>1, <2>3, <2>6 DEF Known, ReturnedMeans
  <2>8. need \in Complete'
    BY <2>5, <2>7, ReadyVariable DEF Complete, CompleteIn, Advances
  <2>9. GotOfVariable(input, Found', Complete', Top)
    BY <1>1, <1>2, <2>3 DEF GotOfFrame
  <2>10. frame.id = Top.id
    BY <2>1 DEF ContinueStep
  <2>11. GotOfVariable(input, Found', Complete', frame)
    BY <1>1, <2>1, <2>2, <2>3, <2>4, <2>8, <2>9, <2>10, VariableGoesOn
  <2>12. GotOfFrame(input, Found', Complete', frame)
    BY <1>1, <2>1, <2>11 DEF GotOfFrame, Processing
  <2> QED
    BY <2>1, <2>12, GotContinues
<1>5. CASE ObjectComponentReturns
  <2>1. PICK frame \in VariableFrames :
          /\ ContinueStep(frame) /\ frame.call = "GetVariable"
          /\ frame.at = Top.at + 1
          /\ frame.got = Append(Top.got, ObjectComponentFlag(ret.object, input.field[ret.id]))
    BY <1>5, ObjectMoves
  <2>2. PICK need : need = input.needs[Top.id][Top.at]
    OBVIOUS
  <2>3. Top.at >= 1 /\ ret.kind = "object" /\ ret # NoReturn
    BY <1>5 DEF ObjectComponentReturns, NoReturn
  <2>4. Top.at \in DOMAIN input.needs[Top.id] /\ need \in Objects
    BY <1>1, <2>2, <2>3, ReturnedTo
  <2>5. need = ret.id
    BY <1>1, <2>2, <2>3 DEF GetsWhatItAskedFor
  <2>6. need \in DOMAIN Found' /\ Found'[need] = ret.object
    BY <2>3, <2>5, ReturnedIsFound DEF Advances, Extends
  <2>7. ObjectComponentFlag(ret.object, input.field[ret.id]) = ComponentFlag(input, Found', need)
    BY <2>4, <2>5, <2>6, ObjectsAreNoVariables DEF ComponentFlag
  <2>9. GotOfVariable(input, Found', Complete', Top)
    BY <1>1, <1>2, <2>3 DEF GotOfFrame
  <2>10. frame.id = Top.id
    BY <2>1 DEF ContinueStep
  <2>11. GotOfVariable(input, Found', Complete', frame)
    BY <1>1, <2>1, <2>2, <2>3, <2>4, <2>6, <2>7, <2>9, <2>10, VariableGoesOn
  <2>12. GotOfFrame(input, Found', Complete', frame)
    BY <1>1, <2>1, <2>11 DEF GotOfFrame, Processing
  <2> QED
    BY <2>1, <2>12, GotContinues
<1> QED
  BY <1>3, <1>4, <1>5

LEMMA RunKeepsGot ==
  ASSUME IInv, Shape, ReturnedIsRecorded, GotIsMeant, GetsWhatItAskedFor, Advances,
         RunProcesses \/ (FilterReference /\ ~ CreateError("error"))
  PROVE  GotIsMeant'
<1>1. /\ stack # <<>> /\ Top.call = "Run" /\ Top.id \in Objects /\ stack \in Seq(Frames)
      /\ Top \in RunFrames
  BY TopRun DEF RunProcesses, FilterReference, In
<1>2. Top.got \in Seq(Collected) /\ input.references[Top.id] \in Seq(Objects)
  BY <1>1 DEF RunFrames, IInv, TypeOK, Input
<1>3. GotOfFrame(input, Found', Complete', Top)
  BY <1>1, GotStays DEF Top
<1>4. CASE RunProcesses
  <2>1. PICK frame \in RunFrames :
          /\ ContinueStep(frame) /\ frame.call = "Run" /\ frame.at = 2 /\ frame.got = Top.got
    BY <1>4, ProcessMoves
  <2>2. frame.got = <<>> /\ frame.id = Top.id
    BY <1>1, <1>3, <1>4, <2>1 DEF RunProcesses, GotOfFrame, ContinueStep
  <2>3. GotOfSet(input, Found', frame)
    BY <1>2, <2>2 DEF GotOfSet
  <2>4. GotOfFrame(input, Found', Complete', frame)
    BY <2>1, <2>3 DEF GotOfFrame
  <2> QED
    BY <2>1, <2>4, GotContinues
<1>5. CASE FilterReference /\ ~ CreateError("error")
  <2>1. PICK frame \in RunFrames :
          /\ ContinueStep(frame) /\ frame.call = "Run" /\ frame.at = 2
          /\ frame.got = Append(Top.got,
               [flag  |-> ret.object.flag,
                items |-> {x \in ret.object.items : input.filter[Top.id][x] = "keep"}])
    BY <1>5, FilterMoves
  <2>2. \A x \in ret.object.items : input.filter[Top.id][x] # "undecided"
    BY <1>5, FilterMoves
  <2>3. ret.kind = "object" /\ Processing(Top)
    BY <1>1, <1>5 DEF FilterReference, Processing
  <2>4. ret.id \in DOMAIN Found' /\ Found'[ret.id] = ret.object
    BY <2>3, ReturnedIsFound DEF Advances, Extends
  <2>5. AsksFor(input, Top, ret.id)
    BY <1>1, <2>3 DEF GetsWhatItAskedFor
  <2>6. GotOfSet(input, Found', Top)
    BY <1>3, <2>3 DEF GotOfFrame
  <2>7. frame.id = Top.id
    BY <2>1 DEF ContinueStep
  <2>8. GotOfSet(input, Found', frame)
    BY <1>2, <2>1, <2>2, <2>4, <2>5, <2>6, <2>7, SetGoesOn
  <2>9. GotOfFrame(input, Found', Complete', frame)
    BY <2>1, <2>8 DEF GotOfFrame
  <2> QED
    BY <2>1, <2>9, GotContinues
<1> QED
  BY <1>4, <1>5

LEMMA StepKeepsGot ==
  ASSUME IInv, Shape, Known, ReturnedIsRecorded, GotIsMeant, GetsWhatItAskedFor, Next,
         stack # <<>>
  PROVE  GotIsMeant'
<1>0. Advances
  BY StepAdvances
<1>1. CASE ParseNext \/ ComputeComponent \/ CollectReference \/ RunParses
  BY <1>0, <1>1, Pushes, GotPushes
<1>2. CASE ParseContinues
  <2>1. PICK frame \in ParseFrames : ContinueStep(frame) /\ frame.call = "Parse"
    BY <1>2, ParseContinueMoves
  <2>2. GotOfFrame(input, Found', Complete', frame)
    BY <2>1 DEF GotOfFrame, Processing
  <2> QED
    BY <1>0, <2>1, <2>2, GotContinues
<1>3. CASE CacheVariable \/ VariableComponentReturns \/ ObjectComponentReturns
  BY <1>0, <1>3, VariableKeepsGot
<1>4. CASE RunProcesses \/ (FilterReference /\ ~ CreateError("error"))
  BY <1>0, <1>4, RunKeepsGot
<1>5. CASE \/ ParseEnds \/ ParseFails \/ GetCachedVariable \/ UndefinedVariable
           \/ ComputeVariable \/ VariableFails \/ RunFromCache \/ RunCatchesVariable
           \/ RunCatchesException \/ ProcessObject \/ ProcessSetObject
           \/ (FilterReference /\ CreateError("error"))
  BY <1>0, <1>5, ReturnsItsOwn, GotPops
<1>6. ~ RunObject /\ ~ WriteCollectedObjects
  BY DEF RunObject, WriteCollectedObjects
<1> QED
  BY <1>1, <1>2, <1>3, <1>4, <1>5, <1>6 DEF Next, ParseStep, VariableStep, RunStep

-----------------------------------------------------------------------------
\* What is thrown says why.
LEMMA BrokenFails ==
  ASSUME NEW v, NEW flag, v \in Broken', flag = BrokenFlag(v)'
  PROVE  FailsAs(v, flag)'
<1>1. v \in Variables /\ Variables \ Broken' \subseteq Variables
  BY DEF Broken
<1>2. v \notin There(input', Variables \ Broken')
  BY <1>1, ThereVariable
<1>3. GoesBackTo(input', Complete', Broken', v, v)
  BY GoesBackToItself
<1> QED
  BY <1>2, <1>3 DEF FailsAs

LEMMA ThrownPops ==
  ASSUME IInv, Shape, PopStep, NEW use, use = Top.id, NEW flag,
         ret'.kind \in Thrown => FailsAs(use, flag)' /\ flag = ThrownFlag'
  PROVE  ThrownIsMeant'
<1> SUFFICES ASSUME stack' # <<>>, ret'.kind \in Thrown,
                    NEW call \in Calls, NEW id \in Uses,
                    Waits(input', Top', call, id), call # "Run"
             PROVE  FailsAs(id, ThrownFlag)'
  BY DEF ThrownIsMeant
<1> DEFINE n == Len(stack)
<1>1. /\ stack \in Seq(Frames) /\ stack # <<>> /\ input' = input /\ Return
  BY DEF IInv, TypeOK, PopStep
<1>2. n \in Nat /\ n >= 2 /\ Top' = stack[n - 1]
  BY <1>1, Popped
<1>3. Top = stack[n]
  BY DEF Top
<1> HIDE DEF n
<1>4. n - 1 \in 1..(n - 1) /\ n - 1 + 1 = n
  BY <1>2
<1>5. Waits(input, Top', Top.call, Top.id)
  BY <1>2, <1>3, <1>4 DEF Shape, Linked, n
<1>6. id = use
  BY <1>1, <1>5, WaitsForOne
<1> QED
  BY <1>6

\* A variable whose computation returns is computed no more.
LEMMA LastComputation ==
  ASSUME IInv, In("GetVariable"), Top.at >= 1, Return, NEW v, v = Top.id
  PROVE  \A i \in DOMAIN stack' : ~ (Computing(i)' /\ stack'[i].id = v)
<1> DEFINE n == Len(stack)
<1>1. stack \in Seq(Frames) /\ stack # <<>> /\ Top = stack[n] /\ Top.call = "GetVariable"
  BY TopComputing DEF Top
<1>2. /\ \A j \in 1..(n - 1) : stack'[j] = stack[j]
      /\ DOMAIN stack' = 1..(n - 1) /\ DOMAIN stack = 1..n /\ n \in Nat /\ n >= 1
  BY <1>1, Popped
<1> HIDE DEF n
<1>3. Computing(n) /\ n \in DOMAIN stack /\ stack[n].id = v
  BY <1>1, <1>2 DEF Computing
<1> SUFFICES ASSUME NEW i \in DOMAIN stack', Computing(i)', stack'[i].id = v PROVE FALSE
  OBVIOUS
<1>4. i \in DOMAIN stack /\ i # n /\ Computing(i) /\ stack[i].id = v
  BY <1>2 DEF Computing
<1> QED
  BY <1>3, <1>4 DEF IInv, NoVariableInsideItself

LEMMA ParseThrows ==
  ASSUME IInv, Shape, Known, ThrownIsMeant, ParseFails, NEW use, use = Top.id,
         NEW flag, flag = ThrownFlag
  PROVE  FailsAs(use, flag)
<1>1. /\ stack # <<>> /\ Top.call = "Parse" /\ Top.id \in Objects /\ Top.at \in Nat
      /\ input.uses[Top.id] \in Seq(Uses) /\ stack \in Seq(Frames)
  BY TopParse DEF ParseFails
<1>2. ret.kind \in Thrown /\ ret # NoReturn
  BY DEF ParseFails, Unwind, Thrown, NoReturn
<1> DEFINE k == Top.at + 1
<1>3. k \in DOMAIN input.uses[use]
  BY <1>1, <1>2, ReturnedTo
<1>4. PICK w \in Uses : w = input.uses[use][k]
  BY <1>1, <1>3
<1>5. PICK call \in Calls : call # "Run" /\ Waits(input, Top, call, w)
  BY <1>1, <1>3, <1>4 DEF Waits, Calls
<1>6. FailsAs(w, flag)
  BY <1>1, <1>2, <1>5 DEF ThrownIsMeant
<1>7. PICK v \in Broken : GoesBackTo(input, Complete, Broken, w, v) /\ flag = BrokenFlag(v)
  BY <1>6 DEF FailsAs
<1>8. w \notin There(input, Variables \ Broken)
  BY <1>6 DEF FailsAs
<1>9. use \notin There(input, Variables \ Broken)
  <2>1. Variables \ Broken \subseteq Variables
    OBVIOUS
  <2> QED
    BY <1>1, <1>3, <1>4, <1>8, <2>1, ThereElim
<1>10. \A j \in 1..Top.at : input.uses[use][j] \in There(input, Complete)
  <2>1. FrameIsReady(input, variableFlag, Top)
    BY <1>1 DEF Known, CallsAreReady, Top
  <2> QED
    BY <1>1, <2>1 DEF FrameIsReady, Ready, Complete
<1>11. use \notin Variables /\ use \in Objects
  BY <1>1, ObjectsAreNoVariables
<1>12. SurelyStoppedBy(input, Complete, Broken, use, w)
  <2>1. Parsed(input, use) = input.uses[use]
    BY <1>11 DEF Parsed
  <2>2. 1..(k - 1) = 1..Top.at
    BY <1>1
  <2> HIDE DEF k
  <2> QED
    BY <1>3, <1>4, <1>8, <1>10, <1>11, <2>1, <2>2 DEF SurelyStoppedBy
<1>13. GoesBackTo(input, Complete, Broken, use, v)
  BY <1>7, <1>12, GoesBackThrough
<1> QED
  BY <1>7, <1>9, <1>13 DEF FailsAs

LEMMA CachedThrows ==
  ASSUME IInv, Known, UndefinedIsUncached, GetCachedVariable, ret'.kind \in Thrown,
         NEW v, v = Top.id, NEW flag, flag = ThrownFlag'
  PROVE  FailsAs(v, flag)'
<1>1. /\ stack # <<>> /\ Top.call = "GetVariable" /\ Top.id \in Variables
      /\ stack \in Seq(Frames)
  BY TopComputing DEF GetCachedVariable
<1>2. /\ variableFlag[v] # "absent" /\ Return /\ ret' = Outcome(v, variableFlag[v])
      /\ UNCHANGED <<input, variableFlag>>
  BY DEF GetCachedVariable
<1>3. /\ variableFlag[v] # "complete"
      /\ ret'.kind = "VariableFactoryException" /\ ret'.variable = v
  BY <1>2, OutcomeKind DEF Thrown, Done
<1>4. flag = variableFlag'[v]
  BY <1>2, <1>3 DEF ThrownFlag
<1>5. input.own[v] # "undefined"
  BY <1>1, <1>2 DEF UndefinedIsUncached
<1>6. FailedReturn'
  BY DEF FailedReturn
<1>7. \A m \in DOMAIN stack' : ~ Processing(stack'[m])
  <2> SUFFICES ASSUME NEW m \in DOMAIN stack', Processing(stack'[m]) PROVE FALSE
    OBVIOUS
  <2>1. /\ m \in DOMAIN stack /\ m < Len(stack) /\ stack'[m] = stack[m]
        /\ Len(stack) \in DOMAIN stack
    BY <1>1, <1>2, Popped
  <2>2. CalleeIsReady(input, variableFlag, Top)
    BY <2>1 DEF Known, SettledAbove, Top
  <2> QED
    BY <1>1, <1>3, <2>2, ReadyVariable DEF CalleeIsReady
<1>8. v \in Broken'
  BY <1>1, <1>2, <1>3, <1>6, <1>7 DEF Broken, Lost
<1>9. flag = BrokenFlag(v)'
  BY <1>2, <1>4, <1>5 DEF BrokenFlag
<1> QED
  BY <1>8, <1>9, BrokenFails

LEMMA UndefinedThrows ==
  ASSUME IInv, UndefinedVariable, NEW v, v = Top.id, NEW flag, flag = ThrownFlag'
  PROVE  FailsAs(v, flag)'
<1>1. v \in Variables /\ input'.own[v] = "undefined" /\ flag = "error"
  BY TopComputing DEF UndefinedVariable, ThrownFlag, Exception
<1>2. v \in Broken' /\ flag = BrokenFlag(v)'
  BY <1>1 DEF Broken, BrokenFlag
<1> QED
  BY <1>2, BrokenFails

LEMMA ComputedThrows ==
  ASSUME IInv, FlagsAreOwn, ComputeVariable, ret'.kind \in Thrown,
         NEW v, v = Top.id, NEW flag, flag = ThrownFlag'
  PROVE  FailsAs(v, flag)'
<1>1. /\ stack # <<>> /\ Top.call = "GetVariable" /\ Top.id \in Variables
      /\ stack \in Seq(Frames) /\ In("GetVariable") /\ Top.at >= 1 /\ Return /\ input' = input
      /\ variableFlag \in [Variables -> Flags \cup {"absent"}]
  BY TopComputing DEF ComputeVariable, IInv, TypeOK
<1>2. variableFlag[v] = "error"
  BY <1>1, TopIsUnfinished
<1>3. input.own[v] # "undefined"
  <2>1. Len(stack) \in DOMAIN stack /\ stack[Len(stack)] = Top
    BY <1>1 DEF Top
  <2> QED
    BY <1>1, <2>1 DEF FlagsAreOwn, OwnFrame
<1>4. flag = variableFlag'[v] /\ variableFlag'[v] \notin {"absent", "complete"}
  <2>1. CASE input.own[Top.id] = "throws"
    BY <1>2, <2>1 DEF ComputeVariable, ThrownFlag, Exception
  <2>2. CASE input.own[Top.id] # "throws"
    <3>1. PICK new \in OwnFlags : new = CombineFlags(<<input.own[Top.id]>> \o Top.got)
      BY <2>2, ComputedFlagIsOwn
    <3>2. variableFlag' = [variableFlag EXCEPT ![v] = new] /\ ret' = Outcome(v, new)
      BY <2>2, <3>1 DEF ComputeVariable
    <3>3. new # "complete" /\ ret'.kind = "VariableFactoryException" /\ ret'.variable = v
      BY <3>2, OutcomeKind DEF Thrown, Done
    <3>4. variableFlag'[v] = new
      BY <1>1, <3>2
    <3> QED
      BY <3>3, <3>4 DEF ThrownFlag, OwnFlags
  <2> QED
    BY <2>1, <2>2
<1>5. \A i \in DOMAIN stack' : ~ (Computing(i)' /\ stack'[i].id = v)
  BY <1>1, LastComputation
<1>6. v \in Broken'
  BY <1>1, <1>4, <1>5 DEF Broken
<1>7. flag = BrokenFlag(v)'
  BY <1>1, <1>3, <1>4 DEF BrokenFlag
<1> QED
  BY <1>6, <1>7, BrokenFails

\* What the components before the one that failed are: variables that are complete.
LEMMA VariableThrows ==
  ASSUME IInv, Shape, FlagsAreOwn, GotIsMeant, ThrownIsMeant, VariableFails, Advances,
         NEW v, v = Top.id, NEW flag, flag = ThrownFlag
  PROVE  FailsAs(v, flag)'
<1>1. /\ stack # <<>> /\ Top.call = "GetVariable" /\ Top.id \in Variables
      /\ stack \in Seq(Frames) /\ In("GetVariable") /\ Return /\ input' = input
      /\ Top.at \in Nat /\ input.needs[v] \in Seq(Uses) /\ variableFlag' = variableFlag
  BY TopComputing DEF VariableFails, Unwind
<1>2. ret.kind \in Thrown /\ ret # NoReturn /\ ret.kind # "object"
  BY DEF VariableFails, Unwind, Thrown, NoReturn
<1>3. Top.at \in DOMAIN input.needs[v] /\ Top.at >= 1 /\ input.needs[v][Top.at] \notin Objects
  BY <1>1, <1>2, ReturnedTo
<1>4. PICK w \in Variables : w = input.needs[v][Top.at]
  BY <1>1, <1>3 DEF Uses
<1>5. Waits(input, Top, "GetVariable", w) /\ w \in Uses
  BY <1>1, <1>3, <1>4 DEF Waits, Uses
<1>6. FailsAs(w, flag)
  BY <1>1, <1>2, <1>5 DEF ThrownIsMeant, Calls
<1>7. FailsAs(w, flag)'
  BY <1>6, FailsStays
<1>8. variableFlag[v] = "error"
  BY <1>1, <1>3, TopIsUnfinished
<1>9. Len(stack) \in DOMAIN stack /\ stack[Len(stack)] = Top
  BY <1>1 DEF Top
<1>10. input.own[v] # "undefined"
  BY <1>1, <1>3, <1>9 DEF FlagsAreOwn, OwnFrame
<1>11. \A i \in DOMAIN stack' : ~ (Computing(i)' /\ stack'[i].id = v)
  BY <1>1, <1>3, LastComputation
<1>12. v \in Broken'
  BY <1>1, <1>8, <1>11 DEF Broken
<1>13. \A j \in 1..(Top.at - 1) : input.needs[v][j] \in There(input, Complete)
  <2> SUFFICES ASSUME NEW j \in 1..(Top.at - 1)
               PROVE  input.needs[v][j] \in There(input, Complete)
    OBVIOUS
  <2>1. j \in DOMAIN input.needs[v] /\ j < Top.at
    BY <1>1, <1>3
  <2>2. GotOfVariable(input, Found, Complete, Top)
    BY <1>1, <1>3, <1>9 DEF GotIsMeant, GotOfFrame
  <2>3. input.needs[v][j] \in Complete \cup DOMAIN Found
    BY <2>1, <2>2 DEF GotOfVariable
  <2>4. input.needs[v][j] \notin Objects
    BY <1>1, <1>3, <2>1, InputsAssumption DEF IInv, TypeOK, WellFormed
  <2> QED
    BY <2>3, <2>4 DEF Found, There
<1>14. SurelyStoppedBy(input', Complete', Broken', v, w)
  <2>1. Parsed(input, v) = input.needs[v]
    BY <1>1, <1>10, ObjectsAreNoVariables DEF Parsed
  <2>2. There(input, Complete) \subseteq There(input, Complete')
    BY ThereGrows DEF Advances
  <2>3. w \notin There(input', Variables \ Broken')
    BY <1>7 DEF FailsAs
  <2> QED
    BY <1>1, <1>3, <1>4, <1>13, <2>1, <2>2, <2>3 DEF SurelyStoppedBy
<1>15. PICK u \in Broken' : /\ GoesBackTo(input', Complete', Broken', w, u)
                            /\ flag = BrokenFlag(u)'
  BY <1>7 DEF FailsAs
<1>16. GoesBackTo(input', Complete', Broken', v, u)
  BY <1>5, <1>14, <1>15, GoesBackThrough
<1>17. v \notin There(input', Variables \ Broken')
  <2>1. Variables \ Broken' \subseteq Variables
    OBVIOUS
  <2> QED
    BY <1>1, <1>12, <2>1, ThereVariable
<1> QED
  BY <1>15, <1>16, <1>17 DEF FailsAs

LEMMA StepSaysWhy ==
  ASSUME SettledInv, UndefinedIsUncached, GotIsMeant, ThrownIsMeant, Next, stack # <<>>
  PROVE  ThrownIsMeant'
<1>1. IInv /\ Shape /\ Known /\ FlagsAreOwn
  BY DEF SettledInv
<1>2. Advances
  BY <1>1, StepAdvances
<1>3. CASE ret' = NoReturn
  BY <1>3, FailedKinds DEF ThrownIsMeant
<1>4. CASE ParseNext \/ ComputeComponent \/ CollectReference \/ RunParses
  BY <1>1, <1>3, <1>4, Pushes DEF PushStep
<1>5. CASE \/ ParseContinues \/ CacheVariable \/ VariableComponentReturns
           \/ ObjectComponentReturns \/ RunProcesses
           \/ (FilterReference /\ ~ CreateError("error"))
  BY <1>1, <1>3, <1>5, StepsGoOn DEF GoesOn, ContinueStep
<1> DEFINE Fails(use, flag) ==
             ret'.kind \in Thrown => FailsAs(use, flag)' /\ flag = ThrownFlag'
<1>6. PICK use, flag : use = Top.id /\ flag = ThrownFlag'
  OBVIOUS
<1>7. CASE ParseFails
  <2>1. flag = ThrownFlag
    BY <1>6, <1>7 DEF ParseFails, Unwind, ThrownFlag
  <2>2. FailsAs(use, flag)
    BY <1>1, <1>6, <1>7, <2>1, ParseThrows
  <2>3. FailsAs(use, flag)'
    BY <1>2, <2>2, FailsStays
  <2> QED
    BY <1>1, <1>6, <1>7, <2>3, ParsePops, ThrownPops
<1>8. CASE GetCachedVariable
  <2>1. Fails(use, flag)
    BY <1>1, <1>6, <1>8, CachedThrows
  <2> QED
    BY <1>1, <1>6, <1>8, <2>1, VariablePops, ThrownPops
<1>9. CASE UndefinedVariable
  <2>1. Fails(use, flag)
    BY <1>1, <1>6, <1>9, UndefinedThrows
  <2> QED
    BY <1>1, <1>6, <1>9, <2>1, VariablePops, ThrownPops
<1>10. CASE ComputeVariable
  <2>1. Fails(use, flag)
    BY <1>1, <1>6, <1>10, ComputedThrows
  <2> QED
    BY <1>1, <1>6, <1>10, <2>1, VariablePops, ThrownPops
<1>11. CASE VariableFails
  <2>1. flag = ThrownFlag
    BY <1>6, <1>11 DEF VariableFails, Unwind, ThrownFlag
  <2>2. Fails(use, flag)
    BY <1>1, <1>2, <1>6, <1>11, <2>1, VariableThrows
  <2> QED
    BY <1>1, <1>6, <1>11, <2>2, VariablePops, ThrownPops
<1>12. CASE \/ RunFromCache \/ RunCatchesVariable \/ RunCatchesException
            \/ ProcessObject \/ ProcessSetObject \/ (FilterReference /\ CreateError("error"))
  <2>1. ret'.kind = "object"
    BY <1>1, <1>12, RunPops DEF PopStep
  <2> QED
    BY <2>1 DEF ThrownIsMeant, Thrown
<1>13. CASE ParseEnds
  BY <1>13 DEF ParseEnds, Done, ThrownIsMeant, Thrown
<1>14. ~ RunObject /\ ~ WriteCollectedObjects
  BY DEF RunObject, WriteCollectedObjects
<1> QED
  BY <1>4, <1>5, <1>7, <1>8, <1>9, <1>10, <1>11, <1>12, <1>13, <1>14
  DEF Next, ParseStep, VariableStep, RunStep

-----------------------------------------------------------------------------
\* What is collected is meant.
LEMMA CreatesMeant ==
  ASSUME IInv, Advances, ObjectsAreMeant, In("Run"), NEW c, Create(c),
         NEW o, o = Top.id,
         \/ o \in There(input, Complete') /\ IsMeaning(input, Found', o, c)
         \/ \E flag : c.items = {} /\ c.flag = flag /\ FailsAs(o, flag)'
  PROVE  ObjectsAreMeant'
<1> SUFFICES ASSUME NEW p \in DOMAIN Found' PROVE ObjectIsMeant(p)'
  BY DEF ObjectsAreMeant
<1>1. /\ collectedObjects \in [Objects -> Collected \cup {Absent}] /\ o \in Objects
      /\ input' = input
      /\ collectedObjects' =
           IF collectedObjects[o] = Absent
             THEN [collectedObjects EXCEPT ![o] = c] ELSE collectedObjects
  BY TopRun DEF IInv, TypeOK, Create
<1>2. CASE p \in DOMAIN Found
  BY <1>2, ObjectStaysMeant DEF ObjectsAreMeant
<1>3. CASE p \notin DOMAIN Found
  <2>1. p \in Objects /\ collectedObjects[p] = Absent /\ collectedObjects'[p] # Absent
    BY <1>1, <1>3 DEF Found
  <2>2. p = o /\ Found'[p] = c
    BY <1>1, <2>1 DEF Found
  <2> QED
    BY <1>1, <2>2 DEF ObjectIsMeant
<1> QED
  BY <1>2, <1>3

LEMMA CatchesAreMeant ==
  ASSUME SettledInv, ThrownIsMeant, ObjectsAreMeant, Advances,
         RunCatchesVariable \/ RunCatchesException
  PROVE  ObjectsAreMeant'
<1>1. IInv /\ Shape
  BY DEF SettledInv
<1>2. /\ stack # <<>> /\ Top.call = "Run" /\ Top.id \in Objects /\ Top.at = 1 /\ In("Run")
      /\ ret.kind \in Thrown
  BY <1>1, TopRun DEF RunCatchesVariable, RunCatchesException, Thrown
<1>3. PICK o, flag : o \in Objects /\ o = Top.id /\ flag = ThrownFlag
  BY <1>2
<1>4. Waits(input, Top, "Parse", o) /\ o \in Uses
  BY <1>2, <1>3 DEF Waits, Uses
<1>5. FailsAs(o, flag)
  BY <1>2, <1>3, <1>4 DEF ThrownIsMeant, Calls
<1>6. FailsAs(o, flag)'
  BY <1>5, FailsStays
<1> DEFINE c == [flag |-> flag, items |-> {}]
<1>7. Create(c)
  BY <1>3 DEF RunCatchesVariable, RunCatchesException, CreateError, ThrownFlag
<1>8. c.items = {} /\ c.flag = flag
  OBVIOUS
<1> HIDE DEF c
<1> QED
  BY <1>1, <1>2, <1>3, <1>6, <1>7, <1>8, CreatesMeant

\* An object whose processing begins or goes on is ready.
LEMMA ProcessedIsThere ==
  ASSUME SettledInv, Advances, In("Run"), Top.at = 2
  PROVE  Top.id \in There(input, Complete')
<1>1. stack \in Seq(Frames) /\ stack # <<>> /\ Top.call = "Run"
  BY TopRun DEF SettledInv
<1>2. Len(stack) \in DOMAIN stack /\ stack[Len(stack)] = Top
  BY <1>1 DEF Top
<1>3. Ready(input, variableFlag, Top.id)
  BY <1>1, <1>2 DEF SettledInv, Known, CallsAreReady, FrameIsReady
<1>4. There(input, Complete) \subseteq There(input, Complete')
  BY ThereGrows DEF Advances
<1> QED
  BY <1>3, <1>4 DEF Ready, Complete

LEMMA ProcessedIsMeant ==
  ASSUME SettledInv, ObjectsAreMeant, Advances, ProcessObject
  PROVE  ObjectsAreMeant'
<1>1. IInv /\ In("Run") /\ Top.at = 2
  BY DEF SettledInv, ProcessObject
<1>2. PICK o : o = Top.id
  OBVIOUS
<1>3. o \in There(input, Complete')
  BY <1>1, <1>2, ProcessedIsThere
<1>4. input.answer[o] \in Answers /\ input.operator[o] = "none"
  BY <1>1, <1>2, TopRun DEF IInv, TypeOK, Input, ProcessObject
<1>5. Create(SimpleMeaning(input, o))
  <2>1. CASE input.answer[o] = "not applicable"
    BY <1>2, <2>1 DEF ProcessObject, SimpleMeaning, CreateError
  <2>2. CASE input.answer[o] = "not supported"
    BY <1>2, <2>2 DEF ProcessObject, SimpleMeaning, CreateError
  <2>3. CASE input.answer[o] = "throws"
    BY <1>2, <2>3 DEF ProcessObject, SimpleMeaning, CreateError
  <2>4. CASE input.answer[o] = "items"
    <3>1. Create([flag |-> ItemsFlag(input.items[o]), items |-> input.items[o]])
      BY <1>2, <2>4 DEF ProcessObject
    <3>2. SimpleMeaning(input, o) = [flag |-> ItemsFlag(input.items[o]), items |-> input.items[o]]
      BY <2>4 DEF SimpleMeaning, ItemsFlag
    <3> QED
      BY <3>1, <3>2
  <2> QED
    BY <1>4, <2>1, <2>2, <2>3, <2>4 DEF Answers
<1>6. IsMeaning(input, Found', o, SimpleMeaning(input, o))
  BY <1>4 DEF IsMeaning
<1> QED
  BY <1>1, <1>2, <1>3, <1>5, <1>6, CreatesMeant

LEMMA UndecidedIsMeant ==
  ASSUME SettledInv, GetsWhatItAskedFor, ObjectsAreMeant, Advances,
         FilterReference, CreateError("error")
  PROVE  ObjectsAreMeant'
<1>1. IInv /\ In("Run") /\ Top.at = 2 /\ ret.kind = "object" /\ ReturnedIsRecorded
  BY DEF SettledInv, FilterReference, Recorded, AnswersAreSettled
<1>2. PICK o : o = Top.id
  OBVIOUS
<1>3. o \in There(input, Complete')
  BY <1>1, <1>2, ProcessedIsThere
<1>4. \E x \in ret.object.items : input.filter[o][x] = "undecided"
  <2>1. CASE \A x \in ret.object.items : input.filter[Top.id][x] # "undecided"
    <3>1. ret' = NoReturn
      BY <2>1 DEF FilterReference
    <3>2. ret'.kind = "object"
      BY DEF CreateError, Create, ReturnObject
    <3> QED
      BY <3>1, <3>2, FailedKinds
  <2> QED
    BY <1>2, <2>1
<1>5. ret.id \in DOMAIN Found' /\ Found'[ret.id] = ret.object
  BY <1>1, ReturnedIsFound DEF Advances, Extends
<1>6. AsksFor(input, Top, ret.id)
  BY <1>1, TopRun DEF GetsWhatItAskedFor, Processing
<1>7. PICK k \in DOMAIN input.references[o] : ret.id = input.references[o][k]
  BY <1>2, <1>6 DEF AsksFor
<1>8. Unclear(input, Found', o)
  BY <1>4, <1>5, <1>7 DEF Unclear
<1>9. input.operator[o] # "none"
  <2>1. o \in Objects /\ input \in Inputs
    BY <1>1, <1>2, TopRun DEF IInv
  <2>2. input.references[o] \in Seq(Objects) /\ (input.operator[o] = "none" => Len(input.references[o]) = 0)
    BY <2>1, InputsAssumption DEF Input, WellFormed
  <2> QED
    BY <1>7, <2>2
<1>10. IsMeaning(input, Found', o, [flag |-> "error", items |-> {}])
  BY <1>8, <1>9 DEF IsMeaning, SetMeaning
<1> QED
  BY <1>1, <1>2, <1>3, <1>10, CreatesMeant DEF CreateError

LEMMA SetIsMeant ==
  ASSUME SettledInv, GotIsMeant, ObjectsAreMeant, Advances, ProcessSetObject
  PROVE  ObjectsAreMeant'
<1>1. IInv /\ In("Run") /\ Top.at = 2
  BY DEF SettledInv, ProcessSetObject
<1>2. PICK o : o = Top.id
  OBVIOUS
<1>3. o \in There(input, Complete')
  BY <1>1, <1>2, ProcessedIsThere
<1>4. /\ stack # <<>> /\ Top.call = "Run" /\ o \in Objects /\ input \in Inputs
      /\ Top.got \in Seq(Collected) /\ stack \in Seq(Frames)
  BY <1>1, <1>2, TopRun DEF IInv
<1>5. /\ input.references[o] \in Seq(Objects) /\ input.operator[o] # "none"
      /\ Len(input.references[o]) \in {1, 2} /\ Len(Top.got) = Len(input.references[o])
  BY <1>2, <1>4, InputsAssumption DEF Input, WellFormed, ProcessSetObject
<1>6. GotOfSet(input, Found', Top)
  <2>1. GotOfFrame(input, Found', Complete', Top)
    BY <1>4, GotStays DEF Top
  <2> QED
    BY <1>1, <1>4, <2>1 DEF GotOfFrame, Processing
<1>7. DOMAIN Top.got = DOMAIN input.references[o]
  BY <1>4, <1>5
<1>8. \A k \in DOMAIN input.references[o] :
        /\ input.references[o][k] \in DOMAIN Found'
        /\ \A x \in Found'[input.references[o][k]].items : input.filter[o][x] # "undecided"
        /\ Top.got[k] = Part(input, Found', o, k)
  BY <1>2, <1>6, <1>7 DEF GotOfSet
<1>9. ~ Unclear(input, Found', o)
  BY <1>8 DEF Unclear
<1>10. /\ Top.got[1] = Part(input, Found', o, 1)
       /\ Len(Top.got) = 2 => Top.got[2] = Part(input, Found', o, 2)
  <2>1. 1 \in DOMAIN input.references[o] /\ (Len(Top.got) = 2 => 2 \in DOMAIN input.references[o])
    BY <1>5
  <2> QED
    BY <1>8, <2>1
<1>11. Create(SetMeaning(input, Found', o))
  <2> DEFINE part == Part(input, Found', o, 1)
  <2>1. CASE Len(Top.got) = 2
    <3>1. SetMeaning(input, Found', o) = CombineSets(input.operator[o], Top.got[1], Top.got[2])
      BY <1>5, <1>9, <1>10, <2>1 DEF SetMeaning
    <3> QED
      BY <1>2, <2>1, <3>1 DEF ProcessSetObject
  <2>2. CASE Len(Top.got) = 1
    <3>1. SetMeaning(input, Found', o)
            = [flag |-> SettleFlag(part.flag, part.items), items |-> part.items]
      BY <1>5, <1>9, <2>2 DEF SetMeaning
    <3>2. Create([Top.got[1] EXCEPT !.flag = SettleFlag(@, Top.got[1].items)])
      BY <2>2 DEF ProcessSetObject
    <3>3. [Top.got[1] EXCEPT !.flag = SettleFlag(@, Top.got[1].items)]
            = [flag |-> SettleFlag(part.flag, part.items), items |-> part.items]
      BY <1>10 DEF Part
    <3> QED
      BY <3>1, <3>2, <3>3
  <2> QED
    BY <1>5, <2>1, <2>2
<1>12. IsMeaning(input, Found', o, SetMeaning(input, Found', o))
  BY <1>5, <1>8 DEF IsMeaning
<1> QED
  BY <1>1, <1>2, <1>3, <1>11, <1>12, CreatesMeant

LEMMA StepKeepsObjectsMeant ==
  ASSUME SettledInv, GetsWhatItAskedFor, GotIsMeant, ThrownIsMeant, ObjectsAreMeant, Next,
         stack # <<>>
  PROVE  ObjectsAreMeant'
<1>1. IInv /\ Shape /\ Known
  BY DEF SettledInv
<1>2. Advances
  BY <1>1, StepAdvances
<1>3. CASE RunCatchesVariable \/ RunCatchesException
  BY <1>2, <1>3, CatchesAreMeant
<1>4. CASE ProcessObject
  BY <1>2, <1>4, ProcessedIsMeant
<1>5. CASE FilterReference /\ CreateError("error")
  BY <1>2, <1>5, UndecidedIsMeant
<1>6. CASE ProcessSetObject
  BY <1>2, <1>6, SetIsMeant
<1>7. CASE collectedObjects' = collectedObjects
  <2>1. DOMAIN Found' = DOMAIN Found
    BY <1>7 DEF Found
  <2> QED
    BY <1>1, <1>2, <2>1, ObjectStaysMeant DEF ObjectsAreMeant
<1>8. CASE FilterReference /\ ~ CreateError("error")
  BY <1>1, <1>7, <1>8, StepsGoOn DEF GoesOn, ContinueStep
<1>9. ~ RunObject /\ ~ WriteCollectedObjects
  BY DEF RunObject, WriteCollectedObjects
<1> QED
  BY <1>3, <1>4, <1>5, <1>6, <1>7, <1>8, <1>9 DEF Next, ParseStep, VariableStep, RunStep,
     ParseNext, ParseContinues, ParseEnds, ParseFails, GetCachedVariable, UndefinedVariable,
     CacheVariable, ComputeComponent, VariableComponentReturns, ObjectComponentReturns,
     ComputeVariable, VariableFails, RunFromCache, RunParses, RunProcesses,
     CollectReference, Unwind

-----------------------------------------------------------------------------
\* What a variable comes to is meant.
LEMMA FlagStaysMeant ==
  ASSUME Advances, NEW v \in Variables, FlagIsMeant(v), variableFlag'[v] = variableFlag[v]
  PROVE  FlagIsMeant(v)'
<1>1. CASE /\ variableFlag[v] = "error"
           /\ \/ input.own[v] = "throws"
              \/ \E i \in DOMAIN input.needs[v] : input.needs[v][i] \in Broken
  BY <1>1 DEF FlagIsMeant, Advances
<1>2. CASE /\ input.own[v] # "throws"
           /\ \A i \in DOMAIN input.needs[v] : input.needs[v][i] \in Complete \cup DOMAIN Found
           /\ variableFlag[v] = ComputedFlag(input, Found, v)
  <2>1. \A i \in DOMAIN input.needs[v] : input.needs[v][i] \in Variables \cup DOMAIN Found
    BY <1>2 DEF Complete, CompleteIn
  <2>2. ComputedFlag(input, Found', v) = ComputedFlag(input, Found, v)
    BY <2>1, ComputedFlagStays DEF Advances
  <2>3. \A i \in DOMAIN input.needs[v] : input.needs[v][i] \in Complete' \cup DOMAIN Found'
    BY <1>2 DEF Advances, Extends
  <2> QED
    BY <1>2, <2>2, <2>3 DEF FlagIsMeant, Advances
<1> QED
  BY <1>1, <1>2 DEF FlagIsMeant

\* A variable is finished when its computation ends, or was before.
LEMMA FinishedPushes ==
  ASSUME IInv, NEW frame, NEW callee, PushStep(frame, callee), NEW v, Finished(v)'
  PROVE  Finished(v)
<1> DEFINE n == Len(stack)
<1>1. /\ stack \in Seq(Frames) /\ stack # <<>> /\ UNCHANGED variableFlag
      /\ frame = Top \/ (frame.call = "Run" /\ Top.call = "Run")
  BY DEF IInv, TypeOK, PushStep
<1>2. /\ \A j \in 1..(n - 1) : stack'[j] = stack[j]
      /\ stack'[n] = frame
      /\ DOMAIN stack' = 1..(n + 1) /\ DOMAIN stack = 1..n /\ n \in Nat
  BY <1>1, Called DEF PushStep
<1>3. Top = stack[n]
  BY DEF Top
<1> HIDE DEF n
<1>4. ASSUME NEW i \in DOMAIN stack, Computing(i), stack[i].id = v PROVE FALSE
  <2>1. i \in DOMAIN stack' /\ stack'[i] = stack[i]
    BY <1>1, <1>2, <1>3, <1>4 DEF Computing
  <2> QED
    BY <1>4, <2>1 DEF Finished, Computing
<1> QED
  BY <1>1, <1>4 DEF Finished

LEMMA FinishedContinues ==
  ASSUME IInv, NEW frame, GoesOn(frame), variableFlag' = variableFlag \/ CacheVariable,
         NEW v \in Variables, Finished(v)'
  PROVE  Finished(v) /\ variableFlag'[v] = variableFlag[v]
<1> DEFINE n == Len(stack)
<1>1. /\ stack \in Seq(Frames) /\ stack # <<>> /\ frame \in Frames
      /\ frame.call = Top.call /\ frame.id = Top.id
      /\ frame.call = "GetVariable" => frame.at >= 1
      /\ variableFlag \in [Variables -> Flags \cup {"absent"}]
  BY DEF IInv, TypeOK, GoesOn, ContinueStep
<1>2. /\ \A j \in 1..(n - 1) : stack'[j] = stack[j]
      /\ stack'[n] = frame
      /\ DOMAIN stack' = 1..n /\ DOMAIN stack = 1..n /\ n \in Nat /\ n >= 1
  BY <1>1, Continued DEF GoesOn, ContinueStep
<1>3. Top = stack[n] /\ n \in DOMAIN stack'
  BY <1>2 DEF Top
<1> HIDE DEF n
<1>4. ~ (Top.call = "GetVariable" /\ Top.id = v)
  <2> SUFFICES ASSUME Top.call = "GetVariable", Top.id = v PROVE FALSE
    OBVIOUS
  <2>1. PICK i \in DOMAIN stack' : i = n
    BY <1>3
  <2>2. Computing(i)' /\ stack'[i].id = v
    BY <1>1, <1>2, <2>1 DEF Computing
  <2> QED
    BY <2>2 DEF Finished
<1>5. ASSUME NEW i \in DOMAIN stack, Computing(i), stack[i].id = v PROVE FALSE
  <2>1. i # n
    BY <1>3, <1>4, <1>5 DEF Computing
  <2>2. i \in DOMAIN stack' /\ stack'[i] = stack[i]
    BY <1>2, <2>1
  <2> QED
    BY <1>5, <2>2 DEF Finished, Computing
<1>6. variableFlag'[v] = variableFlag[v]
  BY <1>1, <1>4 DEF CacheVariable, In
<1> QED
  BY <1>5, <1>6 DEF Finished

LEMMA FinishedPops ==
  ASSUME IInv, PopStep, variableFlag' = variableFlag \/ ComputeVariable,
         NEW v \in Variables, Finished(v)', ~ (Top.call = "GetVariable" /\ Top.at >= 1 /\ Top.id = v)
  PROVE  Finished(v) /\ variableFlag'[v] = variableFlag[v]
<1> DEFINE n == Len(stack)
<1>1. /\ stack \in Seq(Frames) /\ stack # <<>> /\ Return
      /\ variableFlag \in [Variables -> Flags \cup {"absent"}]
  BY DEF IInv, TypeOK, PopStep
<1>2. /\ \A j \in 1..(n - 1) : stack'[j] = stack[j]
      /\ DOMAIN stack' = 1..(n - 1) /\ DOMAIN stack = 1..n /\ n \in Nat /\ n >= 1
  BY <1>1, Popped
<1>3. Top = stack[n]
  BY DEF Top
<1> HIDE DEF n
<1>4. ASSUME NEW i \in DOMAIN stack, Computing(i), stack[i].id = v PROVE FALSE
  <2>1. i # n
    BY <1>3, <1>4 DEF Computing
  <2>2. i \in DOMAIN stack' /\ stack'[i] = stack[i]
    BY <1>2, <2>1
  <2> QED
    BY <1>4, <2>2 DEF Finished, Computing
<1>5. variableFlag'[v] = variableFlag[v]
  <2> SUFFICES ASSUME ComputeVariable PROVE variableFlag'[v] = variableFlag[v]
    OBVIOUS
  <2>1. Top.id # v
    BY TopComputing DEF ComputeVariable
  <2> QED
    BY <1>1, <2>1 DEF ComputeVariable
<1> QED
  BY <1>4, <1>5 DEF Finished

\* What a variable has got when it has all its components is what it is computed from.
LEMMA CombinedAlike ==
  ASSUME NEW flags, NEW others,
         Occurring(flags) \subseteq Occurring(others),
         Occurring(others) \subseteq Occurring(flags) \cup {"complete"},
         Occurring(flags) \cap {"complete", "error"} # {}
  PROVE  CombineFlags(flags) = CombineFlags(others)
<1> DEFINE some == Occurring(flags)
           all  == Occurring(others)
<1>1. some # {} /\ all # {}
  OBVIOUS
<1>2. "error" \in some <=> "error" \in all
  OBVIOUS
<1>3. \A x \in {"not applicable", "not collected", "does not exist"} : x \in some <=> x \in all
  OBVIOUS
<1>4. "error" \notin some => (some = {"complete"} <=> all = {"complete"})
  OBVIOUS
<1> QED
  BY <1>1, <1>2, <1>3, <1>4 DEF CombineFlags

LEMMA OwnAmongGot ==
  ASSUME NEW own, NEW S, NEW got \in Seq(S), NEW x
  PROVE  x \in Occurring(<<own>> \o got) <=> x = own \/ \E k \in DOMAIN got : x = got[k]
<1> DEFINE all == <<own>> \o got
<1>1. /\ DOMAIN all = 1..(Len(got) + 1) /\ all[1] = own
      /\ \A k \in DOMAIN got : all[k + 1] = got[k]
      /\ \A k \in DOMAIN all : k = 1 \/ k - 1 \in DOMAIN got
  BY OwnThenGot
<1>2. Len(got) \in Nat /\ DOMAIN got = 1..Len(got)
  OBVIOUS
<1> HIDE DEF all
<1>3. 1 \in DOMAIN all /\ \A k \in DOMAIN got : k + 1 \in DOMAIN all
  BY <1>1, <1>2
<1>4. \A k \in DOMAIN all : k # 1 => all[k] = got[k - 1]
  BY <1>1, <1>2
<1> QED
  BY <1>1, <1>3, <1>4 DEF Occurring, all

LEMMA CombinesTheComponents ==
  ASSUME NEW in, NEW m, NEW complete, NEW frame,
         in.needs[frame.id] \in Seq(Uses), frame.got \in Seq(Flags),
         in.own[frame.id] \in {"complete", "error"},
         frame.at = Len(in.needs[frame.id]) + 1, GotOfVariable(in, m, complete, frame)
  PROVE  CombineFlags(<<in.own[frame.id]>> \o frame.got) = ComputedFlag(in, m, frame.id)
<1> DEFINE needs == in.needs[frame.id]
           own   == in.own[frame.id]
           flag(j) == HadFlag(in, m, frame, j)
           parts == [j \in DOMAIN needs |-> ComponentFlag(in, m, needs[j])]
           all   == <<own>> \o parts
           some  == <<own>> \o frame.got
<1>1. /\ \A j \in DOMAIN needs : j < frame.at
      /\ parts \in Seq({parts[j] : j \in DOMAIN needs}) /\ DOMAIN parts = DOMAIN needs
  <2>1. needs \in Seq(Uses) /\ Len(needs) \in Nat /\ DOMAIN needs = 1..Len(needs)
    OBVIOUS
  <2>2. \A j \in DOMAIN needs : j < Len(needs) + 1
    BY <2>1
  <2>3. parts \in [1..Len(needs) -> {parts[j] : j \in DOMAIN needs}]
    BY <2>1
  <2> QED
    BY <2>1, <2>2, <2>3
<1>2. /\ \A k \in DOMAIN frame.got : \E j \in DOMAIN needs : frame.got[k] = flag(j)
      /\ \A j \in DOMAIN needs : needs[j] \in Objects =>
           \E k \in DOMAIN frame.got : frame.got[k] = flag(j)
      /\ \A j \in DOMAIN needs : needs[j] \in complete \cup DOMAIN m
  BY <1>1 DEF GotOfVariable, Had
<1>3. \A j \in DOMAIN needs : flag(j) = parts[j] /\ (needs[j] \notin Objects => flag(j) = "complete")
  <2> SUFFICES ASSUME NEW j \in DOMAIN needs
               PROVE  flag(j) = parts[j] /\ (needs[j] \notin Objects => flag(j) = "complete")
    OBVIOUS
  <2>1. needs[j] \in Uses
    OBVIOUS
  <2> QED
    BY <2>1 DEF HadFlag, ComponentFlag, Uses
<1> HIDE DEF parts, flag
<1>4. \A x : x \in Occurring(some) <=> x = own \/ \E k \in DOMAIN frame.got : x = frame.got[k]
  BY OwnAmongGot
<1>5. \A x : x \in Occurring(all) <=> x = own \/ \E j \in DOMAIN needs : x = parts[j]
  BY <1>1, OwnAmongGot
<1> HIDE DEF all, some
<1>6. Occurring(some) \subseteq Occurring(all)
  BY <1>2, <1>3, <1>4, <1>5
<1>7. Occurring(all) \subseteq Occurring(some) \cup {"complete"}
  BY <1>2, <1>3, <1>4, <1>5
<1>8. own \in Occurring(some)
  BY <1>4
<1>9. CombineFlags(some) = CombineFlags(all)
  BY <1>6, <1>7, <1>8, CombinedAlike
<1> QED
  BY <1>9 DEF some, all, parts, ComputedFlag

LEMMA ComputesTheMeaning ==
  ASSUME IInv, FlagsAreOwn, GotIsMeant, ComputeVariable, NEW v, v = Top.id
  PROVE  /\ v \in Variables /\ input.own[v] # "undefined" /\ input' = input /\ Found' = Found
         /\ input.own[v] = "throws" => variableFlag'[v] = "error"
         /\ input.own[v] # "throws" =>
              /\ \A i \in DOMAIN input.needs[v] : input.needs[v][i] \in Complete \cup DOMAIN Found
              /\ variableFlag'[v] = ComputedFlag(input, Found, v)
<1>1. /\ stack # <<>> /\ Top.call = "GetVariable" /\ Top.id \in Variables
      /\ stack \in Seq(Frames) /\ In("GetVariable") /\ Top.at >= 1 /\ input' = input
      /\ variableFlag \in [Variables -> Flags \cup {"absent"}]
      /\ input.needs[v] \in Seq(Uses) /\ Top.got \in Seq(Flags)
      /\ Top.at = Len(input.needs[v]) + 1 /\ input.own[v] \in Owns
  BY TopComputing DEF ComputeVariable, IInv, TypeOK, Input
<1>2. Len(stack) \in DOMAIN stack /\ stack[Len(stack)] = Top
  BY <1>1 DEF Top
<1>3. input.own[v] # "undefined"
  BY <1>1, <1>2 DEF FlagsAreOwn, OwnFrame
<1>4. GotOfVariable(input, Found, Complete, Top)
  BY <1>1, <1>2 DEF GotIsMeant, GotOfFrame
<1>5. Found' = Found
  BY DEF ComputeVariable, Found
<1>6. ASSUME input.own[v] = "throws" PROVE variableFlag'[v] = "error"
  <2>1. variableFlag' = variableFlag
    BY <1>6 DEF ComputeVariable
  <2> QED
    BY <1>1, <2>1, TopIsUnfinished
<1>7. ASSUME input.own[v] # "throws"
      PROVE  /\ \A i \in DOMAIN input.needs[v] : input.needs[v][i] \in Complete \cup DOMAIN Found
             /\ variableFlag'[v] = ComputedFlag(input, Found, v)
  <2>1. PICK flag : flag = CombineFlags(<<input.own[Top.id]>> \o Top.got)
    OBVIOUS
  <2>2. variableFlag' = [variableFlag EXCEPT ![v] = flag]
    BY <1>7, <2>1 DEF ComputeVariable
  <2>3. input.own[v] \in {"complete", "error"}
    BY <1>1, <1>3, <1>7 DEF Owns
  <2>4. flag = ComputedFlag(input, Found, v)
    BY <1>1, <1>4, <2>1, <2>3, CombinesTheComponents
  <2>5. \A i \in DOMAIN input.needs[v] : i < Top.at
    BY <1>1
  <2>6. \A i \in DOMAIN input.needs[v] : input.needs[v][i] \in Complete \cup DOMAIN Found
    BY <1>4, <2>5 DEF GotOfVariable
  <2> QED
    BY <1>1, <2>2, <2>4, <2>6
<1> QED
  BY <1>1, <1>3, <1>5, <1>6, <1>7

LEMMA FailureIsMeant ==
  ASSUME IInv, Shape, ThrownIsMeant, VariableFails, Advances, NEW v, v = Top.id
  PROVE  FlagIsMeant(v)'
<1>1. /\ stack # <<>> /\ Top.call = "GetVariable" /\ Top.id \in Variables
      /\ In("GetVariable") /\ input' = input
      /\ Top.at \in Nat /\ input.needs[v] \in Seq(Uses) /\ variableFlag' = variableFlag
  BY TopComputing DEF VariableFails, Unwind
<1>2. ret.kind \in Thrown /\ ret # NoReturn /\ ret.kind # "object"
  BY DEF VariableFails, Unwind, Thrown, NoReturn
<1>3. Top.at \in DOMAIN input.needs[v] /\ Top.at >= 1 /\ input.needs[v][Top.at] \notin Objects
  BY <1>1, <1>2, ReturnedTo
<1>4. PICK w \in Variables : w = input.needs[v][Top.at]
  BY <1>1, <1>3 DEF Uses
<1>5. Waits(input, Top, "GetVariable", w) /\ w \in Uses
  BY <1>1, <1>3, <1>4 DEF Waits, Uses
<1>6. w \notin There(input, Variables \ Broken)
  BY <1>1, <1>2, <1>5 DEF ThrownIsMeant, Calls, FailsAs
<1>7. w \in Broken
  <2>1. Variables \ Broken \subseteq Variables
    OBVIOUS
  <2> QED
    BY <1>6, <2>1, ThereVariable
<1>8. variableFlag'[v] = "error"
  BY <1>1, <1>3, TopIsUnfinished
<1> QED
  BY <1>1, <1>3, <1>4, <1>7, <1>8 DEF FlagIsMeant, Advances

LEMMA StepKeepsVariablesMeant ==
  ASSUME SettledInv, GotIsMeant, ThrownIsMeant, VariablesAreMeant, Next, stack # <<>>
  PROVE  VariablesAreMeant'
<1>1. IInv /\ Shape /\ Known /\ FlagsAreOwn
  BY DEF SettledInv
<1>2. Advances
  BY <1>1, StepAdvances
<1> SUFFICES ASSUME NEW v \in Variables, Finished(v)' PROVE FlagIsMeant(v)'
  BY DEF VariablesAreMeant
<1>3. CASE Finished(v) /\ variableFlag'[v] = variableFlag[v]
  BY <1>2, <1>3, FlagStaysMeant DEF VariablesAreMeant
<1>4. CASE ParseNext \/ ComputeComponent \/ CollectReference \/ RunParses
  <2>1. Finished(v)
    BY <1>1, <1>4, Pushes, FinishedPushes
  <2>2. variableFlag' = variableFlag
    BY <1>1, <1>4, Pushes DEF PushStep
  <2> QED
    BY <1>3, <2>1, <2>2
<1>5. CASE \/ ParseContinues \/ CacheVariable \/ VariableComponentReturns
           \/ ObjectComponentReturns \/ RunProcesses
           \/ (FilterReference /\ ~ CreateError("error"))
  <2>1. variableFlag' = variableFlag \/ CacheVariable
    BY <1>5 DEF ParseContinues, VariableComponentReturns, ObjectComponentReturns,
       RunProcesses, FilterReference
  <2>2. PICK frame : GoesOn(frame)
    BY <1>1, <1>5, StepsGoOn
  <2> QED
    BY <1>1, <1>3, <2>1, <2>2, FinishedContinues
<1>6. CASE \/ ParseEnds \/ ParseFails \/ GetCachedVariable \/ UndefinedVariable
           \/ ComputeVariable \/ VariableFails \/ RunFromCache \/ RunCatchesVariable
           \/ RunCatchesException \/ ProcessObject \/ ProcessSetObject
           \/ (FilterReference /\ CreateError("error"))
  <2>1. PopStep
    BY <1>1, <1>6, ReturnsItsOwn
  <2>2. variableFlag' = variableFlag \/ ComputeVariable
    BY <1>1, <1>6, RunPops DEF ParseEnds, ParseFails, GetCachedVariable, UndefinedVariable,
       VariableFails, Unwind
  <2>3. CASE ~ (Top.call = "GetVariable" /\ Top.at >= 1 /\ Top.id = v)
    BY <1>1, <1>3, <2>1, <2>2, <2>3, FinishedPops
  <2>4. CASE Top.call = "GetVariable" /\ Top.at >= 1 /\ Top.id = v
    <3>1. ComputeVariable \/ VariableFails
      <4>1. ~ (ParseEnds \/ ParseFails)
        BY <2>4, ParsePops
      <4>2. ~ (GetCachedVariable \/ UndefinedVariable)
        BY <2>4 DEF GetCachedVariable, UndefinedVariable
      <4>3. ~ (\/ RunFromCache \/ RunCatchesVariable \/ RunCatchesException
               \/ ProcessObject \/ ProcessSetObject
               \/ (FilterReference /\ CreateError("error")))
        BY <1>1, <2>4, RunPops
      <4> QED
        BY <1>6, <4>1, <4>2, <4>3
    <3>2. CASE VariableFails
      BY <1>1, <1>2, <2>4, <3>2, FailureIsMeant
    <3>3. CASE ComputeVariable
      <4>1. /\ v \in Variables /\ input.own[v] # "undefined" /\ input' = input /\ Found' = Found
            /\ input.own[v] = "throws" => variableFlag'[v] = "error"
            /\ input.own[v] # "throws" =>
                 /\ \A i \in DOMAIN input.needs[v] :
                      input.needs[v][i] \in Complete \cup DOMAIN Found
                 /\ variableFlag'[v] = ComputedFlag(input, Found, v)
        BY <1>1, <2>4, <3>3, ComputesTheMeaning
      <4>2. CASE input.own[v] = "throws"
        BY <4>1, <4>2 DEF FlagIsMeant
      <4>3. CASE input.own[v] # "throws"
        BY <1>2, <4>1, <4>3 DEF FlagIsMeant, Advances
      <4> QED
        BY <4>2, <4>3
    <3> QED
      BY <3>1, <3>2, <3>3
  <2> QED
    BY <2>3, <2>4
<1>7. ~ RunObject /\ ~ WriteCollectedObjects
  BY DEF RunObject, WriteCollectedObjects
<1> QED
  BY <1>4, <1>5, <1>6, <1>7 DEF Next, ParseStep, VariableStep, RunStep

\* A variable that becomes complete is, in the end, one of those that can be computed.
LEMMA ComputedIsMeant ==
  ASSUME IInv, FlagsAreOwn, GotIsMeant, ObjectsAreMeant, CompleteIsMeant, ComputeVariable,
         NEW v, v = Top.id, variableFlag'[v] = "complete"
  PROVE  v \in CompleteVariables(input, Found)
<1>1. /\ v \in Variables /\ input.own[v] # "undefined" /\ input.own[v] # "throws"
      /\ \A i \in DOMAIN input.needs[v] : input.needs[v][i] \in Complete \cup DOMAIN Found
      /\ ComputedFlag(input, Found, v) = "complete"
  BY ComputesTheMeaning
<1> SUFFICES ASSUME NEW complete \in SUBSET Variables,
                    ClosedUnderComputing(input, Found, complete)
             PROVE  ComputedFrom(input, Found, complete, v)
  BY <1>1 DEF CompleteVariables, ClosedUnderComputing
<1>2. Complete \subseteq complete
  BY DEF CompleteIsMeant, CompleteVariables
<1>3. There(input, Complete) \subseteq There(input, complete)
  BY <1>2, ThereGrows
<1>4. ASSUME NEW i \in DOMAIN input.needs[v]
      PROVE  input.needs[v][i] \in There(input, complete) \cap (Variables \cup DOMAIN Found)
  <2> DEFINE need == input.needs[v][i]
  <2>1. CASE need \in Complete
    <3>1. need \in There(input, Complete) /\ need \in Variables
      BY <2>1 DEF There, Complete, CompleteIn
    <3> QED
      BY <1>3, <3>1
  <2>2. CASE need \in DOMAIN Found
    <3>1. need \in Objects /\ need \notin Variables
      BY <2>2, ObjectsAreNoVariables DEF Found
    <3>2. Found[need].items # {}
      <4> SUFFICES ASSUME Found[need].items = {} PROVE FALSE
        OBVIOUS
      <4>1. ComponentFlag(input, Found, need) = "error"
        BY <3>1, EmptyIsAnError DEF ComponentFlag
      <4>2. ComputedFlag(input, Found, v) = "error"
        <5> DEFINE parts == [j \in DOMAIN input.needs[v] |-> ComponentFlag(input, Found, input.needs[v][j])]
                   all == <<input.own[v]>> \o parts
        <5>1. parts \in Seq({parts[j] : j \in DOMAIN input.needs[v]})
          <6>1. input.needs[v] \in Seq(Uses)
            BY <1>1 DEF IInv, TypeOK, Input
          <6>2. parts \in [1..Len(input.needs[v]) -> {parts[j] : j \in DOMAIN input.needs[v]}]
            BY <6>1
          <6> QED
            BY <6>1, <6>2
        <5>2. i \in DOMAIN parts /\ parts[i] = "error"
          BY <4>1
        <5> HIDE DEF parts
        <5>3. "error" \in Occurring(all)
          BY <5>1, <5>2, OwnAmongGot
        <5> HIDE DEF all
        <5>4. CombineFlags(all) = "error"
          BY <5>3 DEF CombineFlags
        <5> QED
          BY <5>4 DEF all, parts, ComputedFlag
      <4> QED
        BY <1>1, <4>2
    <3>3. need \in There(input, Complete)
      BY <2>2, <3>2 DEF ObjectsAreMeant, ObjectIsMeant
    <3> QED
      BY <1>3, <2>2, <3>3
  <2> QED
    BY <1>1, <2>1, <2>2
<1> QED
  BY <1>1, <1>4 DEF ComputedFrom

LEMMA StepKeepsCompleteMeant ==
  ASSUME SettledInv, GotIsMeant, ObjectsAreMeant, CompleteIsMeant, Next, stack # <<>>
  PROVE  CompleteIsMeant'
<1>1. IInv /\ Shape /\ Known /\ FlagsAreOwn
  BY DEF SettledInv
<1>2. Advances
  BY <1>1, StepAdvances
<1>3. CompleteVariables(input, Found) \subseteq CompleteVariables(input, Found')
  BY <1>2, CompleteVariablesGrow DEF Advances
<1> SUFFICES ASSUME NEW v \in Variables, variableFlag'[v] = "complete"
             PROVE  v \in CompleteVariables(input, Found)
  BY <1>2, <1>3 DEF CompleteIsMeant, Complete, CompleteIn, Advances
<1>4. CASE variableFlag[v] = "complete"
  BY <1>4 DEF CompleteIsMeant, Complete, CompleteIn
<1>5. CASE variableFlag[v] # "complete"
  <2>1. variableFlag \in [Variables -> Flags \cup {"absent"}]
    BY <1>1 DEF IInv, TypeOK
  <2>2. CASE ComputeVariable
    <3>1. v = Top.id
      BY <1>5, <2>1, <2>2 DEF ComputeVariable
    <3> QED
      BY <1>1, <2>2, <3>1, ComputedIsMeant
  <2>3. CASE CacheVariable
    BY <1>5, <2>1, <2>3 DEF CacheVariable, InitialFlag
  <2>4. CASE ProcessObject \/ ProcessSetObject \/ FilterReference
    <3>1. variableFlag' = variableFlag
      BY <1>1, <2>4, RunPops DEF FilterReference
    <3> QED
      BY <1>5, <3>1
  <2>5. ~ RunObject /\ ~ WriteCollectedObjects
    BY DEF RunObject, WriteCollectedObjects
  <2> QED
    BY <1>5, <2>2, <2>3, <2>4, <2>5 DEF Next, ParseStep, VariableStep, RunStep,
     ParseNext, ParseContinues, ParseEnds, ParseFails, GetCachedVariable, UndefinedVariable,
     ComputeComponent, VariableComponentReturns, ObjectComponentReturns, VariableFails,
     RunFromCache, RunParses, RunCatchesVariable, RunCatchesException, RunProcesses,
     CollectReference, Unwind, CreateError, Create
<1> QED
  BY <1>4, <1>5

-----------------------------------------------------------------------------
\* The invariant of what is collected, which is inductive together with SettledInv.
MeaningInv ==
  /\ UndefinedIsUncached /\ GetsWhatItAskedFor /\ GotIsMeant /\ ThrownIsMeant
  /\ ObjectsAreMeant /\ VariablesAreMeant /\ CompleteIsMeant

LEMMA InitMeans == Init => MeaningInv
<1> SUFFICES ASSUME Init PROVE MeaningInv
  OBVIOUS
<1>1. stack = <<>> /\ ret = NoReturn /\ \A v \in Variables : variableFlag[v] = "absent"
  BY DEF Init
<1>2. DOMAIN stack = {} /\ \A i \in 1..(Len(stack) - 1) : FALSE
  <2>1. Len(stack) = 0
    BY <1>1
  <2> QED
    BY <1>1, <2>1
<1>3. Complete = {} /\ DOMAIN Found = {}
  BY <1>1 DEF Complete, CompleteIn, Found, Init
<1> QED
  BY <1>1, <1>2, <1>3
  DEF MeaningInv, UndefinedIsUncached, GetsWhatItAskedFor, GotIsMeant, ThrownIsMeant,
      ObjectsAreMeant, VariablesAreMeant, Finished, CompleteIsMeant

LEMMA WriteKeepsMeaning ==
  ASSUME WriteCollectedObjects PROVE MeaningInv'
<1>1. stack' = <<>> /\ ret' = NoReturn /\ \A v \in Variables : variableFlag'[v] = "absent"
  BY DEF WriteCollectedObjects
<1>2. DOMAIN stack' = {} /\ \A i \in 1..(Len(stack') - 1) : FALSE
  <2>1. Len(stack') = 0
    BY <1>1
  <2> QED
    BY <1>1, <2>1
<1>3. Complete' = {} /\ DOMAIN Found' = {}
  BY <1>1 DEF Complete, CompleteIn, Found, WriteCollectedObjects
<1> QED
  BY <1>1, <1>2, <1>3
  DEF MeaningInv, UndefinedIsUncached, GetsWhatItAskedFor, GotIsMeant, ThrownIsMeant,
      ObjectsAreMeant, VariablesAreMeant, Finished, CompleteIsMeant

LEMMA StartKeepsMeaning ==
  ASSUME IInv, MeaningInv, RunObject PROVE MeaningInv'
<1>1. /\ stack = <<>> /\ stack' = <<RunFrame(input.order[index])>> /\ ret' = NoReturn
      /\ UNCHANGED <<input, collectedObjects, variableFlag>>
  BY DEF RunObject
<1>2. /\ DOMAIN stack = {} /\ DOMAIN stack' = {1} /\ Len(stack') = 1
      /\ stack'[1].call = "Run" /\ stack'[1].at = 0 /\ stack'[1].got = <<>>
  BY <1>1 DEF RunFrame
<1>3. \A i \in DOMAIN stack' : ~ Computing(i)'
  BY <1>2 DEF Computing
<1>4. Complete' = Complete /\ Found' = Found
  BY <1>1 DEF Complete, CompleteIn, Found
<1>5. Broken' = Broken
  BY <1>1, <1>2, <1>3 DEF Broken
<1>6. UndefinedIsUncached' /\ CompleteIsMeant'
  BY <1>1, <1>4 DEF MeaningInv, UndefinedIsUncached, CompleteIsMeant
<1>7. GetsWhatItAskedFor' /\ ThrownIsMeant'
  BY <1>1, <1>2, FailedKinds DEF GetsWhatItAskedFor, ThrownIsMeant
<1>8. GotIsMeant'
  BY <1>2 DEF GotIsMeant, GotOfFrame, Processing
<1>9. ObjectsAreMeant'
  BY <1>1, <1>4, <1>5 DEF MeaningInv, ObjectsAreMeant, ObjectIsMeant, FailsAs, BrokenFlag
<1>10. \A v \in Variables : (Finished(v)' => Finished(v)) /\ FlagIsMeant(v)' = FlagIsMeant(v)
  BY <1>1, <1>2, <1>4, <1>5 DEF Finished, FlagIsMeant
<1>11. VariablesAreMeant'
  BY <1>10 DEF MeaningInv, VariablesAreMeant
<1> QED
  BY <1>6, <1>7, <1>8, <1>9, <1>11 DEF MeaningInv

LEMMA NextMeans == SettledInv /\ MeaningInv /\ [Next]_vars => MeaningInv'
<1> SUFFICES ASSUME SettledInv, MeaningInv, [Next]_vars PROVE MeaningInv'
  OBVIOUS
<1>1. IInv /\ Shape /\ Known /\ ReturnedIsRecorded
  BY DEF SettledInv, Recorded, AnswersAreSettled
<1>2. CASE Next /\ stack # <<>>
  BY <1>1, <1>2, UncachedStays, StepKeepsAsked, StepKeepsGot, StepSaysWhy,
     StepKeepsObjectsMeant, StepKeepsVariablesMeant, StepKeepsCompleteMeant
  DEF MeaningInv
<1>3. CASE RunObject
  BY <1>1, <1>3, StartKeepsMeaning
<1>4. CASE WriteCollectedObjects
  BY <1>4, WriteKeepsMeaning
<1>5. CASE UNCHANGED vars
  <2>1. /\ UNCHANGED <<input, stack, ret, collectedObjects, variableFlag>> /\ Top' = Top
    BY <1>5 DEF vars, Top
  <2>2. Complete' = Complete /\ Found' = Found
    BY <2>1 DEF Complete, CompleteIn, Found
  <2>3. Broken' = Broken
    BY <2>1 DEF Broken, Computing, Lost, FailedReturn
  <2>4. UndefinedIsUncached' /\ CompleteIsMeant' /\ GetsWhatItAskedFor'
    BY <2>1, <2>2 DEF MeaningInv, UndefinedIsUncached, CompleteIsMeant, GetsWhatItAskedFor
  <2>5. GotIsMeant'
    BY <2>1, <2>2 DEF MeaningInv, GotIsMeant
  <2>6. \A use, flag : FailsAs(use, flag)' = FailsAs(use, flag)
    BY <2>1, <2>2, <2>3 DEF FailsAs, BrokenFlag
  <2>7. ThrownIsMeant'
    BY <2>1, <2>6 DEF MeaningInv, ThrownIsMeant, ThrownFlag
  <2>8. ObjectsAreMeant'
    BY <2>1, <2>2, <2>3 DEF MeaningInv, ObjectsAreMeant, ObjectIsMeant, FailsAs, BrokenFlag
  <2>9. VariablesAreMeant'
    BY <2>1, <2>2, <2>3 DEF MeaningInv, VariablesAreMeant, Finished, Computing, FlagIsMeant
  <2> QED
    BY <2>4, <2>5, <2>7, <2>8, <2>9 DEF MeaningInv
<1>6. Next /\ stack = <<>> => RunObject \/ WriteCollectedObjects
  BY DEF Next, ParseStep, VariableStep, RunStep, ParseNext, ParseContinues, ParseEnds,
     ParseFails, GetCachedVariable, UndefinedVariable, CacheVariable, ComputeComponent,
     VariableComponentReturns, ObjectComponentReturns, ComputeVariable, VariableFails,
     RunFromCache, RunParses, RunCatchesVariable, RunCatchesException, RunProcesses,
     ProcessObject, CollectReference, FilterReference, ProcessSetObject, In
<1> QED
  BY <1>2, <1>3, <1>4, <1>5, <1>6

-----------------------------------------------------------------------------
\* When no call is active every variable is complete, broken or not in the cache, and
\* what is known of the meaning is the meaning.
LEMMA BrokenIsNotComputed ==
  ASSUME MeaningInv, stack = <<>>
  PROVE  CompleteVariables(input, Found) \cap Broken = {}
<1> SUFFICES ClosedUnderComputing(input, Found, Variables \ Broken)
  <2>1. Variables \ Broken \in SUBSET Variables
    OBVIOUS
  <2> QED
    BY <2>1 DEF CompleteVariables
<1> SUFFICES ASSUME NEW v \in Broken, ComputedFrom(input, Found, Variables \ Broken, v)
             PROVE  FALSE
  BY DEF ClosedUnderComputing
<1>1. /\ input.own[v] \notin {"undefined", "throws"}
      /\ \A i \in DOMAIN input.needs[v] : input.needs[v][i] \in There(input, Variables \ Broken)
      /\ ComputedFlag(input, Found, v) = "complete"
  BY DEF ComputedFrom
<1>2. v \in Variables /\ variableFlag[v] \notin {"absent", "complete"}
  BY <1>1 DEF Broken
<1>3. Finished(v)
  BY <1>2 DEF Finished
<1>4. FlagIsMeant(v)
  BY <1>2, <1>3 DEF MeaningInv, VariablesAreMeant
<1>5. PICK i \in DOMAIN input.needs[v] : input.needs[v][i] \in Broken
  BY <1>1, <1>2, <1>4 DEF FlagIsMeant
<1>6. input.needs[v][i] \in Variables /\ Variables \ Broken \subseteq Variables
  BY <1>5 DEF Broken
<1>7. input.needs[v][i] \notin There(input, Variables \ Broken)
  BY <1>5, <1>6, ThereVariable
<1> QED
  BY <1>1, <1>7

LEMMA BrokenFlagIsMeant ==
  ASSUME MeaningInv, stack = <<>>, NEW v \in Broken,
         NEW there, there = There(input, CompleteVariables(input, Found))
  PROVE  BrokenFlag(v) = FailedFlag(input, Found, there, v)
<1>1. CASE input.own[v] = "undefined"
  BY <1>1 DEF BrokenFlag, FailedFlag
<1>2. CASE input.own[v] # "undefined"
  <2>1. v \in Variables /\ Finished(v)
    BY <1>2 DEF Broken, Finished
  <2>2. BrokenFlag(v) = variableFlag[v]
    BY <1>2 DEF BrokenFlag
  <2>3. CompleteVariables(input, Found) \subseteq Variables
    BY DEF CompleteVariables
  <2>4. CASE variableFlag[v] = "error" /\ input.own[v] = "throws"
    BY <2>2, <2>4 DEF FailedFlag
  <2>5. CASE /\ variableFlag[v] = "error"
             /\ \E i \in DOMAIN input.needs[v] : input.needs[v][i] \in Broken
    <3>1. PICK i \in DOMAIN input.needs[v] : input.needs[v][i] \in Broken
      BY <2>5
    <3>2. input.needs[v][i] \in Variables /\ input.needs[v][i] \notin there
      <4>1. input.needs[v][i] \in Variables
        BY <3>1 DEF Broken
      <4>2. input.needs[v][i] \notin CompleteVariables(input, Found)
        BY <3>1, BrokenIsNotComputed
      <4> QED
        BY <2>3, <4>1, <4>2, ThereVariable
    <3> QED
      BY <2>2, <2>5, <3>2 DEF FailedFlag
  <2>6. CASE /\ input.own[v] # "throws"
             /\ \A i \in DOMAIN input.needs[v] : input.needs[v][i] \in Complete \cup DOMAIN Found
             /\ variableFlag[v] = ComputedFlag(input, Found, v)
    <3>1. \A i \in DOMAIN input.needs[v] : input.needs[v][i] \in Variables =>
            input.needs[v][i] \in there
      <4> SUFFICES ASSUME NEW i \in DOMAIN input.needs[v], input.needs[v][i] \in Variables
                   PROVE  input.needs[v][i] \in there
        OBVIOUS
      <4>1. input.needs[v][i] \in Complete
        BY <2>6, ObjectsAreNoVariables DEF Found
      <4>2. input.needs[v][i] \in CompleteVariables(input, Found)
        BY <4>1 DEF MeaningInv, CompleteIsMeant
      <4> QED
        BY <4>2 DEF There
    <3> QED
      BY <1>2, <2>2, <2>6, <3>1 DEF FailedFlag
  <2> QED
    BY <2>1, <2>4, <2>5, <2>6 DEF MeaningInv, VariablesAreMeant, FlagIsMeant
<1> QED
  BY <1>1, <1>2

LEMMA CollectedIsMeant ==
  ASSUME IInv, MeaningInv, stack = <<>>, NEW o \in DOMAIN Found,
         NEW there, there = There(input, CompleteVariables(input, Found))
  PROVE  Found[o] \in ObjectMeaning(input, Found, there, o)
<1>1. There(input, Complete) \subseteq there
  BY ThereGrows DEF MeaningInv, CompleteIsMeant
<1>2. there \subseteq There(input, Variables \ Broken)
  <2>1. CompleteVariables(input, Found) \subseteq Variables \ Broken
    BY BrokenIsNotComputed DEF CompleteVariables
  <2> QED
    BY <2>1, ThereGrows
<1>3. CASE o \in There(input, Complete) /\ IsMeaning(input, Found, o, Found[o])
  BY <1>1, <1>3 DEF IsMeaning, ObjectMeaning
<1>4. CASE Found[o].items = {} /\ FailsAs(o, Found[o].flag)
  <2>1. o \notin there
    BY <1>2, <1>4 DEF FailsAs
  <2>2. PICK v \in Broken : /\ GoesBackTo(input, Complete, Broken, o, v)
                            /\ Found[o].flag = BrokenFlag(v)
    BY <1>4 DEF FailsAs
  <2>3. \A u, w : SurelyStoppedBy(input, Complete, Broken, u, w) => StoppedBy(input, there, u, w)
    BY <1>1, <1>2 DEF SurelyStoppedBy, StoppedBy
  <2>4. v \in Stoppers(input, there, o)
    <3>1. v \in Variables
      BY DEF Broken
    <3> QED
      BY <2>2, <2>3, <3>1 DEF GoesBackTo, Stoppers
  <2>5. Found[o].flag = FailedFlag(input, Found, there, v)
    BY <2>2, BrokenFlagIsMeant
  <2>6. Found[o] = [flag |-> Found[o].flag, items |-> {}]
    <3>1. Found[o] \in Collected
      BY DEF Found, IInv, TypeOK
    <3> QED
      BY <1>4, <3>1 DEF Collected
  <2>7. Found[o] = [flag |-> FailedFlag(input, Found, there, v), items |-> {}]
    BY <2>5, <2>6
  <2> QED
    BY <2>1, <2>4, <2>7 DEF ObjectMeaning
<1> QED
  BY <1>3, <1>4 DEF MeaningInv, ObjectsAreMeant, ObjectIsMeant

\* What is written is what it means.
WrittenIsMeant ==
  LET there == There(input, CompleteVariables(input, written))
  IN  \A o \in DOMAIN written : written[o] \in ObjectMeaning(input, written, there, o)

LEMMA NextWritesTheMeaning ==
  IInv /\ MeaningInv /\ WrittenIsMeant /\ [Next]_vars => WrittenIsMeant'
<1> SUFFICES ASSUME IInv, MeaningInv, WrittenIsMeant, [Next]_vars PROVE WrittenIsMeant'
  OBVIOUS
<1>1. CASE WriteCollectedObjects
  <2>1. stack = <<>> /\ input' = input /\ written' = Found
    BY <1>1 DEF WriteCollectedObjects, Found
  <2>2. PICK there : there = There(input, CompleteVariables(input, Found))
    OBVIOUS
  <2>3. \A o \in DOMAIN Found : Found[o] \in ObjectMeaning(input, Found, there, o)
    BY <2>1, <2>2, CollectedIsMeant
  <2> QED
    BY <2>1, <2>2, <2>3 DEF WrittenIsMeant
<1>2. CASE UNCHANGED <<input, written>>
  BY <1>2 DEF WrittenIsMeant
<1>3. CASE Next /\ stack # <<>>
  <2>1. UNCHANGED <<input, written>>
    BY <1>3, CallsLeaveTheLoop
  <2> QED
    BY <1>2, <2>1
<1>4. CASE RunObject
  BY <1>2, <1>4 DEF RunObject
<1>5. Next /\ stack = <<>> => RunObject \/ WriteCollectedObjects
  BY DEF Next, ParseStep, VariableStep, RunStep, ParseNext, ParseContinues, ParseEnds,
     ParseFails, GetCachedVariable, UndefinedVariable, CacheVariable, ComputeComponent,
     VariableComponentReturns, ObjectComponentReturns, ComputeVariable, VariableFails,
     RunFromCache, RunParses, RunCatchesVariable, RunCatchesException, RunProcesses,
     ProcessObject, CollectReference, FilterReference, ProcessSetObject, In
<1> QED
  BY <1>1, <1>2, <1>3, <1>4, <1>5 DEF vars

\* Every object of the document is written, and what is written is its meaning, in every
\* run on every document, although the collector meets objects in any order, re-enters
\* itself and takes half-finished variables from its cache (AbsDataCollector.cpp:151-205,
\* CollectedObject.cpp:162-174).
THEOREM WhatIsWrittenIsMeant == Spec => []WritesTheMeaning
<1>1. Init => WrittenIsMeant
  BY DEF Init, WrittenIsMeant
<1>2. SettledInv => IInv
  BY DEF SettledInv
<1>3. EveryObjectIsWritten /\ WrittenIsMeant => WritesTheMeaning
  BY DEF WrittenIsMeant, WritesTheMeaning
<1>4. Spec => []WrittenIsMeant
  BY <1>1, <1>2, InitSettles, NextSettles, InitMeans, NextMeans, NextWritesTheMeaning, PTL
  DEF Spec
<1> QED
  BY <1>3, <1>4, EveryObjectStands, PTL
=============================================================================
