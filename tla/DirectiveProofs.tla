-------------------------- MODULE DirectiveProofs --------------------------
(***************************************************************************)
(* What is marked full is exactly what the definitions that are reported in *)
(* full need, for every document and every directives file.                 *)
(***************************************************************************)
EXTENDS Directive, SharedLemmas

\* The calls of WalkReferences are for full elements, and have references of these
\* elements left.
FramesOK ==
  \A i \in DOMAIN stack :
    /\ stack[i].left \subseteq BuildReferences(stack[i].id)
    /\ Walked(stack[i].id)
    /\ stack[i].id \in Full

\* What a full element refers to is full, or left to a call.
PendingOK ==
  \A id \in Full : Walked(id) =>
    \A ref \in BuildReferences(id) :
      ref \in Full \/ \E i \in DOMAIN stack : stack[i].id = id /\ ref \in stack[i].left

EarlyOK ==
  phase \in {"load", "apply"} => stack = <<>> /\ contentType = [id \in Ids |-> "none"]

IInv ==
  /\ document \in Documents
  /\ TypeOK
  /\ FramesOK
  /\ PendingOK
  /\ EarlyOK
  /\ FullIsNeeded

LEMMA CombineFacts ==
  ASSUME NEW a \in Contents, NEW b \in Contents
  PROVE  /\ CombineResultContent(a, b) \in Contents
         /\ CombineResultContent(a, b) = "full" <=> (a = "full" \/ b = "full")
         /\ Rank[a] <= Rank[CombineResultContent(a, b)]
BY DEF Contents, CombineResultContent, Rank

LEMMA ReferencesAreIds ==
  ASSUME document \in Document, NEW id \in Ids
  PROVE  BuildReferences(id) \subseteq Ids
<1>1. document.names[id] \subseteq Reference
  BY DEF Document
<1> QED
  BY <1>1 DEF BuildReferences, Reference

LEMMA DirectiveFacts ==
  ASSUME TypeOK, NEW id \in Ids
  PROVE  GetDirective(id) \in DirectiveElement
<1>1. document.class[id] \in Classes /\ document.result[id] \in Results
  BY DEF TypeOK, Document
<1>2. directives.class \in [Classes -> DirectiveMap] /\ directives.default \in DirectiveMap
  BY DEF TypeOK
<1> QED
  BY <1>1, <1>2 DEF GetDirective, DirectiveMap

\* Marking changes one element.
LEMMA MarkFacts ==
  ASSUME TypeOK, NEW id \in Ids, NEW content \in Contents,
         contentType' = [contentType EXCEPT ![id] = CombineResultContent(@, content)]
  PROVE  /\ contentType' \in [Ids -> Contents]
         /\ \A x \in Ids : x # id => contentType'[x] = contentType[x]
         /\ contentType'[id] = "full" <=> (contentType[id] = "full" \/ content = "full")
<1>1. contentType \in [Ids -> Contents]
  BY DEF TypeOK
<1>2. contentType[id] \in Contents
  BY <1>1
<1>3. CombineResultContent(contentType[id], content) \in Contents
  BY <1>2, CombineFacts
<1>4. contentType' = [contentType EXCEPT ![id] = CombineResultContent(contentType[id], content)]
  OBVIOUS
<1>5. contentType'[id] = CombineResultContent(contentType[id], content)
  BY <1>1, <1>4
<1> QED
  BY <1>1, <1>2, <1>3, <1>4, <1>5, CombineFacts

LEMMA InitOK == Init => IInv
<1> SUFFICES ASSUME Init PROVE IInv
  OBVIOUS
<1>1. document \in Document
  BY DocumentsAssumption DEF Init
<1>2. contentType \in [Ids -> Contents] /\ Full = {}
  BY DEF Init, Contents, Full
<1>3. AllFull \in DirectiveMap
  BY DEF AllFull, DirectiveMap, DirectiveElement
<1>4. directives \in [includeSource : BOOLEAN, default : DirectiveMap,
                     overrides : SUBSET Classes, class : [Classes -> DirectiveMap]]
  BY <1>3 DEF Init, Defaults
<1>5. /\ document.definitions \in Seq(Ids)
      /\ document.criteria \in SUBSET Ids
      /\ document.content \in SUBSET Ids
  BY <1>1 DEF Document
<1>6. report \in [definitions : SUBSET Ids, criteria : SUBSET Ids, content : SUBSET Ids,
                 source : BOOLEAN]
  BY <1>5 DEF Init
<1>7. TypeOK
  BY <1>1, <1>2, <1>4, <1>6 DEF Init, TypeOK
<1> QED
  BY <1>2, <1>7 DEF Init, IInv, FramesOK, PendingOK, EarlyOK, FullIsNeeded

-----------------------------------------------------------------------------
\* Steps that mark nothing and call nothing.

LEMMA QuietKeeps ==
  ASSUME FramesOK, PendingOK, UNCHANGED <<document, contentType, stack>>
  PROVE  FramesOK' /\ PendingOK'
BY DEF FramesOK, PendingOK, Full, Walked, BuildReferences

LEMMA SameDirectivesKeep ==
  ASSUME FullIsNeeded, UNCHANGED <<document, directives, contentType>>
  PROVE  FullIsNeeded'
BY DEF FullIsNeeded, Full, Roots, Closed, Walked, BuildReferences, GetDirective

LEMMA LoadDirectivesKeeps == IInv /\ LoadDirectives => IInv'
<1> SUFFICES ASSUME IInv, LoadDirectives PROVE IInv'
  OBVIOUS
<1>1. document.config \in Configuration
  BY DEF IInv, TypeOK, Document
<1>2. Defaults \in [includeSource : BOOLEAN, default : DirectiveMap,
                    overrides : SUBSET Classes, class : [Classes -> DirectiveMap]]
  BY DEF Defaults, AllFull, DirectiveMap, DirectiveElement
<1>3. directives' \in [includeSource : BOOLEAN, default : DirectiveMap,
                       overrides : SUBSET Classes, class : [Classes -> DirectiveMap]]
  BY <1>1, <1>2 DEF LoadDirectives, Configuration
<1>4. TypeOK'
  BY <1>3 DEF IInv, TypeOK, LoadDirectives
<1>5. FramesOK' /\ PendingOK'
  BY QuietKeeps DEF IInv, LoadDirectives
<1>6. contentType' = [id \in Ids |-> "none"] /\ stack' = <<>>
  BY DEF IInv, EarlyOK, LoadDirectives
<1>7. Full' = {}
  BY <1>6 DEF Full
<1>8. FullIsNeeded'
  BY <1>7 DEF FullIsNeeded
<1>9. EarlyOK'
  BY <1>6 DEF EarlyOK
<1> QED
  BY <1>4, <1>5, <1>8, <1>9 DEF IInv, LoadDirectives

LEMMA ApplyAllKeeps == IInv /\ ApplyAll => IInv'
<1> SUFFICES ASSUME IInv, ApplyAll PROVE IInv'
  OBVIOUS
<1>1. TypeOK'
  BY DEF IInv, TypeOK, ApplyAll
<1>2. FramesOK' /\ PendingOK' /\ FullIsNeeded'
  BY QuietKeeps, SameDirectivesKeep DEF IInv, ApplyAll
<1>3. EarlyOK'
  BY DEF IInv, EarlyOK, ApplyAll
<1> QED
  BY <1>1, <1>2, <1>3 DEF IInv, ApplyAll

LEMMA RemoveDefinitionsKeeps == IInv /\ RemoveDefinitions => IInv'
<1> SUFFICES ASSUME IInv, RemoveDefinitions PROVE IInv'
  OBVIOUS
<1>1. report' \in [definitions : SUBSET Ids, criteria : SUBSET Ids, content : SUBSET Ids,
                   source : BOOLEAN]
  BY DEF IInv, TypeOK, RemoveDefinitions
<1>2. TypeOK'
  BY <1>1 DEF IInv, TypeOK, RemoveDefinitions
<1>3. FramesOK' /\ PendingOK' /\ FullIsNeeded'
  BY QuietKeeps, SameDirectivesKeep DEF IInv, RemoveDefinitions
<1>4. EarlyOK'
  BY DEF EarlyOK, RemoveDefinitions
<1> QED
  BY <1>2, <1>3, <1>4 DEF IInv, RemoveDefinitions

LEMMA RemoveElementsKeeps == IInv /\ RemoveElements => IInv'
<1> SUFFICES ASSUME IInv, RemoveElements PROVE IInv'
  OBVIOUS
<1>1. report' \in [definitions : SUBSET Ids, criteria : SUBSET Ids, content : SUBSET Ids,
                   source : BOOLEAN]
  BY DEF IInv, TypeOK, RemoveElements, RemoveUnwanted
<1>2. TypeOK'
  BY <1>1 DEF IInv, TypeOK, RemoveElements
<1>3. FramesOK' /\ PendingOK' /\ FullIsNeeded'
  BY QuietKeeps, SameDirectivesKeep DEF IInv, RemoveElements
<1>4. EarlyOK'
  BY DEF EarlyOK, RemoveElements
<1> QED
  BY <1>2, <1>3, <1>4 DEF IInv, RemoveElements

-----------------------------------------------------------------------------
\* Marking.

LEMMA MarkDefinitionKeeps == IInv /\ MarkDefinition => IInv'
<1> SUFFICES ASSUME IInv, MarkDefinition PROVE IInv'
  OBVIOUS
<1> DEFINE id == document.definitions[position]
<1> DEFINE directive == GetDirective(id)
<1>1. TypeOK /\ document \in Document /\ stack = <<>> /\ phase = "mark"
  BY DEF IInv, TypeOK, MarkDefinition
<1>2. id \in Ids /\ id \in {document.definitions[k] : k \in DOMAIN document.definitions}
  BY <1>1 DEF Document, MarkDefinition
<1>3. document.kind[id] = "definition"
  BY DocumentsAssumption DEF IInv, MarkDefinition
<1>4. directive \in DirectiveElement
  BY <1>1, <1>2, DirectiveFacts
<1>5. /\ contentType' = IF directive.reported
                          THEN [contentType EXCEPT ![id] = CombineResultContent(@, directive.content)]
                        ELSE contentType
      /\ stack' = IF IsWalked(directive) THEN <<Call(id)>> ELSE <<>>
      /\ UNCHANGED <<document, directives, phase, report>>
      /\ position' = position + 1
  BY DEF MarkDefinition
<1>6. BuildReferences(id) \subseteq Ids
  BY <1>1, <1>2, ReferencesAreIds
<1> HIDE DEF id, directive
<1>7. directive.content \in Contents
  BY <1>4 DEF DirectiveElement, Contents
<1>8. /\ contentType' \in [Ids -> Contents]
      /\ \A x \in Ids : x # id => contentType'[x] = contentType[x]
      /\ contentType'[id] = "full" <=>
           (contentType[id] = "full" \/ (directive.reported /\ directive.content = "full"))
  <2>1. CASE directive.reported
    BY <1>1, <1>2, <1>5, <1>7, <2>1, MarkFacts
  <2>2. CASE ~directive.reported
    BY <1>1, <1>5, <2>2 DEF TypeOK
  <2> QED
    BY <2>1, <2>2
<1>9. IsWalked(directive) <=> (directive.reported /\ directive.content = "full")
  BY <1>4 DEF IsWalked, DirectiveElement
<1>10. /\ Full \subseteq Full'
       /\ Full' \subseteq Full \cup {id}
       /\ IsWalked(directive) => id \in Full'
       /\ ~IsWalked(directive) => Full' = Full
  BY <1>2, <1>8, <1>9 DEF Full
<1>11. Call(id) \in Frame
  BY <1>2, <1>6 DEF Call, Frame
<1>12. TypeOK'
  <2>1. stack' \in Seq(Frame)
    BY <1>5, <1>11
  <2> QED
    BY <1>1, <1>5, <1>8, <2>1 DEF TypeOK
<1>13. Walked(id)
  BY <1>3 DEF Walked
<1>14. \A x \in Ids : BuildReferences(x)' = BuildReferences(x) /\ Walked(x)' = Walked(x)
  BY <1>5 DEF BuildReferences, Walked
<1>15. FramesOK'
  <2>1. CASE IsWalked(directive)
    <3>1. stack' = <<Call(id)>>
      BY <1>5, <2>1
    <3>2. DOMAIN stack' = {1} /\ stack'[1].id = id /\ stack'[1].left = BuildReferences(id)
      BY <3>1 DEF Call
    <3> QED
      BY <1>2, <1>10, <1>13, <1>14, <2>1, <3>2 DEF FramesOK
  <2>2. CASE ~IsWalked(directive)
    BY <1>5, <2>2 DEF FramesOK
  <2> QED
    BY <2>1, <2>2
<1>16. PendingOK'
  <2>1. \A x \in Full : Walked(x) => BuildReferences(x) \subseteq Full
    BY <1>1 DEF IInv, PendingOK
  <2>2. CASE IsWalked(directive)
    <3>1. DOMAIN stack' = {1} /\ stack'[1].id = id /\ stack'[1].left = BuildReferences(id)
      BY <1>5, <2>2 DEF Call
    <3>2. \A x \in Full' : x \in Ids /\ (x \in Full \/ x = id)
      BY <1>10 DEF Full
    <3> QED
      BY <1>10, <1>14, <2>1, <3>1, <3>2 DEF PendingOK
  <2>3. CASE ~IsWalked(directive)
    <3>1. \A x \in Full : x \in Ids
      BY DEF Full
    <3> QED
      BY <1>10, <1>14, <2>1, <2>3, <3>1 DEF PendingOK
  <2> QED
    BY <2>2, <2>3
<1>17. FullIsNeeded'
  <2>1. Roots' = Roots /\ \A S \in SUBSET Ids : Closed(S)' = Closed(S)
    BY <1>5 DEF Roots, GetDirective, Closed, BuildReferences, Walked
  <2>2. IsWalked(directive) => id \in Roots
    BY <1>2, <1>4, <1>9 DEF Roots, DirectiveElement, directive
  <2> QED
    BY <1>10, <2>1, <2>2 DEF FullIsNeeded, IInv
<1>18. EarlyOK'
  BY <1>1, <1>5 DEF EarlyOK
<1> QED
  BY <1>5, <1>12, <1>15, <1>16, <1>17, <1>18 DEF IInv

-----------------------------------------------------------------------------
\* Walking.

LEMMA TopFacts ==
  ASSUME TypeOK, FramesOK, stack # <<>>
  PROVE  /\ Len(stack) \in DOMAIN stack
         /\ Top = stack[Len(stack)]
         /\ Top \in Frame
         /\ Top.left \subseteq BuildReferences(Top.id)
         /\ Walked(Top.id)
         /\ Top.id \in Full
<1>1. stack \in Seq(Frame) /\ Len(stack) \in DOMAIN stack
  BY DEF TypeOK
<1> QED
  BY <1>1 DEF FramesOK, Top

LEMMA WalkReferenceKeeps == IInv /\ WalkReference => IInv'
<1> SUFFICES ASSUME IInv, WalkReference PROVE IInv'
  OBVIOUS
<1> DEFINE n == Len(stack)
<1>1. TypeOK /\ document \in Document /\ stack # <<>> /\ FramesOK /\ stack \in Seq(Frame)
  BY DEF IInv, TypeOK, WalkReference
<1>2. /\ n \in DOMAIN stack /\ n \in Nat
      /\ Top = stack[n] /\ Top \in Frame
      /\ Top.left \subseteq BuildReferences(Top.id)
      /\ Walked(Top.id) /\ Top.id \in Full
  BY <1>1, TopFacts
<1>3. PICK ref \in Top.left :
        LET advanced == [stack EXCEPT ![n] = [id |-> Top.id, left |-> Visited(Top.left, ref)]]
        IN  /\ contentType' = [contentType EXCEPT ![ref] = CombineResultContent(@, "full")]
            /\ stack' = IF MustWalk(ref) THEN Append(advanced, Call(ref)) ELSE advanced
  BY DEF WalkReference
<1> DEFINE rest == [id |-> Top.id, left |-> Visited(Top.left, ref)]
<1>4. ref \in Ids /\ ref \in BuildReferences(Top.id)
  BY <1>2 DEF Frame
<1>5. rest \in Frame /\ rest.id = Top.id /\ rest.left = Top.left \ {ref}
  BY <1>2 DEF Frame, Visited
<1>6. Call(ref) \in Frame /\ Call(ref).id = ref /\ Call(ref).left = BuildReferences(ref)
  BY <1>1, <1>4, ReferencesAreIds DEF Call, Frame
<1>7. /\ contentType' \in [Ids -> Contents]
      /\ \A x \in Ids : x # ref => contentType'[x] = contentType[x]
      /\ contentType'[ref] = "full"
  BY <1>1, <1>3, <1>4, MarkFacts DEF Contents
<1>8. Full' = Full \cup {ref}
  BY <1>4, <1>7 DEF Full
<1>9. UNCHANGED <<document, directives, position, phase, report>>
  BY DEF WalkReference
<1> HIDE DEF rest
<1>frames. FramesOK' <=>
        \A i \in DOMAIN stack' :
          /\ stack'[i].left \subseteq BuildReferences(stack'[i].id)
          /\ Walked(stack'[i].id)
          /\ stack'[i].id \in Full'
  BY <1>9 DEF FramesOK, BuildReferences, Walked
<1>10. ASSUME MustWalk(ref)
       PROVE  stack' \in Seq(Frame) /\ FramesOK' /\ PendingOK'
  <2>1. stack' = Append([stack EXCEPT ![Len(stack)] = rest], Call(ref))
    BY <1>3, <1>10 DEF rest
  <2>2. /\ stack' \in Seq(Frame)
        /\ Len(stack') = n + 1
        /\ stack'[n] = rest
        /\ stack'[n + 1] = Call(ref)
        /\ \A i \in 1 .. n - 1 : stack'[i] = stack[i]
    BY <1>1, <1>5, <1>6, <2>1, PushFacts
  <2>3. Walked(ref)
    BY <1>10 DEF MustWalk, Walked
  <2>4. DOMAIN stack' = 1 .. n + 1 /\ DOMAIN stack = 1 .. n
    BY <1>1, <1>2, <2>2
  <2>5. FramesOK'
    <3> SUFFICES ASSUME NEW i \in DOMAIN stack'
                 PROVE  /\ stack'[i].left \subseteq BuildReferences(stack'[i].id)
                        /\ Walked(stack'[i].id)
                        /\ stack'[i].id \in Full'
      BY <1>frames
    <3>1. CASE i \in 1 .. n - 1
      <4>1. i \in DOMAIN stack /\ stack'[i] = stack[i]
        BY <1>2, <2>2, <2>4, <3>1
      <4> QED
        BY <1>1, <1>8, <4>1 DEF FramesOK
    <3>2. CASE i = n
      BY <1>2, <1>5, <1>8, <2>2, <3>2
    <3>3. CASE i = n + 1
      BY <1>6, <1>8, <2>2, <2>3, <3>3
    <3> QED
      BY <1>2, <2>4, <3>1, <3>2, <3>3
  <2>6. PendingOK'
    <3> SUFFICES ASSUME NEW id \in Full', Walked(id)', NEW r \in BuildReferences(id)', r \notin Full'
                 PROVE  \E i \in DOMAIN stack' : stack'[i].id = id /\ r \in stack'[i].left
      BY DEF PendingOK
    <3>1. Walked(id) /\ r \in BuildReferences(id) /\ r \notin Full /\ r # ref
      BY <1>8, <1>9 DEF Walked, BuildReferences
    <3>2. CASE id \in Full
      <4>1. PICK i \in DOMAIN stack : stack[i].id = id /\ r \in stack[i].left
        BY <3>1, <3>2 DEF IInv, PendingOK
      <4>2. CASE i = n
        <5>1. n \in DOMAIN stack' /\ stack'[n].id = id /\ r \in stack'[n].left
          BY <1>2, <1>5, <2>2, <2>4, <3>1, <4>1, <4>2
        <5> QED
          BY <5>1
      <4>3. CASE i # n
        <5>1. i \in DOMAIN stack' /\ stack'[i] = stack[i]
          BY <1>2, <2>2, <2>4, <4>3
        <5> QED
          BY <4>1, <5>1
      <4> QED
        BY <4>2, <4>3
    <3>3. CASE id = ref
      <4>1. n + 1 \in DOMAIN stack' /\ stack'[n + 1].id = id /\ r \in stack'[n + 1].left
        BY <1>2, <1>6, <2>2, <2>4, <3>1, <3>3
      <4> QED
        BY <4>1
    <3> QED
      BY <1>8, <3>2, <3>3
  <2> QED
    BY <2>2, <2>5, <2>6
<1>11. ASSUME ~MustWalk(ref)
       PROVE  stack' \in Seq(Frame) /\ FramesOK' /\ PendingOK'
  <2>1. stack' = [stack EXCEPT ![Len(stack)] = rest]
    BY <1>3, <1>11 DEF rest
  <2>2. /\ stack' \in Seq(Frame)
        /\ Len(stack') = n
        /\ stack'[n] = rest
        /\ \A i \in 1 .. n - 1 : stack'[i] = stack[i]
    BY <1>1, <1>5, <2>1, ReplaceFacts
  <2>3. ~Walked(ref) \/ ref \in Full
    BY <1>4, <1>11 DEF MustWalk, Walked, Full
  <2>4. DOMAIN stack' = 1 .. n /\ DOMAIN stack = 1 .. n
    BY <1>1, <1>2, <2>2
  <2>5. FramesOK'
    <3> SUFFICES ASSUME NEW i \in DOMAIN stack'
                 PROVE  /\ stack'[i].left \subseteq BuildReferences(stack'[i].id)
                        /\ Walked(stack'[i].id)
                        /\ stack'[i].id \in Full'
      BY <1>frames
    <3>1. CASE i # n
      <4>1. i \in DOMAIN stack /\ stack'[i] = stack[i]
        BY <1>2, <2>2, <2>4, <3>1
      <4> QED
        BY <1>1, <1>8, <4>1 DEF FramesOK
    <3>2. CASE i = n
      BY <1>2, <1>5, <1>8, <2>2, <3>2
    <3> QED
      BY <3>1, <3>2
  <2>6. PendingOK'
    <3> SUFFICES ASSUME NEW id \in Full', Walked(id)', NEW r \in BuildReferences(id)', r \notin Full'
                 PROVE  \E i \in DOMAIN stack' : stack'[i].id = id /\ r \in stack'[i].left
      BY DEF PendingOK
    <3>1. Walked(id) /\ r \in BuildReferences(id) /\ r \notin Full /\ r # ref
      BY <1>8, <1>9 DEF Walked, BuildReferences
    <3>2. id \in Full
      BY <1>8, <2>3, <3>1
    <3>3. PICK i \in DOMAIN stack : stack[i].id = id /\ r \in stack[i].left
      BY <3>1, <3>2 DEF IInv, PendingOK
    <3>4. i \in DOMAIN stack' /\ stack'[i].id = id /\ r \in stack'[i].left
      <4>1. CASE i = n
        BY <1>2, <1>5, <2>2, <2>4, <3>1, <3>3, <4>1
      <4>2. CASE i # n
        BY <1>2, <2>2, <2>4, <3>3, <4>2
      <4> QED
        BY <4>1, <4>2
    <3> QED
      BY <3>4
  <2> QED
    BY <2>2, <2>5, <2>6
<1>12. stack' \in Seq(Frame) /\ FramesOK' /\ PendingOK'
  BY <1>10, <1>11
<1>13. TypeOK'
  BY <1>1, <1>7, <1>9, <1>12 DEF TypeOK
<1>14. FullIsNeeded'
  <2>1. Roots' = Roots /\ \A S \in SUBSET Ids : Closed(S)' = Closed(S)
    BY <1>9 DEF Roots, GetDirective, Closed, BuildReferences, Walked
  <2>2. ASSUME NEW S \in SUBSET Ids, Closed(S), Full \subseteq S
        PROVE  ref \in S
    BY <1>2, <1>4, <2>2 DEF Closed
  <2> QED
    BY <1>8, <2>1, <2>2 DEF FullIsNeeded, IInv
<1>15. EarlyOK'
  BY <1>1, <1>9 DEF IInv, EarlyOK
<1> QED
  BY <1>9, <1>12, <1>13, <1>14, <1>15 DEF IInv

LEMMA ReturnFromWalkKeeps == IInv /\ ReturnFromWalk => IInv'
<1> SUFFICES ASSUME IInv, ReturnFromWalk PROVE IInv'
  OBVIOUS
<1> DEFINE n == Len(stack)
<1>1. TypeOK /\ stack # <<>> /\ FramesOK /\ stack \in Seq(Frame)
  BY DEF IInv, TypeOK, ReturnFromWalk
<1>2. n \in DOMAIN stack /\ n \in Nat /\ DOMAIN stack = 1 .. n /\ Top = stack[n] /\ Top.left = {}
  BY <1>1, TopFacts DEF ReturnFromWalk
<1>3. /\ stack' \in Seq(Frame)
      /\ Len(stack') = n - 1
      /\ \A i \in 1 .. n - 1 : stack'[i] = stack[i]
  BY <1>1, PopFacts DEF ReturnFromWalk
<1>4. DOMAIN stack' = 1 .. n - 1
  BY <1>2, <1>3
<1>5. UNCHANGED <<document, directives, contentType, position, phase, report>>
  BY DEF ReturnFromWalk
<1>6. TypeOK'
  BY <1>1, <1>3, <1>5 DEF TypeOK
<1>7. Full' = Full
  BY <1>5 DEF Full
<1>8. FramesOK'
  <2> SUFFICES ASSUME NEW i \in DOMAIN stack'
               PROVE  /\ stack'[i].left \subseteq BuildReferences(stack'[i].id)
                      /\ Walked(stack'[i].id)
                      /\ stack'[i].id \in Full'
    BY <1>5 DEF FramesOK, BuildReferences, Walked
  <2>1. i \in DOMAIN stack /\ stack'[i] = stack[i]
    BY <1>2, <1>3, <1>4
  <2> QED
    BY <1>1, <1>7, <2>1 DEF FramesOK
<1>9. PendingOK'
  <2> SUFFICES ASSUME NEW id \in Full', Walked(id)', NEW r \in BuildReferences(id)', r \notin Full'
               PROVE  \E i \in DOMAIN stack' : stack'[i].id = id /\ r \in stack'[i].left
    BY DEF PendingOK
  <2>1. id \in Full /\ Walked(id) /\ r \in BuildReferences(id) /\ r \notin Full
    BY <1>5, <1>7 DEF Walked, BuildReferences
  <2>2. PICK i \in DOMAIN stack : stack[i].id = id /\ r \in stack[i].left
    BY <2>1 DEF IInv, PendingOK
  <2>3. i # n
    BY <1>2, <2>2
  <2>4. i \in DOMAIN stack' /\ stack'[i] = stack[i]
    BY <1>2, <1>3, <1>4, <2>3
  <2> QED
    BY <2>2, <2>4
<1>10. FullIsNeeded'
  BY <1>5, SameDirectivesKeep DEF IInv
<1>11. EarlyOK'
  BY <1>1, <1>5 DEF IInv, EarlyOK
<1> QED
  BY <1>5, <1>6, <1>8, <1>9, <1>10, <1>11 DEF IInv

-----------------------------------------------------------------------------
LEMMA NextOK == IInv /\ [Next]_vars => IInv'
<1> SUFFICES ASSUME IInv, [Next]_vars PROVE IInv'
  OBVIOUS
<1>1. CASE UNCHANGED vars
  <2>1. TypeOK' /\ EarlyOK' /\ document' \in Documents
    BY <1>1 DEF IInv, TypeOK, EarlyOK, vars
  <2>2. FramesOK' /\ PendingOK' /\ FullIsNeeded'
    BY <1>1, QuietKeeps, SameDirectivesKeep DEF IInv, vars
  <2> QED
    BY <2>1, <2>2 DEF IInv
<1> QED
  BY <1>1, LoadDirectivesKeeps, ApplyAllKeeps, MarkDefinitionKeeps, WalkReferenceKeeps,
     ReturnFromWalkKeeps, RemoveDefinitionsKeeps, RemoveElementsKeeps DEF Next

LEMMA Invariance == Spec => []IInv
BY InitOK, NextOK, PTL DEF Spec

\* The state of Directive is well typed for every document and directives file: a mark
\* is none, thin or full, and every call is for an element (WalkReferences).
THEOREM TypeCorrect == Spec => []TypeOK
<1>1. IInv => TypeOK
  BY DEF IInv
<1> QED
  BY <1>1, Invariance, PTL

\* Whenever no walk is under way, what a full element refers to is full, for every
\* document, cycles and shared elements included (WalkReferences).
THEOREM MarkedIsClosed == Spec => []FullIsClosed
<1>1. IInv => FullIsClosed
  BY DEF IInv, PendingOK, FullIsClosed, Closed
<1> QED
  BY <1>1, Invariance, PTL

\* Nothing is marked full that no definition reported in full needs (ApplyAll).
THEOREM MarkedIsNeeded == Spec => []FullIsNeeded
<1>1. IInv => FullIsNeeded
  BY DEF IInv
<1> QED
  BY <1>1, Invariance, PTL

LEMMA MarksGrow ==
  IInv /\ [Next]_vars => \A id \in Ids : Rank[contentType[id]] <= Rank[contentType'[id]]
<1> SUFFICES ASSUME IInv, [Next]_vars, NEW id \in Ids
             PROVE  Rank[contentType[id]] <= Rank[contentType'[id]]
  OBVIOUS
<1>1. contentType \in [Ids -> Contents] /\ contentType[id] \in Contents
  BY DEF IInv, TypeOK
<1>2. ASSUME contentType' = contentType
      PROVE  Rank[contentType[id]] <= Rank[contentType'[id]]
  BY <1>1, <1>2 DEF Rank, Contents
<1>3. ASSUME NEW x \in Ids, NEW content \in Contents,
             contentType' = [contentType EXCEPT ![x] = CombineResultContent(@, content)]
      PROVE  Rank[contentType[id]] <= Rank[contentType'[id]]
  <2>1. CASE x = id
    <3>1. contentType'[id] = CombineResultContent(contentType[id], content)
      BY <1>1, <1>3, <2>1
    <3> QED
      BY <1>1, <3>1, CombineFacts
  <2>2. CASE x # id
    <3>1. contentType'[id] = contentType[id]
      BY <1>1, <1>3, <2>2
    <3> QED
      BY <1>1, <3>1 DEF Rank, Contents
  <2> QED
    BY <2>1, <2>2
<1>4. CASE MarkDefinition
  <2> DEFINE d == document.definitions[position]
  <2>1. d \in Ids
    BY <1>4 DEF IInv, TypeOK, Document, MarkDefinition
  <2>2. GetDirective(d).content \in Contents
    BY <2>1, DirectiveFacts DEF IInv, DirectiveElement, Contents
  <2>3. contentType' = IF GetDirective(d).reported
                         THEN [contentType EXCEPT
                                 ![d] = CombineResultContent(@, GetDirective(d).content)]
                       ELSE contentType
    BY <1>4 DEF MarkDefinition
  <2> HIDE DEF d
  <2> QED
    BY <1>2, <1>3, <2>1, <2>2, <2>3
<1>5. CASE WalkReference
  <2>1. PICK ref \in Top.left :
          contentType' = [contentType EXCEPT ![ref] = CombineResultContent(@, "full")]
    BY <1>5 DEF WalkReference
  <2>2. Top \in Frame
    BY <1>5, TopFacts DEF IInv, WalkReference
  <2> QED
    BY <1>3, <2>1, <2>2 DEF Frame, Contents
<1> QED
  BY <1>2, <1>4, <1>5 DEF Next, LoadDirectives, ApplyAll, ReturnFromWalk, RemoveDefinitions,
     RemoveElements, vars

\* The content that a definition asked for is never lost, for every document: a mark only
\* goes from none to thin to full (CombineResultContent).
THEOREM ContentIsKept == Spec => MarksOnlyGrow
<1>1. IInv /\ [Next]_vars => [\A id \in Ids : Rank[contentType[id]] <= Rank[contentType'[id]]]_vars
  BY MarksGrow
<1> QED
  BY <1>1, Invariance, PTL DEF Spec, MarksOnlyGrow
-----------------------------------------------------------------------------
\* What is left.  The marks are complete when the last definition is reached, and
\* what is removed depends on the marks alone.

All == {document.definitions[k] : k \in DOMAIN document.definitions}

\* The content of a definition whose turn has come is at least what its directive says,
\* and an element is thin by the directive of a definition only.
TurnsTaken ==
  \A k \in DOMAIN document.definitions :
    LET id == document.definitions[k]
    IN  k < position /\ GetDirective(id).reported =>
          /\ contentType[id] # "none"
          /\ GetDirective(id).content = "full" => contentType[id] = "full"

ThinIsReported ==
  \A id \in Ids : contentType[id] = "thin" => id \in All /\ GetDirective(id).reported

Untouched ==
  /\ report.definitions = All
  /\ report.criteria = document.criteria
  /\ report.content = document.content

ReportInv ==
  /\ phase # "mark" => stack = <<>>
  /\ phase \in {"load", "apply"} => position = 1
  /\ phase \in {"load", "apply", "mark"} => Untouched
  /\ phase = "mark" => TurnsTaken /\ ThinIsReported
  /\ phase = "prune" =>
       /\ Full = Needed
       /\ report.definitions = {id \in All : id \in Full \/ GetDirective(id).reported}
       /\ report.criteria = Full \cap document.criteria
       /\ report.content = document.content
  /\ ReportFollowsDirectives

\* Once every definition has been reached, what is full is what is needed.
LEMMA FullIsAllNeeded ==
  ASSUME IInv, ReportInv, Marked
  PROVE  Full = Needed
<1>1. Full \in SUBSET Ids
  BY DEF Full
<1>2. Closed(Full)
  BY DEF IInv, PendingOK, Closed, Marked
<1>3. Roots \subseteq Full
  <2> SUFFICES ASSUME NEW id \in Roots PROVE id \in Full
    OBVIOUS
  <2>1. PICK k \in DOMAIN document.definitions : document.definitions[k] = id
    BY DEF Roots
  <2>2. GetDirective(id) = [reported |-> TRUE, content |-> "full"]
    BY DEF Roots
  <2>3. document.definitions \in Seq(Ids) /\ position \in Nat \ {0}
    BY DEF IInv, TypeOK, Document
  <2>4. k < position /\ id \in Ids
    BY <2>1, <2>3 DEF Marked
  <2> QED
    BY <2>1, <2>2, <2>4 DEF ReportInv, TurnsTaken, Marked, Full
<1>4. Needed \subseteq Full
  BY <1>1, <1>2, <1>3, Zenon DEF Needed
<1>5. Full \subseteq Needed
  <2> SUFFICES ASSUME NEW id \in Full, NEW S \in SUBSET Ids, Roots \subseteq S, Closed(S)
               PROVE  id \in S
    BY <1>1 DEF Needed
  <2> QED
    BY DEF IInv, FullIsNeeded
<1> QED
  BY <1>4, <1>5

LEMMA InitReports == Init => ReportInv
BY DEF Init, ReportInv, Untouched, All, ReportFollowsDirectives

LEMMA LoadDirectivesReports == ReportInv /\ LoadDirectives => ReportInv'
BY DEF ReportInv, LoadDirectives, Untouched, All, ReportFollowsDirectives

LEMMA ApplyAllReports == IInv /\ ReportInv /\ ApplyAll => ReportInv'
<1> SUFFICES ASSUME IInv, ReportInv, ApplyAll PROVE ReportInv'
  OBVIOUS
<1>1. /\ phase = "apply" /\ position = 1 /\ stack = <<>> /\ Untouched
      /\ contentType = [id \in Ids |-> "none"]
      /\ document.definitions \in Seq(Ids)
      /\ phase' = IF Skips THEN "done" ELSE "mark"
      /\ UNCHANGED <<document, directives, contentType, position, stack, report>>
  BY DEF ReportInv, IInv, EarlyOK, TypeOK, Document, ApplyAll
<1>2. TurnsTaken'
  <2>1. \A k \in DOMAIN document.definitions : ~(k < 1)
    BY <1>1
  <2> QED
    BY <1>1, <2>1 DEF TurnsTaken
<1>3. ThinIsReported'
  BY <1>1 DEF ThinIsReported
<1>4. Untouched' /\ Skips' = Skips
  BY <1>1 DEF Untouched, All, Skips
<1>5. ReportFollowsDirectives'
  BY <1>1, <1>4 DEF ReportFollowsDirectives
<1> QED
  BY <1>1, <1>2, <1>3, <1>4, <1>5 DEF ReportInv

LEMMA MarkDefinitionReports == IInv /\ ReportInv /\ MarkDefinition => ReportInv'
<1> SUFFICES ASSUME IInv, ReportInv, MarkDefinition PROVE ReportInv'
  OBVIOUS
<1> DEFINE id == document.definitions[position]
           directive == GetDirective(id)
<1>1. /\ TypeOK /\ phase = "mark" /\ position \in DOMAIN document.definitions
      /\ TurnsTaken /\ ThinIsReported /\ Untouched
      /\ document.definitions \in Seq(Ids) /\ position \in Nat
      /\ contentType \in [Ids -> Contents]
  BY DEF IInv, ReportInv, TypeOK, Document, MarkDefinition
<1>2. id \in Ids /\ id \in All
  BY <1>1 DEF All
<1>3. directive \in DirectiveElement
  BY <1>1, <1>2, DirectiveFacts
<1>4. /\ contentType' = IF directive.reported
                          THEN [contentType EXCEPT ![id] = CombineResultContent(@, directive.content)]
                        ELSE contentType
      /\ UNCHANGED <<document, directives, phase, report>>
      /\ position' = position + 1
  BY DEF MarkDefinition
<1>5. \A x \in Ids : GetDirective(x)' = GetDirective(x)
  BY <1>4 DEF GetDirective
<1>6. ASSUME NEW x \in Ids, x # id PROVE contentType'[x] = contentType[x]
  BY <1>1, <1>4, <1>6
<1>7. /\ ~directive.reported => contentType'[id] = contentType[id]
      /\ directive.reported => contentType'[id] = CombineResultContent(contentType[id], directive.content)
  BY <1>1, <1>2, <1>4
<1>8. \A k \in DOMAIN document.definitions : k < position + 1 => k < position \/ k = position
  BY <1>1
<1>9. document'.definitions = document.definitions
  BY <1>4
<1>10. TurnsTaken'
  <2> SUFFICES ASSUME NEW k \in DOMAIN document.definitions, k < position + 1,
                      GetDirective(document.definitions[k]).reported
               PROVE  LET d == document.definitions[k]
                      IN  /\ contentType'[d] # "none"
                          /\ GetDirective(d).content = "full" => contentType'[d] = "full"
    <3>1. \A k \in DOMAIN document.definitions : document.definitions[k] \in Ids
      BY <1>1
    <3> QED
      BY <1>4, <1>5, <3>1 DEF TurnsTaken
  <2> DEFINE d == document.definitions[k]
  <2>1. d \in Ids /\ contentType[d] \in Contents
    BY <1>1
  <2>2. CASE d = id
    <3>1. directive.reported /\ directive.content \in {"thin", "full"}
      BY <1>3, <2>2 DEF DirectiveElement
    <3> QED
      BY <1>7, <2>1, <2>2, <3>1 DEF CombineResultContent, Contents
  <2>3. CASE d # id
    <3>1. k < position
      BY <1>8, <2>3
    <3> QED
      BY <1>1, <1>6, <2>1, <2>3, <3>1 DEF TurnsTaken
  <2> QED
    BY <2>2, <2>3
<1>11. ThinIsReported'
  <2>1. All' = All
    BY <1>9 DEF All
  <2>2. ASSUME NEW x \in Ids, contentType'[x] = "thin"
        PROVE  x \in All /\ GetDirective(x).reported
    <3>1. CASE x = id
      <4>1. CASE directive.reported
        BY <1>2, <3>1, <4>1
      <4>2. CASE ~directive.reported
        BY <1>1, <1>7, <2>2, <3>1, <4>2 DEF ThinIsReported
      <4> QED
        BY <4>1, <4>2
    <3>2. CASE x # id
      BY <1>1, <1>6, <2>2, <3>2 DEF ThinIsReported
    <3> QED
      BY <3>1, <3>2
  <2> QED
    BY <1>5, <2>1, <2>2 DEF ThinIsReported
<1>12. Untouched'
  BY <1>1, <1>4 DEF Untouched, All
<1> HIDE DEF id, directive
<1> QED
  BY <1>1, <1>4, <1>10, <1>11, <1>12 DEF ReportInv, ReportFollowsDirectives

LEMMA WalkReferenceReports == IInv /\ ReportInv /\ WalkReference => ReportInv'
<1> SUFFICES ASSUME IInv, ReportInv, WalkReference PROVE ReportInv'
  OBVIOUS
<1>1. /\ phase = "mark" /\ TypeOK /\ FramesOK /\ stack # <<>>
      /\ TurnsTaken /\ ThinIsReported /\ Untouched
      /\ document.definitions \in Seq(Ids)
      /\ contentType \in [Ids -> Contents]
      /\ UNCHANGED <<document, directives, position, phase, report>>
  BY DEF IInv, ReportInv, TypeOK, Document, WalkReference
<1>2. PICK ref \in Top.left :
        contentType' = [contentType EXCEPT ![ref] = CombineResultContent(@, "full")]
  BY DEF WalkReference
<1>3. \A x \in Ids : contentType'[x] = contentType[x] \/ contentType'[x] = "full"
  BY <1>1, <1>2 DEF CombineResultContent
<1>4. \A x \in Ids : GetDirective(x)' = GetDirective(x)
  BY <1>1 DEF GetDirective
<1>5. TurnsTaken'
  <2>1. \A k \in DOMAIN document.definitions : document.definitions[k] \in Ids
    BY <1>1
  <2> QED
    BY <1>1, <1>3, <1>4, <2>1 DEF TurnsTaken
<1>6. ThinIsReported'
  BY <1>1, <1>3, <1>4 DEF ThinIsReported, All
<1>7. Untouched'
  BY <1>1 DEF Untouched, All
<1> QED
  BY <1>1, <1>5, <1>6, <1>7 DEF ReportInv, ReportFollowsDirectives

LEMMA ReturnFromWalkReports == ReportInv /\ ReturnFromWalk => ReportInv'
<1> SUFFICES ASSUME ReportInv, ReturnFromWalk PROVE ReportInv'
  OBVIOUS
<1>1. /\ phase = "mark" /\ TurnsTaken /\ ThinIsReported /\ Untouched
      /\ UNCHANGED <<document, directives, contentType, position, phase, report>>
  BY DEF ReportInv, ReturnFromWalk
<1>2. TurnsTaken' /\ ThinIsReported' /\ Untouched'
  BY <1>1 DEF TurnsTaken, ThinIsReported, Untouched, All, GetDirective
<1> QED
  BY <1>1, <1>2 DEF ReportInv, ReportFollowsDirectives

LEMMA RemoveDefinitionsReports == IInv /\ ReportInv /\ RemoveDefinitions => ReportInv'
<1> SUFFICES ASSUME IInv, ReportInv, RemoveDefinitions PROVE ReportInv'
  OBVIOUS
<1>1. /\ phase = "mark" /\ stack = <<>> /\ TurnsTaken /\ ThinIsReported /\ Untouched
      /\ position \notin DOMAIN document.definitions
      /\ document.definitions \in Seq(Ids) /\ position \in Nat \ {0}
      /\ contentType \in [Ids -> Contents]
      /\ UNCHANGED <<document, directives, contentType, position, stack>>
  BY DEF IInv, ReportInv, TypeOK, Document, RemoveDefinitions, Marked
<1>2. CASE phase' = "failed"
  BY <1>1, <1>2 DEF ReportInv, ReportFollowsDirectives
<1>3. CASE phase' = "prune"
  <2>1. report' = [definitions |-> {id \in All : contentType[id] # "none"},
                   criteria |-> {id \in document.criteria : contentType[id] = "full"},
                   content |-> document.content, source |-> report.source]
    BY <1>1, <1>3 DEF RemoveDefinitions, Untouched
  <2>2. Full = Needed
    BY FullIsAllNeeded DEF RemoveDefinitions
  <2>3. Full' = Full /\ Needed' = Needed /\ All' = All
    BY <1>1 DEF Full, Needed, All, Roots, Closed, Walked, BuildReferences, GetDirective
  <2>4. ASSUME NEW id \in All
        PROVE  contentType[id] # "none" <=> (id \in Full \/ GetDirective(id).reported)
    <3>1. PICK k \in DOMAIN document.definitions : document.definitions[k] = id
      BY DEF All
    <3>2. id \in Ids /\ contentType[id] \in Contents /\ k < position
      BY <1>1, <3>1
    <3>3. GetDirective(id).reported => contentType[id] # "none"
      BY <1>1, <3>1, <3>2 DEF TurnsTaken
    <3>4. contentType[id] = "thin" => GetDirective(id).reported
      BY <1>1, <3>2 DEF ThinIsReported
    <3> QED
      BY <3>2, <3>3, <3>4 DEF Full, Contents
  <2>5. {id \in All : contentType[id] # "none"}
          = {id \in All : id \in Full \/ GetDirective(id).reported}
    BY <2>4
  <2>6. document.criteria \subseteq Ids
    BY DEF IInv, TypeOK, Document
  <2>7. {id \in document.criteria : contentType[id] = "full"} = Full \cap document.criteria
    BY <2>6 DEF Full
  <2>8. \A id : GetDirective(id)' = GetDirective(id)
    BY <1>1 DEF GetDirective
  <2>9. report'.definitions = {id \in All' : id \in Full' \/ GetDirective(id)'.reported}
    BY <2>1, <2>3, <2>5, <2>8
  <2>10. report'.criteria = Full \cap document.criteria /\ report'.content = document.content
    BY <2>1, <2>7
  <2> QED
    BY <1>1, <1>3, <2>2, <2>3, <2>9, <2>10 DEF ReportInv, ReportFollowsDirectives
<1> QED
  BY <1>2, <1>3 DEF RemoveDefinitions

LEMMA RemoveElementsReports == IInv /\ ReportInv /\ RemoveElements => ReportInv'
<1> SUFFICES ASSUME IInv, ReportInv, RemoveElements PROVE ReportInv'
  OBVIOUS
<1>1. /\ stack = <<>> /\ Full = Needed
      /\ report.definitions = {id \in All : id \in Full \/ GetDirective(id).reported}
      /\ report.criteria = Full \cap document.criteria
      /\ report.content = document.content
      /\ phase' = "done"
      /\ UNCHANGED <<document, directives, contentType, position, stack>>
  BY DEF ReportInv, RemoveElements
<1>2. document.content \subseteq Ids
  BY DEF IInv, TypeOK, Document
<1>3. /\ report'.definitions = report.definitions
      /\ report'.criteria = report.criteria
      /\ report'.content = Full \cap document.content
  BY <1>1, <1>2 DEF RemoveElements, RemoveUnwanted, Full
<1>4. Needed' = Needed /\ All' = All
  BY <1>1 DEF Needed, All, Roots, Closed, Walked, BuildReferences, GetDirective
<1>5. \A id : GetDirective(id)' = GetDirective(id)
  BY <1>1 DEF GetDirective
<1>6. report'.definitions = {id \in All' : id \in Needed' \/ GetDirective(id)'.reported}
  BY <1>1, <1>3, <1>4, <1>5
<1>7. ReportFollowsDirectives'
  BY <1>1, <1>3, <1>4, <1>6 DEF ReportFollowsDirectives, All
<1> QED
  BY <1>1, <1>7 DEF ReportInv

LEMMA NextReports == IInv /\ ReportInv /\ [Next]_vars => ReportInv'
<1> SUFFICES ASSUME IInv, ReportInv, UNCHANGED vars PROVE ReportInv'
  BY LoadDirectivesReports, ApplyAllReports, MarkDefinitionReports, WalkReferenceReports,
     ReturnFromWalkReports, RemoveDefinitionsReports, RemoveElementsReports DEF Next
<1>1. UNCHANGED <<document, directives, contentType, position, stack, phase, report>>
  BY DEF vars
<1>2. /\ TurnsTaken' = TurnsTaken /\ ThinIsReported' = ThinIsReported
      /\ Untouched' = Untouched /\ Full' = Full /\ Needed' = Needed /\ All' = All
      /\ Skips' = Skips
  BY <1>1 DEF TurnsTaken, ThinIsReported, Untouched, Full, Needed, All, Roots, Closed, Walked,
     BuildReferences, GetDirective, Skips
<1>3. \A id : GetDirective(id)' = GetDirective(id)
  BY <1>1 DEF GetDirective
<1> QED
  BY <1>1, <1>2, <1>3 DEF ReportInv, ReportFollowsDirectives, All

\* What is left of the results is what the directives ask for, for every document and
\* every directives file: definitions that are needed in full or reported, the criteria
\* of the needed ones, and the tests, objects and items that they need (ApplyAll).
THEOREM ReportIsAsDirected == Spec => []ReportFollowsDirectives
<1>1. ReportInv => ReportFollowsDirectives
  BY DEF ReportInv
<1> QED
  BY <1>1, InitOK, NextOK, InitReports, NextReports, PTL DEF Spec
=============================================================================
