----------------------------- MODULE Directive -----------------------------
(***************************************************************************)
(* Directive: which part of the results document is reported.  Definitions  *)
(* are marked full or thin by the directive for their class and result,     *)
(* WalkReferences marks everything that a full one refers to, and what is   *)
(* not marked is removed.                                                   *)
(***************************************************************************)
EXTENDS OvalEnum, Naturals, Sequences

CONSTANTS
  Ids,       \* the ids of definitions, tests, objects, states, variables and items
  Classes,   \* the classes of definitions, without the default one
  Documents  \* pairs of a results document and a directives file

Kinds    == {"definition", "test", "object", "state", "variable", "item"}
Contents == {"none", "thin", "full"}

\* The kind of element that an attribute (or a data node) with a reference is for.
Target ==
  [definition_ref |-> "definition", test_ref |-> "test", object_ref |-> "object",
   state_ref |-> "state", var_ref |-> "variable", item_ref |-> "item",
   object_reference |-> "object", filter |-> "state"]

\* The attributes in which BuildReferences looks for references, by the kind of the
\* element that has them.
RefNames ==
  [definition |-> {"definition_ref", "test_ref"},
   test       |-> {"state_ref", "object_ref"},
   object     |-> {"item_ref", "state_ref", "object_ref", "var_ref", "object_reference", "filter"},
   variable   |-> {"object_ref"},
   state      |-> {"var_ref"},
   item       |-> {}]

DirectiveElement == [reported : BOOLEAN, content : {"thin", "full"}]
DirectiveMap     == [Results -> DirectiveElement]
Reference        == [name : DOMAIN Target, ref : Ids]

\* `found' tells whether there is a directives file, and `overrides' is the set of
\* the classes with directives of their own.
Configuration ==
  [found : BOOLEAN, includeSource : BOOLEAN, default : DirectiveMap,
   overrides : SUBSET Classes, class : [Classes -> DirectiveMap]]

\* `definitions' are the ones of the results in their order, `criteria' the ones
\* with criteria, and `content' the tests, collected objects and items.
Document ==
  [kind : [Ids -> Kinds], names : [Ids -> SUBSET Reference],
   definitions : Seq(Ids), class : [Ids -> Classes], result : [Ids -> Results],
   criteria : SUBSET Ids, content : SUBSET Ids, config : Configuration]

ASSUME DocumentsAssumption ==
  \A document \in Documents :
    /\ document \in Document
    /\ \A id \in Ids : \A r \in document.names[id] : document.kind[r.ref] = Target[r.name]
    /\ \A k \in DOMAIN document.definitions :
         document.kind[document.definitions[k]] = "definition"

VARIABLES
  document,     \* what is reported, and the directives file
  directives,   \* Directive::directives and includeSource
  contentType,  \* how much is wanted of each element; "none" if it is not in the map
  position,     \* of the next definition to mark
  stack,        \* the calls of WalkReferences: an element and its references not visited
  phase,        \* of LoadDirectives and ApplyAll
  report        \* the elements that are left in the document

vars == <<document, directives, contentType, position, stack, phase, report>>

AllFull == [result \in Results |-> [reported |-> TRUE, content |-> "full"]]
Defaults ==
  [includeSource |-> TRUE, default |-> AllFull, overrides |-> {},
   class |-> [class \in Classes |-> AllFull]]

Init ==
  /\ document \in Documents
  /\ directives = Defaults
  /\ contentType = [id \in Ids |-> "none"]
  /\ position = 1
  /\ stack = <<>>
  /\ phase = "load"
  /\ report = [definitions |-> {document.definitions[k] : k \in DOMAIN document.definitions},
               criteria |-> document.criteria, content |-> document.content, source |-> TRUE]

\* Without a file every result is reported in full.
LoadDirectives ==
  /\ phase = "load"
  /\ directives' =
       IF document.config.found
         THEN [includeSource |-> document.config.includeSource,
               default |-> document.config.default,
               overrides |-> document.config.overrides,
               class |-> document.config.class]
       ELSE Defaults
  /\ phase' = "apply"
  /\ UNCHANGED <<document, contentType, position, stack, report>>

\* What is reported in full is not touched.
Skips ==
  /\ directives.includeSource
  /\ directives.overrides = {}
  /\ \A result \in Results : directives.default[result] = AllFull[result]

ApplyAll ==
  /\ phase = "apply"
  /\ phase' = IF Skips THEN "done" ELSE "mark"
  /\ UNCHANGED <<document, directives, contentType, position, stack, report>>

GetDirective(id) ==
  IF document.class[id] \in directives.overrides
    THEN directives.class[document.class[id]][document.result[id]]
  ELSE directives.default[document.result[id]]

BitwiseCombineResultContent(rc1, rc2) ==
  CASE {rc1, rc2} = {"full", "thin"} -> "3"
    [] rc1 = "none"                  -> rc2
    [] OTHER                         -> rc1
CombineResultContent(rc1, rc2) ==
  IF "full" \in {rc1, rc2} THEN "full" ELSE IF "thin" \in {rc1, rc2} THEN "thin" ELSE "none"

BuildReferences(id) ==
  {r.ref : r \in {s \in document.names[id] : s.name \in RefNames[document.kind[id]]}}

Call(id) == [id |-> id, left |-> BuildReferences(id)]

\* A definition that is not reported stays as it is, and a thin one refers to nothing.
EagerIsWalked(directive) == directive.reported
IsWalked(directive) == directive.reported /\ directive.content # "thin"

MarkDefinition ==
  /\ phase = "mark" /\ stack = <<>>
  /\ position \in DOMAIN document.definitions
  /\ LET id        == document.definitions[position]
         directive == GetDirective(id)
     IN  /\ contentType' =
              IF directive.reported
                THEN [contentType EXCEPT ![id] = CombineResultContent(@, directive.content)]
              ELSE contentType
         /\ stack' = IF IsWalked(directive) THEN <<Call(id)>> ELSE <<>>
  /\ position' = position + 1
  /\ UNCHANGED <<document, directives, phase, report>>

\* Items and states are not walked, and nothing is walked twice.  The references
\* of an element are visited in the order of their ids, here in any order.
HastyMustWalk(id) ==
  document.kind[id] \notin {"item", "state"} /\ contentType[id] = "none"
MustWalk(id) ==
  document.kind[id] \notin {"item", "state"} /\ contentType[id] # "full"

StuckVisited(left, ref) == left
Visited(left, ref) == left \ {ref}

Top == stack[Len(stack)]
WalkReference ==
  /\ stack # <<>>
  /\ \E ref \in Top.left :
       LET advanced == [stack EXCEPT ![Len(stack)] =
                          [id |-> Top.id, left |-> Visited(Top.left, ref)]]
       IN  /\ contentType' = [contentType EXCEPT ![ref] = CombineResultContent(@, "full")]
           /\ stack' = IF MustWalk(ref) THEN Append(advanced, Call(ref)) ELSE advanced
  /\ UNCHANGED <<document, directives, position, phase, report>>

ReturnFromWalk ==
  /\ stack # <<>> /\ Top.left = {}
  /\ stack' = SubSeq(stack, 1, Len(stack) - 1)
  /\ UNCHANGED <<document, directives, contentType, position, phase, report>>

Marked == phase = "mark" /\ stack = <<>> /\ position \notin DOMAIN document.definitions

\* Definitions that are not marked are removed, and the criteria of thin ones; to
\* remove criteria that are not there fails.
HasNoCriteria ==
  \E id \in report.definitions : contentType[id] = "thin" /\ id \notin document.criteria

RemoveDefinitions ==
  /\ Marked
  /\ IF HasNoCriteria THEN phase' = "failed" /\ UNCHANGED report
     ELSE /\ phase' = "prune"
          /\ report' =
               [definitions |-> {id \in report.definitions : contentType[id] # "none"},
                criteria |-> {id \in report.criteria : contentType[id] = "full"},
                content |-> report.content, source |-> report.source]
  /\ UNCHANGED <<document, directives, contentType, position, stack>>

\* With the wrong attribute no id is found, and nothing is kept.
MisnamedRemoveUnwanted(elements) == {}
RemoveUnwanted(elements) == {id \in elements : contentType[id] = "full"}

RemoveElements ==
  /\ phase = "prune"
  /\ report' = [definitions |-> report.definitions, criteria |-> report.criteria,
                content |-> RemoveUnwanted(report.content), source |-> directives.includeSource]
  /\ phase' = "done"
  /\ UNCHANGED <<document, directives, contentType, position, stack>>

Next ==
  \/ LoadDirectives \/ ApplyAll \/ MarkDefinition \/ WalkReference \/ ReturnFromWalk
  \/ RemoveDefinitions \/ RemoveElements

\* One thread that never waits.
Spec == Init /\ [][Next]_vars /\ WF_vars(Next)

-----------------------------------------------------------------------------
Frame == [id : Ids, left : SUBSET Ids]
TypeOK ==
  /\ document \in Document
  /\ directives \in [includeSource : BOOLEAN, default : DirectiveMap,
                     overrides : SUBSET Classes, class : [Classes -> DirectiveMap]]
  /\ contentType \in [Ids -> Contents]
  /\ position \in Nat \ {0}
  /\ stack \in Seq(Frame)
  /\ phase \in {"load", "apply", "mark", "prune", "done", "failed"}
  /\ report \in [definitions : SUBSET Ids, criteria : SUBSET Ids, content : SUBSET Ids,
                 source : BOOLEAN]

Full == {id \in Ids : contentType[id] = "full"}
Walked(id) == document.kind[id] \notin {"item", "state"}

\* A set of elements with all that its definitions, tests, objects and variables
\* refer to.
Closed(S) == \A id \in S : Walked(id) => BuildReferences(id) \subseteq S

\* Whenever no walk is under way, what a full element refers to is full, however the
\* walks of definitions that share elements cut each other short
\* (WalkReferences, Directive.cpp:431-448).
FullIsClosed == stack = <<>> => Closed(Full)

\* The definitions that are reported in full by their directive.
Roots ==
  {id \in {document.definitions[k] : k \in DOMAIN document.definitions} :
     GetDirective(id) = [reported |-> TRUE, content |-> "full"]}

\* Nothing else is full: every closed set with the definitions that are reported in
\* full has all full elements (Directive.cpp:223-258).
FullIsNeeded ==
  LET roots == Roots
  IN  \A S \in SUBSET Ids : roots \subseteq S /\ Closed(S) => Full \subseteq S

\* No content that one definition asked for is lost to another definition that asks
\* for less, or nothing (CombineResultContent, OvalEnum.cpp:1055-1063).
Rank == [none |-> 0, thin |-> 1, full |-> 2]
MarksOnlyGrow ==
  [][\A id \in Ids : Rank[contentType[id]] <= Rank[contentType'[id]]]_vars

\* What is left when nothing was skipped: a definition in full, with all it needs, if
\* it is reported in full or needed by one that is; else what its directive says.
Needed ==
  LET roots == Roots
      closed == {S \in SUBSET Ids : roots \subseteq S /\ Closed(S)}
  IN  {id \in Ids : \A S \in closed : id \in S}
ReportFollowsDirectives ==
  phase = "done" /\ ~Skips =>
    LET all == {document.definitions[k] : k \in DOMAIN document.definitions}
        needed == Needed
    IN  /\ report.definitions = {id \in all : id \in needed \/ GetDirective(id).reported}
        /\ report.criteria = needed \cap document.criteria
        /\ report.content = needed \cap document.content

\* The walk ends although definitions, objects and variables may refer to each other
\* in cycles ("to avoid possability of an infinite loop", Directive.cpp:436-437).
Terminates == <>(phase \in {"done", "failed"})
=============================================================================
