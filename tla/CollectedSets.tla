--------------------------- MODULE CollectedSets ---------------------------
(***************************************************************************)
(* AbsObjectCollector::ProcessSet: a set object is a tree of operators over *)
(* references to collected objects.  A reference is copied into a          *)
(* CollectedSet after the filters of the set have been applied; two sets   *)
(* are combined by their operator, a single one is passed on.  The call    *)
(* stack of the recursion is the sequence `sets': what has been computed   *)
(* and not yet been used by an enclosing set.                              *)
(*                                                                         *)
(* Each set carries, beside what the code stores, the existing items that  *)
(* really match (`matching'): what the flag is a claim about.  An object    *)
(* may also refer to items that stand for something that is not there, with *)
(* the status "does not exist"; the flag claims nothing about those.        *)
(***************************************************************************)
EXTENDS SetOperators, OvalTables

CONSTANTS
  Items,        \* the items a collected object may refer to
  Existing,     \* those whose status is "exists": the system has them
  MaxDepth      \* bound: collected sets that are pending at the same time

ASSUME ExistingAssumption == Existing \subseteq Items
ASSUME MaxDepthAssumption == MaxDepth \in Nat \ {0}

VARIABLE sets

CollectedSet == [flag : Flags, items : SUBSET Items, matching : SUBSET Existing]

Found(set) == set.items \cap Existing

\* What a flag promises about the items that are reported and those that match
\* (FlagEnumeration of the system characteristics schema).
Sound(set) ==
  /\ set.flag = "complete"       => Found(set) = set.matching
  /\ set.flag = "incomplete"     => Found(set) \subseteq set.matching
  /\ set.flag = "does not exist" => Found(set) = {} /\ set.matching = {}
  /\ set.flag = "not collected"  => Found(set) = {}
  /\ set.flag = "not applicable" => Found(set) = {} /\ set.matching = {}

\* The collected objects a reference can be: the promise; at least one item, an
\* existing one if complete, when the flag says that something was found; none at
\* all in an object that was created without items
\* (CollectedObject::AppendReferencesAndComputeFlag, CreateNotApplicable, ...).
CollectedObjects ==
  {object \in CollectedSet :
     /\ Sound(object)
     /\ object.flag = "complete"   => Found(object) # {}
     /\ object.flag = "incomplete" => object.items # {}
     /\ object.flag \in {"not collected", "not applicable"} => object.items = {}}

Init == sets = <<>>

\* Keep the items the filters of the set let through.
ApplyFilters(object, passes) ==
  [object EXCEPT !.items = @ \cap passes, !.matching = @ \cap passes]

\* One object_reference of a set: Run(id), then the filters on a copy.
CollectReference(object, passes) ==
  /\ Len(sets) < MaxDepth
  /\ sets' = Append(sets, ApplyFilters(object, passes))

Settled(set) == [set EXCEPT !.flag = SettleFlag(set.flag, set.items)]

\* Both children of a set are there: combine items and flags.
CombineBySetOperator(op) ==
  /\ Len(sets) >= 2
  /\ LET set1     == sets[Len(sets) - 1]
         set2     == sets[Len(sets)]
         combined == CombineSets(op, set1, set2)
     IN  sets' = Append(SubSeq(sets, 1, Len(sets) - 2),
                        [flag     |-> combined.flag,
                         items    |-> combined.items,
                         matching |-> CombineItems(op, set1.matching,
                                                   set2.matching)])

\* A set with a single child passes it on.
PassOn ==
  /\ sets # <<>>
  /\ sets' = [sets EXCEPT ![Len(sets)] = Settled(@)]

Next ==
  \/ \E object \in CollectedObjects, passes \in SUBSET Items :
       CollectReference(object, passes)
  \/ \E op \in SetOperators : CombineBySetOperator(op)
  \/ PassOn

Spec == Init /\ [][Next]_sets

-----------------------------------------------------------------------------
TypeOK == sets \in Seq(CollectedSet) /\ Len(sets) <= MaxDepth

\* Whatever tree of operators and filters is evaluated, the flag of the result
\* tells the truth about the items on the system: complete means that exactly
\* the matching items are reported, incomplete that no reported item fails to
\* match, does not exist that nothing matches (AbsObjectCollector.cpp:270-344).
FlagsAreSound == \A i \in DOMAIN sets : Sound(sets[i])

\* The operands for which the code departs from the charts of the schema.
Departures ==
  {<<"INTERSECTION", "error", "does not exist">>,
   <<"INTERSECTION", "incomplete", "not collected">>,
   <<"INTERSECTION", "incomplete", "not applicable">>,
   <<"COMPLEMENT", "complete", "not collected">>,
   <<"COMPLEMENT", "incomplete", "not collected">>}

\* The flag of a combination, before it is settled, is the one the chart of its
\* operator in the definitions schema gives (oval-definitions-schema.xsd:981),
\* but for five cells that differ (AbsObjectCollector.cpp:383-569).
FlagFollowsChart ==
  [][\A op \in SetOperators :
       CombineBySetOperator(op) =>
         LET f1 == sets[Len(sets) - 1].flag
             f2 == sets[Len(sets)].flag
         IN  <<op, f1, f2>> \in Departures
               <=> FlagAbbreviation[CombineFlagBySetOperator(op, f1, f2)]
                     # ChartFlag(op, f1, f2)]_sets
=============================================================================
