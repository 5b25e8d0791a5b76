------------------------- MODULE MCObjectCollector -------------------------
(***************************************************************************)
(* The documents the collector is run on.  Two objects a and b, a set s and *)
(* two variables u and v; the items are 1, which exists, and 2, which was   *)
(* not collected, so that an object is incomplete when it has both.         *)
(***************************************************************************)
EXTENDS CollectionMeaning

MCObjects   == {"a", "b", "s"}
MCVariables == {"u", "v"}
MCItemIds   == {1, 2}

ItemStatus == <<"exists", "not collected">>

LOCAL Each(x) == [o \in MCObjects |-> x]
LOCAL Keep    == Each([i \in MCItemIds |-> "keep"])
LOCAL NoSets  == Each("none")
LOCAL NoReferences == Each(<<>>)
LOCAL IsObject(use) == use \in MCObjects

\* Plain objects and variables that refer to each other in every way: cycles of
\* variables, of objects through variables, one variable used by two objects,
\* components and external values that fail.
VariableInputs ==
  {[order      |-> order,
    uses       |-> [a |-> usesA, b |-> usesB, s |-> <<>>],
    references |-> NoReferences,
    operator   |-> NoSets,
    filter     |-> Keep,
    answer     |-> Each("items"),
    items      |-> [a |-> itemsA, b |-> {1}, s |-> {}],
    status     |-> ItemStatus,
    field      |-> [a |-> fieldA, b |-> "exists", s |-> "exists"],
    own        |-> [u |-> ownU, v |-> "complete"],
    needs      |-> [u |-> needsU, v |-> needsV]] :
   order  \in {<<"a", "b">>, <<"b", "a">>},
   usesA  \in {<<>>, <<"u">>, <<"v">>, <<"u", "v">>},
   usesB  \in {<<"u">>, <<"v">>, <<"v", "u">>},
   itemsA \in {{}, {1}, {1, 2}},
   fieldA \in {"exists", "does not exist"},
   ownU   \in Owns,
   needsU \in {<<>>, <<"v">>, <<"a">>, <<"v", "a">>, <<"a", "b">>},
   needsV \in {<<"u">>, <<"a">>, <<"b">>, <<"u", "b">>}}

\* A set of the two objects, with a filter, next to a variable that may be built
\* from the set itself.
SetInputs ==
  {[order      |-> order,
    uses       |-> [a |-> usesA, b |-> <<>>, s |-> usesS],
    references |-> [NoReferences EXCEPT !["s"] = SelectSeq(usesS, IsObject)],
    operator   |-> [NoSets EXCEPT !["s"] = op],
    filter     |-> [Keep EXCEPT !["s"] = filterS],
    answer     |-> [Each("items") EXCEPT !["a"] = answerA],
    items      |-> [a |-> {1}, b |-> itemsB, s |-> {}],
    status     |-> ItemStatus,
    field      |-> Each("exists"),
    own        |-> [u |-> ownU, v |-> "complete"],
    needs      |-> [u |-> needsU, v |-> <<>>]] :
   order   \in {<<"a", "b", "s">>, <<"s", "b", "a">>, <<"b", "s", "a">>},
   usesA   \in {<<>>, <<"u">>},
   usesS   \in {<<"a">>, <<"a", "b">>, <<"b", "a">>, <<"a", "b", "u">>},
   op      \in SetOperators,
   filterS \in {<<"keep", "keep">>, <<"remove", "keep">>,
                <<"keep", "undecided">>},
   answerA \in Answers,
   itemsB  \in {{}, {1}, {1, 2}},
   ownU    \in {"complete", "error"},
   needsU  \in {<<>>, <<"s">>, <<"b">>}}

DocumentInputs == VariableInputs \cup SetInputs
=============================================================================
