----------------------------- MODULE MCDirective -----------------------------
(***************************************************************************)
(* Three definitions that extend each other in various ways, cycles         *)
(* included, under every directive for two results and two classes; and one  *)
(* definition over objects and variables that refer to each other.          *)
(***************************************************************************)
EXTENDS Directive

MCIds     == {"d1", "d2", "d3", "t", "o1", "o2", "v", "s", "i"}
MCClasses == {"patch", "inventory"}

LOCAL KindOf ==
  [id \in MCIds |->
     CASE id \in {"d1", "d2", "d3"} -> "definition"
       [] id \in {"o1", "o2"}       -> "object"
       [] id = "t" -> "test" [] id = "v" -> "variable"
       [] id = "s" -> "state" [] id = "i" -> "item"]
LOCAL To(name, ref) == [name |-> name, ref |-> ref]

\* With a directive for the results true and false, and nothing else reported.
LOCAL Hidden == [reported |-> FALSE, content |-> "full"]
LOCAL Choices == {Hidden, [reported |-> TRUE, content |-> "thin"], [reported |-> TRUE, content |-> "full"]}
LOCAL MapOf(onTrue, onFalse) ==
  [result \in Results |-> IF result = "true" THEN onTrue
                          ELSE IF result = "false" THEN onFalse ELSE Hidden]
LOCAL Maps == {MapOf(a, b) : a \in Choices, b \in Choices}
LOCAL ConfigOf(includeSource, default, overrides, patch) ==
  [found |-> TRUE, includeSource |-> includeSource, default |-> default, overrides |-> overrides,
   class |-> [class \in MCClasses |-> patch]]
LOCAL Full3 == [result \in Results |-> [reported |-> TRUE, content |-> "full"]]
LOCAL Configs ==
  {ConfigOf(TRUE, map, {}, Full3) : map \in Maps}
  \cup {ConfigOf(FALSE, map, {"patch"}, patch) :
          map \in {MapOf(a, a) : a \in Choices}, patch \in {MapOf(a, Hidden) : a \in Choices}}
  \cup {ConfigOf(includeSource, Full3, {}, Full3) : includeSource \in BOOLEAN}
  \cup {[ConfigOf(FALSE, Full3, {}, Full3) EXCEPT !.found = FALSE]}

LOCAL DocumentOf(names, list, results, criteria, config) ==
  [kind |-> KindOf, names |-> names, definitions |-> list,
   class |-> [id \in MCIds |-> IF id = "d2" THEN "patch" ELSE "inventory"],
   result |-> [id \in MCIds |-> IF id \in DOMAIN results THEN results[id] ELSE "unknown"],
   criteria |-> criteria, content |-> {"t", "o1", "o2", "i"}, config |-> config]

\* The references of everything that is not a definition.
LOCAL Base(id) ==
  CASE id = "t"  -> {To("object_ref", "o1"), To("state_ref", "s")}
    [] id = "o1" -> {To("item_ref", "i")}
    [] OTHER     -> {}

LOCAL Definitions == {"d1", "d2", "d3"}
LOCAL Extends(id) == To("definition_ref", id)
LOCAL Tests == To("test_ref", "t")
LOCAL Extending(r1, r2, list, results, criteria, config) ==
  DocumentOf([id \in MCIds |-> CASE id = "d1" -> r1 [] id = "d2" -> r2 [] id = "d3" -> {Tests}
                                 [] OTHER -> Base(id)],
             list, results, criteria, config)
LOCAL DefinitionFamily ==
  {Extending(r1, r2, list, [d1 |-> a, d2 |-> b, d3 |-> "true"], Definitions, config) :
     r1 \in SUBSET {Extends("d2"), Tests}, r2 \in SUBSET {Extends("d1"), Extends("d3")},
     list \in {<<"d1", "d2", "d3">>, <<"d3", "d2", "d1">>},
     a \in {"true", "false"}, b \in {"true", "false"}, config \in Configs}

\* The first one has no criteria.
LOCAL CriteriaFamily ==
  {Extending({}, {Extends("d1")}, <<"d1", "d2", "d3">>,
             [d1 |-> "true", d2 |-> "false", d3 |-> "false"], {"d2", "d3"}, config) :
     config \in Configs}

LOCAL ObjectFamily ==
  {DocumentOf([id \in MCIds |->
                 CASE id = "d1" -> {Tests} [] id = "t" -> Base("t")
                   [] id = "o1" -> Base("o1") \cup o1 [] id = "o2" -> o2
                   [] id = "v" -> {To("var_ref", "v")} \cup v
                   [] OTHER -> {}],
              <<"d1">>, [d1 |-> "true"], {"d1"}, ConfigOf(FALSE, Full3, {}, Full3)) :
     o1 \in SUBSET {To("object_reference", "o2"), To("var_ref", "v"), To("filter", "s")},
     o2 \in SUBSET {To("object_reference", "o1"), To("item_ref", "i")},
     v \in SUBSET {To("object_ref", "o2"), To("object_ref", "o1")}}

\* A state with a variable that is built from an object.
LOCAL StateFamily ==
  {DocumentOf([id \in MCIds |->
                 CASE id = "d1" -> {Tests} [] id = "t" -> Base("t") [] id = "o1" -> Base("o1")
                   [] id = "v" -> {To("object_ref", "o2")} [] id = "s" -> {To("var_ref", "v")}
                   [] OTHER -> {}],
              <<"d1">>, [d1 |-> "true"], {"d1"}, config) : config \in Configs}

MCDocuments == DefinitionFamily \cup CriteriaFamily \cup ObjectFamily \cup StateFamily
=============================================================================
