-------------------------- MODULE MCTestEvaluation --------------------------
(***************************************************************************)
(* Every combination of attributes, with no state, one state or two states, *)
(* and states that cannot be loaded, over objects of up to two items.       *)
(***************************************************************************)
EXTENDS TestEvaluation

MCStateIds == {"p", "q"}
MCAnswers  == {"true", "false", "unknown"}

MCItems ==
  {item \in [status : Statuses, answers : [MCStateIds -> MCAnswers]] :
     item.status # "exists" => item.answers = [s \in MCStateIds |-> "false"]}

MCTests ==
  {t \in [object    : {TRUE},
          existence : Existences,
          check     : Checks,
          operator  : {"AND", "OR"},
          states    : {{}, {"p"}, {"p", "q"}},
          broken    : {{}, {"q"}}] :
     /\ t.operator = "OR" => t.states = {"p", "q"}
     /\ t.broken # {} => t.states = {"p", "q"}}
  \cup
  [object    : {FALSE},
   existence : {"at_least_one_exists"},
   check     : {"all"},
   operator  : {"AND"},
   states    : {{}},
   broken    : {{}}]
=============================================================================
