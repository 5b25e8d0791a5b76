----------------------------- MODULE MCAnalyzer -----------------------------
(***************************************************************************)
(* Three definitions that extend each other in every acyclic way along      *)
(* A, B, C, share two tests, and are run in several orders, all of them or  *)
(* a list with repetitions and ids that are not in the document.            *)
(***************************************************************************)
EXTENDS Analyzer

MCDefinitions == {"A", "B", "C"}
MCNodes       == {"a", "n", "b", "c"}
MCTests       == {"s", "t"}
MCUnknownIds  == {"X"}

LOCAL Ref(r) == [ref |-> r, negate |-> FALSE]
LOCAL Not(r) == [ref |-> r, negate |-> TRUE]

Documents(lists) ==
  {[order    |-> order,
    listed   |-> list # "all",
    ids      |-> IF list = "all" THEN <<>> ELSE list,
    root     |-> [A |-> "a", B |-> "b", C |-> rootC],
    operator |-> [a |-> op, n |-> "AND", b |-> "OR", c |-> "AND"],
    negate   |-> [a |-> FALSE, n |-> TRUE, b |-> FALSE, c |-> FALSE],
    children |-> [a |-> childrenA, n |-> childrenN, b |-> childrenB,
                  c |-> <<Ref("s")>>],
    outcome  |-> [s |-> outcomeS, t |-> outcomeT]] :
   order     \in {<<"A", "B", "C">>, <<"C", "B", "A">>, <<"B", "A", "C">>},
   list      \in lists,
   rootC     \in {"c", "none"},
   op        \in {"AND", "OR"},
   childrenA \in {<<Ref("t")>>, <<Ref("B"), Ref("C")>>, <<Ref("n"), Ref("t")>>,
                  <<Ref("t"), Not("B")>>},
   childrenN \in {<<Ref("C")>>, <<Ref("s"), Ref("B")>>},
   childrenB \in {<<Ref("t")>>, <<Not("s"), Ref("C")>>, <<Ref("C")>>},
   outcomeS  \in {"true", "false"},
   outcomeT  \in {"true", "error"}}

\* "all" stands for Run without a list of ids.
DocumentInputs == Documents({"all", <<"A">>, <<"B">>, <<"C", "A">>, <<"A", "A">>,
                             <<"X", "C">>})
=============================================================================
