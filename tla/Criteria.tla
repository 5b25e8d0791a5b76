------------------------------ MODULE Criteria ------------------------------
(***************************************************************************)
(* Criteria::Analyze (and its twin Criteria::NotEvaluated): one node of a  *)
(* definition's logical tree asks each child for its result, in document   *)
(* order and without a short circuit, pushes the answers on a vector,      *)
(* combines the vector by the operator of the node and negates the         *)
(* combination when the node says so.  Test, state and variable evaluation *)
(* fill their vectors in the same way and combine them by a check.         *)
(*                                                                         *)
(* Names speak of a node, so that Analyzer can stand beside this module.   *)
(***************************************************************************)
EXTENDS OvalEnum, OvalTables

CONSTANT MaxChildren     \* bound: the longest vector of child results

ASSUME MaxChildrenAssumption == MaxChildren \in Nat \ {0}

VARIABLES
  op,         \* the operator attribute
  negate,     \* the negate attribute
  results,    \* IntVector results: what the children answered so far
  nodeResult  \* the result of the node, "none" until it is set

nodeVars == <<op, negate, results, nodeResult>>

NodeInit ==
  /\ op \in Operators
  /\ negate \in BOOLEAN
  /\ results = <<>>
  /\ nodeResult = "none"

\* results.push_back((*iterator)->Analyze())
AnalyzeChild(r) ==
  /\ nodeResult = "none"
  /\ Len(results) < MaxChildren
  /\ results' = Append(results, r)
  /\ UNCHANGED <<op, negate, nodeResult>>

Combined == CombineResultsByOperator(results, op)

\* The loop is over: apply the operator, then the negate attribute.
SetResult ==
  /\ nodeResult = "none"
  /\ nodeResult' = IF negate THEN NegateResult(Combined) ELSE Combined
  /\ UNCHANGED <<op, negate, results>>

NodeNext == SetResult \/ \E r \in Results : AnalyzeChild(r)

NodeSpec == NodeInit /\ [][NodeNext]_nodeVars

-----------------------------------------------------------------------------
MatchesOperatorTable ==
  nodeResult # "none" =>
    LET charted == ChartResult(OperatorChart[op], results)
    IN  nodeResult = IF negate THEN NegateResult(charted) ELSE charted

MatchesCheckTable ==
  \A check \in Checks \ {"none exist"} :
    CombineResultsByCheck(results, check) = ChartResult(CheckChart[check], results)

\* The result of a node is the one the chart of the OVAL schema gives for the
\* number of trues, falses, errors, ... among its children, and a negated node
\* swaps true and false; the check attribute, which entities, states and tests
\* use, combines results by its own charts in the same way
\* (OvalEnum.cpp:780-1009 against oval-common-schema.xsd).
MatchesTables ==
  results # <<>> => MatchesOperatorTable /\ MatchesCheckTable

\* A verdict is sound: whatever a child that was left undecided (error, unknown
\* or not evaluated) would have turned out to be, a node that said true or
\* false would have said the same.
Definite(r) == r \in {"true", "false"}
VerdictIsStable ==
  \A i \in DOMAIN results, v \in {"true", "false"} :
    results[i] \in {"error", "unknown", "not evaluated"} =>
      LET decided == [results EXCEPT ![i] = v]
      IN  /\ Definite(Combined) =>
               CombineResultsByOperator(decided, op) = Combined
          /\ \A check \in Checks :
               Definite(CombineResultsByCheck(results, check)) =>
                 CombineResultsByCheck(decided, check)
                   = CombineResultsByCheck(results, check)

=============================================================================
