------------------------------ MODULE OvalEnum ------------------------------
(***************************************************************************)
(* The enumerations of OvalEnum and the tables that combine them: how the  *)
(* results of the parts of a criteria, of a state or of an entity make one *)
(* result, and how the flags of the parts of a variable make one flag.     *)
(*                                                                         *)
(* The code receives a vector<int>, counts each value in one pass and then *)
(* tests the counts in an if-chain.  A count is compared with 0 everywhere *)
(* but for true, so a table only needs the set of values that occur in the *)
(* vector and the number of trues.                                         *)
(***************************************************************************)
EXTENDS Naturals, FiniteSets, Sequences

(***************************************************************************)
(* In every module, a definition named like the one that follows it with an *)
(* adjective in front (FaultyX, X) is a slip a programmer could make there. *)
(* Nothing uses it; substituting it shows that a property notices the slip. *)
(***************************************************************************)

Results   == {"true", "false", "unknown", "error", "not evaluated",
              "not applicable"}
Flags     == {"error", "complete", "incomplete", "does not exist",
              "not collected", "not applicable"}
Statuses  == {"error", "exists", "does not exist", "not collected"}
Operators == {"AND", "ONE", "OR", "XOR"}
Checks    == {"all", "at least one", "none exist", "none satisfy", "only one"}
Existences == {"all_exist", "any_exist", "at_least_one_exists", "none_exist",
               "only_one_exists"}
SetOperators == {"COMPLEMENT", "INTERSECTION", "UNION"}

\* The values that occur in a vector, and how often one occurs.
Occurring(vec) == {vec[i] : i \in DOMAIN vec}
Count(vec, x)  == Cardinality({i \in DOMAIN vec : vec[i] = x})

-----------------------------------------------------------------------------
\* Results that neither decide nor drop out of a combination.
FaultyUndecided == {"error", "unknown"}
Undecided == {"error", "unknown", "not evaluated"}

\* The precedence the code gives them: error, then unknown, then not evaluated.
FaultyPrecedence(occ) ==
  IF "unknown" \in occ            THEN "unknown"
  ELSE IF "error" \in occ         THEN "error"
  ELSE IF "not evaluated" \in occ THEN "not evaluated"
  ELSE "unknown"
Precedence(occ) ==
  IF "error" \in occ              THEN "error"
  ELSE IF "unknown" \in occ       THEN "unknown"
  ELSE IF "not evaluated" \in occ THEN "not evaluated"
  ELSE "unknown"

\* The shape all branches share: a condition that makes the combination true,
\* one that makes it false, and the precedence of the rest.
Decide(isTrue, isFalse, occ) ==
  IF isTrue THEN "true" ELSE IF isFalse THEN "false" ELSE Precedence(occ)

\* What is returned before the check or the operator is looked at: an empty
\* vector is unknown and a vector of not applicables is not applicable.
Trivial(occ) == occ \subseteq {"not applicable"}

TrivialResult(occ) == IF occ = {} THEN "unknown" ELSE "not applicable"

CombineResultsByCheck(results, check) ==
  LET occ      == Occurring(results)
      trues    == Count(results, "true")
      definite == occ \cap Undecided = {}
  IN  IF Trivial(occ) THEN TrivialResult(occ) ELSE
      CASE check = "all" ->
             Decide(definite /\ "false" \notin occ, "false" \in occ, occ)
        [] check = "at least one" ->
             Decide("true" \in occ, definite /\ "true" \notin occ, occ)
        [] check = "none satisfy" ->
             Decide(definite /\ "true" \notin occ, "true" \in occ, occ)
        [] check = "only one" ->
             Decide(definite /\ trues = 1, trues > 1 \/ (definite /\ trues = 0),
                    occ)
        [] OTHER -> "unknown"

CombineResultsByOperator(results, op) ==
  LET occ      == Occurring(results)
      trues    == Count(results, "true")
      definite == occ \cap Undecided = {}
  IN  IF Trivial(occ) THEN TrivialResult(occ) ELSE
      CASE op = "AND" ->
             Decide(definite /\ "false" \notin occ, "false" \in occ, occ)
        [] op = "ONE" ->
             Decide(definite /\ trues = 1, trues > 1 \/ (definite /\ trues = 0),
                    occ)
        [] op = "OR" ->
             Decide("true" \in occ, definite /\ "true" \notin occ, occ)
        [] op = "XOR" ->
             Decide(definite /\ trues % 2 = 1, definite /\ trues % 2 = 0, occ)

NegateResult(result) ==
  IF result = "true" THEN "false" ELSE IF result = "false" THEN "true" ELSE result

-----------------------------------------------------------------------------
\* The flag of a variable built from several components, or of an entity with
\* several fields.  An empty vector is an error.
CombineFlags(flags) ==
  LET occ == Occurring(flags)
  IN  IF occ = {} \/ "error" \in occ     THEN "error"
      ELSE IF occ = {"complete"}          THEN "complete"
      ELSE IF "not applicable" \in occ    THEN "not applicable"
      ELSE IF "not collected" \in occ     THEN "not collected"
      ELSE IF "does not exist" \in occ    THEN "does not exist"
      ELSE "incomplete"
=============================================================================
