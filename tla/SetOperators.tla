---------------------------- MODULE SetOperators ----------------------------
(***************************************************************************)
(* What AbsObjectCollector does with the collected sets of a set object:   *)
(* the three operators on the item vectors and the table that combines the *)
(* flags.  The operators look items up by id (ExistsInSet), so a vector of  *)
(* items is the set of its items here; its order is left out.              *)
(***************************************************************************)
EXTENDS OvalEnum

UnionItems(items1, items2)        == items1 \cup items2
IntersectionItems(items1, items2) == items1 \cap items2
CompelementItems(items1, items2)  == items1 \ items2

CombineItems(op, items1, items2) ==
  CASE op = "UNION"        -> UnionItems(items1, items2)
    [] op = "INTERSECTION" -> IntersectionItems(items1, items2)
    [] op = "COMPLEMENT"   -> CompelementItems(items1, items2)

-----------------------------------------------------------------------------
\* The three tables.  An earlier row hides the later ones, as in the if-chain.
FaultyUnionFlag(f1, f2) ==
  IF "error" \in {f1, f2} THEN "error"
  ELSE IF f1 = "not applicable" THEN f2
  ELSE IF f2 = "not applicable" \/ f1 = f2 THEN f1
  ELSE "incomplete"
UnionFlag(f1, f2) ==
  IF "error" \in {f1, f2} THEN "error"
  ELSE IF f1 = "not applicable" THEN f2
  ELSE IF f2 = "not applicable" \/ f1 = f2 THEN f1
  ELSE IF {f1, f2} = {"complete", "does not exist"} THEN "complete"
  ELSE "incomplete"

\* An error on the right hides a 'does not exist' on the left only when the
\* left operand is not itself 'does not exist'; the table is not symmetric.
IntersectionFlag(f1, f2) ==
  IF f1 \in {"error", "does not exist"} THEN f1
  ELSE IF f2 \in {"error", "does not exist"} \/ f1 = "not applicable" THEN f2
  ELSE IF f2 = "not applicable"
       THEN IF f1 = "incomplete" THEN "not applicable" ELSE f1
  ELSE IF f1 = "complete" THEN f2
  ELSE f1

\* The opinion a comment in the code ascribes to "drew": what is known of an
\* incomplete right operand is enough for an incomplete difference.
FaultyComplementFlag(f1, f2) ==
  IF f1 \in {"error", "not applicable"} \/ f2 = "not applicable" THEN "error"
  ELSE IF f1 = "does not exist" THEN f1
  ELSE IF f2 = "error" THEN f2
  ELSE IF f1 = "not collected" THEN f1
  ELSE IF f2 \in {"incomplete", "not collected"} THEN f2
  ELSE f1
ComplementFlag(f1, f2) ==
  IF f1 \in {"error", "not applicable"} \/ f2 = "not applicable" THEN "error"
  ELSE IF f1 = "does not exist" THEN f1
  ELSE IF f2 = "error" THEN f2
  ELSE IF f1 = "not collected" THEN f1
  ELSE IF f2 \in {"incomplete", "not collected"} THEN "error"
  ELSE f1

CombineFlagBySetOperator(op, f1, f2) ==
  CASE op = "UNION"        -> UnionFlag(f1, f2)
    [] op = "INTERSECTION" -> IntersectionFlag(f1, f2)
    [] op = "COMPLEMENT"   -> ComplementFlag(f1, f2)

-----------------------------------------------------------------------------
\* The tail of ProcessSet: complete without items is 'does not exist'.
SettleFlag(flag, items) ==
  IF flag = "complete" /\ items = {} THEN "does not exist" ELSE flag

\* ProcessSet from the point where both collected sets are there.
CombineSets(op, set1, set2) ==
  LET items == CombineItems(op, set1.items, set2.items)
      flag  == CombineFlagBySetOperator(op, set1.flag, set2.flag)
  IN  [flag |-> SettleFlag(flag, items), items |-> items]
=============================================================================
