--------------------------- MODULE AnalysisProofs ---------------------------
(***************************************************************************)
(* What is proved of the analysis of a document: of a criteria node        *)
(* (Criteria) and of the whole walk over the definitions (Analyzer), for   *)
(* any finite document without a cycle.                                    *)
(*                                                                         *)
(* A node: its tables compare counts of values with thresholds, the chart  *)
(* of the schema is selected by the values that occur, and to decide an    *)
(* undecided child only moves one occurrence.                              *)
(*                                                                         *)
(* The walk: Meaning is a recursion on what an element refers to, which is *)
(* well founded in a finite document without a cycle, so that it exists    *)
(* and obeys its equations.  The inductive invariant AnalysisInv says what *)
(* the stack of calls holds (Evaluation, Writing), that an element with a  *)
(* result has nothing left to be evaluated below it (Settled), and that    *)
(* what is referred to and not written yet waits in a call of Write        *)
(* (RecordsGoOn, CachedGoOn).                                              *)
(***************************************************************************)
EXTENDS Criteria, Analyzer, SharedLemmas

\* What deciding the i-th result changes: the values that occur, and the trues.
LEMMA DecidingFacts ==
  ASSUME NEW vec \in Seq(Results), NEW i \in DOMAIN vec, NEW v \in {"true", "false"},
         vec[i] \in Undecided
  PROVE  LET decided == [vec EXCEPT ![i] = v]
         IN  /\ ~Trivial(Occurring(vec))
             /\ ~Trivial(Occurring(decided))
             /\ Occurring(vec) \cap Undecided # {}
             /\ "true" \in Occurring(vec) => "true" \in Occurring(decided)
             /\ "false" \in Occurring(vec) => "false" \in Occurring(decided)
             /\ Count(vec, "true") \in Nat
             /\ Count(decided, "true") \in Nat
             /\ Count(vec, "true") <= Count(decided, "true")
<1> DEFINE decided == [vec EXCEPT ![i] = v]
           Trues(s) == {j \in DOMAIN s : s[j] = "true"}
<1>1. /\ DOMAIN decided = DOMAIN vec
      /\ decided[i] = v
      /\ \A j \in DOMAIN vec : j # i => decided[j] = vec[j]
  OBVIOUS
<1>2. vec[i] \in Occurring(vec) /\ v \in Occurring(decided)
  BY <1>1 DEF Occurring
<1>3. ASSUME NEW x \in Occurring(vec), x \notin Undecided
      PROVE  x \in Occurring(decided)
  <2>1. PICK j \in DOMAIN vec : vec[j] = x
    BY DEF Occurring
  <2> QED
    BY <1>1, <1>3, <2>1 DEF Occurring
<1>4. IsFiniteSet(Trues(vec)) /\ IsFiniteSet(Trues(decided))
  <2>1. DOMAIN vec = 1 .. Len(vec) /\ Len(vec) \in Nat
    OBVIOUS
  <2>2. IsFiniteSet(DOMAIN vec)
    BY <2>1, FS_Interval
  <2> QED
    BY <1>1, <2>2, FS_Subset
<1>5. Trues(vec) \subseteq Trues(decided)
  BY <1>1 DEF Undecided
<1>6. /\ Count(vec, "true") \in Nat
      /\ Count(decided, "true") \in Nat
      /\ Count(vec, "true") <= Count(decided, "true")
  <2>1. /\ Cardinality(Trues(vec)) \in Nat
        /\ Cardinality(Trues(decided)) \in Nat
        /\ Cardinality(Trues(vec)) <= Cardinality(Trues(decided))
    BY <1>4, <1>5, FS_CardinalityType, FS_Subset
  <2>2. ASSUME NEW s
        PROVE  Count(s, "true") = Cardinality(Trues(s))
    BY Zenon DEF Count
  <2> HIDE DEF Trues, decided
  <2> QED
    BY <2>1, <2>2
<1>8. ~Trivial(Occurring(vec)) /\ ~Trivial(Occurring(decided)) /\ Occurring(vec) \cap Undecided # {}
  BY <1>2 DEF Trivial, Undecided
<1>9. /\ "true" \in Occurring(vec) => "true" \in Occurring(decided)
      /\ "false" \in Occurring(vec) => "false" \in Occurring(decided)
  BY <1>3 DEF Undecided
<1> HIDE DEF Trues
<1> QED
  BY <1>6, <1>8, <1>9

LEMMA PrecedenceIsUndecided ==
  ASSUME NEW occ
  PROVE  Precedence(occ) \in Undecided
BY DEF Precedence, Undecided

\* What a table needs to know of the counts to give its verdict, when the vector is
\* not empty and not only of not applicables.
LEMMA CheckVerdicts ==
  ASSUME NEW vec, NEW check, ~Trivial(Occurring(vec)), Count(vec, "true") \in Nat
  PROVE  /\ check = "all" /\ "false" \in Occurring(vec)
              => CombineResultsByCheck(vec, check) = "false"
         /\ check = "at least one" /\ "true" \in Occurring(vec)
              => CombineResultsByCheck(vec, check) = "true"
         /\ check = "none satisfy" /\ "true" \in Occurring(vec)
              => CombineResultsByCheck(vec, check) = "false"
         /\ check = "only one" /\ Count(vec, "true") > 1
              => CombineResultsByCheck(vec, check) = "false"
<1> DEFINE occ == Occurring(vec)
           definite == occ \cap Undecided = {}
<1>0. Count(vec, "true") > 1 => Count(vec, "true") # 1
  OBVIOUS
<1>1. ASSUME check = "all", "false" \in occ
      PROVE  CombineResultsByCheck(vec, check) = "false"
  <2>1. CombineResultsByCheck(vec, check)
          = Decide(definite /\ "false" \notin occ, "false" \in occ, occ)
    BY <1>1 DEF CombineResultsByCheck
  <2> QED
    BY <1>1, <2>1 DEF Decide
<1>2. ASSUME check = "at least one", "true" \in occ
      PROVE  CombineResultsByCheck(vec, check) = "true"
  <2>1. CombineResultsByCheck(vec, check)
          = Decide("true" \in occ, definite /\ "true" \notin occ, occ)
    BY <1>2 DEF CombineResultsByCheck
  <2> QED
    BY <1>2, <2>1 DEF Decide
<1>3. ASSUME check = "none satisfy", "true" \in occ
      PROVE  CombineResultsByCheck(vec, check) = "false"
  <2>1. CombineResultsByCheck(vec, check)
          = Decide(definite /\ "true" \notin occ, "true" \in occ, occ)
    BY <1>3 DEF CombineResultsByCheck
  <2> QED
    BY <1>3, <2>1 DEF Decide
<1>4. ASSUME check = "only one", Count(vec, "true") > 1
      PROVE  CombineResultsByCheck(vec, check) = "false"
  <2>1. CombineResultsByCheck(vec, check)
          = Decide(definite /\ Count(vec, "true") = 1,
                   Count(vec, "true") > 1 \/ (definite /\ Count(vec, "true") = 0), occ)
    BY <1>4 DEF CombineResultsByCheck
  <2>3. Decide(FALSE, TRUE, occ) = "false"
    BY DEF Decide
  <2> QED
    BY <1>0, <1>4, <2>1, <2>3, Zenon
<1> QED
  BY <1>1, <1>2, <1>3, <1>4

LEMMA OperatorVerdicts ==
  ASSUME NEW vec, NEW operator, ~Trivial(Occurring(vec)), Count(vec, "true") \in Nat
  PROVE  /\ operator = "AND" /\ "false" \in Occurring(vec)
              => CombineResultsByOperator(vec, operator) = "false"
         /\ operator = "OR" /\ "true" \in Occurring(vec)
              => CombineResultsByOperator(vec, operator) = "true"
         /\ operator = "ONE" /\ Count(vec, "true") > 1
              => CombineResultsByOperator(vec, operator) = "false"
BY DEF CombineResultsByOperator, Decide

\* The other way round: with an undecided value in the vector, these are the only
\* ways to a definite verdict.
LEMMA UndecidedCheck ==
  ASSUME NEW vec, NEW check \in Checks, ~Trivial(Occurring(vec)),
         Occurring(vec) \cap Undecided # {},
         Definite(CombineResultsByCheck(vec, check))
  PROVE  \/ check = "all" /\ "false" \in Occurring(vec)
         \/ check = "at least one" /\ "true" \in Occurring(vec)
         \/ check = "none satisfy" /\ "true" \in Occurring(vec)
         \/ check = "only one" /\ Count(vec, "true") > 1
<1> DEFINE occ == Occurring(vec)
<1>1. ~Definite(Precedence(occ)) /\ ~Definite("unknown")
  BY PrecedenceIsUndecided DEF Definite, Undecided
<1>2. ASSUME NEW yes
      PROVE  ~yes => ~Definite(Decide(FALSE, yes, occ)) /\ ~Definite(Decide(yes, FALSE, occ))
  BY <1>1 DEF Decide
<1>3. CASE check = "all"
  <2>1. CombineResultsByCheck(vec, check) = Decide(FALSE, "false" \in occ, occ)
    BY <1>3 DEF CombineResultsByCheck
  <2> QED
    BY <1>2, <1>3, <2>1
<1>4. CASE check = "at least one"
  <2>1. CombineResultsByCheck(vec, check) = Decide("true" \in occ, FALSE, occ)
    BY <1>4 DEF CombineResultsByCheck
  <2> QED
    BY <1>2, <1>4, <2>1
<1>5. CASE check = "none satisfy"
  <2>1. CombineResultsByCheck(vec, check) = Decide(FALSE, "true" \in occ, occ)
    BY <1>5 DEF CombineResultsByCheck
  <2> QED
    BY <1>2, <1>5, <2>1
<1>6. CASE check = "only one"
  <2>1. CombineResultsByCheck(vec, check) = Decide(FALSE, Count(vec, "true") > 1 \/ FALSE, occ)
    BY <1>6 DEF CombineResultsByCheck
  <2> QED
    BY <1>2, <1>6, <2>1
<1>7. CASE check = "none exist"
  <2>1. CombineResultsByCheck(vec, check) = "unknown"
    BY <1>7 DEF CombineResultsByCheck
  <2> QED
    BY <1>1, <2>1
<1> QED
  BY <1>3, <1>4, <1>5, <1>6, <1>7 DEF Checks

LEMMA UndecidedOperator ==
  ASSUME NEW vec, NEW operator \in Operators, ~Trivial(Occurring(vec)),
         Occurring(vec) \cap Undecided # {},
         Definite(CombineResultsByOperator(vec, operator))
  PROVE  \/ operator = "AND" /\ "false" \in Occurring(vec)
         \/ operator = "OR" /\ "true" \in Occurring(vec)
         \/ operator = "ONE" /\ Count(vec, "true") > 1
<1> DEFINE occ == Occurring(vec)
<1>1. ~Definite(Precedence(occ))
  BY PrecedenceIsUndecided DEF Definite, Undecided
<1>2. ASSUME NEW yes
      PROVE  ~yes => ~Definite(Decide(FALSE, yes, occ)) /\ ~Definite(Decide(yes, FALSE, occ))
  BY <1>1 DEF Decide
<1>3. CASE operator = "AND"
  <2>1. CombineResultsByOperator(vec, operator) = Decide(FALSE, "false" \in occ, occ)
    BY <1>3 DEF CombineResultsByOperator
  <2> QED
    BY <1>2, <1>3, <2>1
<1>4. CASE operator = "OR"
  <2>1. CombineResultsByOperator(vec, operator) = Decide("true" \in occ, FALSE, occ)
    BY <1>4 DEF CombineResultsByOperator
  <2> QED
    BY <1>2, <1>4, <2>1
<1>5. CASE operator = "ONE"
  <2>1. CombineResultsByOperator(vec, operator) = Decide(FALSE, Count(vec, "true") > 1 \/ FALSE, occ)
    BY <1>5 DEF CombineResultsByOperator
  <2> QED
    BY <1>2, <1>5, <2>1
<1>6. CASE operator = "XOR"
  <2>1. CombineResultsByOperator(vec, operator) = Decide(FALSE, FALSE, occ)
    BY <1>6 DEF CombineResultsByOperator
  <2> QED
    BY <1>2, <2>1
<1> QED
  BY <1>3, <1>4, <1>5, <1>6 DEF Operators

-----------------------------------------------------------------------------
\* A definite combination of a vector stays the same when an undecided result of
\* the vector is decided either way (OvalEnum.cpp:780-1009).
LEMMA DecidingKeepsVerdict ==
  ASSUME NEW vec \in Seq(Results), NEW i \in DOMAIN vec, NEW v \in {"true", "false"},
         vec[i] \in Undecided, NEW operator \in Operators
  PROVE  LET decided == [vec EXCEPT ![i] = v]
         IN  /\ Definite(CombineResultsByOperator(vec, operator)) =>
                  CombineResultsByOperator(decided, operator)
                    = CombineResultsByOperator(vec, operator)
             /\ \A check \in Checks :
                  Definite(CombineResultsByCheck(vec, check)) =>
                    CombineResultsByCheck(decided, check)
                      = CombineResultsByCheck(vec, check)
<1> DEFINE decided == [vec EXCEPT ![i] = v]
<1>1. /\ ~Trivial(Occurring(vec))
      /\ ~Trivial(Occurring(decided))
      /\ Occurring(vec) \cap Undecided # {}
      /\ "true" \in Occurring(vec) => "true" \in Occurring(decided)
      /\ "false" \in Occurring(vec) => "false" \in Occurring(decided)
      /\ Count(vec, "true") \in Nat
      /\ Count(decided, "true") \in Nat
      /\ Count(vec, "true") <= Count(decided, "true")
  BY DecidingFacts
<1> HIDE DEF decided
<1>2. Count(vec, "true") > 1 => Count(decided, "true") > 1
  BY <1>1
<1>3. Definite(CombineResultsByOperator(vec, operator)) =>
        CombineResultsByOperator(decided, operator) = CombineResultsByOperator(vec, operator)
  BY <1>1, <1>2, UndecidedOperator, OperatorVerdicts, Zenon
<1>4. ASSUME NEW check \in Checks, Definite(CombineResultsByCheck(vec, check))
      PROVE  CombineResultsByCheck(decided, check) = CombineResultsByCheck(vec, check)
  BY <1>1, <1>2, <1>4, UndecidedCheck, CheckVerdicts, Zenon
<1> QED
  BY <1>3, <1>4 DEF decided

\* What the two actions keep of the vector and the operator.
VectorInv == op \in Operators /\ results \in Seq(Results)

LEMMA VectorInvariant == NodeSpec => []VectorInv
<1>1. NodeInit => VectorInv
  BY DEF NodeInit, VectorInv
<1>2. VectorInv /\ [NodeNext]_nodeVars => VectorInv'
  BY DEF VectorInv, NodeNext, SetResult, AnalyzeChild, nodeVars
<1> QED
  BY <1>1, <1>2, PTL DEF NodeSpec

\* Whatever an undecided child would have turned out to be, a verdict of the node,
\* or of a check over the same vector, would have been the same: for any number of
\* children, while TLC stops at MaxChildren (OvalEnum.cpp:780-1009).
THEOREM StableVerdicts == NodeSpec => []VerdictIsStable
<1>1. VectorInv => VerdictIsStable
  <2> SUFFICES ASSUME VectorInv, NEW i \in DOMAIN results, NEW v \in {"true", "false"},
                      results[i] \in Undecided
               PROVE  LET decided == [results EXCEPT ![i] = v]
                      IN  /\ Definite(Combined) =>
                               CombineResultsByOperator(decided, op) = Combined
                          /\ \A check \in Checks :
                               Definite(CombineResultsByCheck(results, check)) =>
                                 CombineResultsByCheck(decided, check)
                                   = CombineResultsByCheck(results, check)
    BY Zenon DEF VerdictIsStable, Undecided
  <2> QED
    BY DecidingKeepsVerdict, Zenon DEF VectorInv, Combined
<1> QED
  BY <1>1, VectorInvariant, PTL

-----------------------------------------------------------------------------
\* The result is set once, from all the results of the children.
ResultInv ==
  /\ VectorInv
  /\ nodeResult # "none" => nodeResult = IF negate THEN NegateResult(Combined) ELSE Combined

\* The result of a node is the one that the chart of its operator gives, and the checks
\* combine by their charts, for any number of children: the counts that the code
\* compares select the row of the chart (OvalEnum.cpp:780-1009).
THEOREM TablesAreMatched == NodeSpec => []MatchesTables
<1>1. NodeInit => ResultInv
  BY DEF NodeInit, VectorInv, ResultInv
<1>2. ResultInv /\ [NodeNext]_nodeVars => ResultInv'
  <2> SUFFICES ASSUME ResultInv, [NodeNext]_nodeVars PROVE ResultInv'
    OBVIOUS
  <2>1. VectorInv'
    BY DEF ResultInv, VectorInv, NodeNext, SetResult, AnalyzeChild, nodeVars
  <2>2. CASE SetResult
    BY <2>1, <2>2 DEF ResultInv, SetResult, Combined
  <2>3. CASE \E r \in Results : AnalyzeChild(r)
    BY <2>1, <2>3 DEF ResultInv, AnalyzeChild
  <2>4. CASE UNCHANGED nodeVars
    BY <2>1, <2>4 DEF ResultInv, nodeVars, Combined
  <2> QED
    BY <2>2, <2>3, <2>4 DEF NodeNext
<1>3. ResultInv => MatchesTables
  <2> SUFFICES ASSUME ResultInv, results # <<>>
               PROVE  MatchesOperatorTable /\ MatchesCheckTable
    BY DEF MatchesTables
  <2>1. op \in Operators /\ results \in Seq(Results)
    BY DEF ResultInv, VectorInv
  <2>2. MatchesOperatorTable
    <3>1. Combined = ChartResult(OperatorChart[op], results)
      BY <2>1, OperatorMatchesChart DEF Combined
    <3> QED
      BY <3>1 DEF ResultInv, MatchesOperatorTable
  <2>3. MatchesCheckTable
    BY <2>1, CheckMatchesChart DEF MatchesCheckTable
  <2> QED
    BY <2>2, <2>3
<1> QED
  BY <1>1, <1>2, <1>3, PTL DEF NodeSpec

-----------------------------------------------------------------------------
\* What an element of a document leads to.

\* What a definition or a criteria element leads to, itself not counted.
Elements == Definitions \cup Nodes
Below(n, in) == UNION {Parsed(m, in) : m \in RefersTo(n, in)}

LEMMA RefersToElements ==
  ASSUME NEW in \in Input, NEW n \in Elements
  PROVE  RefersTo(n, in) \subseteq Elements
<1>1. CASE n \in Definitions
  BY <1>1 DEF RefersTo, Input, Elements
<1>2. CASE n \in Nodes
  <2>1. n \notin Definitions
    BY <1>2, DistinctNames
  <2>2. in.children[n] \in Seq(Child)
    BY <1>2 DEF Input
  <2>3. \A i \in DOMAIN in.children[n] : in.children[n][i].ref \in Definitions \cup Nodes \cup Tests
    <3> DEFINE children == in.children[n]
    <3>1. children \in Seq(Child)
      BY <2>2
    <3> HIDE DEF children
    <3>2. \A i \in DOMAIN children : children[i] \in Child
      BY <3>1
    <3>3. \A i \in DOMAIN children : children[i].ref \in Definitions \cup Nodes \cup Tests
      BY <3>2 DEF Child
    <3> QED
      BY <3>3 DEF children
  <2> QED
    BY <2>1, <2>3 DEF RefersTo, Elements
<1> QED
  BY <1>1, <1>2 DEF Elements

LEMMA ParsedIsLeast ==
  ASSUME NEW in, NEW n, NEW S \in SUBSET Elements, n \in S,
         \A k \in S : RefersTo(k, in) \subseteq S
  PROVE  Parsed(n, in) \subseteq S
BY DEF Parsed, Elements

LEMMA ParsedFacts ==
  ASSUME NEW in \in Input, NEW n \in Elements
  PROVE  /\ n \in Parsed(n, in)
         /\ Parsed(n, in) \subseteq Elements
         /\ \A k \in Parsed(n, in) : RefersTo(k, in) \subseteq Parsed(n, in)
         /\ \A k \in Parsed(n, in) : Parsed(k, in) \subseteq Parsed(n, in)
<1>1. n \in Parsed(n, in) /\ Parsed(n, in) \subseteq Elements
  BY DEF Parsed, Elements
<1>2. ASSUME NEW k \in Parsed(n, in)
      PROVE  RefersTo(k, in) \subseteq Parsed(n, in)
  <2>1. RefersTo(k, in) \subseteq Elements
    BY <1>1, RefersToElements
  <2> QED
    BY <2>1 DEF Parsed, Elements
<1>3. ASSUME NEW k \in Parsed(n, in)
      PROVE  Parsed(k, in) \subseteq Parsed(n, in)
  BY <1>1, <1>2, <1>3, ParsedIsLeast
<1> QED
  BY <1>1, <1>2, <1>3

LEMMA BelowFacts ==
  ASSUME NEW in \in Input, NEW n \in Elements
  PROVE  /\ Below(n, in) \subseteq Parsed(n, in)
         /\ Parsed(n, in) = {n} \cup Below(n, in)
         /\ \A m \in RefersTo(n, in) : m \in Below(n, in) /\ Parsed(m, in) \subseteq Below(n, in)
         /\ \A m \in Below(n, in) : Parsed(m, in) \subseteq Below(n, in)
<1>1. RefersTo(n, in) \subseteq Elements
  BY RefersToElements
<1>2. \A m \in RefersTo(n, in) : m \in Below(n, in) /\ Parsed(m, in) \subseteq Below(n, in)
  BY <1>1, ParsedFacts DEF Below
<1>3. \A m \in RefersTo(n, in) : Parsed(m, in) \subseteq Parsed(n, in)
  BY ParsedFacts
<1>4. Below(n, in) \subseteq Parsed(n, in)
  BY <1>3 DEF Below
<1>5. \A m \in Below(n, in) : Parsed(m, in) \subseteq Below(n, in)
  <2> TAKE m \in Below(n, in)
  <2>1. PICK k \in RefersTo(n, in) : m \in Parsed(k, in)
    BY DEF Below
  <2> QED
    BY <1>1, <1>2, <2>1, ParsedFacts
<1>6. Parsed(n, in) \subseteq {n} \cup Below(n, in)
  <2> DEFINE S == {n} \cup Below(n, in)
  <2>1. S \in SUBSET Elements /\ n \in S
    BY <1>4, ParsedFacts
  <2>2. ASSUME NEW k \in S PROVE RefersTo(k, in) \subseteq S
    <3>1. CASE k = n
      BY <1>2, <3>1
    <3>2. CASE k \in Below(n, in)
      <4>1. k \in Elements /\ Parsed(k, in) \subseteq Below(n, in)
        BY <1>4, <1>5, <3>2, ParsedFacts
      <4>2. k \in Parsed(k, in) /\ RefersTo(k, in) \subseteq Parsed(k, in)
        BY <4>1, ParsedFacts
      <4> QED
        BY <4>1, <4>2
    <3> QED
      BY <3>1, <3>2
  <2> HIDE DEF S
  <2>3. Parsed(n, in) \subseteq S
    BY <2>1, <2>2, ParsedIsLeast
  <2> QED
    BY <2>3 DEF S
<1> QED
  BY <1>2, <1>4, <1>5, <1>6, ParsedFacts

LEMMA AcyclicFacts ==
  ASSUME NEW in \in Input, Acyclic(in), NEW n \in Elements
  PROVE  /\ n \notin Below(n, in)
         /\ \A m \in Below(n, in) : n \notin Parsed(m, in)
<1>1. n \notin Below(n, in)
  BY DEF Acyclic, Below, Elements
<1> QED
  BY <1>1, BelowFacts

\* Of some elements, one refers to no other of them.
LEMMA LowestElement ==
  ASSUME NEW in \in Input, Acyclic(in), NEW T \in SUBSET Elements, T # {}
  PROVE  \E n \in T : RefersTo(n, in) \cap T = {}
<1> DEFINE Size(n) == Cardinality(Parsed(n, in))
           Sizes == {Size(n) : n \in T}
<1>1. \A n \in T : IsFiniteSet(Parsed(n, in)) /\ Size(n) \in Nat
  BY DocumentsAreFinite, ParsedFacts, FS_Subset, FS_CardinalityType DEF Elements
<1>2. PICK s \in Sizes : \A t \in Sizes : s <= t
  <2>1. Sizes \subseteq Nat /\ Sizes # {}
    BY <1>1
  <2> HIDE DEF Sizes
  <2> QED
    BY <2>1, LeastNumber
<1>3. PICK n \in T : s = Size(n)
  OBVIOUS
<1>4. ASSUME NEW m \in RefersTo(n, in), m \in T PROVE FALSE
  <2>1. Parsed(m, in) \subseteq Below(n, in)
    BY BelowFacts
  <2>2. Parsed(m, in) \subseteq Parsed(n, in) /\ Parsed(m, in) # Parsed(n, in)
    BY <2>1, BelowFacts, AcyclicFacts, ParsedFacts
  <2>3. Cardinality(Parsed(m, in)) <= Cardinality(Parsed(n, in))
        /\ Cardinality(Parsed(m, in)) # Cardinality(Parsed(n, in))
    BY <1>1, <2>2, FS_Subset
  <2>4. Size(n) <= Size(m)
    BY <1>2, <1>3, <1>4
  <2> QED
    BY <1>1, <1>4, <2>3, <2>4
<1> QED
  BY <1>4

-----------------------------------------------------------------------------
\* The meaning of a document exists, and is the only one.

LEMMA OperatorGivesResult ==
  ASSUME NEW vec, NEW operator \in Operators
  PROVE  CombineResultsByOperator(vec, operator) \in Results
<1>1. \A isTrue, isFalse, occ : Decide(isTrue, isFalse, occ) \in Results
  BY DEF Decide, Precedence, Results
<1>2. TrivialResult(Occurring(vec)) \in Results
  BY DEF TrivialResult, Results
<1> QED
  BY <1>1, <1>2 DEF CombineResultsByOperator, Operators

LEMMA NegateIsResult ==
  ASSUME NEW r \in Results, NEW b
  PROVE  NegateIf(b, r) \in Results
BY DEF NegateIf, NegateResult, Results

\* The equation of Meaning, for one element or test.
ValueOf(in, value, n) ==
  IF n \in Tests THEN in.outcome[n]
  ELSE IF n \in Nodes
    THEN CombinedChildren(in, n,
           [i \in DOMAIN in.children[n] |->
              Answer(in.children[n][i], value[in.children[n][i].ref])])
  ELSE IF in.root[n] = "none" THEN "not evaluated"
  ELSE value[in.root[n]]

LEMMA ValueIsResult ==
  ASSUME NEW in \in Input, NEW n \in Things, NEW value,
         \A m \in RefersTo(n, in) : value[m] \in Results
  PROVE  ValueOf(in, value, n) \in Results
<1>1. CASE n \in Tests
  BY <1>1 DEF ValueOf, Input
<1>2. CASE n \in Nodes
  <2>1. n \notin Tests /\ in.operator[n] \in Operators
    BY <1>2, DistinctNames DEF Input
  <2>2. \A vec : CombinedChildren(in, n, vec) \in Results
    BY <2>1, OperatorGivesResult, NegateIsResult DEF CombinedChildren
  <2> QED
    BY <1>2, <2>1, <2>2 DEF ValueOf
<1>3. CASE n \in Definitions
  <2>1. n \notin Tests /\ n \notin Nodes
    BY <1>3, DistinctNames
  <2>2. in.root[n] # "none" => in.root[n] \in RefersTo(n, in)
    BY <1>3 DEF RefersTo
  <2> QED
    BY <1>3, <2>1, <2>2 DEF ValueOf, Results
<1> QED
  BY <1>1, <1>2, <1>3 DEF Things

LEMMA ValueDepends ==
  ASSUME NEW in \in Input, NEW n \in Things, NEW v, NEW w,
         \A m \in RefersTo(n, in) \cup Tests : v[m] = w[m]
  PROVE  ValueOf(in, v, n) = ValueOf(in, w, n)
<1>1. CASE n \in Tests
  BY <1>1 DEF ValueOf
<1>2. CASE n \in Nodes
  <2>1. n \notin Tests /\ n \notin Definitions
    BY <1>2, DistinctNames
  <2> DEFINE children == in.children[n]
  <2>2. \A i \in DOMAIN children : children[i].ref \in RefersTo(n, in) \cup Tests
    BY <2>1 DEF RefersTo
  <2>3. [i \in DOMAIN children |-> Answer(children[i], v[children[i].ref])]
          = [i \in DOMAIN children |-> Answer(children[i], w[children[i].ref])]
    <3> HIDE DEF children
    <3> QED
      BY <2>2
  <2> QED
    BY <1>2, <2>1, <2>3 DEF ValueOf
<1>3. CASE n \in Definitions
  <2>1. n \notin Tests /\ n \notin Nodes
    BY <1>3, DistinctNames
  <2>2. in.root[n] # "none" => in.root[n] \in RefersTo(n, in)
    BY <1>3 DEF RefersTo
  <2> QED
    BY <2>1, <2>2 DEF ValueOf
<1> QED
  BY <1>1, <1>2, <1>3 DEF Things

\* The equations, on a set of elements with all they refer to.
Solves(value, D, in) ==
  /\ value \in [D \cup Tests -> Results]
  /\ D \subseteq Elements
  /\ \A n \in D : RefersTo(n, in) \subseteq D
  /\ \A n \in D \cup Tests : value[n] = ValueOf(in, value, n)

LEMMA SolutionsAgree ==
  ASSUME NEW in \in Input, Acyclic(in), NEW v, NEW w, NEW D, NEW E,
         Solves(v, D, in), Solves(w, E, in)
  PROVE  \A n \in (D \cap E) \cup Tests : v[n] = w[n]
<1> DEFINE T == {n \in D \cap E : v[n] # w[n]}
<1>1. \A n \in Tests : v[n] = w[n]
  BY DEF Solves, ValueOf
<1>2. ASSUME T # {} PROVE FALSE
  <2>1. T \in SUBSET Elements
    BY DEF Solves
  <2>2. PICK n \in T : RefersTo(n, in) \cap T = {}
    <3> HIDE DEF T
    <3> QED
      BY <1>2, <2>1, LowestElement
  <2>3. n \in Things /\ n \in D /\ n \in E
    BY <2>1 DEF Elements, Things
  <2>4. \A m \in RefersTo(n, in) \cup Tests : v[m] = w[m]
    BY <1>1, <2>2, <2>3 DEF Solves
  <2>5. ValueOf(in, v, n) = ValueOf(in, w, n)
    BY <2>3, <2>4, ValueDepends
  <2> QED
    BY <2>2, <2>3, <2>5 DEF Solves
<1> QED
  BY <1>1, <1>2

LEMMA MeaningExists ==
  ASSUME NEW in \in Input, Acyclic(in)
  PROVE  \E value : Solves(value, Elements, in)
<1> DEFINE Solved(n, r) == \E D \in SUBSET Elements : \E v \in [D \cup Tests -> Results] :
                             Solves(v, D, in) /\ n \in D \cup Tests /\ v[n] = r
           U == {n \in Elements : \E r : Solved(n, r)}
           g == [n \in U \cup Tests |-> CHOOSE r : Solved(n, r)]
\* Any solution, on any set, is a part of g.
<1>1. ASSUME NEW D \in SUBSET Elements, NEW v \in [D \cup Tests -> Results], Solves(v, D, in)
      PROVE  D \subseteq U /\ \A n \in D \cup Tests : g[n] = v[n]
  <2>1. ASSUME NEW n \in D \cup Tests
        PROVE  Solved(n, v[n]) /\ \A r : Solved(n, r) => r = v[n]
    <3>1. Solved(n, v[n])
      BY <1>1, <2>1
    <3>2. ASSUME NEW r, Solved(n, r) PROVE r = v[n]
      <4>1. PICK E \in SUBSET Elements : \E w \in [E \cup Tests -> Results] :
              Solves(w, E, in) /\ n \in E \cup Tests /\ w[n] = r
        BY <3>2
      <4>2. PICK w : Solves(w, E, in) /\ n \in E \cup Tests /\ w[n] = r
        BY <4>1
      <4> HIDE DEF Solved
      <4> QED
        BY <1>1, <2>1, <4>2, SolutionsAgree
    <3> HIDE DEF Solved
    <3> QED
      BY <3>1, <3>2
  <2> HIDE DEF Solved
  <2>2. \A n \in D : n \in U
    BY <2>1
  <2>3. ASSUME NEW n \in D \cup Tests PROVE g[n] = v[n]
    <3>1. (CHOOSE r : Solved(n, r)) = v[n]
      BY <2>1
    <3> QED
      BY <2>2, <3>1
  <2> QED
    BY <2>2, <2>3
<1>2. ASSUME NEW n \in U
      PROVE  \E D \in SUBSET Elements : \E v \in [D \cup Tests -> Results] :
               Solves(v, D, in) /\ n \in D
  <2>1. n \notin Tests
    BY DistinctNames DEF Elements
  <2> QED
    BY <2>1
\* The tests alone are solved by their outcomes.
<1>3. \A n \in Tests : g[n] = in.outcome[n]
  <2>1. Solves([t \in Tests |-> in.outcome[t]], {}, in)
    BY DEF Solves, ValueOf, Input
  <2>2. [t \in Tests |-> in.outcome[t]] \in [{} \cup Tests -> Results]
    BY <2>1 DEF Solves
  <2> HIDE DEF Solved, g, U
  <2> QED
    BY <1>1, <2>1, <2>2
<1> HIDE DEF Solved, g
<1>4. Solves(g, U, in)
  <2>1. DOMAIN g = U \cup Tests
    BY DEF g
  <2>2. ASSUME NEW n \in U
        PROVE  /\ RefersTo(n, in) \subseteq U
               /\ g[n] \in Results
               /\ g[n] = ValueOf(in, g, n)
    <3>0. PICK D \in SUBSET Elements :
            \E v \in [D \cup Tests -> Results] : Solves(v, D, in) /\ n \in D
      BY <1>2, <2>2
    <3>1. PICK v \in [D \cup Tests -> Results] : Solves(v, D, in) /\ n \in D
      BY <3>0
    <3>2. D \subseteq U /\ \A m \in D \cup Tests : g[m] = v[m]
      BY <1>1, <3>1
    <3>3. RefersTo(n, in) \subseteq D /\ v[n] = ValueOf(in, v, n) /\ v[n] \in Results /\ n \in Things
      BY <3>1 DEF Solves, Things, Elements
    <3>4. ValueOf(in, v, n) = ValueOf(in, g, n)
      BY <3>2, <3>3, ValueDepends
    <3> QED
      BY <3>1, <3>2, <3>3, <3>4
  <2>3. ASSUME NEW n \in Tests PROVE g[n] \in Results /\ g[n] = ValueOf(in, g, n)
    BY <1>3, <2>3 DEF ValueOf, Input
  <2>4. g \in [U \cup Tests -> Results]
    BY <2>2, <2>3 DEF g
  <2> QED
    BY <2>2, <2>3, <2>4 DEF Solves
<1>5. U = Elements
  <2> SUFFICES ASSUME Elements \ U # {} PROVE FALSE
    OBVIOUS
  <2>1. PICK n \in Elements \ U : RefersTo(n, in) \cap (Elements \ U) = {}
    BY LowestElement
  <2>2. RefersTo(n, in) \subseteq U
    BY <2>1, RefersToElements
  <2> DEFINE D == U \cup {n}
             h == [m \in D \cup Tests |-> IF m = n THEN ValueOf(in, g, n) ELSE g[m]]
  <2>3. n \notin Tests /\ n \in Things
    BY <2>1, DistinctNames DEF Elements, Things
  <2>4. \A m \in U \cup Tests : h[m] = g[m]
    BY <2>1, <2>3
  <2>5. h[n] = ValueOf(in, g, n)
    OBVIOUS
  <2>6. ValueOf(in, g, n) \in Results
    BY <1>4, <2>2, <2>3, ValueIsResult DEF Solves
  <2>7. h \in [D \cup Tests -> Results]
    BY <1>4, <2>6 DEF Solves
  <2> HIDE DEF h
  <2>8. ASSUME NEW m \in D PROVE RefersTo(m, in) \subseteq D
    BY <1>4, <2>2, <2>8 DEF Solves
  <2>9. ASSUME NEW m \in D \cup Tests PROVE h[m] = ValueOf(in, h, m)
    <3>1. CASE m = n
      BY <2>2, <2>3, <2>4, <2>5, <3>1, ValueDepends
    <3>2. CASE m \in U \cup Tests
      <4>1. m \in Things /\ (m \in U => RefersTo(m, in) \subseteq U)
        BY <1>4, <3>2 DEF Solves, Things, Elements
      <4>2. CASE m \in U
        <5>1. ValueOf(in, h, m) = ValueOf(in, g, m)
          BY <2>4, <4>1, <4>2, ValueDepends
        <5> QED
          BY <1>4, <2>4, <4>2, <5>1 DEF Solves
      <4>3. CASE m \in Tests
        BY <1>4, <2>4, <4>3 DEF Solves, ValueOf
      <4> QED
        BY <3>2, <4>2, <4>3
    <3> QED
      BY <2>9, <3>1, <3>2
  <2>10. D \in SUBSET Elements /\ n \in D
    BY <2>1
  <2> HIDE DEF D
  <2>11. Solves(h, D, in)
    BY <2>7, <2>8, <2>9, <2>10 DEF Solves
  <2>12. D \subseteq U
    BY <1>1, <2>7, <2>10, <2>11
  <2> QED
    BY <2>1, <2>10, <2>12
<1> QED
  BY <1>4, <1>5

\* Meaning obeys its equations, and gives results.
LEMMA MeaningFacts ==
  ASSUME NEW in \in Input, Acyclic(in)
  PROVE  Solves(Meaning(in), Elements, in)
<1>1. PICK v : Solves(v, Elements, in)
  BY MeaningExists
<1>2. Elements \cup Tests = Things
  BY DEF Elements, Things
<1>3. v = [n \in Things |-> ValueOf(in, v, n)]
  BY <1>1, <1>2 DEF Solves
<1>4. Meaning(in) = [n \in Things |-> ValueOf(in, Meaning(in), n)]
  BY <1>3 DEF Meaning, ValueOf
<1> DEFINE M == Meaning(in)
<1> HIDE DEF M
<1>5. M = [n \in Things |-> ValueOf(in, M, n)]
  BY <1>4 DEF M
<1>6. \A n \in Things : M[n] = ValueOf(in, M, n)
  BY <1>5
<1>7. \A n \in Tests : M[n] \in Results
  BY <1>6 DEF Things, ValueOf, Input
<1>8. \A n \in Nodes : M[n] \in Results
  <2> SUFFICES ASSUME NEW n \in Nodes PROVE M[n] \in Results
    OBVIOUS
  <2>1. n \notin Tests /\ in.operator[n] \in Operators /\ n \in Things
    BY DistinctNames DEF Input, Things
  <2>2. \A vec : CombinedChildren(in, n, vec) \in Results
    BY <2>1, OperatorGivesResult, NegateIsResult DEF CombinedChildren
  <2> QED
    BY <1>6, <2>1, <2>2 DEF ValueOf
<1>9. \A n \in Definitions : M[n] \in Results
  <2> SUFFICES ASSUME NEW n \in Definitions PROVE M[n] \in Results
    OBVIOUS
  <2>1. n \in Things
    BY DEF Things
  <2>2. RefersTo(n, in) \subseteq Nodes
    BY DEF RefersTo, Input
  <2> QED
    BY <1>6, <1>8, <2>1, <2>2, ValueIsResult
<1>10. M \in [Things -> Results]
  BY <1>5, <1>6, <1>7, <1>8, <1>9 DEF Things
<1> QED
  BY <1>2, <1>6, <1>10, RefersToElements DEF Solves, M

-----------------------------------------------------------------------------
\* What the stack of calls holds.  The invariant is written over parameters for the
\* results, the stack and the records, as a step changes them one at a time.

\* All that an element leads to has a result: nothing is left to be evaluated.
TestsAsked(n, in, tres) ==
  \A i \in DOMAIN in.children[n] :
    in.children[n][i].ref \in Tests => tres[in.children[n][i].ref] # "none"
Settled(n, in, res, tres) ==
  \A m \in Parsed(n, in) :
    /\ m \in Definitions => res[m] # "none"
    /\ m \in Nodes => TestsAsked(m, in, tres)
ChildSettled(child, in, res, tres) ==
  IF child.ref \in Tests THEN tres[child.ref] # "none" ELSE Settled(child.ref, in, res, tres)

\* A result that is there stays.
Grows(old, new, S) == \A x \in S : old[x] # "none" => new[x] = old[x]

LEMMA SettledStays ==
  ASSUME NEW in \in Input, NEW n \in Elements, NEW res, NEW tres, NEW res2, NEW tres2,
         Grows(res, res2, Definitions), Grows(tres, tres2, Tests),
         Settled(n, in, res, tres)
  PROVE  Settled(n, in, res2, tres2)
BY DEF Grows, Settled, TestsAsked

LEMMA ChildSettledStays ==
  ASSUME NEW in \in Input, NEW child \in Child, NEW res, NEW tres, NEW res2, NEW tres2,
         Grows(res, res2, Definitions), Grows(tres, tres2, Tests),
         ChildSettled(child, in, res, tres)
  PROVE  ChildSettled(child, in, res2, tres2)
<1>1. CASE child.ref \in Tests
  BY <1>1 DEF ChildSettled, Grows
<1>2. CASE child.ref \notin Tests
  <2>1. child.ref \in Elements
    BY <1>2 DEF Child, Elements
  <2> QED
    BY <1>2, <2>1, SettledStays DEF ChildSettled
<1> QED
  BY <1>1, <1>2

LEMMA ChildFacts ==
  ASSUME NEW in \in Input, NEW n \in Nodes
  PROVE  /\ in.children[n] \in Seq(Child)
         /\ Len(in.children[n]) \in Nat
         /\ DOMAIN in.children[n] = 1 .. Len(in.children[n])
         /\ \A i \in DOMAIN in.children[n] :
              /\ in.children[n][i] \in Child
              /\ in.children[n][i].ref \in Things
              /\ in.children[n][i].ref \notin Tests =>
                   in.children[n][i].ref \in RefersTo(n, in) \cap Elements
<1> DEFINE children == in.children[n]
<1>1. children \in Seq(Child)
  BY DEF Input
<1>2. n \notin Definitions
  BY DistinctNames
<1>3. RefersTo(n, in) = {children[i].ref : i \in DOMAIN children} \ Tests
  BY <1>2 DEF RefersTo
<1> HIDE DEF children
<1>4. \A i \in DOMAIN children : children[i] \in Child
  BY <1>1
<1>5. \A i \in DOMAIN children : children[i].ref \in Things
  BY <1>4 DEF Child, Things
<1>6. Len(children) \in Nat /\ DOMAIN children = 1 .. Len(children)
  BY <1>1
<1>7. \A i \in DOMAIN children : children[i].ref \notin Tests =>
        children[i].ref \in RefersTo(n, in) \cap Elements
  BY <1>3, <1>5 DEF Things, Elements
<1> QED
  BY <1>1, <1>4, <1>5, <1>6, <1>7 DEF children

LEMMA SettledPart ==
  ASSUME NEW in \in Input, NEW n \in Elements, NEW m \in Parsed(n, in), NEW res, NEW tres,
         Settled(n, in, res, tres)
  PROVE  Settled(m, in, res, tres)
BY ParsedFacts DEF Settled

LEMMA SettledNode ==
  ASSUME NEW in \in Input, NEW n \in Nodes, NEW res, NEW tres
  PROVE  Settled(n, in, res, tres) <=>
           \A i \in DOMAIN in.children[n] : ChildSettled(in.children[n][i], in, res, tres)
<1>1. n \in Elements /\ n \notin Definitions
  BY DistinctNames DEF Elements
<1>2. ASSUME Settled(n, in, res, tres), NEW i \in DOMAIN in.children[n]
      PROVE  ChildSettled(in.children[n][i], in, res, tres)
  <2> DEFINE child == in.children[n][i]
  <2>1. CASE child.ref \in Tests
    <3>1. n \in Parsed(n, in)
      BY <1>1, ParsedFacts
    <3> QED
      BY <1>2, <2>1, <3>1 DEF Settled, TestsAsked, ChildSettled
  <2>2. CASE child.ref \notin Tests
    <3>1. child.ref \in RefersTo(n, in)
      BY <2>2, ChildFacts
    <3>2. child.ref \in Parsed(n, in)
      BY <1>1, <3>1, BelowFacts
    <3>3. Settled(child.ref, in, res, tres)
      BY <1>1, <1>2, <3>2, SettledPart
    <3> QED
      BY <2>2, <3>3 DEF ChildSettled
  <2> QED
    BY <2>1, <2>2
<1>3. ASSUME \A i \in DOMAIN in.children[n] : ChildSettled(in.children[n][i], in, res, tres),
             NEW m \in Parsed(n, in)
      PROVE  /\ m \in Definitions => res[m] # "none"
             /\ m \in Nodes => TestsAsked(m, in, tres)
  <2>1. CASE m = n
    BY <1>1, <1>3, <2>1 DEF TestsAsked, ChildSettled
  <2>2. CASE m # n
    <3>1. PICK k \in RefersTo(n, in) : m \in Parsed(k, in)
      BY <1>1, <2>2, BelowFacts DEF Below
    <3>2. PICK i \in DOMAIN in.children[n] : k = in.children[n][i].ref /\ k \notin Tests
      BY <1>1, <3>1 DEF RefersTo
    <3>3. Settled(k, in, res, tres)
      BY <1>3, <3>2 DEF ChildSettled
    <3> QED
      BY <3>1, <3>3 DEF Settled
  <2> QED
    BY <2>1, <2>2
<1> QED
  BY <1>2, <1>3 DEF Settled

LEMMA SettledDefinition ==
  ASSUME NEW in \in Input, NEW d \in Definitions, NEW res, NEW tres, res[d] # "none",
         in.root[d] # "none" => Settled(in.root[d], in, res, tres)
  PROVE  Settled(d, in, res, tres)
<1>1. d \in Elements /\ d \notin Nodes
  BY DistinctNames DEF Elements
<1>2. ASSUME NEW m \in Parsed(d, in)
      PROVE  /\ m \in Definitions => res[m] # "none"
             /\ m \in Nodes => TestsAsked(m, in, tres)
  <2>1. CASE m = d
    BY <1>1, <2>1
  <2>2. CASE m # d
    <3>1. PICK k \in RefersTo(d, in) : m \in Parsed(k, in)
      BY <1>1, <2>2, BelowFacts DEF Below
    <3>2. k = in.root[d] /\ k # "none"
      BY <3>1 DEF RefersTo
    <3> QED
      BY <3>1, <3>2 DEF Settled
  <2> QED
    BY <2>1, <2>2
<1> QED
  BY <1>2 DEF Settled

\* The stack while a definition is analyzed or marked.

CallFrame == [call : Calls, node : Elements, at : Nat, results : Seq(Results)]

\* What a call is waiting for: the criteria of a definition, or the next child.
WaitsFor(f, m, in) ==
  IF f.node \in Definitions THEN in.root[f.node] # "none" /\ m = in.root[f.node]
  ELSE /\ Len(f.results) < Len(in.children[f.node])
       /\ m = in.children[f.node][Len(f.results) + 1].ref
       /\ m \notin Tests

\* The results of a call are those of the first children of its criteria.
FrameIsRight(f, in, res, tres) ==
  f.node \in Nodes =>
    /\ Len(f.results) <= Len(in.children[f.node])
    /\ \A j \in 1 .. Len(f.results) :
         /\ ChildSettled(in.children[f.node][j], in, res, tres)
         /\ f.call = "Analyze" =>
              f.results[j] = Answer(in.children[f.node][j],
                                    Meaning(in)[in.children[f.node][j].ref])

\* What is returned is the result of what the last call is waiting for.
ReturnIsRight(f, r, in, res, tres) ==
  \E m \in Elements : /\ WaitsFor(f, m, in)
                      /\ Settled(m, in, res, tres)
                      /\ f.call = "Analyze" => r = Meaning(in)[m]

\* The call of Write waits below; each call waits for the next one, and is for
\* something that is below it; no definition that is at work has a result yet.
Evaluation(stk, r, in, res, tres) ==
  /\ Len(stk) >= 2
  /\ stk[1].call = "Write" /\ stk[1].node \in Definitions /\ stk[2].node = stk[1].node
  /\ stk[2].call \in Evaluating
  /\ \A i \in 2 .. Len(stk) : stk[i].call = stk[2].call /\ FrameIsRight(stk[i], in, res, tres)
  /\ \A i \in 2 .. Len(stk) - 1 : WaitsFor(stk[i], stk[i + 1].node, in)
  /\ \A i, j \in 2 .. Len(stk) : i < j => stk[j].node \in Below(stk[i].node, in)
  /\ \A i \in 2 .. Len(stk) :
       stk[i].node \in Definitions /\ (i < Len(stk) \/ r # "none") => res[stk[i].node] = "none"
  /\ r # "none" => ReturnIsRight(stk[Len(stk)], r, in, res, tres)

\* The stack while a definition is written, all of whose results are there.
Writing(stk, r, in, res, tres) ==
  /\ \A i \in DOMAIN stk :
       /\ stk[i].call = "Write"
       /\ Settled(stk[i].node, in, res, tres)
       /\ stk[i].node \in Nodes => stk[i].at <= Len(in.children[stk[i].node])
  /\ r # "none" => Len(stk) = 1 /\ stk[1].node \in Definitions

LEMMA WaitsForFacts ==
  ASSUME NEW in \in Input, NEW f \in CallFrame, NEW m, WaitsFor(f, m, in)
  PROVE  m \in RefersTo(f.node, in) /\ m \in Elements
<1>1. f.node \in Elements
  BY DEF CallFrame
<1>2. CASE f.node \in Definitions
  BY <1>1, <1>2, RefersToElements DEF WaitsFor, RefersTo
<1>3. CASE f.node \notin Definitions
  <2>1. f.node \in Nodes
    BY <1>1, <1>3 DEF Elements
  <2>2. Len(f.results) \in Nat
    BY DEF CallFrame
  <2>3. Len(f.results) + 1 \in DOMAIN in.children[f.node]
    BY <1>3, <2>1, <2>2, ChildFacts DEF WaitsFor
  <2> QED
    BY <1>3, <2>1, <2>3, ChildFacts DEF WaitsFor
<1> QED
  BY <1>2, <1>3

LEMMA FrameStaysRight ==
  ASSUME NEW in \in Input, NEW f \in CallFrame, NEW res, NEW tres, NEW res2, NEW tres2,
         Grows(res, res2, Definitions), Grows(tres, tres2, Tests),
         FrameIsRight(f, in, res, tres)
  PROVE  FrameIsRight(f, in, res2, tres2)
<1> SUFFICES ASSUME f.node \in Nodes,
                    NEW j \in 1 .. Len(f.results)
             PROVE  ChildSettled(in.children[f.node][j], in, res2, tres2)
  BY DEF FrameIsRight
<1>1. Len(f.results) \in Nat /\ Len(f.results) <= Len(in.children[f.node])
  BY DEF CallFrame, FrameIsRight
<1>2. j \in DOMAIN in.children[f.node]
  BY <1>1, ChildFacts
<1>3. in.children[f.node][j] \in Child
  BY <1>2, ChildFacts
<1> QED
  BY <1>3, ChildSettledStays DEF FrameIsRight

\* A call is made.
LEMMA CallKeeps ==
  ASSUME NEW in \in Input, NEW stk \in Seq(CallFrame), NEW res, NEW tres, NEW stk2,
         NEW m, NEW f \in CallFrame,
         Evaluation(stk, "none", in, res, tres),
         WaitsFor(stk[Len(stk)], m, in),
         stk[Len(stk)].node \in Definitions => res[stk[Len(stk)].node] = "none",
         f.node = m, f.call = stk[Len(stk)].call, f.results = <<>>,
         stk2 = Append(stk, f)
  PROVE  stk2 \in Seq(CallFrame) /\ Evaluation(stk2, "none", in, res, tres)
<1> DEFINE n == Len(stk)
<1>1. n \in Nat /\ n >= 2 /\ stk[n] \in CallFrame
  BY DEF Evaluation
<1>2. /\ stk2 \in Seq(CallFrame) /\ Len(stk2) = n + 1 /\ stk2[n + 1] = f
      /\ \A i \in 1 .. n : stk2[i] = stk[i]
  OBVIOUS
<1>3. m \in RefersTo(stk[n].node, in) /\ m \in Elements /\ stk[n].node \in Elements
  BY <1>1, WaitsForFacts DEF CallFrame
<1>4. FrameIsRight(f, in, res, tres)
  <2>1. Len(f.results) = 0
    OBVIOUS
  <2>2. f.node \in Nodes => Len(in.children[f.node]) \in Nat
    BY ChildFacts
  <2> QED
    BY <2>1, <2>2 DEF FrameIsRight
<1>5. \A i \in 2 .. n : m \in Below(stk[i].node, in)
  <2> TAKE i \in 2 .. n
  <2>1. m \in Below(stk[n].node, in) /\ m \in Parsed(stk[n].node, in)
    BY <1>3, BelowFacts
  <2>2. stk[i] \in CallFrame
    BY <1>1
  <2>8. stk[i].node \in Elements
    BY <2>2 DEF CallFrame
  <2>3. CASE i = n
    BY <2>1, <2>3
  <2>4. CASE i # n
    <3>1. stk[n].node \in Below(stk[i].node, in)
      BY <1>1, <2>4 DEF Evaluation
    <3> QED
      BY <2>1, <2>8, <3>1, BelowFacts
  <2> QED
    BY <2>3, <2>4
<1> HIDE DEF n
<1>6. \A i \in 2 .. n : stk2[i] = stk[i]
  BY <1>1, <1>2
<1>7. stk2[1] = stk[1] /\ stk2[2] = stk[2] /\ stk2[n] = stk[n]
  BY <1>1, <1>2
<1>8. /\ Len(stk2) >= 2
      /\ stk2[1].call = "Write" /\ stk2[1].node \in Definitions /\ stk2[2].node = stk2[1].node
      /\ stk2[2].call \in Evaluating
  BY <1>1, <1>2, <1>7 DEF Evaluation
<1>9. \A i \in 2 .. n + 1 : stk2[i].call = stk2[2].call /\ FrameIsRight(stk2[i], in, res, tres)
  <2>1. \A i \in 2 .. n : stk[i].call = stk[2].call /\ FrameIsRight(stk[i], in, res, tres)
    BY DEF Evaluation, n
  <2>2. f.call = stk[2].call
    BY <1>1, <2>1 DEF n
  <2> QED
    BY <1>1, <1>2, <1>4, <1>6, <1>7, <2>1, <2>2
<1>10. \A i \in 2 .. n : WaitsFor(stk2[i], stk2[i + 1].node, in)
  <2> TAKE i \in 2 .. n
  <2>1. CASE i = n
    BY <1>2, <1>7, <2>1 DEF n
  <2>2. CASE i # n
    <3>1. i \in 2 .. n - 1 /\ i + 1 \in 2 .. n
      BY <1>1, <2>2
    <3>2. WaitsFor(stk[i], stk[i + 1].node, in)
      BY <3>1 DEF Evaluation, n
    <3> QED
      BY <1>6, <3>1, <3>2
  <2> QED
    BY <2>1, <2>2
<1>11. ASSUME NEW i \in 2 .. n + 1, NEW j \in 2 .. n + 1, i < j
       PROVE  stk2[j].node \in Below(stk2[i].node, in)
  <2>1. CASE j = n + 1
    <3>1. i \in 2 .. n
      BY <1>1, <1>11, <2>1
    <3> QED
      BY <1>2, <1>5, <1>6, <2>1, <3>1
  <2>2. CASE j # n + 1
    <3>1. i \in 2 .. n /\ j \in 2 .. n
      BY <1>1, <1>11, <2>2
    <3>2. stk[j].node \in Below(stk[i].node, in)
      BY <1>11, <3>1 DEF Evaluation, n
    <3> QED
      BY <1>6, <3>1, <3>2
  <2> QED
    BY <2>1, <2>2
<1>12. ASSUME NEW i \in 2 .. n + 1, stk2[i].node \in Definitions, i < n + 1
       PROVE  res[stk2[i].node] = "none"
  <2>1. i \in 2 .. n
    BY <1>1, <1>12
  <2>2. CASE i = n
    BY <1>7, <1>12, <2>2 DEF n
  <2>3. CASE i # n
    <3>1. i < n
      BY <1>1, <2>1, <2>3
    <3>2. stk[i].node \in Definitions => res[stk[i].node] = "none"
      BY <2>1, <3>1 DEF Evaluation, n
    <3> QED
      BY <1>6, <1>12, <2>1, <3>2
  <2> QED
    BY <2>2, <2>3
<1>13. (n + 1) - 1 = n
  BY <1>1
<1> QED
  BY <1>2, <1>8, <1>9, <1>10, <1>11, <1>12, <1>13 DEF Evaluation

\* A result is taken by the last call.
LEMMA TakeKeeps ==
  ASSUME NEW in \in Input, NEW stk \in Seq(CallFrame), NEW r,
         NEW res, NEW tres, NEW tres2, NEW stk2, NEW f \in CallFrame,
         Evaluation(stk, r, in, res, tres), Grows(tres, tres2, Tests),
         stk[Len(stk)].node \in Nodes,
         f.node = stk[Len(stk)].node, f.call = stk[Len(stk)].call,
         FrameIsRight(f, in, res, tres2),
         stk2 = [stk EXCEPT ![Len(stk)] = f]
  PROVE  stk2 \in Seq(CallFrame) /\ Evaluation(stk2, "none", in, res, tres2)
<1> DEFINE n == Len(stk)
<1>1. n \in Nat /\ n >= 2 /\ stk # <<>>
  BY DEF Evaluation
<1>2. /\ stk2 \in Seq(CallFrame) /\ Len(stk2) = n /\ stk2[n] = f
      /\ \A i \in 1 .. n - 1 : stk2[i] = stk[i]
  BY <1>1, ReplaceFacts
<1>3. \A i \in 1 .. n : /\ stk[i] \in CallFrame
                        /\ stk2[i].node = stk[i].node /\ stk2[i].call = stk[i].call
  <2> TAKE i \in 1 .. n
  <2>1. stk[i] \in CallFrame
    OBVIOUS
  <2>2. CASE i = n
    BY <1>2, <2>1, <2>2
  <2>3. CASE i # n
    <3>1. i \in 1 .. n - 1
      BY <1>1, <2>3
    <3> QED
      BY <1>2, <2>1, <3>1
  <2> QED
    BY <2>2, <2>3
<1>4. Grows(res, res, Definitions)
  BY DEF Grows
<1> HIDE DEF n
<1>5. /\ stk2[1].call = "Write" /\ stk2[1].node \in Definitions /\ stk2[2].node = stk2[1].node
      /\ stk2[2].call \in Evaluating
  BY <1>1, <1>3 DEF Evaluation
<1>6. ASSUME NEW i \in 2 .. n
      PROVE  stk2[i].call = stk2[2].call /\ FrameIsRight(stk2[i], in, res, tres2)
  <2>1. stk[i].call = stk[2].call /\ FrameIsRight(stk[i], in, res, tres)
    BY DEF Evaluation, n
  <2>2. CASE i = n
    BY <1>1, <1>2, <1>3, <2>1, <2>2
  <2>3. CASE i # n
    <3>1. i \in 1 .. n - 1 /\ i \in 1 .. n
      BY <1>1, <2>3
    <3>2. FrameIsRight(stk[i], in, res, tres2)
      BY <1>3, <1>4, <2>1, <3>1, FrameStaysRight
    <3> QED
      BY <1>1, <1>2, <1>3, <2>1, <3>1, <3>2
  <2> QED
    BY <2>2, <2>3
<1>7. ASSUME NEW i \in 2 .. n - 1
      PROVE  WaitsFor(stk2[i], stk2[i + 1].node, in)
  <2>1. i \in 1 .. n - 1 /\ i + 1 \in 1 .. n
    BY <1>1
  <2>2. WaitsFor(stk[i], stk[i + 1].node, in)
    BY DEF Evaluation, n
  <2> QED
    BY <1>2, <1>3, <2>1, <2>2
<1>8. ASSUME NEW i \in 2 .. n, NEW j \in 2 .. n, i < j
      PROVE  stk2[j].node \in Below(stk2[i].node, in)
  <2>1. i \in 1 .. n /\ j \in 1 .. n
    BY <1>1
  <2>2. stk[j].node \in Below(stk[i].node, in)
    BY <1>8 DEF Evaluation, n
  <2> QED
    BY <1>3, <2>1, <2>2
<1>9. ASSUME NEW i \in 2 .. n, stk2[i].node \in Definitions, i < n
      PROVE  res[stk2[i].node] = "none"
  <2>1. i \in 1 .. n
    BY <1>1
  <2>2. stk[i].node \in Definitions => res[stk[i].node] = "none"
    BY <1>9 DEF Evaluation, n
  <2> QED
    BY <1>3, <1>9, <2>1, <2>2
<1> QED
  BY <1>1, <1>2, <1>5, <1>6, <1>7, <1>8, <1>9 DEF Evaluation

-----------------------------------------------------------------------------
\* A call returns, or a definition is taken up.

\* What a call answers, when it returns.
Answers(f, r, in, res, tres) ==
  /\ Settled(f.node, in, res, tres)
  /\ f.call = "Analyze" => r = Meaning(in)[f.node]
SameBut(res, res2, d) == \A x \in Definitions : x # d => res2[x] = res[x]
Popped(stk, stk2) == stk2 = SubSeq(stk, 1, Len(stk) - 1)

\* A call returns to the one below, or to the call of Write.
LEMMA ReturnKeeps ==
  ASSUME NEW in \in Input, Acyclic(in), NEW stk \in Seq(CallFrame), NEW r, NEW r2,
         NEW res, NEW tres, NEW res2, NEW stk2,
         Evaluation(stk, r, in, res, tres), Grows(res, res2, Definitions),
         SameBut(res, res2, stk[Len(stk)].node),
         Answers(stk[Len(stk)], r2, in, res2, tres), Popped(stk, stk2)
  PROVE  /\ stk2 \in Seq(CallFrame)
         /\ stk2 # <<>>
         /\ Len(stk) = 2 => Writing(stk2, r2, in, res2, tres) /\ Len(stk2) = 1
         /\ Len(stk) # 2 => Evaluation(stk2, r2, in, res2, tres)
<1> DEFINE n == Len(stk)
<1>a. /\ Settled(stk[n].node, in, res2, tres)
      /\ stk[n].call = "Analyze" => r2 = Meaning(in)[stk[n].node]
  BY DEF Answers
<1>b. \A x \in Definitions : x # stk[n].node => res2[x] = res[x]
  BY DEF SameBut
<1>c. stk2 = SubSeq(stk, 1, n - 1)
  BY DEF Popped
<1>d. n = Len(stk)
  OBVIOUS
<1> HIDE DEF n
<1> USE <1>a, <1>b, <1>c, <1>d
<1>1. n \in Nat /\ n >= 2 /\ stk # <<>>
  BY DEF Evaluation
<1>2. /\ stk2 \in Seq(CallFrame) /\ Len(stk2) = n - 1
      /\ \A i \in 1 .. n - 1 : stk2[i] = stk[i]
  BY <1>1, PopFacts
<1>3. \A i \in 1 .. n : stk[i] \in CallFrame
  BY <1>1
<1>4. \A i \in 1 .. n : stk[i].node \in Elements
  BY <1>3 DEF CallFrame
<1>5. Grows(tres, tres, Tests)
  BY DEF Grows
<1>6. CASE n = 2
  <2>1. stk2[1] = stk[1] /\ Len(stk2) = 1 /\ DOMAIN stk2 = {1}
    <3>1. DOMAIN stk2 = 1 .. Len(stk2)
      BY <1>2
    <3>2. n - 1 = 1 /\ 1 .. 1 = {1} /\ 1 \in 1 .. n - 1
      BY <1>6
    <3>3. Len(stk2) = 1 /\ stk2[1] = stk[1]
      BY <1>2, <3>2
    <3>4. DOMAIN stk2 = {1}
      BY <3>1, <3>2, <3>3, Zenon
    <3> QED
      BY <3>3, <3>4
  <2>2. stk[1].call = "Write" /\ stk[1].node \in Definitions /\ stk[2].node = stk[1].node
    BY <1>6 DEF Evaluation
  <2>3. stk[1].node \notin Nodes /\ Settled(stk[1].node, in, res2, tres)
    BY <1>6, <2>2, DistinctNames
  <2>4. Writing(stk2, r2, in, res2, tres)
    BY <2>1, <2>2, <2>3 DEF Writing
  <2>5. stk2 # <<>>
    BY <2>1
  <2> QED
    BY <1>2, <1>6, <2>1, <2>4, <2>5, Zenon
<1>7. CASE n # 2
  <2>1. \A i \in 2 .. n - 1 : /\ i \in 1 .. n /\ i \in 1 .. n - 1 /\ i \in 2 .. n
                              /\ stk2[i] = stk[i]
                              /\ stk[i].node # stk[n].node
    <3> TAKE i \in 2 .. n - 1
    <3>1. i \in 1 .. n /\ i \in 1 .. n - 1 /\ i \in 2 .. n /\ n \in 2 .. n /\ i < n
      BY <1>1
    <3>2. stk[n].node \in Below(stk[i].node, in)
      BY <1>1, <3>1 DEF Evaluation
    <3>3. stk[i].node \notin Below(stk[i].node, in)
      BY <1>4, <3>1, AcyclicFacts
    <3> QED
      BY <1>2, <3>1, <3>2, <3>3
  <2>2. /\ n - 1 >= 2 /\ stk2[1] = stk[1] /\ stk2[2] = stk[2]
        /\ n - 1 \in 2 .. n - 1 /\ n - 1 \in Nat
    BY <1>1, <1>2, <1>7
  <2>3. /\ stk2[1].call = "Write" /\ stk2[1].node \in Definitions /\ stk2[2].node = stk2[1].node
        /\ stk2[2].call \in Evaluating
    BY <2>2 DEF Evaluation
  <2>4. ASSUME NEW i \in 2 .. n - 1
        PROVE  stk2[i].call = stk2[2].call /\ FrameIsRight(stk2[i], in, res2, tres)
    <3>1. stk[i].call = stk[2].call /\ FrameIsRight(stk[i], in, res, tres)
      BY <2>1, <2>4 DEF Evaluation
    <3>2. FrameIsRight(stk[i], in, res2, tres)
      BY <1>3, <1>5, <2>1, <2>4, <3>1, FrameStaysRight
    <3> QED
      BY <2>1, <2>2, <2>4, <3>1, <3>2
  <2>5. ASSUME NEW i \in 2 .. n - 2
        PROVE  WaitsFor(stk2[i], stk2[i + 1].node, in)
    <3>1. i \in 2 .. n - 1 /\ i + 1 \in 2 .. n - 1
      BY <1>1, <2>5
    <3>2. WaitsFor(stk[i], stk[i + 1].node, in)
      BY <3>1 DEF Evaluation
    <3> QED
      BY <2>1, <3>1, <3>2
  <2>6. ASSUME NEW i \in 2 .. n - 1, NEW j \in 2 .. n - 1, i < j
        PROVE  stk2[j].node \in Below(stk2[i].node, in)
    <3>1. stk[j].node \in Below(stk[i].node, in)
      BY <2>1, <2>6 DEF Evaluation
    <3> QED
      BY <2>1, <2>6, <3>1
  <2>7. ASSUME NEW i \in 2 .. n - 1, stk2[i].node \in Definitions
        PROVE  res2[stk2[i].node] = "none"
    <3>1. i < n
      BY <1>1, <2>7
    <3>2. stk[i].node \in Definitions => res[stk[i].node] = "none"
      BY <2>1, <2>7, <3>1 DEF Evaluation
    <3>3. stk2[i] = stk[i] /\ stk[i].node # stk[n].node
      BY <2>1, <2>7
    <3> QED
      BY <2>7, <3>2, <3>3
  <2>8. ReturnIsRight(stk2[n - 1], r2, in, res2, tres)
    <3>1. stk2[n - 1] = stk[n - 1] /\ (n - 1) + 1 = n
      BY <1>1, <1>2, <2>2
    <3>2. WaitsFor(stk[n - 1], stk[n].node, in)
      BY <2>2, <3>1 DEF Evaluation
    <3>3. stk[n - 1].call = stk[2].call /\ stk[n].call = stk[2].call
      BY <1>1, <2>1, <2>2 DEF Evaluation
    <3>4. stk[n].node \in Elements
      BY <1>1, <1>4
    <3> QED
      BY <3>1, <3>2, <3>3, <3>4 DEF ReturnIsRight
  <2>9. Len(stk2) = n - 1 /\ Len(stk2) - 1 = n - 2
    BY <1>1, <1>2
  <2>10. Evaluation(stk2, r2, in, res2, tres)
    <3>1. Len(stk2) >= 2
      BY <2>2, <2>9
    <3>2. \A i \in 2 .. Len(stk2) : stk2[i].call = stk2[2].call /\ FrameIsRight(stk2[i], in, res2, tres)
      BY <2>4, <2>9, Zenon
    <3>3. \A i \in 2 .. Len(stk2) - 1 : WaitsFor(stk2[i], stk2[i + 1].node, in)
      BY <2>5, <2>9, Zenon
    <3>4. \A i, j \in 2 .. Len(stk2) : i < j => stk2[j].node \in Below(stk2[i].node, in)
      BY <2>6, <2>9, Zenon
    <3>5. \A i \in 2 .. Len(stk2) :
            stk2[i].node \in Definitions /\ (i < Len(stk2) \/ r2 # "none")
              => res2[stk2[i].node] = "none"
      BY <2>7, <2>9, Zenon
    <3>6. ReturnIsRight(stk2[Len(stk2)], r2, in, res2, tres)
      BY <2>8, <2>9, Zenon
    <3> QED
      BY <2>3, <3>1, <3>2, <3>3, <3>4, <3>5, <3>6, Zenon DEF Evaluation
  <2>11. stk2 # <<>>
    <3>1. Len(stk2) >= 2
      BY <2>2, <2>9
    <3>2. Len(<<>>) = 0
      OBVIOUS
    <3> QED
      BY <3>1, <3>2
  <2> QED
    BY <1>2, <1>7, <1>d, <2>10, <2>11, Zenon
<1> QED
  BY <1>6, <1>7

\* A definition is taken up.
LEMMA StartKeeps ==
  ASSUME NEW in \in Input, NEW d \in Definitions, NEW res, NEW tres,
         NEW call \in Evaluating, NEW f \in CallFrame, NEW g \in CallFrame, NEW stk2,
         f.call = "Write", f.node = d, g.call = call, g.node = d, stk2 = <<f, g>>
  PROVE  stk2 \in Seq(CallFrame) /\ Len(stk2) = 2 /\ Evaluation(stk2, "none", in, res, tres)
<1>1. /\ stk2 \in Seq(CallFrame) /\ Len(stk2) = 2 /\ stk2[1] = f /\ stk2[2] = g
      /\ 2 .. 2 = {2} /\ 2 .. 2 - 1 = {}
  OBVIOUS
<1>2. d \notin Nodes
  BY DistinctNames
<1> QED
  BY <1>1, <1>2 DEF Evaluation, FrameIsRight

-----------------------------------------------------------------------------
\* Writing: what is not written yet waits in a call of Write.

\* What a call of Write has still to write: a definition with all it leads to, and
\* what the children of a criteria lead to that are not written.
LaterChildren(f, in) ==
  {in.children[f.node][k].ref : k \in f.at + 1 .. Len(in.children[f.node])} \ Tests
Left(f, in) ==
  IF f.node \in Definitions THEN Parsed(f.node, in)
  ELSE UNION {Parsed(m, in) : m \in LaterChildren(f, in)}

Awaited(m, S, stk, in) ==
  \E i \in DOMAIN stk : stk[i].call = "Write" /\ stk[i].node \in S /\ m \in Left(stk[i], in)

\* The definitions that stand in the results, and what they lead to.
RecordsGoOn(stk, rec, in) ==
  \A d \in rec \cap Definitions : \A m \in Parsed(d, in) \cap Definitions :
    m \in rec \/ Awaited(m, Below(d, in), stk, in)
CachedGoOn(stk, rec, ids, in) ==
  \A d \in ids : d \in rec \/ Awaited(d, Elements, stk, in)

\* A step leaves nothing behind that was awaited: S is any set with all that is below.
LosesNothing(stk, stk2, rec2, in) ==
  \A S \in SUBSET Elements :
    (\A k \in S : Parsed(k, in) \subseteq S) =>
      \A m \in Definitions : Awaited(m, S, stk, in) => m \in rec2 \/ Awaited(m, S, stk2, in)

LEMMA NothingIsLost ==
  ASSUME NEW in \in Input, NEW stk, NEW stk2, NEW rec, NEW rec2, NEW ids \in SUBSET Definitions,
         rec \subseteq rec2, LosesNothing(stk, stk2, rec2, in),
         RecordsGoOn(stk, rec, in), CachedGoOn(stk, rec, ids, in),
         \A d \in (rec2 \ rec) \cap Definitions : \A m \in Parsed(d, in) \cap Definitions :
           m \in rec2 \/ Awaited(m, Below(d, in), stk2, in)
  PROVE  RecordsGoOn(stk2, rec2, in) /\ CachedGoOn(stk2, rec2, ids, in)
<1>1. ASSUME NEW d \in rec \cap Definitions, NEW m \in Parsed(d, in) \cap Definitions
      PROVE  m \in rec2 \/ Awaited(m, Below(d, in), stk2, in)
  <2>1. d \in Elements
    BY DEF Elements
  <2>2. Below(d, in) \in SUBSET Elements /\ \A k \in Below(d, in) : Parsed(k, in) \subseteq Below(d, in)
    BY <2>1, BelowFacts, ParsedFacts
  <2>3. m \in rec \/ Awaited(m, Below(d, in), stk, in)
    BY DEF RecordsGoOn
  <2>4. CASE m \in rec
    BY <2>4
  <2>5. CASE Awaited(m, Below(d, in), stk, in)
    BY <2>2, <2>5 DEF LosesNothing
  <2> QED
    BY <2>3, <2>4, <2>5
<1>2. ASSUME NEW d \in ids
      PROVE  d \in rec2 \/ Awaited(d, Elements, stk2, in)
  <2>1. \A k \in Elements : Parsed(k, in) \subseteq Elements
    BY ParsedFacts
  <2>2. CASE d \in rec
    BY <2>2
  <2>3. CASE Awaited(d, Elements, stk, in)
    BY <2>1, <2>3 DEF LosesNothing
  <2> QED
    BY <2>2, <2>3 DEF CachedGoOn
<1>3. \A d \in rec2 \cap Definitions : \A m \in Parsed(d, in) \cap Definitions :
        m \in rec2 \/ Awaited(m, Below(d, in), stk2, in)
  BY <1>1
<1> QED
  BY <1>2, <1>3 DEF RecordsGoOn, CachedGoOn

\* Calls of Write that stay as they are.
LEMMA SameWrites ==
  ASSUME NEW in, NEW stk, NEW stk2, NEW rec2,
         \A i \in DOMAIN stk : stk[i].call = "Write" => i \in DOMAIN stk2 /\ stk2[i] = stk[i]
  PROVE  LosesNothing(stk, stk2, rec2, in)
BY DEF LosesNothing, Awaited

LEMMA FreshLeft ==
  ASSUME NEW in \in Input, NEW f \in CallFrame, f.at = 0
  PROVE  \A m \in Parsed(f.node, in) \cap Definitions : m \in Left(f, in)
<1>1. f.node \in Elements
  BY DEF CallFrame
<1>2. CASE f.node \in Definitions
  BY <1>2 DEF Left
<1>3. CASE f.node \in Nodes
  <2>1. f.node \notin Definitions
    BY <1>3, DistinctNames
  <2>2. RefersTo(f.node, in) = {in.children[f.node][k].ref : k \in DOMAIN in.children[f.node]} \ Tests
    BY <2>1 DEF RefersTo
  <2>3. DOMAIN in.children[f.node] = f.at + 1 .. Len(in.children[f.node])
    BY <1>3, ChildFacts
  <2>4. RefersTo(f.node, in) = LaterChildren(f, in)
    BY <2>2, <2>3, Zenon DEF LaterChildren
  <2> QED
    BY <1>1, <2>1, <2>4, BelowFacts DEF Left, Below
<1> QED
  BY <1>1, <1>2, <1>3 DEF Elements

\* The element of a definition is written, and its criteria follow.
LEMMA WriteDefinitionLosesNothing ==
  ASSUME NEW in \in Input, NEW stk \in Seq(CallFrame), NEW stk2, NEW rec, NEW rec2,
         NEW n, n = Len(stk), stk # <<>>, NEW d \in Definitions, stk[n].node = d,
         NEW f \in CallFrame, f.call = "Write", f.node = in.root[d], f.at = 0, f.node # "none",
         stk2 = [stk EXCEPT ![n] = f], d \in rec2
  PROVE  /\ LosesNothing(stk, stk2, rec2, in)
         /\ \A m \in Parsed(d, in) \cap Definitions :
              m \in rec2 \/ Awaited(m, Below(d, in), stk2, in)
<1>1. /\ n \in Nat /\ n \in DOMAIN stk /\ DOMAIN stk2 = DOMAIN stk /\ stk2[n] = f
      /\ \A i \in DOMAIN stk : i # n => stk2[i] = stk[i]
  OBVIOUS
<1>2. d \in Elements /\ f.node \in RefersTo(d, in) /\ RefersTo(d, in) = {f.node}
  BY DEF Elements, RefersTo
<1>3. f.node \in Below(d, in) /\ Below(d, in) = Parsed(f.node, in)
  BY <1>2, BelowFacts DEF Below
<1>4. \A m \in Parsed(d, in) \cap Definitions : m = d \/ m \in Left(f, in)
  BY <1>2, <1>3, BelowFacts, FreshLeft
<1>5. ASSUME NEW S \in SUBSET Elements, \A k \in S : Parsed(k, in) \subseteq S,
             NEW m \in Definitions, Awaited(m, S, stk, in)
      PROVE  m \in rec2 \/ Awaited(m, S, stk2, in)
  <2>1. PICK i \in DOMAIN stk : stk[i].call = "Write" /\ stk[i].node \in S /\ m \in Left(stk[i], in)
    BY <1>5 DEF Awaited
  <2>2. CASE i # n
    BY <1>1, <2>1, <2>2 DEF Awaited
  <2>3. CASE i = n
    <3>1. d \in S /\ m \in Parsed(d, in)
      BY <2>1, <2>3 DEF Left
    <3>2. f.node \in S
      BY <1>2, <1>3, <1>5, <3>1, BelowFacts
    <3> QED
      BY <1>1, <1>4, <3>1, <3>2 DEF Awaited
  <2> QED
    BY <2>2, <2>3
<1>6. ASSUME NEW m \in Parsed(d, in) \cap Definitions
      PROVE  m \in rec2 \/ Awaited(m, Below(d, in), stk2, in)
  BY <1>1, <1>3, <1>4 DEF Awaited
<1> QED
  BY <1>5, <1>6 DEF LosesNothing

\* What the last call of Write has left, a call below has left as well.
OthersAwait(stk, rec2, in) ==
  \A S \in SUBSET Elements : (\A k \in S : Parsed(k, in) \subseteq S) =>
    \A m \in Left(stk[Len(stk)], in) \cap Definitions :
      stk[Len(stk)].node \in S => m \in rec2 \/ \E i \in 1 .. Len(stk) - 1 :
        stk[i].call = "Write" /\ stk[i].node \in S /\ m \in Left(stk[i], in)

\* A call of Write that has nothing left, or only what others have, returns.
LEMMA PopLosesNothing ==
  ASSUME NEW in \in Input, NEW stk \in Seq(CallFrame), NEW stk2, NEW rec2,
         stk # <<>>, stk2 = SubSeq(stk, 1, Len(stk) - 1),
         OthersAwait(stk, rec2, in)
  PROVE  LosesNothing(stk, stk2, rec2, in)
<1> DEFINE n == Len(stk)
<1>1. /\ n \in Nat /\ DOMAIN stk = 1 .. n
      /\ stk2 \in Seq(CallFrame) /\ Len(stk2) = n - 1
      /\ \A i \in 1 .. n - 1 : stk2[i] = stk[i]
  BY PopFacts
<1>2. DOMAIN stk2 = 1 .. n - 1
  BY <1>1
<1>3. ASSUME NEW S \in SUBSET Elements, \A k \in S : Parsed(k, in) \subseteq S,
             NEW m \in Definitions, Awaited(m, S, stk, in)
      PROVE  m \in rec2 \/ Awaited(m, S, stk2, in)
  <2>1. PICK i \in DOMAIN stk : stk[i].call = "Write" /\ stk[i].node \in S /\ m \in Left(stk[i], in)
    BY <1>3 DEF Awaited
  <2>2. ASSUME NEW j \in 1 .. n - 1, stk[j].call = "Write", stk[j].node \in S, m \in Left(stk[j], in)
        PROVE  Awaited(m, S, stk2, in)
    BY <1>1, <1>2, <2>2 DEF Awaited
  <2>3. CASE i = n
    BY <1>3, <2>1, <2>2, <2>3 DEF OthersAwait
  <2>4. CASE i # n
    <3>1. i \in 1 .. n - 1
      BY <1>1, <2>4
    <3> QED
      BY <2>1, <2>2, <3>1
  <2> QED
    BY <2>3, <2>4
<1> QED
  BY <1>3 DEF LosesNothing

-----------------------------------------------------------------------------
\* The inductive invariant.

\* What the records of a list are about, and that each is about something else.
Ids(s) == {s[i].id : i \in DOMAIN s}
OnceIn(s) == \A i, j \in DOMAIN s : s[i].id = s[j].id => i = j

StackIsRight(stk, r, in, res, tres) ==
  Evaluation(stk, r, in, res, tres) \/ Writing(stk, r, in, res, tres)

\* A definition with a result has nothing below it that is to be evaluated.
AnalyzedIsSettled(in, res, tres) ==
  \A d \in Definitions : res[d] # "none" => Settled(d, in, res, tres)

\* While definitions are analyzed, all results are meanings; while they are marked,
\* those that are to be analyzed have been.
CallsOnly(stk, calls) == \A i \in DOMAIN stk : stk[i].call \in calls
ValuesMean(in, res, tres) ==
  /\ \A d \in Definitions : res[d] # "none" => res[d] = Meaning(in)[d]
  /\ \A t \in Tests : tres[t] # "none" => tres[t] = Meaning(in)[t]
SelectedMean(in, res) ==
  \A d \in ToAnalyze(in) \cap Definitions : res[d] = Meaning(in)[d]
Analyzing(stk, in, res, tres) ==
  CallsOnly(stk, {"Analyze", "Write"}) /\ ValuesMean(in, res, tres)
Marking(tasks, stk, in, res) ==
  /\ CallsOnly(stk, {"NotEvaluated", "Write"})
  /\ \A i \in DOMAIN tasks : tasks[i].call = "NotEvaluated"
  /\ SelectedMean(in, res)

\* The listed definitions come first, and every definition is cached or has its turn
\* to come: one that is listed, its turn to be analyzed.
TasksAreSorted(tasks, in) ==
  /\ \A i, j \in DOMAIN tasks :
       i < j /\ tasks[i].call = "NotEvaluated" => tasks[j].call = "NotEvaluated"
  /\ ~in.listed => \A i \in DOMAIN tasks : tasks[i].call = "Analyze"
TasksGoOn(tasks, ids, in) ==
  /\ \A d \in Definitions : d \in ids \/ \E i \in DOMAIN tasks : tasks[i].id = d
  /\ in.listed =>
       \A k \in DOMAIN in.ids :
         in.ids[k] \in Definitions =>
           \/ in.ids[k] \in ids
           \/ \E i \in DOMAIN tasks : tasks[i].id = in.ids[k] /\ tasks[i].call = "Analyze"

\* The results that are written and listed are meanings.
WrittenMeans(wrt, in) ==
  \A i \in DOMAIN wrt :
    wrt[i].id \in ToAnalyze(in) => wrt[i].result = Meaning(in)[wrt[i].id]
ReportedMeans(rep, in) ==
  \A i \in DOMAIN rep : rep[i].id \in ToAnalyze(in) =>
    rep[i].result = Meaning(in)[rep[i].id] /\ rep[i].list = rep[i].result

\* They are the results of the definitions and the tests, until Finish clears these.
WrittenStands(wrt, res, tres) ==
  \A i \in DOMAIN wrt : /\ wrt[i].id \in Definitions => res[wrt[i].id] = wrt[i].result
                        /\ wrt[i].id \in Tests => tres[wrt[i].id] = wrt[i].result
ReportedStands(rep, res) == \A d \in Definitions : res[d] # "none" <=> d \in Ids(rep)

Running ==
  /\ WrittenStands(written, result, testResult)
  /\ ReportedStands(reported, result)
  /\ TasksGoOn(todo, cached, input)
Over == Done /\ Definitions \subseteq Ids(written) /\ Definitions \subseteq Ids(reported)

Phases == Analyzing(stack, input, result, testResult) \/ Marking(todo, stack, input, result)

AnalysisInv ==
  /\ input \in Inputs
  /\ TypeOK
  /\ StackIsRight(stack, ret, input, result, testResult)
  /\ AnalyzedIsSettled(input, result, testResult)
  /\ RecordsGoOn(stack, Ids(written), input)
  /\ CachedGoOn(stack, Ids(written), cached, input)
  /\ OnceIn(written) /\ OnceIn(reported)
  /\ TasksAreSorted(todo, input)
  /\ Phases
  /\ WrittenMeans(written, input) /\ ReportedMeans(reported, input)
  /\ Running \/ Over

-----------------------------------------------------------------------------
\* The steps of the evaluation: DefinitionStep and CriteriaStep.

LEMMA InvFacts ==
  ASSUME AnalysisInv
  PROVE  /\ input \in Input /\ Acyclic(input) /\ ListsAll(input)
         /\ stack \in Seq(CallFrame)
         /\ Len(stack) \in Nat /\ DOMAIN stack = 1 .. Len(stack)
         /\ stack # <<>> => /\ Running
                            /\ Top \in CallFrame /\ Top.node \in Elements
                            /\ Len(stack) \in DOMAIN stack
<1>1. input \in Input /\ Acyclic(input) /\ ListsAll(input)
  BY InputsAssumption DEF AnalysisInv
<1>2. stack \in Seq(CallFrame)
  BY DEF AnalysisInv, TypeOK, CallFrame, Elements
<1>3. stack # <<>> => Running
  BY DEF AnalysisInv, Over, Done
<1>4. Len(stack) \in Nat /\ DOMAIN stack = 1 .. Len(stack)
  BY <1>2
<1>5. stack # <<>> => Len(stack) \in DOMAIN stack
  BY <1>2
<1>6. stack # <<>> => Top \in CallFrame
  BY <1>2, <1>5 DEF Top
<1>7. stack # <<>> => Top.node \in Elements
  BY <1>6 DEF CallFrame
<1> QED
  BY <1>1, <1>2, <1>3, <1>4, <1>5, <1>6, <1>7

LEMMA NoneIsNoResult == "none" \notin Results
BY DEF Results

LEMMA WrittenFacts ==
  ASSUME AnalysisInv
  PROVE  \A i \in DOMAIN written :
           written[i].id \in Definitions \cup Tests /\ written[i].result \in Results
<1> DEFINE Record == [id : Definitions \cup Tests, result : Results]
<1>1. written \in Seq(Record)
  BY DEF AnalysisInv, TypeOK
<1> HIDE DEF Record
<1>2. \A i \in DOMAIN written : written[i] \in Record
  BY <1>1
<1> QED
  BY <1>2 DEF Record

\* What is known when a definition or a criteria is analyzed or marked.
LEMMA WhenEvaluating ==
  ASSUME AnalysisInv, NEW S, Active(Evaluating, S)
  PROVE  /\ stack # <<>> /\ Top.node \in S /\ Top.call \in Evaluating
         /\ Evaluation(stack, ret, input, result, testResult)
         /\ Len(stack) >= 2
         /\ FrameIsRight(Top, input, result, testResult)
         /\ Top.call = "Analyze" => Analyzing(stack, input, result, testResult)
         /\ Top.call = "NotEvaluated" => Marking(todo, stack, input, result)
<1>1. stack # <<>> /\ Top.call \in Evaluating /\ Top.node \in S
  BY DEF Active
<1>2. Len(stack) \in DOMAIN stack /\ Top = stack[Len(stack)] /\ Len(stack) \in Nat
  BY <1>1, InvFacts DEF Top
<1>3. Top.call # "Write"
  BY <1>1 DEF Evaluating
<1>4. ~ Writing(stack, ret, input, result, testResult)
  BY <1>2, <1>3 DEF Writing
<1>5. Evaluation(stack, ret, input, result, testResult)
  BY <1>4 DEF AnalysisInv, StackIsRight
<1>6. Len(stack) >= 2 /\ Len(stack) \in 2 .. Len(stack)
  BY <1>2, <1>5 DEF Evaluation
<1>7. FrameIsRight(Top, input, result, testResult)
  BY <1>2, <1>5, <1>6 DEF Evaluation
<1>8. Phases
  BY DEF AnalysisInv
<1>9. ~ ("Analyze" \in {"NotEvaluated", "Write"}) /\ ~ ("NotEvaluated" \in {"Analyze", "Write"})
  OBVIOUS
<1>10. Top.call = "Analyze" => Analyzing(stack, input, result, testResult)
  BY <1>2, <1>8, <1>9 DEF Phases, Marking, CallsOnly
<1>11. Top.call = "NotEvaluated" => Marking(todo, stack, input, result)
  BY <1>2, <1>8, <1>9 DEF Phases, Analyzing, CallsOnly
<1> QED
  BY <1>1, <1>5, <1>6, <1>7, <1>10, <1>11

LEMMA WhenWriting ==
  ASSUME AnalysisInv, NEW S, Active({"Write"}, S)
  PROVE  /\ stack # <<>> /\ Top.node \in S /\ Top.call = "Write"
         /\ Writing(stack, ret, input, result, testResult)
         /\ Settled(Top.node, input, result, testResult)
         /\ Top.node \in Nodes => Top.at <= Len(input.children[Top.node])
<1>1. stack # <<>> /\ Top.call = "Write" /\ Top.node \in S
  BY DEF Active
<1>2. Len(stack) \in DOMAIN stack /\ Top = stack[Len(stack)] /\ Len(stack) \in Nat
  BY <1>1, InvFacts DEF Top
<1>3. ~ Evaluation(stack, ret, input, result, testResult)
  <2>1. SUFFICES ASSUME Evaluation(stack, ret, input, result, testResult) PROVE FALSE
    OBVIOUS
  <2>2. Len(stack) \in 2 .. Len(stack)
    BY <1>2, <2>1 DEF Evaluation
  <2>3. Top.call \in Evaluating
    BY <1>2, <2>1, <2>2 DEF Evaluation
  <2> QED
    BY <1>1, <2>3 DEF Evaluating
<1>4. Writing(stack, ret, input, result, testResult)
  BY <1>3 DEF AnalysisInv, StackIsRight
<1> QED
  BY <1>1, <1>2, <1>4 DEF Writing

\* A step of the evaluation that stores no result of a definition.
LEMMA EvaluationStep ==
  ASSUME AnalysisInv, stack # <<>>,
         UNCHANGED <<input, todo, cached, result, reported, written>>,
         Grows(testResult, testResult', Tests), testResult' \in [Tests -> Results \cup {"none"}],
         stack' \in Seq(CallFrame), ret' \in Results \cup {"none"},
         StackIsRight(stack', ret', input, result, testResult'),
         LosesNothing(stack, stack', Ids(written), input),
         \A i \in DOMAIN stack' : \E j \in DOMAIN stack : stack'[i].call = stack[j].call,
         Analyzing(stack, input, result, testResult) => ValuesMean(input, result, testResult')
  PROVE  AnalysisInv' /\ Running'
<1>1. TypeOK'
  BY DEF AnalysisInv, TypeOK, CallFrame, Elements
<1>2. input \in Input
  BY InvFacts
<1>3. Grows(result, result, Definitions)
  BY DEF Grows
<1>4. AnalyzedIsSettled(input, result, testResult')
  <2>1. \A d \in Definitions : d \in Elements
    BY DEF Elements
  <2> QED
    BY <1>2, <1>3, <2>1, SettledStays DEF AnalysisInv, AnalyzedIsSettled
<1>5. RecordsGoOn(stack', Ids(written), input) /\ CachedGoOn(stack', Ids(written), cached, input)
  <2>1. cached \in SUBSET Definitions
    BY DEF AnalysisInv, TypeOK
  <2>2. RecordsGoOn(stack, Ids(written), input) /\ CachedGoOn(stack, Ids(written), cached, input)
    BY DEF AnalysisInv
  <2> QED
    BY <1>2, <2>1, <2>2, NothingIsLost
<1>6. \A calls : CallsOnly(stack, calls) => CallsOnly(stack', calls)
  BY DEF CallsOnly
<1>7. Phases'
  <2>1. CASE Analyzing(stack, input, result, testResult)
    BY <1>6, <2>1 DEF Phases, Analyzing
  <2>2. CASE Marking(todo, stack, input, result)
    BY <1>6, <2>2 DEF Phases, Marking
  <2> QED
    BY <2>1, <2>2 DEF AnalysisInv, Phases
<1>8. Running'
  <2>1. Running
    BY InvFacts
  <2>2. \A i \in DOMAIN written : written[i].result # "none"
    BY NoneIsNoResult, WrittenFacts
  <2>3. WrittenStands(written, result, testResult')
    BY <2>1, <2>2 DEF Running, WrittenStands, Grows
  <2> QED
    BY <2>1, <2>3 DEF Running
<1>9. /\ (input \in Inputs)' /\ OnceIn(written') /\ OnceIn(reported')
      /\ TasksAreSorted(todo', input')
      /\ WrittenMeans(written', input') /\ ReportedMeans(reported', input')
  BY DEF AnalysisInv
<1>10. /\ StackIsRight(stack', ret', input', result', testResult')
       /\ AnalyzedIsSettled(input', result', testResult')
       /\ RecordsGoOn(stack', Ids(written'), input')
       /\ CachedGoOn(stack', Ids(written'), cached', input')
  BY <1>4, <1>5
<1> QED
  BY <1>1, <1>7, <1>8, <1>9, <1>10, Zenon DEF AnalysisInv

LEMMA CallStep ==
  ASSUME AnalysisInv, NEW S, Active(Evaluating, S), ret = "none", NEW m,
         WaitsFor(Top, m, input), Top.node \in Definitions => result[Top.node] = "none",
         Call(m), UNCHANGED <<input, todo, ret, cached, result, testResult, reported, written>>
  PROVE  AnalysisInv' /\ Running'
<1> DEFINE f == Frame(Top.call, m)
           n == Len(stack)
<1>1. input \in Input /\ stack \in Seq(CallFrame) /\ stack # <<>> /\ Top \in CallFrame
      /\ Top = stack[n] /\ n \in Nat /\ n \in DOMAIN stack /\ DOMAIN stack = 1 .. n
  BY InvFacts, WhenEvaluating DEF Top
<1>2. m \in Elements
  BY <1>1, WaitsForFacts
<1>3. f \in CallFrame /\ f.node = m /\ f.call = Top.call /\ f.results = <<>>
  <2>1. Top.call \in Calls
    BY <1>1 DEF CallFrame
  <2>2. <<>> \in Seq(Results)
    OBVIOUS
  <2> QED
    BY <1>2, <2>1, <2>2 DEF Frame, CallFrame
<1>4. stack' = Append(stack, f)
  BY DEF Call
<1>5. Evaluation(stack, "none", input, result, testResult)
  BY WhenEvaluating
<1> HIDE DEF f, n
<1>6. stack' \in Seq(CallFrame) /\ Evaluation(stack', "none", input, result, testResult)
  BY <1>1, <1>3, <1>4, <1>5, CallKeeps DEF n
<1>7. StackIsRight(stack', ret', input, result, testResult')
  BY <1>6 DEF StackIsRight
<1>8. /\ Len(stack') = n + 1 /\ stack'[n + 1] = f /\ DOMAIN stack' = 1 .. n + 1
      /\ \A i \in 1 .. n : stack'[i] = stack[i]
  BY <1>1, <1>3, <1>4 DEF n
<1>9. LosesNothing(stack, stack', Ids(written), input)
  <2>1. \A i \in DOMAIN stack : i \in DOMAIN stack' /\ stack'[i] = stack[i]
    BY <1>1, <1>8
  <2> QED
    BY <2>1, SameWrites
<1>10. \A i \in DOMAIN stack' : \E j \in DOMAIN stack : stack'[i].call = stack[j].call
  <2> TAKE i \in DOMAIN stack'
  <2>1. CASE i = n + 1
    BY <1>1, <1>3, <1>8, <2>1
  <2>2. CASE i # n + 1
    <3>1. i \in 1 .. n
      BY <1>1, <1>8, <2>2
    <3> QED
      BY <1>1, <1>8, <3>1
  <2> QED
    BY <2>1, <2>2
<1>11. Grows(testResult, testResult', Tests)
  BY DEF Grows
<1>12. ValuesMean(input, result, testResult) => ValuesMean(input, result, testResult')
  OBVIOUS
<1>13. testResult' \in [Tests -> Results \cup {"none"}] /\ ret' \in Results \cup {"none"}
  BY DEF AnalysisInv, TypeOK
<1> QED
  BY <1>1, <1>6, <1>7, <1>9, <1>10, <1>11, <1>12, <1>13, EvaluationStep DEF Analyzing

LEMMA EnterCriteriaStep == AnalysisInv /\ EnterCriteria => AnalysisInv' /\ Running'
<1> SUFFICES ASSUME AnalysisInv, EnterCriteria PROVE AnalysisInv' /\ Running'
  OBVIOUS
<1>1. Active(Evaluating, Definitions) /\ Top.node \in Definitions
  BY DEF EnterCriteria, Active
<1>2. WaitsFor(Top, input.root[Top.node], input)
  BY <1>1 DEF EnterCriteria, WaitsFor
<1> QED
  BY <1>1, <1>2, CallStep DEF EnterCriteria

LEMMA AskChildStep == AnalysisInv /\ AskChild => AnalysisInv' /\ Running'
<1> SUFFICES ASSUME AnalysisInv, AskChild PROVE AnalysisInv' /\ Running'
  OBVIOUS
<1>1. Active(Evaluating, Nodes) /\ Top.node \in Nodes /\ Top.node \notin Definitions
  BY DistinctNames DEF AskChild, Active
<1>2. WaitsFor(Top, NextChild.ref, input)
  BY <1>1 DEF AskChild, WaitsFor, NextChild, HasChild
<1> QED
  BY <1>1, <1>2, CallStep DEF AskChild

LEMMA ReturnStep ==
  ASSUME AnalysisInv, NEW S, Active(Evaluating, S),
         Settled(Top.node, input, result, testResult), ret' \in Results,
         Top.call = "Analyze" => ret' = Meaning(input)[Top.node],
         Return, UNCHANGED <<input, todo, cached, result, testResult, reported, written>>
  PROVE  AnalysisInv' /\ Running'
<1> DEFINE n == Len(stack)
<1>1. input \in Input /\ Acyclic(input) /\ stack \in Seq(CallFrame) /\ stack # <<>>
      /\ Top = stack[n] /\ n \in Nat /\ n \in DOMAIN stack /\ DOMAIN stack = 1 .. n
  BY InvFacts, WhenEvaluating DEF Top
<1>2. stack' = SubSeq(stack, 1, n - 1)
  BY DEF Return
<1>3. Evaluation(stack, ret, input, result, testResult)
  BY WhenEvaluating
<1>4. Grows(result, result, Definitions) /\ Grows(testResult, testResult', Tests)
  BY DEF Grows
<1>5. /\ stack' \in Seq(CallFrame) /\ Len(stack') = n - 1
      /\ \A i \in 1 .. n - 1 : stack'[i] = stack[i]
  BY <1>1, <1>2, PopFacts
<1> HIDE DEF n
<1>6. DOMAIN stack' = 1 .. n - 1
  BY <1>5
<1>7. StackIsRight(stack', ret', input, result, testResult')
  <2>1. Answers(stack[n], ret', input, result, testResult)
    BY <1>1 DEF Answers
  <2>2. SameBut(result, result, stack[n].node)
    BY DEF SameBut
  <2>3. Popped(stack, stack')
    BY <1>2 DEF Popped, n
  <2>4. /\ n = 2 => Writing(stack', ret', input, result, testResult)
        /\ n # 2 => Evaluation(stack', ret', input, result, testResult)
    BY <1>1, <1>3, <1>4, <2>1, <2>2, <2>3, ReturnKeeps DEF n
  <2> QED
    BY <2>4 DEF StackIsRight
<1>8. \A i \in DOMAIN stack' : i \in DOMAIN stack /\ stack'[i] = stack[i]
  BY <1>1, <1>5, <1>6
<1>9. LosesNothing(stack, stack', Ids(written), input)
  <2>1. \A i \in DOMAIN stack : stack[i].call = "Write" => i \in DOMAIN stack' /\ stack'[i] = stack[i]
    <3> SUFFICES ASSUME NEW i \in DOMAIN stack, stack[i].call = "Write"
                 PROVE  i \in DOMAIN stack' /\ stack'[i] = stack[i]
      OBVIOUS
    <3>1. i # n
      BY <1>1, WhenEvaluating DEF Evaluating
    <3> QED
      BY <1>1, <1>5, <1>6, <3>1
  <2> QED
    BY <2>1, SameWrites
<1>10. \A i \in DOMAIN stack' : \E j \in DOMAIN stack : stack'[i].call = stack[j].call
  BY <1>8
<1>11. testResult' \in [Tests -> Results \cup {"none"}] /\ ret' \in Results \cup {"none"}
  BY DEF AnalysisInv, TypeOK
<1>12. ValuesMean(input, result, testResult) => ValuesMean(input, result, testResult')
  OBVIOUS
<1> QED
  BY <1>1, <1>4, <1>5, <1>7, <1>9, <1>10, <1>11, <1>12, EvaluationStep DEF Analyzing

LEMMA AlreadyAnalyzedStep == AnalysisInv /\ AlreadyAnalyzed => AnalysisInv' /\ Running'
<1> SUFFICES ASSUME AnalysisInv, AlreadyAnalyzed PROVE AnalysisInv' /\ Running'
  OBVIOUS
<1>1. Active(Evaluating, Definitions) /\ Top.node \in Definitions /\ result[Top.node] # "none"
  BY DEF AlreadyAnalyzed, Active
<1>2. Settled(Top.node, input, result, testResult)
  BY <1>1 DEF AnalysisInv, AnalyzedIsSettled
<1>3. ret' = result[Top.node] /\ ret' \in Results
  BY <1>1 DEF AlreadyAnalyzed, AnalysisInv, TypeOK
<1>4. Top.call = "Analyze" => ret' = Meaning(input)[Top.node]
  BY <1>1, <1>3, WhenEvaluating DEF Analyzing, ValuesMean
<1> QED
  BY <1>1, <1>2, <1>3, <1>4, ReturnStep DEF AlreadyAnalyzed

LEMMA AnswerIsResult ==
  ASSUME NEW child, NEW r \in Results
  PROVE  Answer(child, r) \in Results
BY NegateIsResult DEF Answer

\* The next child of a criteria answers.
LEMMA NextChildFacts ==
  ASSUME AnalysisInv, Active(Evaluating, Nodes), HasChild
  PROVE  /\ NextChild \in Child
         /\ NextChild.ref \in Things
         /\ Len(Top.results) \in Nat
         /\ Len(Top.results) + 1 \in DOMAIN input.children[Top.node]
<1>1. input \in Input /\ Top.node \in Nodes /\ Top \in CallFrame
  BY InvFacts, WhenEvaluating
<1>2. Len(Top.results) \in Nat
  BY <1>1 DEF CallFrame
<1>3. Len(Top.results) + 1 \in DOMAIN input.children[Top.node]
  BY <1>1, <1>2, ChildFacts DEF HasChild
<1> QED
  BY <1>1, <1>2, <1>3, ChildFacts DEF NextChild

LEMMA TakenIsRight ==
  ASSUME NEW in \in Input, NEW f \in CallFrame, NEW g, NEW a \in Results,
         NEW res, NEW tres, NEW tres2, NEW child,
         f.node \in Nodes, FrameIsRight(f, in, res, tres), Grows(tres, tres2, Tests),
         Len(f.results) + 1 \in DOMAIN in.children[f.node],
         child = in.children[f.node][Len(f.results) + 1],
         ChildSettled(child, in, res, tres2),
         f.call = "Analyze" => a = Answer(child, Meaning(in)[child.ref]),
         g = [f EXCEPT !.results = Append(@, a)]
  PROVE  /\ g \in CallFrame /\ g.node = f.node /\ g.call = f.call
         /\ FrameIsRight(g, in, res, tres2)
<1> DEFINE k == Len(f.results)
<1>1. f.results \in Seq(Results) /\ k \in Nat
  BY DEF CallFrame
<1>2. g \in CallFrame /\ g.node = f.node /\ g.call = f.call /\ g.results = Append(f.results, a)
  <2> DEFINE x == Append(f.results, a)
  <2>1. x \in Seq(Results)
    BY <1>1
  <2>2. g = [f EXCEPT !.results = x]
    OBVIOUS
  <2> HIDE DEF x
  <2>3. g \in CallFrame /\ g.node = f.node /\ g.call = f.call /\ g.results = x
    BY <2>1, <2>2 DEF CallFrame
  <2> QED
    BY <2>3 DEF x
<1>3. Len(g.results) = k + 1 /\ g.results[k + 1] = a
      /\ \A j \in 1 .. k : g.results[j] = f.results[j]
  BY <1>1, <1>2
<1>4. Len(in.children[f.node]) \in Nat /\ DOMAIN in.children[f.node] = 1 .. Len(in.children[f.node])
  BY ChildFacts
<1>5. Grows(res, res, Definitions)
  BY DEF Grows
<1>6. FrameIsRight(f, in, res, tres2)
  BY <1>5, FrameStaysRight
<1> HIDE DEF k
<1>7. k + 1 <= Len(in.children[f.node])
  BY <1>1, <1>4 DEF k
<1>8. ASSUME NEW j \in 1 .. k + 1
      PROVE  /\ ChildSettled(in.children[f.node][j], in, res, tres2)
             /\ f.call = "Analyze" =>
                  g.results[j] = Answer(in.children[f.node][j],
                                        Meaning(in)[in.children[f.node][j].ref])
  <2>1. CASE j = k + 1
    BY <1>3, <2>1 DEF k
  <2>2. CASE j # k + 1
    <3>1. j \in 1 .. k
      BY <1>1, <2>2
    <3> QED
      BY <1>3, <1>6, <3>1 DEF FrameIsRight, k
  <2> QED
    BY <2>1, <2>2
<1>9. FrameIsRight(g, in, res, tres2)
  BY <1>2, <1>3, <1>7, <1>8, Zenon DEF FrameIsRight
<1> QED
  BY <1>2, <1>9

LEMMA TakeStep ==
  ASSUME AnalysisInv, Active(Evaluating, Nodes), HasChild, NEW r \in Results,
         TakeResult(Answer(NextChild, r)), ret' = "none",
         UNCHANGED <<input, todo, cached, result, reported, written>>,
         Grows(testResult, testResult', Tests), testResult' \in [Tests -> Results \cup {"none"}],
         Analyzing(stack, input, result, testResult) => ValuesMean(input, result, testResult'),
         ChildSettled(NextChild, input, result, testResult'),
         Top.call = "Analyze" => r = Meaning(input)[NextChild.ref]
  PROVE  AnalysisInv' /\ Running'
<1> DEFINE n == Len(stack)
           f == [Top EXCEPT !.results = Append(@, Answer(NextChild, r))]
<1>1. input \in Input /\ stack \in Seq(CallFrame) /\ stack # <<>> /\ Top \in CallFrame
      /\ Top = stack[n] /\ n \in Nat /\ n \in DOMAIN stack /\ DOMAIN stack = 1 .. n
      /\ Top.node \in Nodes
  BY InvFacts, WhenEvaluating DEF Top
<1>2. stack' = [stack EXCEPT ![n] = f]
  BY DEF TakeResult, Continue
<1>3. Evaluation(stack, ret, input, result, testResult)
      /\ FrameIsRight(Top, input, result, testResult)
  BY WhenEvaluating
<1>4. Answer(NextChild, r) \in Results
  BY AnswerIsResult
<1>5. f \in CallFrame /\ f.node = Top.node /\ f.call = Top.call
      /\ FrameIsRight(f, input, result, testResult')
  <2>1. NextChild = input.children[Top.node][Len(Top.results) + 1]
        /\ Len(Top.results) + 1 \in DOMAIN input.children[Top.node]
    BY NextChildFacts DEF NextChild
  <2> QED
    BY <1>1, <1>3, <1>4, <2>1, TakenIsRight
<1> HIDE DEF f, n
<1>6. stack' \in Seq(CallFrame) /\ Evaluation(stack', "none", input, result, testResult')
  BY <1>1, <1>2, <1>3, <1>5, TakeKeeps DEF n
<1>7. StackIsRight(stack', ret', input, result, testResult')
  BY <1>6 DEF StackIsRight
<1>8. /\ DOMAIN stack' = DOMAIN stack /\ stack'[n] = f
      /\ \A i \in DOMAIN stack : i # n => stack'[i] = stack[i]
  BY <1>1, <1>2
<1>9. LosesNothing(stack, stack', Ids(written), input)
  <2>1. \A i \in DOMAIN stack : stack[i].call = "Write" => i \in DOMAIN stack' /\ stack'[i] = stack[i]
    BY <1>1, <1>8, WhenEvaluating DEF Evaluating
  <2> QED
    BY <2>1, SameWrites
<1>10. \A i \in DOMAIN stack' : \E j \in DOMAIN stack : stack'[i].call = stack[j].call
  BY <1>1, <1>5, <1>8
<1>11. ret' \in Results \cup {"none"}
  OBVIOUS
<1> QED
  BY <1>1, <1>6, <1>7, <1>9, <1>10, <1>11, EvaluationStep

LEMMA ChildReturnsStep == AnalysisInv /\ ChildReturns => AnalysisInv' /\ Running'
<1> SUFFICES ASSUME AnalysisInv, ChildReturns PROVE AnalysisInv' /\ Running'
  OBVIOUS
<1>1. Active(Evaluating, Nodes) /\ ret # "none"
  BY DEF ChildReturns
<1>2. Top.node \in Nodes /\ Top.node \notin Definitions /\ Top = stack[Len(stack)]
  BY <1>1, WhenEvaluating, DistinctNames DEF Top
<1>3. ReturnIsRight(Top, ret, input, result, testResult)
  BY <1>1, <1>2, WhenEvaluating DEF Evaluation
<1>4. PICK m \in Elements : /\ WaitsFor(Top, m, input)
                            /\ Settled(m, input, result, testResult)
                            /\ Top.call = "Analyze" => ret = Meaning(input)[m]
  BY <1>3 DEF ReturnIsRight
<1>5. HasChild /\ m = NextChild.ref /\ m \notin Tests
  BY <1>2, <1>4 DEF WaitsFor, HasChild, NextChild
<1>6. ret \in Results
  BY <1>1 DEF AnalysisInv, TypeOK
<1>7. ChildSettled(NextChild, input, result, testResult')
  BY <1>4, <1>5 DEF ChildSettled, ChildReturns
<1>8. Grows(testResult, testResult', Tests) /\ testResult' \in [Tests -> Results \cup {"none"}]
  BY DEF ChildReturns, Grows, AnalysisInv, TypeOK
<1>9. Analyzing(stack, input, result, testResult) => ValuesMean(input, result, testResult')
  BY DEF ChildReturns, Analyzing
<1> QED
  BY <1>1, <1>4, <1>5, <1>6, <1>7, <1>8, <1>9, TakeStep DEF ChildReturns

LEMMA AskTestStep == AnalysisInv /\ AskTest => AnalysisInv' /\ Running'
<1> SUFFICES ASSUME AnalysisInv, AskTest PROVE AnalysisInv' /\ Running'
  OBVIOUS
<1> DEFINE t == NextChild.ref
           r == IF testResult[t] # "none" THEN testResult[t]
                ELSE IF Top.call = "Analyze" THEN input.outcome[t]
                ELSE "not evaluated"
<1>1. Active(Evaluating, Nodes) /\ HasChild /\ t \in Tests
  BY DEF AskTest
<1>2. testResult' = [testResult EXCEPT ![t] = r] /\ TakeResult(Answer(NextChild, r))
  BY DEF AskTest
<1>3. input \in Input /\ Acyclic(input) /\ testResult \in [Tests -> Results \cup {"none"}]
  BY InvFacts DEF AnalysisInv, TypeOK
<1>4. input.outcome[t] \in Results /\ input.outcome[t] = Meaning(input)[t]
  <2>1. Meaning(input)[t] = ValueOf(input, Meaning(input), t)
    BY <1>1, <1>3, MeaningFacts DEF Solves
  <2> QED
    BY <1>1, <1>3, <2>1 DEF ValueOf, Input
<1>5. testResult[t] \in Results \cup {"none"}
  BY <1>1, <1>3
<1>6. r \in Results /\ (testResult[t] # "none" => r = testResult[t])
  <2>1. "not evaluated" \in Results
    BY DEF Results
  <2> QED
    BY <1>4, <1>5, <2>1
<1>7. Top.call = "Analyze" => r = Meaning(input)[t]
  <2>1. Top.call = "Analyze" => (testResult[t] # "none" => testResult[t] = Meaning(input)[t])
    BY <1>1, WhenEvaluating DEF Analyzing, ValuesMean
  <2> QED
    BY <1>4, <2>1
<1>8. Analyzing(stack, input, result, testResult) => Top.call = "Analyze"
  <2>1. Len(stack) \in DOMAIN stack /\ Top = stack[Len(stack)] /\ Top.call \in Evaluating
    BY <1>1, InvFacts, WhenEvaluating DEF Top
  <2> QED
    BY <2>1 DEF Analyzing, CallsOnly, Evaluating
<1> HIDE DEF r, t
<1>9. /\ testResult' \in [Tests -> Results \cup {"none"}]
      /\ testResult'[t] = r
      /\ \A u \in Tests : u # t => testResult'[u] = testResult[u]
  BY <1>1, <1>2, <1>3, <1>6
<1>10. Grows(testResult, testResult', Tests)
  BY <1>6, <1>9 DEF Grows
<1>11. Analyzing(stack, input, result, testResult) => ValuesMean(input, result, testResult')
  BY <1>7, <1>8, <1>9 DEF Analyzing, ValuesMean
<1>12. ChildSettled(NextChild, input, result, testResult')
  BY <1>1, <1>6, <1>9, NoneIsNoResult DEF ChildSettled, t
<1>13. /\ UNCHANGED <<input, todo, cached, result, reported, written>>
       /\ ret' = "none"
  BY DEF AskTest
<1>14. Top.call = "Analyze" => r = Meaning(input)[NextChild.ref]
  BY <1>7 DEF t
<1> QED
  BY <1>1, <1>2, <1>6, <1>9, <1>10, <1>11, <1>12, <1>13, <1>14, TakeStep

\* A criteria whose children have all answered.
LEMMA CombinedIsMeaning ==
  ASSUME NEW in \in Input, Acyclic(in), NEW f \in CallFrame, NEW res, NEW tres,
         f.node \in Nodes, FrameIsRight(f, in, res, tres),
         ~ (Len(f.results) < Len(in.children[f.node]))
  PROVE  /\ Settled(f.node, in, res, tres)
         /\ CombinedChildren(in, f.node, f.results) \in Results
         /\ f.call = "Analyze" => CombinedChildren(in, f.node, f.results) = Meaning(in)[f.node]
<1> DEFINE node == f.node
           children == in.children[node]
           M == Meaning(in)
<1>1. /\ Len(f.results) \in Nat /\ f.results \in Seq(Results)
      /\ Len(children) \in Nat /\ DOMAIN children = 1 .. Len(children)
  BY ChildFacts DEF CallFrame
<1>2. Len(f.results) = Len(children) /\ DOMAIN f.results = DOMAIN children
  BY <1>1 DEF FrameIsRight
<1>3. Settled(node, in, res, tres)
  BY <1>1, <1>2, SettledNode DEF FrameIsRight
<1>4. CombinedChildren(in, node, f.results) \in Results
  <2>1. in.operator[node] \in Operators
    BY DEF Input
  <2> QED
    BY <2>1, OperatorGivesResult, NegateIsResult DEF CombinedChildren
<1>5. M[node] = CombinedChildren(in, node, [i \in DOMAIN children |-> Answer(children[i], M[children[i].ref])])
  <2>1. node \notin Tests /\ node \in Elements
    BY DistinctNames DEF Elements
  <2>2. M[node] = ValueOf(in, M, node)
    BY <2>1, MeaningFacts DEF Solves
  <2> QED
    BY <2>1, <2>2 DEF ValueOf
<1>6. ASSUME f.call = "Analyze"
      PROVE  f.results = [i \in DOMAIN children |-> Answer(children[i], M[children[i].ref])]
  <2>1. \A i \in DOMAIN children : f.results[i] = Answer(children[i], M[children[i].ref])
    BY <1>1, <1>2, <1>6 DEF FrameIsRight
  <2>2. f.results = [i \in DOMAIN f.results |-> f.results[i]]
    BY <1>1
  <2> HIDE DEF children, M
  <2> QED
    BY <1>2, <2>1, <2>2
<1> QED
  BY <1>3, <1>4, <1>5, <1>6

LEMMA CombineCriteriaStep == AnalysisInv /\ CombineCriteria => AnalysisInv' /\ Running'
<1> SUFFICES ASSUME AnalysisInv, CombineCriteria PROVE AnalysisInv' /\ Running'
  OBVIOUS
<1>1. Active(Evaluating, Nodes) /\ ~HasChild
  BY DEF CombineCriteria
<1>2. input \in Input /\ Acyclic(input) /\ Top \in CallFrame /\ Top.node \in Nodes
      /\ FrameIsRight(Top, input, result, testResult)
  BY <1>1, InvFacts, WhenEvaluating
<1>3. ret' = CombinedChildren(input, Top.node, Top.results)
  BY DEF CombineCriteria, CombinedChildren
<1>4. ~ (Len(Top.results) < Len(input.children[Top.node]))
  BY <1>1 DEF HasChild
<1>5. /\ Settled(Top.node, input, result, testResult) /\ ret' \in Results
      /\ Top.call = "Analyze" => ret' = Meaning(input)[Top.node]
  BY <1>2, <1>3, <1>4, CombinedIsMeaning
<1> QED
  BY <1>1, <1>5, ReturnStep DEF CombineCriteria

\* A list of records with their ids grows by one.
LEMMA AppendRecord ==
  ASSUME NEW S, NEW s \in Seq(S), NEW e, NEW s2, s2 = Append(s, e)
  PROVE  /\ \A i \in DOMAIN s2 : (i \in DOMAIN s /\ s2[i] = s[i]) \/ (i = Len(s) + 1 /\ s2[i] = e)
         /\ \A i \in DOMAIN s : i \in DOMAIN s2 /\ s2[i] = s[i]
         /\ Len(s) + 1 \in DOMAIN s2 /\ s2[Len(s) + 1] = e
         /\ Ids(s2) = Ids(s) \cup {e.id}
         /\ OnceIn(s) /\ e.id \notin Ids(s) => OnceIn(s2)
<1> DEFINE n == Len(s)
<1>1. n \in Nat /\ DOMAIN s = 1 .. n /\ DOMAIN s2 = 1 .. n + 1
  OBVIOUS
<1>2. s2[n + 1] = e /\ \A i \in 1 .. n : s2[i] = s[i]
  OBVIOUS
<1> HIDE DEF n
<1>3. \A i \in 1 .. n + 1 : i \in 1 .. n \/ i = n + 1
  BY <1>1
<1>4. n + 1 \in 1 .. n + 1 /\ \A i \in 1 .. n : i \in 1 .. n + 1
  BY <1>1
<1>5. /\ \A i \in DOMAIN s2 : (i \in DOMAIN s /\ s2[i] = s[i]) \/ (i = n + 1 /\ s2[i] = e)
      /\ \A i \in DOMAIN s : i \in DOMAIN s2 /\ s2[i] = s[i]
      /\ n + 1 \in DOMAIN s2
  BY <1>1, <1>2, <1>3, <1>4, Zenon
<1>6. Ids(s2) = Ids(s) \cup {e.id}
  BY <1>2, <1>5 DEF Ids
<1>7. OnceIn(s) /\ e.id \notin Ids(s) => OnceIn(s2)
  BY <1>2, <1>5 DEF OnceIn, Ids
<1> QED
  BY <1>2, <1>5, <1>6, <1>7, Zenon DEF n

LEMMA StoreStep ==
  ASSUME AnalysisInv, Active(Evaluating, Definitions), NEW r \in Results,
         result[Top.node] = "none",
         Top.call = "Analyze" => r = Meaning(input)[Top.node],
         input.root[Top.node] # "none" =>
           Settled(input.root[Top.node], input, result, testResult),
         StoreResult(r)
  PROVE  AnalysisInv' /\ Running'
<1> DEFINE n == Len(stack)
           d == Top.node
           e == [id |-> d, list |-> IF Top.call = "Analyze" THEN r ELSE "not evaluated",
                 result |-> r]
<1>1. input \in Input /\ Acyclic(input) /\ stack \in Seq(CallFrame) /\ stack # <<>>
      /\ Top = stack[n] /\ n \in Nat /\ n \in DOMAIN stack /\ DOMAIN stack = 1 .. n
      /\ d \in Definitions /\ d \in Elements /\ Running
  BY InvFacts, WhenEvaluating DEF Top, Elements
<1>2. /\ stack' = SubSeq(stack, 1, n - 1) /\ ret' = r
      /\ result' = [result EXCEPT ![d] = r]
      /\ reported' = Append(reported, e)
      /\ UNCHANGED <<input, todo, cached, testResult, written>>
  BY DEF StoreResult, Return
<1>3. Evaluation(stack, ret, input, result, testResult)
  BY WhenEvaluating
<1>4. /\ stack' \in Seq(CallFrame) /\ Len(stack') = n - 1
      /\ \A i \in 1 .. n - 1 : stack'[i] = stack[i]
  BY <1>1, <1>2, PopFacts
<1>5. /\ reported \in Seq(Entry) /\ result \in [Definitions -> Results \cup {"none"}]
      /\ testResult \in [Tests -> Results \cup {"none"}] /\ cached \in SUBSET Definitions
  BY DEF AnalysisInv, TypeOK
<1>6. e \in Entry /\ e.id = d /\ e.result = r /\ (Top.call = "Analyze" => e.list = r)
  <2>1. "not evaluated" \in Results
    BY DEF Results
  <2> QED
    BY <1>1, <2>1 DEF Entry
<1>7. Top.call \in Evaluating
  BY WhenEvaluating
<1> HIDE DEF n, d, e
<1>8. /\ result' \in [Definitions -> Results \cup {"none"}] /\ result'[d] = r
      /\ \A x \in Definitions : x # d => result'[x] = result[x]
  BY <1>1, <1>2, <1>5
<1>9. r # "none" /\ result[d] = "none"
  BY NoneIsNoResult DEF d
<1>10. Grows(result, result', Definitions) /\ Grows(testResult, testResult, Tests)
  BY <1>8, <1>9 DEF Grows
<1>11. reported' \in Seq(Entry)
  BY <1>2, <1>5, <1>6
<1>12. TypeOK'
  BY <1>2, <1>4, <1>5, <1>8, <1>11 DEF AnalysisInv, TypeOK, CallFrame, Elements
<1>13. AnalyzedIsSettled(input, result', testResult)
  <2> SUFFICES ASSUME NEW x \in Definitions, result'[x] # "none"
               PROVE  Settled(x, input, result', testResult)
    BY DEF AnalyzedIsSettled
  <2>1. x \in Elements
    BY DEF Elements
  <2>2. CASE x # d
    <3>1. Settled(x, input, result, testResult)
      BY <1>8, <2>2 DEF AnalysisInv, AnalyzedIsSettled
    <3> QED
      BY <1>1, <1>10, <2>1, <3>1, SettledStays
  <2>3. CASE x = d
    <3>1. input.root[d] # "none" => input.root[d] \in Elements
      BY <1>1 DEF Input, Elements
    <3>2. input.root[d] # "none" => Settled(input.root[d], input, result, testResult)
      BY DEF d
    <3>3. input.root[d] # "none" => Settled(input.root[d], input, result', testResult)
      BY <1>1, <1>10, <3>1, <3>2, SettledStays
    <3> QED
      BY <1>1, <1>8, <1>9, <2>3, <3>3, SettledDefinition
  <2> QED
    BY <2>2, <2>3
<1>14. StackIsRight(stack', ret', input, result', testResult)
  <2>1. Answers(stack[n], r, input, result', testResult)
    BY <1>1, <1>8, <1>9, <1>13 DEF Answers, AnalyzedIsSettled, d
  <2>2. SameBut(result, result', stack[n].node)
    BY <1>1, <1>8 DEF SameBut, d
  <2>3. Popped(stack, stack')
    BY <1>2 DEF Popped, n
  <2>4. /\ n = 2 => Writing(stack', r, input, result', testResult)
        /\ n # 2 => Evaluation(stack', r, input, result', testResult)
    BY <1>1, <1>3, <1>10, <2>1, <2>2, <2>3, ReturnKeeps DEF n
  <2> QED
    BY <1>2, <2>4 DEF StackIsRight
<1>15. DOMAIN stack' = 1 .. n - 1
  BY <1>4
<1>16. \A i \in DOMAIN stack' : i \in DOMAIN stack /\ stack'[i] = stack[i]
  BY <1>1, <1>4, <1>15
<1>17. RecordsGoOn(stack', Ids(written), input) /\ CachedGoOn(stack', Ids(written), cached, input)
  <2>1. \A i \in DOMAIN stack : stack[i].call = "Write" => i \in DOMAIN stack' /\ stack'[i] = stack[i]
    <3> SUFFICES ASSUME NEW i \in DOMAIN stack, stack[i].call = "Write"
                 PROVE  i \in DOMAIN stack' /\ stack'[i] = stack[i]
      OBVIOUS
    <3>1. i # n
      BY <1>1, <1>7 DEF Evaluating
    <3> QED
      BY <1>1, <1>4, <1>15, <3>1
  <2>2. LosesNothing(stack, stack', Ids(written), input)
    BY <2>1, SameWrites
  <2>3. RecordsGoOn(stack, Ids(written), input) /\ CachedGoOn(stack, Ids(written), cached, input)
    BY DEF AnalysisInv
  <2> QED
    BY <1>1, <1>5, <2>2, <2>3, NothingIsLost
<1>18. d \notin Ids(reported)
  BY <1>1, <1>9 DEF Running, ReportedStands
<1>19. OnceIn(reported') /\ Ids(reported') = Ids(reported) \cup {d}
  <2>1. OnceIn(reported)
    BY DEF AnalysisInv
  <2>2. /\ Ids(reported') = Ids(reported) \cup {e.id}
        /\ OnceIn(reported) /\ e.id \notin Ids(reported) => OnceIn(reported')
    BY <1>2, <1>5, AppendRecord
  <2> QED
    BY <1>6, <1>18, <2>1, <2>2
<1>20. \A calls : CallsOnly(stack, calls) => CallsOnly(stack', calls)
  BY <1>16 DEF CallsOnly
<1>21. Meaning(input)[d] \in Results
  BY <1>1, MeaningFacts DEF Solves
<1>22. Top.call = "NotEvaluated" => d \notin ToAnalyze(input)
  <2>1. Top.call = "NotEvaluated" => SelectedMean(input, result)
    BY WhenEvaluating DEF Marking
  <2> QED
    BY <1>1, <1>9, <1>21, <2>1, NoneIsNoResult DEF SelectedMean
<1>23. Phases'
  <2>1. CASE Top.call = "Analyze"
    <3>1. Analyzing(stack, input, result, testResult) /\ r = Meaning(input)[d]
      BY <2>1, WhenEvaluating DEF d
    <3>2. ValuesMean(input, result', testResult)
      BY <1>8, <3>1 DEF Analyzing, ValuesMean
    <3> QED
      BY <1>2, <1>20, <3>1, <3>2 DEF Phases, Analyzing
  <2>2. CASE Top.call = "NotEvaluated"
    <3>1. Marking(todo, stack, input, result)
      BY <2>2, WhenEvaluating
    <3>2. SelectedMean(input, result')
      BY <1>8, <1>22, <2>2, <3>1 DEF Marking, SelectedMean
    <3> QED
      BY <1>2, <1>20, <3>1, <3>2 DEF Phases, Marking
  <2> QED
    BY <1>7, <2>1, <2>2 DEF Evaluating
<1>24. ReportedMeans(reported', input)
  <2>1. ReportedMeans(reported, input)
    BY DEF AnalysisInv
  <2>2. d \in ToAnalyze(input) => r = Meaning(input)[d] /\ e.list = r
    BY <1>6, <1>7, <1>22 DEF Evaluating, d
  <2>3. \A i \in DOMAIN reported' :
          (i \in DOMAIN reported /\ reported'[i] = reported[i]) \/ reported'[i] = e
    BY <1>2, <1>5, AppendRecord
  <2> QED
    BY <1>6, <2>1, <2>2, <2>3 DEF ReportedMeans
<1>25. Running'
  <2>1. WrittenStands(written, result', testResult)
    <3>1. WrittenStands(written, result, testResult)
      BY <1>1 DEF Running
    <3>2. \A i \in DOMAIN written : written[i].id \in Definitions => written[i].id # d
      BY <1>9, <3>1, WrittenFacts, NoneIsNoResult DEF WrittenStands
    <3> QED
      BY <1>8, <3>1, <3>2 DEF WrittenStands
  <2>2. ReportedStands(reported', result')
    BY <1>1, <1>8, <1>9, <1>19 DEF Running, ReportedStands
  <2> QED
    BY <1>1, <1>2, <2>1, <2>2 DEF Running
<1>26. /\ (input \in Inputs)' /\ OnceIn(written')
       /\ TasksAreSorted(todo', input') /\ WrittenMeans(written', input')
  BY <1>2 DEF AnalysisInv
<1>27. /\ StackIsRight(stack', ret', input', result', testResult')
       /\ AnalyzedIsSettled(input', result', testResult')
       /\ RecordsGoOn(stack', Ids(written'), input')
       /\ CachedGoOn(stack', Ids(written'), cached', input')
       /\ ReportedMeans(reported', input')
  BY <1>2, <1>13, <1>14, <1>17, <1>24
<1> QED
  BY <1>12, <1>19, <1>23, <1>25, <1>26, <1>27, Zenon DEF AnalysisInv

LEMMA NoCriteriaStep == AnalysisInv /\ NoCriteria => AnalysisInv' /\ Running'
<1> SUFFICES ASSUME AnalysisInv, NoCriteria PROVE AnalysisInv' /\ Running'
  OBVIOUS
<1>1. Active(Evaluating, Definitions) /\ result[Top.node] = "none"
      /\ input.root[Top.node] = "none" /\ StoreResult("not evaluated")
  BY DEF NoCriteria
<1>2. Top.node \in Definitions /\ Top.node \notin Nodes /\ Top.node \notin Tests
      /\ Top.node \in Elements
  BY <1>1, DistinctNames DEF Active, Elements
<1>3. Meaning(input)[Top.node] = ValueOf(input, Meaning(input), Top.node)
  BY <1>2, InvFacts, MeaningFacts DEF Solves
<1>4. Meaning(input)[Top.node] = "not evaluated"
  BY <1>1, <1>2, <1>3 DEF ValueOf
<1>5. "not evaluated" \in Results
  BY DEF Results
<1> QED
  BY <1>1, <1>4, <1>5, StoreStep

LEMMA CriteriaReturnsStep == AnalysisInv /\ CriteriaReturns => AnalysisInv' /\ Running'
<1> SUFFICES ASSUME AnalysisInv, CriteriaReturns PROVE AnalysisInv' /\ Running'
  OBVIOUS
<1>1. Active(Evaluating, Definitions) /\ ret # "none" /\ StoreResult(ret)
  BY DEF CriteriaReturns
<1>2. Top.node \in Definitions /\ Top.node \notin Nodes /\ Top.node \notin Tests
      /\ Top.node \in Elements /\ Top = stack[Len(stack)]
  BY <1>1, DistinctNames DEF Active, Elements, Top
<1>3. Evaluation(stack, ret, input, result, testResult) /\ Len(stack) \in 2 .. Len(stack)
  <2>1. Evaluation(stack, ret, input, result, testResult) /\ Len(stack) >= 2 /\ Len(stack) \in Nat
    BY <1>1, WhenEvaluating, InvFacts
  <2> QED
    BY <2>1
<1>4. result[Top.node] = "none"
  BY <1>1, <1>2, <1>3 DEF Evaluation
<1>5. ReturnIsRight(Top, ret, input, result, testResult)
  BY <1>1, <1>2, <1>3 DEF Evaluation
<1>6. /\ input.root[Top.node] # "none"
      /\ Settled(input.root[Top.node], input, result, testResult)
      /\ Top.call = "Analyze" => ret = Meaning(input)[input.root[Top.node]]
  BY <1>2, <1>5 DEF ReturnIsRight, WaitsFor
<1>7. Meaning(input)[Top.node] = ValueOf(input, Meaning(input), Top.node)
  BY <1>2, InvFacts, MeaningFacts DEF Solves
<1>8. Meaning(input)[Top.node] = Meaning(input)[input.root[Top.node]]
  BY <1>2, <1>6, <1>7 DEF ValueOf
<1>9. ret \in Results
  BY <1>1 DEF AnalysisInv, TypeOK
<1> QED
  BY <1>1, <1>4, <1>6, <1>8, <1>9, StoreStep

-----------------------------------------------------------------------------
\* The steps of WriteStep.

LEMMA ToAnalyzeFacts ==
  ASSUME NEW in \in Input
  PROVE  \A x \in ToAnalyze(in) : x \in Elements /\ x \notin Tests
<1>1. \A d \in Definitions : Parsed(d, in) \subseteq Elements
  BY ParsedFacts DEF Elements
<1>2. ToAnalyze(in) \subseteq Elements
  BY <1>1 DEF ToAnalyze, Selected, Elements
<1> QED
  BY <1>2, DistinctNames DEF Elements

Record == [id : Definitions \cup Tests, result : Results]
\* A record of a result that stands, for what is not written yet.
NewRecord(e, wrt, res, tres) ==
  /\ e \in Record /\ e.id \notin Ids(wrt)
  /\ e.id \in Definitions => res[e.id] = e.result
  /\ e.id \in Tests => tres[e.id] = e.result
RecordsGrow(wrt, wrt2, res, tres) ==
  wrt2 = wrt \/ \E e \in Record : wrt2 = Append(wrt, e) /\ NewRecord(e, wrt, res, tres)
\* Every definition that is new goes on.
NewGoOn(stk, rec, rec2, in) ==
  \A d \in (rec2 \ rec) \cap Definitions : \A m \in Parsed(d, in) \cap Definitions :
    m \in rec2 \/ Awaited(m, Below(d, in), stk, in)

LEMMA WritingStep ==
  ASSUME AnalysisInv, stack # <<>>,
         UNCHANGED <<input, todo, cached, result, testResult, reported>>,
         stack' \in Seq(CallFrame), ret' \in Results \cup {"none"},
         Writing(stack', ret', input, result, testResult),
         RecordsGrow(written, written', result, testResult),
         LosesNothing(stack, stack', Ids(written'), input),
         NewGoOn(stack', Ids(written), Ids(written'), input)
  PROVE  AnalysisInv' /\ Running'
<1>1. input \in Input /\ written \in Seq(Record) /\ cached \in SUBSET Definitions /\ Running
  BY InvFacts DEF AnalysisInv, TypeOK, Record
<1>2. OnceIn(written) /\ WrittenMeans(written, input) /\ WrittenStands(written, result, testResult)
  BY <1>1 DEF AnalysisInv, Running
<1>3. ASSUME NEW e, NewRecord(e, written, result, testResult), e.id \in ToAnalyze(input)
      PROVE  e.result = Meaning(input)[e.id]
  <2>1. e.id \in Definitions /\ e.result \in Results
    BY <1>1, <1>3, ToAnalyzeFacts DEF NewRecord, Record
  <2>2. result[e.id] = e.result /\ e.result # "none"
    BY <1>3, <2>1, NoneIsNoResult DEF NewRecord
  <2>3. CASE Analyzing(stack, input, result, testResult)
    BY <2>1, <2>2, <2>3 DEF Analyzing, ValuesMean
  <2>4. CASE Marking(todo, stack, input, result)
    BY <1>3, <2>1, <2>2, <2>4 DEF Marking, SelectedMean
  <2> QED
    BY <2>3, <2>4 DEF AnalysisInv, Phases
<1>4. /\ written' \in Seq(Record) /\ OnceIn(written') /\ Ids(written) \subseteq Ids(written')
      /\ WrittenMeans(written', input) /\ WrittenStands(written', result, testResult)
  <2>1. CASE written' = written
    BY <1>1, <1>2, <2>1
  <2>2. CASE written' # written
    <3>1. PICK e \in Record : /\ written' = Append(written, e)
                              /\ NewRecord(e, written, result, testResult)
      BY <2>2 DEF RecordsGrow
    <3>2. written' \in Seq(Record)
      BY <1>1, <3>1
    <3>3. /\ \A i \in DOMAIN written' :
               (i \in DOMAIN written /\ written'[i] = written[i]) \/ written'[i] = e
      BY <1>1, <3>1, AppendRecord
    <3>4. OnceIn(written') /\ Ids(written) \subseteq Ids(written')
      <4>1. e.id \notin Ids(written)
        BY <3>1 DEF NewRecord
      <4>2. /\ Ids(written') = Ids(written) \cup {e.id}
            /\ OnceIn(written) /\ e.id \notin Ids(written) => OnceIn(written')
        BY <1>1, <3>1, AppendRecord
      <4> QED
        BY <1>2, <4>1, <4>2
    <3>5. WrittenMeans(written', input)
      BY <1>2, <1>3, <3>1, <3>3 DEF WrittenMeans
    <3>6. WrittenStands(written', result, testResult)
      BY <1>2, <3>1, <3>3 DEF WrittenStands, NewRecord
    <3> QED
      BY <3>2, <3>4, <3>5, <3>6
  <2> QED
    BY <2>1, <2>2
<1>5. TypeOK'
  BY <1>4 DEF AnalysisInv, TypeOK, CallFrame, Elements, Record
<1>6. RecordsGoOn(stack', Ids(written'), input) /\ CachedGoOn(stack', Ids(written'), cached, input)
  <2>1. RecordsGoOn(stack, Ids(written), input) /\ CachedGoOn(stack, Ids(written), cached, input)
    BY DEF AnalysisInv
  <2> QED
    BY <1>1, <1>4, <2>1, NothingIsLost DEF NewGoOn
<1>7. \A i \in DOMAIN stack' : stack'[i].call = "Write"
  BY DEF Writing
<1>8. Phases'
  <2>1. CASE Analyzing(stack, input, result, testResult)
    BY <1>7, <2>1 DEF Phases, Analyzing, CallsOnly
  <2>2. CASE Marking(todo, stack, input, result)
    BY <1>7, <2>2 DEF Phases, Marking, CallsOnly
  <2> QED
    BY <2>1, <2>2 DEF AnalysisInv, Phases
<1>9. Running'
  BY <1>1, <1>4 DEF Running
<1>10. /\ (input \in Inputs)' /\ OnceIn(reported')
       /\ AnalyzedIsSettled(input', result', testResult')
       /\ TasksAreSorted(todo', input') /\ ReportedMeans(reported', input')
  BY DEF AnalysisInv
<1>11. /\ StackIsRight(stack', ret', input', result', testResult')
       /\ RecordsGoOn(stack', Ids(written'), input')
       /\ CachedGoOn(stack', Ids(written'), cached', input')
       /\ WrittenMeans(written', input') /\ OnceIn(written')
  BY <1>4, <1>6 DEF StackIsRight
<1> QED
  BY <1>5, <1>8, <1>9, <1>10, <1>11, Zenon DEF AnalysisInv

\* A criteria goes on to its next child.
LEMMA AdvanceFacts ==
  ASSUME NEW in \in Input, NEW f \in CallFrame, f.node \in Nodes,
         f.at < Len(in.children[f.node]), NEW g, g = [f EXCEPT !.at = @ + 1],
         NEW ref, ref = in.children[f.node][f.at + 1].ref
  PROVE  /\ g \in CallFrame /\ g.node = f.node /\ g.call = f.call
         /\ g.at <= Len(in.children[f.node])
         /\ ref \in Things
         /\ ref \notin Tests => ref \in RefersTo(f.node, in) /\ ref \in Elements
         /\ \A m \in Left(f, in) : m \in Left(g, in) \/ (ref \notin Tests /\ m \in Parsed(ref, in))
<1> DEFINE children == in.children[f.node]
           k == f.at
<1>1. k \in Nat
  BY DEF CallFrame
<1>2. g \in CallFrame /\ g.node = f.node /\ g.call = f.call /\ g.at = k + 1
  <2>1. g = [f EXCEPT !.at = k + 1] /\ k + 1 \in Nat
    BY <1>1
  <2> QED
    BY <2>1 DEF CallFrame
<1>3. Len(children) \in Nat /\ DOMAIN children = 1 .. Len(children)
  BY ChildFacts
<1> HIDE DEF k
<1>4. k + 1 \in DOMAIN children /\ g.at <= Len(children)
  BY <1>1, <1>2, <1>3 DEF k
<1>5. ref = children[k + 1].ref
  BY DEF k
<1>6. /\ ref \in Things
      /\ ref \notin Tests => ref \in RefersTo(f.node, in) /\ ref \in Elements
  BY <1>4, <1>5, ChildFacts
<1>7. \A i \in k + 1 .. Len(children) : i = k + 1 \/ i \in (k + 1) + 1 .. Len(children)
  BY <1>1, <1>3
<1>8. \A m \in LaterChildren(f, in) : m \in LaterChildren(g, in) \/ (m = ref /\ ref \notin Tests)
  <2>1. LaterChildren(f, in) = {children[i].ref : i \in k + 1 .. Len(children)} \ Tests
    BY DEF LaterChildren, k
  <2>2. LaterChildren(g, in) = {children[i].ref : i \in (k + 1) + 1 .. Len(children)} \ Tests
    BY <1>2 DEF LaterChildren
  <2> HIDE DEF children
  <2> QED
    BY <1>5, <1>7, <2>1, <2>2
<1>9. f.node \notin Definitions
  BY DistinctNames
<1>10. \A m \in Left(f, in) : m \in Left(g, in) \/ (ref \notin Tests /\ m \in Parsed(ref, in))
  BY <1>2, <1>8, <1>9 DEF Left
<1> QED
  BY <1>2, <1>4, <1>6, <1>10

LEMMA AdvanceLosesNothing ==
  ASSUME NEW in \in Input, NEW stk, NEW stk2, NEW rec2, NEW n \in DOMAIN stk, NEW f,
         stk[n].node \in Elements,
         stk2[n] = f, f.call = "Write", f.node = stk[n].node,
         \A i \in DOMAIN stk : i \in DOMAIN stk2 /\ (i # n => stk2[i] = stk[i]),
         \A m \in Left(stk[n], in) \cap Definitions :
           \/ m \in Left(f, in)
           \/ Awaited(m, Below(stk[n].node, in), stk2, in)
  PROVE  LosesNothing(stk, stk2, rec2, in)
<1> SUFFICES ASSUME NEW S \in SUBSET Elements, \A k \in S : Parsed(k, in) \subseteq S,
                    NEW m \in Definitions, Awaited(m, S, stk, in)
             PROVE  Awaited(m, S, stk2, in)
  BY DEF LosesNothing
<1>1. PICK i \in DOMAIN stk : stk[i].call = "Write" /\ stk[i].node \in S /\ m \in Left(stk[i], in)
  BY DEF Awaited
<1>2. CASE i # n
  BY <1>1, <1>2 DEF Awaited
<1>3. CASE i = n
  <2>1. CASE m \in Left(f, in)
    BY <1>1, <1>3, <2>1 DEF Awaited
  <2>2. CASE Awaited(m, Below(stk[n].node, in), stk2, in)
    <3>1. Below(stk[n].node, in) \subseteq S
      BY <1>1, <1>3, BelowFacts
    <3> QED
      BY <2>2, <3>1 DEF Awaited
  <2> QED
    BY <1>1, <1>3, <2>1, <2>2
<1> QED
  BY <1>2, <1>3

LEMMA CriteriaWrittenStep == AnalysisInv /\ CriteriaWritten => AnalysisInv' /\ Running'
<1> SUFFICES ASSUME AnalysisInv, CriteriaWritten PROVE AnalysisInv' /\ Running'
  OBVIOUS
<1> DEFINE n == Len(stack)
<1>1. Active({"Write"}, Nodes) /\ Top.at = Len(input.children[Top.node])
  BY DEF CriteriaWritten
<1>2. input \in Input /\ stack \in Seq(CallFrame) /\ stack # <<>> /\ Top \in CallFrame
      /\ Top = stack[n] /\ n \in Nat /\ n \in DOMAIN stack /\ DOMAIN stack = 1 .. n
      /\ Top.node \in Nodes /\ Top.node \notin Definitions
      /\ Writing(stack, ret, input, result, testResult)
  BY <1>1, InvFacts, WhenWriting, DistinctNames DEF Top
<1>3. stack' = SubSeq(stack, 1, n - 1)
      /\ UNCHANGED <<input, todo, ret, cached, result, testResult, reported, written>>
  BY DEF CriteriaWritten, Return
<1>4. /\ stack' \in Seq(CallFrame) /\ Len(stack') = n - 1
      /\ \A i \in 1 .. n - 1 : stack'[i] = stack[i]
  BY <1>2, <1>3, PopFacts
<1> HIDE DEF n
<1>5. Left(Top, input) = {}
  <2>1. Top.at \in Nat
    BY <1>2 DEF CallFrame
  <2>2. Top.at + 1 .. Len(input.children[Top.node]) = {}
    BY <1>1, <2>1
  <2>3. LaterChildren(Top, input) = {}
    BY <2>2 DEF LaterChildren
  <2> QED
    BY <1>2, <2>3 DEF Left
<1>6. LosesNothing(stack, stack', Ids(written'), input)
  <2>1. OthersAwait(stack, Ids(written'), input)
    BY <1>2, <1>5 DEF OthersAwait, n
  <2> QED
    BY <1>2, <1>3, <2>1, PopLosesNothing DEF n
<1>7. ret = "none"
  <2>1. ret # "none" => n = 1
    BY <1>2 DEF Writing, n
  <2> QED
    BY <1>2, <2>1 DEF Writing
<1>8. Writing(stack', ret', input, result, testResult)
  <2>1. DOMAIN stack' = 1 .. n - 1
    BY <1>4
  <2>2. \A i \in DOMAIN stack' : i \in DOMAIN stack /\ stack'[i] = stack[i]
    BY <1>2, <1>4, <2>1
  <2> QED
    BY <1>2, <1>3, <1>7, <2>2 DEF Writing
<1>9. RecordsGrow(written, written', result, testResult)
      /\ NewGoOn(stack', Ids(written), Ids(written'), input)
  BY <1>3 DEF RecordsGrow, NewGoOn
<1>10. ret' \in Results \cup {"none"}
  BY <1>3, <1>7
<1> QED
  BY <1>2, <1>3, <1>4, <1>6, <1>8, <1>9, <1>10, WritingStep

LEMMA IsWrittenMeans == \A x : IsWritten(x) <=> x \in Ids(written)
BY DEF IsWritten, Ids

LEMMA NothingNew ==
  ASSUME NEW stk, NEW rec, NEW rec2, NEW in, (rec2 \ rec) \cap Definitions = {}
  PROVE  NewGoOn(stk, rec, rec2, in)
BY DEF NewGoOn

\* The facts that the write actions have in common.
LEMMA WritingFacts ==
  ASSUME AnalysisInv, NEW S, Active({"Write"}, S)
  PROVE  /\ input \in Input /\ Acyclic(input) /\ stack \in Seq(CallFrame) /\ stack # <<>>
         /\ Top \in CallFrame /\ Top = stack[Len(stack)] /\ Len(stack) \in Nat
         /\ Len(stack) \in DOMAIN stack /\ DOMAIN stack = 1 .. Len(stack)
         /\ Top.node \in S /\ Top.node \in Elements /\ Top.call = "Write"
         /\ Writing(stack, ret, input, result, testResult)
         /\ Settled(Top.node, input, result, testResult)
         /\ result \in [Definitions -> Results \cup {"none"}]
         /\ testResult \in [Tests -> Results \cup {"none"}]
         /\ written \in Seq(Record)
         /\ Top.node \in Nodes => ret = "none"
<1>1. Top.node \in Nodes => ret = "none"
  <2> SUFFICES ASSUME Top.node \in Nodes, ret # "none" PROVE FALSE
    OBVIOUS
  <2>1. Len(stack) = 1 /\ stack[1].node \in Definitions
    BY WhenWriting DEF Writing
  <2> QED
    BY <2>1, DistinctNames DEF Top
<1>2. /\ result \in [Definitions -> Results \cup {"none"}]
      /\ testResult \in [Tests -> Results \cup {"none"}]
      /\ written \in Seq(Record)
  BY DEF AnalysisInv, TypeOK, Record
<1> QED
  BY <1>1, <1>2, InvFacts, WhenWriting DEF Top

LEMMA WritePops ==
  ASSUME AnalysisInv, NEW S, Active({"Write"}, S), stack' = SubSeq(stack, 1, Len(stack) - 1),
         NEW r
  PROVE  /\ stack' \in Seq(CallFrame)
         /\ r = "none" => Writing(stack', r, input, result, testResult)
<1> DEFINE n == Len(stack)
<1>1. /\ stack' \in Seq(CallFrame) /\ Len(stack') = n - 1
      /\ \A i \in 1 .. n - 1 : stack'[i] = stack[i]
  BY WritingFacts, PopFacts
<1>2. n \in Nat /\ DOMAIN stack = 1 .. n /\ Writing(stack, ret, input, result, testResult)
  BY WritingFacts
<1> HIDE DEF n
<1>3. DOMAIN stack' = 1 .. n - 1
  BY <1>1
<1>4. \A i \in DOMAIN stack' : i \in DOMAIN stack /\ stack'[i] = stack[i]
  BY <1>1, <1>2, <1>3
<1> QED
  BY <1>1, <1>2, <1>4 DEF Writing

LEMMA AlreadyWrittenStep == AnalysisInv /\ AlreadyWritten => AnalysisInv' /\ Running'
<1> SUFFICES ASSUME AnalysisInv, AlreadyWritten PROVE AnalysisInv' /\ Running'
  OBVIOUS
<1> DEFINE n == Len(stack)
           d == Top.node
<1>1. Active({"Write"}, Definitions) /\ IsWritten(d)
  BY DEF AlreadyWritten
<1>2. input \in Input /\ Acyclic(input) /\ stack \in Seq(CallFrame) /\ stack # <<>>
      /\ Top = stack[n] /\ n \in Nat /\ DOMAIN stack = 1 .. n
      /\ d \in Definitions /\ d \in Elements
  BY <1>1, WritingFacts
<1>3. stack' = SubSeq(stack, 1, n - 1) /\ ret' = "none"
      /\ UNCHANGED <<input, todo, cached, result, testResult, reported, written>>
  BY DEF AlreadyWritten, Return
<1>4. stack' \in Seq(CallFrame) /\ Writing(stack', ret', input, result, testResult)
  BY <1>1, <1>3, WritePops
<1> HIDE DEF n, d
<1>5. d \in Ids(written)
  BY <1>1, IsWrittenMeans
<1>6. ASSUME NEW m \in Parsed(d, input) \cap Definitions, m \notin Ids(written)
      PROVE  \E i \in 1 .. n - 1 : /\ stack[i].call = "Write" /\ stack[i].node \in Below(d, input)
                                   /\ m \in Left(stack[i], input)
  <2>1. Awaited(m, Below(d, input), stack, input)
    BY <1>2, <1>5, <1>6 DEF AnalysisInv, RecordsGoOn
  <2>2. PICK i \in DOMAIN stack : /\ stack[i].call = "Write" /\ stack[i].node \in Below(d, input)
                                  /\ m \in Left(stack[i], input)
    BY <2>1 DEF Awaited
  <2>3. i # n
    BY <1>2, <2>2, AcyclicFacts DEF d
  <2>4. i \in 1 .. n - 1
    BY <1>2, <2>3
  <2> QED
    BY <2>2, <2>4
<1>7. LosesNothing(stack, stack', Ids(written'), input)
  <2>1. Left(stack[n], input) = Parsed(d, input) /\ stack[n].node = d
    BY <1>2 DEF Left, d
  <2>2. ASSUME NEW S \in SUBSET Elements, \A k \in S : Parsed(k, input) \subseteq S,
               NEW m \in Left(stack[n], input) \cap Definitions, stack[n].node \in S
        PROVE  m \in Ids(written) \/ \E i \in 1 .. n - 1 :
                 stack[i].call = "Write" /\ stack[i].node \in S /\ m \in Left(stack[i], input)
    <3>1. Below(d, input) \subseteq S
      BY <1>2, <2>1, <2>2, BelowFacts
    <3> QED
      BY <1>6, <2>1, <2>2, <3>1
  <2> QED
    <3>1. OthersAwait(stack, Ids(written'), input)
      BY <1>3, <2>2, Zenon DEF OthersAwait, n
    <3> QED
      BY <1>2, <1>3, <3>1, PopLosesNothing DEF n
<1>8. RecordsGrow(written, written', result, testResult)
      /\ NewGoOn(stack', Ids(written), Ids(written'), input)
  BY <1>3, NothingNew DEF RecordsGrow
<1>9. ret' \in Results \cup {"none"}
  BY <1>3
<1> QED
  BY <1>2, <1>3, <1>4, <1>7, <1>8, <1>9, WritingStep

\* What Frame makes.
LEMMA FrameFacts ==
  ASSUME NEW call \in Calls, NEW m \in Elements
  PROVE  /\ Frame(call, m) \in CallFrame
         /\ Frame(call, m).call = call /\ Frame(call, m).node = m
         /\ Frame(call, m).at = 0 /\ Frame(call, m).results = <<>>
<1>1. <<>> \in Seq(Results) /\ 0 \in Nat
  OBVIOUS
<1> QED
  BY <1>1 DEF Frame, CallFrame

\* A call of Write, as Writing has them.
WriteIsRight(f, in, res, tres) ==
  /\ f \in CallFrame /\ f.call = "Write"
  /\ Settled(f.node, in, res, tres)
  /\ f.node \in Nodes => f.at <= Len(in.children[f.node])

\* The last call of Write is replaced, and perhaps makes another.
LEMMA WritesStayRight ==
  ASSUME NEW in \in Input, NEW stk \in Seq(CallFrame), stk # <<>>, NEW r, NEW res, NEW tres,
         Writing(stk, r, in, res, tres), NEW f, NEW stk2,
         stk2 = [stk EXCEPT ![Len(stk)] = f], WriteIsRight(f, in, res, tres)
  PROVE  /\ stk2 \in Seq(CallFrame) /\ Len(stk2) = Len(stk) /\ DOMAIN stk2 = DOMAIN stk
         /\ Len(stk) \in DOMAIN stk /\ stk2[Len(stk)] = f
         /\ \A i \in DOMAIN stk : i # Len(stk) => stk2[i] = stk[i]
         /\ Writing(stk2, "none", in, res, tres)
<1> DEFINE n == Len(stk)
<1>0. f \in CallFrame
  BY DEF WriteIsRight
<1>1. /\ stk2 \in Seq(CallFrame) /\ Len(stk2) = n /\ DOMAIN stk2 = DOMAIN stk
      /\ n \in DOMAIN stk /\ stk2[n] = f
      /\ \A i \in DOMAIN stk : i # n => stk2[i] = stk[i]
  BY <1>0
<1> HIDE DEF n
<1>2. Writing(stk2, "none", in, res, tres)
  BY <1>1, Zenon DEF Writing, WriteIsRight
<1> QED
  BY <1>1, <1>2 DEF n

LEMMA WriteCalls ==
  ASSUME NEW in \in Input, NEW stk \in Seq(CallFrame), NEW res, NEW tres,
         Writing(stk, "none", in, res, tres), NEW g, NEW stk2,
         stk2 = Append(stk, g), WriteIsRight(g, in, res, tres)
  PROVE  /\ stk2 \in Seq(CallFrame) /\ Len(stk) + 1 \in DOMAIN stk2 /\ stk2[Len(stk) + 1] = g
         /\ \A i \in DOMAIN stk : i \in DOMAIN stk2 /\ stk2[i] = stk[i]
         /\ Writing(stk2, "none", in, res, tres)
<1>0. g \in CallFrame
  BY DEF WriteIsRight
<1>1. /\ stk2 \in Seq(CallFrame) /\ Len(stk) + 1 \in DOMAIN stk2 /\ stk2[Len(stk) + 1] = g
      /\ \A i \in DOMAIN stk : i \in DOMAIN stk2 /\ stk2[i] = stk[i]
      /\ \A i \in DOMAIN stk2 : i \in DOMAIN stk \/ i = Len(stk) + 1
  BY <1>0
<1>2. \A i \in DOMAIN stk2 :
        /\ stk2[i].call = "Write"
        /\ Settled(stk2[i].node, in, res, tres)
        /\ stk2[i].node \in Nodes => stk2[i].at <= Len(in.children[stk2[i].node])
  BY <1>1, Zenon DEF Writing, WriteIsRight
<1> QED
  BY <1>1, <1>2 DEF Writing

\* The record of a definition, or of a test.
LEMMA DefinitionRecord ==
  ASSUME AnalysisInv, NEW d \in Definitions, ~ IsWritten(d), result[d] # "none"
  PROVE  NewRecord([id |-> d, result |-> result[d]], written, result, testResult)
<1>1. result[d] \in Results /\ d \notin Tests
  BY DistinctNames DEF AnalysisInv, TypeOK
<1> QED
  BY <1>1, IsWrittenMeans DEF NewRecord, Record

LEMMA TestRecord ==
  ASSUME AnalysisInv, NEW t \in Tests, ~ IsWritten(t), testResult[t] # "none"
  PROVE  NewRecord([id |-> t, result |-> testResult[t]], written, result, testResult)
<1>1. testResult[t] \in Results /\ t \notin Definitions
  BY DistinctNames DEF AnalysisInv, TypeOK
<1> QED
  BY <1>1, IsWrittenMeans DEF NewRecord, Record

LEMMA WriteDefinitionStep == AnalysisInv /\ WriteDefinition => AnalysisInv' /\ Running'
<1> SUFFICES ASSUME AnalysisInv, WriteDefinition PROVE AnalysisInv' /\ Running'
  OBVIOUS
<1> DEFINE n == Len(stack)
           d == Top.node
           e == [id |-> d, result |-> result[d]]
           root == input.root[d]
<1>1. Active({"Write"}, Definitions) /\ ~ IsWritten(d)
  BY DEF WriteDefinition
<1>2. input \in Input /\ stack \in Seq(CallFrame) /\ stack # <<>>
      /\ Top = stack[n] /\ stack[n].node = d /\ n \in Nat /\ DOMAIN stack = 1 .. n
      /\ d \in Definitions /\ d \in Elements /\ Settled(d, input, result, testResult)
      /\ Writing(stack, ret, input, result, testResult)
      /\ written \in Seq(Record)
  BY <1>1, WritingFacts
<1>3. written' = Append(written, e) /\ ret' = "none"
      /\ UNCHANGED <<input, todo, cached, result, testResult, reported>>
  BY DEF WriteDefinition, Written
<1>4. IF root = "none" THEN stack' = SubSeq(stack, 1, n - 1)
      ELSE stack' = [stack EXCEPT ![n] = Frame("Write", root)]
  BY DEF WriteDefinition, Return, Continue
<1>5. result[d] # "none"
  BY <1>2, ParsedFacts DEF Settled
<1>6. NewRecord(e, written, result, testResult)
  BY <1>1, <1>2, <1>5, DefinitionRecord
<1>7. e.id = d
  OBVIOUS
<1> HIDE DEF n, d, e, root
<1>8. RecordsGrow(written, written', result, testResult)
  BY <1>3, <1>6 DEF RecordsGrow, NewRecord
<1>9. Ids(written') = Ids(written) \cup {d}
  <2>1. written \in Seq(Record) /\ written' = Append(written, e)
    BY <1>2, <1>3
  <2>2. Ids(written') = Ids(written) \cup {e.id}
    BY <2>1, AppendRecord
  <2> QED
    BY <1>7, <2>2
<1>10. CASE root = "none"
  <2>1. stack' = SubSeq(stack, 1, n - 1)
    BY <1>4, <1>10
  <2>2. stack' \in Seq(CallFrame) /\ Writing(stack', ret', input, result, testResult)
    BY <1>1, <1>3, <2>1, WritePops DEF n
  <2>3. Parsed(d, input) = {d}
    <3>1. RefersTo(d, input) = {}
      BY <1>2, <1>10 DEF RefersTo, root
    <3> QED
      BY <1>2, <3>1, BelowFacts DEF Below
  <2>4. OthersAwait(stack, Ids(written'), input)
    <3>1. Left(stack[n], input) = {d}
      BY <1>2, <2>3 DEF Left
    <3> QED
      BY <1>9, <3>1 DEF OthersAwait, n
  <2>5. LosesNothing(stack, stack', Ids(written'), input)
    BY <1>2, <2>1, <2>4, PopLosesNothing DEF n
  <2>6. NewGoOn(stack', Ids(written), Ids(written'), input)
    BY <1>9, <2>3 DEF NewGoOn
  <2>7. ret' \in Results \cup {"none"}
    BY <1>3
  <2> QED
    BY <1>2, <1>3, <1>8, <2>2, <2>5, <2>6, <2>7, WritingStep
<1>11. CASE root # "none"
  <2> DEFINE f == Frame("Write", root)
  <2>1. root \in Elements /\ root \in RefersTo(d, input)
    BY <1>2, <1>11 DEF RefersTo, root, Input, Elements
  <2>2. f \in CallFrame /\ f.call = "Write" /\ f.node = root /\ f.at = 0
    BY <2>1, FrameFacts DEF Calls
  <2>3. stack' = [stack EXCEPT ![n] = f]
    BY <1>4, <1>11
  <2>4. Settled(root, input, result, testResult)
    BY <1>2, <2>1, BelowFacts, SettledPart
  <2> HIDE DEF f
  <2>5. f.node \in Nodes => f.at <= Len(input.children[f.node])
    BY <1>2, <2>2, ChildFacts
  <2>6. stack' \in Seq(CallFrame) /\ Writing(stack', "none", input, result, testResult)
    <3>1. WriteIsRight(f, input, result, testResult)
      BY <2>2, <2>4, <2>5 DEF WriteIsRight
    <3> QED
      BY <1>2, <2>3, <3>1, WritesStayRight DEF n
  <2>7. /\ LosesNothing(stack, stack', Ids(written'), input)
        /\ \A m \in Parsed(d, input) \cap Definitions :
             m \in Ids(written') \/ Awaited(m, Below(d, input), stack', input)
    <3>1. d \in Ids(written') /\ n = Len(stack) /\ root = input.root[d]
      BY <1>9 DEF n, root
    <3> QED
      BY <1>2, <1>11, <2>2, <2>3, <3>1, WriteDefinitionLosesNothing
  <2>8. NewGoOn(stack', Ids(written), Ids(written'), input)
    BY <1>9, <2>7 DEF NewGoOn
  <2>9. ret' \in Results \cup {"none"} /\ Writing(stack', ret', input, result, testResult)
    BY <1>3, <2>6
  <2> QED
    BY <1>2, <1>3, <1>8, <2>6, <2>7, <2>8, <2>9, WritingStep
<1> QED
  BY <1>10, <1>11

LEMMA WriteChildStep == AnalysisInv /\ WriteChild => AnalysisInv' /\ Running'
<1> SUFFICES ASSUME AnalysisInv, WriteChild PROVE AnalysisInv' /\ Running'
  OBVIOUS
<1> DEFINE n == Len(stack)
           node == Top.node
           child == input.children[node][Top.at + 1]
           ref == child.ref
           f == [Top EXCEPT !.at = @ + 1]
           stk == [stack EXCEPT ![n] = f]
<1>1. Active({"Write"}, Nodes) /\ Top.at < Len(input.children[node])
      /\ UNCHANGED <<input, todo, ret, cached, result, testResult, reported>>
  BY DEF WriteChild
<1>2. input \in Input /\ stack \in Seq(CallFrame) /\ stack # <<>>
      /\ Top \in CallFrame /\ Top = stack[n] /\ stack[n].node = node
      /\ n \in Nat /\ n \in DOMAIN stack /\ DOMAIN stack = 1 .. n
      /\ node \in Nodes /\ node \in Elements /\ Settled(node, input, result, testResult)
      /\ Writing(stack, ret, input, result, testResult) /\ ret = "none" /\ Top.call = "Write"
  BY <1>1, WritingFacts
<1>3. /\ ref \in Tests => /\ stack' = stk
                          /\ IF IsWritten(ref) THEN written' = written
                             ELSE written' = Append(written, [id |-> ref, result |-> testResult[ref]])
      /\ ref \notin Tests => stack' = Append(stk, Frame("Write", ref)) /\ written' = written
  BY DEF WriteChild, Continue, Written
<1>4. /\ f \in CallFrame /\ f.node = node /\ f.call = "Write"
      /\ f.at <= Len(input.children[node])
      /\ ref \in Things
      /\ ref \notin Tests => ref \in RefersTo(node, input) /\ ref \in Elements
      /\ \A m \in Left(Top, input) : m \in Left(f, input) \/ (ref \notin Tests /\ m \in Parsed(ref, input))
  <2>1. f = [Top EXCEPT !.at = @ + 1] /\ ref = input.children[Top.node][Top.at + 1].ref
    OBVIOUS
  <2>2. /\ input \in Input /\ Top \in CallFrame /\ Top.node \in Nodes
        /\ Top.at < Len(input.children[Top.node])
    BY <1>1, <1>2
  <2> HIDE DEF f, ref
  <2>3. /\ f \in CallFrame /\ f.node = Top.node /\ f.call = Top.call
        /\ f.at <= Len(input.children[Top.node])
        /\ ref \in Things
        /\ ref \notin Tests => ref \in RefersTo(Top.node, input) /\ ref \in Elements
        /\ \A m \in Left(Top, input) :
             m \in Left(f, input) \/ (ref \notin Tests /\ m \in Parsed(ref, input))
    BY <2>1, <2>2, AdvanceFacts
  <2> QED
    BY <1>2, <2>3
<1>5. ChildSettled(child, input, result, testResult)
  <2>1. Top.at + 1 \in DOMAIN input.children[node]
    <3>1. Top.at \in Nat
      BY <1>2 DEF CallFrame
    <3> QED
      BY <1>1, <1>2, <3>1, ChildFacts
  <2> QED
    BY <1>2, <2>1, SettledNode
<1>6. ret' = "none" /\ ret' \in Results \cup {"none"}
  BY <1>1, <1>2
<1>7. WriteIsRight(f, input, result, testResult)
  BY <1>2, <1>4 DEF WriteIsRight
<1> HIDE DEF n, node, child, f, stk
<1>8. /\ stk \in Seq(CallFrame) /\ Len(stk) = n /\ DOMAIN stk = DOMAIN stack /\ stk[n] = f
      /\ \A i \in DOMAIN stack : i # n => stk[i] = stack[i]
      /\ Writing(stk, "none", input, result, testResult)
  <2>1. stk = [stack EXCEPT ![Len(stack)] = f]
    BY DEF stk, n
  <2>2. /\ stk \in Seq(CallFrame) /\ Len(stk) = Len(stack) /\ DOMAIN stk = DOMAIN stack
        /\ stk[Len(stack)] = f
        /\ \A i \in DOMAIN stack : i # Len(stack) => stk[i] = stack[i]
        /\ Writing(stk, "none", input, result, testResult)
    <3>1. input \in Input /\ stack \in Seq(CallFrame) /\ stack # <<>>
          /\ Writing(stack, ret, input, result, testResult)
      BY <1>2
    <3>2. /\ stk \in Seq(CallFrame) /\ Len(stk) = Len(stack) /\ DOMAIN stk = DOMAIN stack
          /\ stk[Len(stack)] = f
      BY <1>7, <2>1, <3>1, WritesStayRight
    <3>3. \A i \in DOMAIN stack : i # Len(stack) => stk[i] = stack[i]
      BY <1>7, <2>1, <3>1, WritesStayRight
    <3>4. Writing(stk, "none", input, result, testResult)
      BY <1>7, <2>1, <3>1, WritesStayRight
    <3> QED
      BY <3>2, <3>3, <3>4
  <2> QED
    BY <2>2 DEF n
<1>9. CASE ref \in Tests
  <2>1. stack' = stk
    BY <1>3, <1>9
  <2>2. LosesNothing(stack, stack', Ids(written'), input)
    <3>1. \A m \in Left(stack[n], input) : m \in Left(f, input)
      BY <1>2, <1>4, <1>9
    <3> QED
      BY <1>2, <1>4, <1>8, <2>1, <3>1, AdvanceLosesNothing
  <2>3. testResult[ref] # "none"
    BY <1>5, <1>9 DEF ChildSettled
  <2>4. RecordsGrow(written, written', result, testResult)
        /\ (Ids(written') \ Ids(written)) \cap Definitions = {}
    <3>1. CASE IsWritten(ref)
      BY <1>3, <1>9, <3>1 DEF RecordsGrow
    <3>2. CASE ~ IsWritten(ref)
      <4> DEFINE e == [id |-> ref, result |-> testResult[ref]]
      <4>1. written' = Append(written, e) /\ e.id = ref
        BY <1>3, <1>9, <3>2
      <4>2. NewRecord(e, written, result, testResult)
        BY <1>9, <2>3, <3>2, TestRecord
      <4> HIDE DEF e
      <4>3. written \in Seq(Record)
        BY DEF AnalysisInv, TypeOK, Record
      <4>4. Ids(written') = Ids(written) \cup {e.id}
        BY <4>1, <4>3, AppendRecord
      <4>5. ref \notin Definitions
        BY <1>9, DistinctNames
      <4>6. RecordsGrow(written, written', result, testResult)
        BY <4>1, <4>2 DEF RecordsGrow, NewRecord
      <4> QED
        BY <4>1, <4>4, <4>5, <4>6
    <3> QED
      BY <3>1, <3>2
  <2>5. NewGoOn(stack', Ids(written), Ids(written'), input)
    BY <2>4, NothingNew
  <2>6. Writing(stack', ret', input, result, testResult) /\ stack' \in Seq(CallFrame)
    BY <1>6, <1>8, <2>1
  <2> QED
    BY <1>1, <1>2, <1>6, <2>2, <2>4, <2>5, <2>6, WritingStep
<1>10. CASE ref \notin Tests
  <2> DEFINE g == Frame("Write", ref)
  <2>1. stack' = Append(stk, g) /\ written' = written
    BY <1>3, <1>10
  <2>2. g \in CallFrame /\ g.call = "Write" /\ g.node = ref /\ g.at = 0
    BY <1>4, <1>10, FrameFacts DEF Calls
  <2>3. Settled(ref, input, result, testResult)
    BY <1>5, <1>10 DEF ChildSettled
  <2> HIDE DEF g, ref
  <2>4. WriteIsRight(g, input, result, testResult)
    <3>1. g.node \in Nodes => g.at <= Len(input.children[g.node])
      BY <1>2, <2>2, ChildFacts
    <3> QED
      BY <2>2, <2>3, <3>1 DEF WriteIsRight
  <2>5. /\ stack' \in Seq(CallFrame) /\ n + 1 \in DOMAIN stack' /\ stack'[n + 1] = g
        /\ \A i \in DOMAIN stk : i \in DOMAIN stack' /\ stack'[i] = stk[i]
        /\ Writing(stack', "none", input, result, testResult)
    <3>1. /\ stack' \in Seq(CallFrame) /\ Len(stk) + 1 \in DOMAIN stack' /\ stack'[Len(stk) + 1] = g
          /\ \A i \in DOMAIN stk : i \in DOMAIN stack' /\ stack'[i] = stk[i]
          /\ Writing(stack', "none", input, result, testResult)
      <4>1. input \in Input /\ stk \in Seq(CallFrame)
            /\ Writing(stk, "none", input, result, testResult)
        BY <1>2, <1>8
      <4>2. /\ stack' \in Seq(CallFrame)
            /\ Len(stk) + 1 \in DOMAIN stack' /\ stack'[Len(stk) + 1] = g
        BY <2>1, <2>4, <4>1, WriteCalls
      <4>3. \A i \in DOMAIN stk : i \in DOMAIN stack' /\ stack'[i] = stk[i]
        BY <2>1, <2>4, <4>1, WriteCalls
      <4>4. Writing(stack', "none", input, result, testResult)
        BY <2>1, <2>4, <4>1, WriteCalls
      <4> QED
        BY <4>2, <4>3, <4>4
    <3> QED
      BY <1>8, <3>1
  <2>6. LosesNothing(stack, stack', Ids(written'), input)
    <3>1. ref \in Below(node, input)
      BY <1>2, <1>4, <1>10, BelowFacts
    <3>2. \A m \in Parsed(ref, input) \cap Definitions : m \in Left(g, input)
      BY <1>2, <2>2, FreshLeft
    <3>3. \A m \in Left(stack[n], input) \cap Definitions :
            m \in Left(f, input) \/ Awaited(m, Below(stack[n].node, input), stack', input)
      BY <1>2, <1>4, <2>2, <2>5, <3>1, <3>2 DEF Awaited
    <3>4. stack'[n] = f /\ \A i \in DOMAIN stack :
            i \in DOMAIN stack' /\ (i # n => stack'[i] = stack[i])
      BY <1>2, <1>8, <2>5
    <3> QED
      BY <1>2, <1>4, <3>3, <3>4, AdvanceLosesNothing
  <2>7. RecordsGrow(written, written', result, testResult)
        /\ NewGoOn(stack', Ids(written), Ids(written'), input)
    BY <2>1, NothingNew DEF RecordsGrow
  <2>8. Writing(stack', ret', input, result, testResult)
    BY <1>6, <2>5
  <2> QED
    BY <1>1, <1>2, <1>6, <2>5, <2>6, <2>7, <2>8, WritingStep
<1> QED
  BY <1>9, <1>10

-----------------------------------------------------------------------------
\* The loops of Analyzer::Run over the definitions.

\* The list of tasks.
Task == [call : Evaluating, id : Definitions \cup UnknownIds]

LEMMA TailFacts ==
  ASSUME NEW S, NEW s \in Seq(S), s # <<>>
  PROVE  /\ Tail(s) \in Seq(S) /\ 1 \in DOMAIN s /\ Head(s) = s[1] /\ Head(s) \in S
         /\ \A i \in DOMAIN Tail(s) : i + 1 \in DOMAIN s /\ Tail(s)[i] = s[i + 1] /\ 1 < i + 1
         /\ \A i \in DOMAIN s : i = 1 \/ (1 < i /\ \E j \in DOMAIN Tail(s) : Tail(s)[j] = s[i])
         /\ \A i, j \in DOMAIN Tail(s) : i < j => i + 1 < j + 1
<1> DEFINE n == Len(s)
           t == Tail(s)
<1>1. n \in Nat /\ n >= 1 /\ DOMAIN s = 1 .. n
  OBVIOUS
<1>2. t \in Seq(S) /\ Len(t) = n - 1 /\ \A i \in 1 .. n - 1 : t[i] = s[i + 1]
  OBVIOUS
<1>3. Head(s) = s[1] /\ s[1] \in S
  OBVIOUS
<1> HIDE DEF n, t
<1>4. DOMAIN t = 1 .. n - 1
  BY <1>2
<1>5. \A i \in 1 .. n - 1 : i + 1 \in 1 .. n /\ 1 < i + 1
  BY <1>1
<1>6. \A i \in 1 .. n : i = 1 \/ (1 < i /\ i - 1 \in 1 .. n - 1 /\ (i - 1) + 1 = i)
  BY <1>1
<1>7. 1 \in 1 .. n /\ \A i, j \in 1 .. n - 1 : i < j => i + 1 < j + 1
  BY <1>1
<1>8. /\ \A i \in DOMAIN t : i + 1 \in DOMAIN s /\ t[i] = s[i + 1] /\ 1 < i + 1
      /\ \A i \in DOMAIN s : i = 1 \/ (1 < i /\ \E j \in DOMAIN t : t[j] = s[i])
      /\ 1 \in DOMAIN s /\ \A i, j \in DOMAIN t : i < j => i + 1 < j + 1
  BY <1>1, <1>2, <1>4, <1>5, <1>6, <1>7
<1> QED
  BY <1>2, <1>3, <1>8 DEF t

LEMMA AskFacts ==
  ASSUME NEW call \in Evaluating, NEW ids \in Seq(Definitions \cup UnknownIds)
  PROVE  /\ Ask(call, ids) \in Seq(Task)
         /\ DOMAIN Ask(call, ids) = DOMAIN ids
         /\ \A i \in DOMAIN ids : Ask(call, ids)[i].call = call /\ Ask(call, ids)[i].id = ids[i]
<1>1. \A i \in DOMAIN ids : ids[i] \in Definitions \cup UnknownIds
  OBVIOUS
<1>2. \A i \in DOMAIN ids : [call |-> call, id |-> ids[i]] \in Task
  BY <1>1 DEF Task
<1>3. Len(ids) \in Nat /\ DOMAIN ids = 1 .. Len(ids)
  OBVIOUS
<1>4. Ask(call, ids) = [i \in 1 .. Len(ids) |-> [call |-> call, id |-> ids[i]]]
  BY <1>3 DEF Ask
<1>5. Ask(call, ids) \in Seq(Task)
  BY <1>2, <1>3, <1>4, SeqDef
<1> QED
  BY <1>3, <1>4, <1>5

LEMMA ConcatFacts ==
  ASSUME NEW S, NEW s \in Seq(S), NEW t \in Seq(S)
  PROVE  /\ s \o t \in Seq(S)
         /\ \A i \in DOMAIN s : i \in DOMAIN (s \o t) /\ (s \o t)[i] = s[i]
         /\ \A i \in DOMAIN t : Len(s) + i \in DOMAIN (s \o t) /\ (s \o t)[Len(s) + i] = t[i]
         /\ \A i \in DOMAIN (s \o t) :
              \/ i \in DOMAIN s /\ (s \o t)[i] = s[i]
              \/ i > Len(s) /\ \E j \in DOMAIN t : (s \o t)[i] = t[j]
         /\ \A i \in DOMAIN s : i <= Len(s)
<1> DEFINE m == Len(s)
           n == Len(t)
           u == s \o t
<1>1. m \in Nat /\ n \in Nat /\ DOMAIN s = 1 .. m /\ DOMAIN t = 1 .. n
  OBVIOUS
<1>2. u \in Seq(S) /\ Len(u) = m + n
  OBVIOUS
<1>3. \A i \in 1 .. m + n : u[i] = IF i <= m THEN s[i] ELSE t[i - m]
  OBVIOUS
<1> HIDE DEF m, n, u
<1>4. DOMAIN u = 1 .. m + n
  BY <1>2
<1>5. \A i \in DOMAIN s : i \in DOMAIN u /\ u[i] = s[i] /\ i <= m
  BY <1>1, <1>3, <1>4
<1>6. \A i \in DOMAIN t : m + i \in DOMAIN u /\ u[m + i] = t[i]
  <2> TAKE i \in DOMAIN t
  <2>1. i \in 1 .. n /\ m + i \in 1 .. m + n /\ ~ (m + i <= m) /\ (m + i) - m = i
    BY <1>1
  <2> QED
    BY <1>3, <1>4, <2>1
<1>7. \A i \in DOMAIN u : \/ i \in DOMAIN s /\ u[i] = s[i]
                          \/ i > m /\ \E j \in DOMAIN t : u[i] = t[j]
  <2> TAKE i \in DOMAIN u
  <2>1. CASE i <= m
    BY <1>1, <1>3, <1>4, <2>1
  <2>2. CASE ~ (i <= m)
    <3>1. i - m \in DOMAIN t /\ i > m
      BY <1>1, <1>4, <2>2
    <3> QED
      BY <1>3, <1>4, <2>2, <3>1
  <2> QED
    BY <2>1, <2>2
<1> QED
  BY <1>2, <1>5, <1>6, <1>7 DEF m, u

LEMMA InitTasks ==
  ASSUME Init
  PROVE  todo \in Seq(Task) /\ TasksAreSorted(todo, input) /\ TasksGoOn(todo, {}, input)
<1> DEFINE order == Ask(IF input.listed THEN "NotEvaluated" ELSE "Analyze", input.order)
           ids == Ask("Analyze", input.ids)
<1>1. input \in Input /\ ListsAll(input) /\ "Analyze" \in Evaluating /\ "NotEvaluated" \in Evaluating
  BY InputsAssumption DEF Init, Evaluating
<1>2. /\ input.order \in Seq(Definitions \cup UnknownIds)
      /\ input.ids \in Seq(Definitions \cup UnknownIds)
  <2>1. input.order \in Seq(Definitions) /\ input.ids \in Seq(Definitions \cup UnknownIds)
    BY <1>1 DEF Input
  <2> QED
    BY <2>1
<1>3. todo = IF input.listed THEN ids \o order ELSE order
  BY DEF Init
<1>4. /\ order \in Seq(Task) /\ DOMAIN order = DOMAIN input.order
      /\ \A i \in DOMAIN order : /\ order[i].id = input.order[i]
                                 /\ order[i].call = IF input.listed THEN "NotEvaluated" ELSE "Analyze"
  <2>1. CASE input.listed
    BY <1>1, <1>2, <2>1, AskFacts
  <2>2. CASE ~ input.listed
    BY <1>1, <1>2, <2>2, AskFacts
  <2> QED
    BY <2>1, <2>2
<1>5. /\ ids \in Seq(Task) /\ DOMAIN ids = DOMAIN input.ids
      /\ \A i \in DOMAIN ids : ids[i].id = input.ids[i] /\ ids[i].call = "Analyze"
  BY <1>1, <1>2, AskFacts
<1> HIDE DEF order, ids
<1>6. \A d \in Definitions : \E i \in DOMAIN order : order[i].id = d
  BY <1>1, <1>4 DEF ListsAll
<1>7. CASE input.listed
  <2> DEFINE all == ids \o order
  <2>1. /\ all \in Seq(Task)
        /\ \A i \in DOMAIN ids : i \in DOMAIN all /\ all[i] = ids[i]
        /\ \A i \in DOMAIN order : Len(ids) + i \in DOMAIN all /\ all[Len(ids) + i] = order[i]
        /\ \A i \in DOMAIN all : \/ i \in DOMAIN ids /\ all[i] = ids[i]
                                 \/ i > Len(ids) /\ \E j \in DOMAIN order : all[i] = order[j]
        /\ \A i \in DOMAIN ids : i <= Len(ids)
    BY <1>4, <1>5, ConcatFacts
  <2>2. todo = all /\ Len(ids) \in Nat /\ DOMAIN all \subseteq Nat
    <3>1. Len(ids) \in Nat
      BY <1>5
    <3>2. DOMAIN all = 1 .. Len(all) /\ Len(all) \in Nat
      BY <2>1
    <3> QED
      BY <1>3, <1>7, <3>1, <3>2
  <2> HIDE DEF all
  <2>3. \A i \in DOMAIN all : (all[i].call = "NotEvaluated" => i > Len(ids))
                              /\ (i > Len(ids) => all[i].call = "NotEvaluated")
    <3> TAKE i \in DOMAIN all
    <3>1. CASE i \in DOMAIN ids /\ all[i] = ids[i]
      <4>1. i <= Len(ids) /\ ~ (i > Len(ids)) /\ all[i].call = "Analyze"
        BY <1>5, <2>1, <2>2, <3>1
      <4> QED
        BY <4>1
    <3>2. CASE i > Len(ids) /\ \E j \in DOMAIN order : all[i] = order[j]
      BY <1>4, <1>7, <3>2
    <3> QED
      BY <2>1, <3>1, <3>2
  <2>4. TasksAreSorted(all, input)
    <3> SUFFICES ASSUME NEW i \in DOMAIN all, NEW j \in DOMAIN all, i < j,
                        all[i].call = "NotEvaluated"
                 PROVE  all[j].call = "NotEvaluated"
      BY <1>7 DEF TasksAreSorted
    <3>1. i > Len(ids) /\ i \in Nat /\ j \in Nat
      BY <2>2, <2>3
    <3>2. j > Len(ids)
      BY <2>2, <3>1
    <3> QED
      BY <2>3, <3>2
  <2>5. TasksGoOn(all, {}, input)
    <3>1. \A d \in Definitions : \E i \in DOMAIN all : all[i].id = d
      BY <1>6, <2>1
    <3>2. \A k \in DOMAIN input.ids : \E i \in DOMAIN all : all[i].id = input.ids[k] /\ all[i].call = "Analyze"
      BY <1>5, <2>1
    <3> QED
      BY <3>1, <3>2 DEF TasksGoOn
  <2> QED
    BY <2>1, <2>2, <2>4, <2>5
<1>8. CASE ~ input.listed
  <2>1. todo = order /\ \A i \in DOMAIN order : order[i].call = "Analyze"
    BY <1>3, <1>4, <1>8
  <2>2. TasksAreSorted(order, input)
    BY <2>1 DEF TasksAreSorted
  <2>3. TasksGoOn(order, {}, input)
    BY <1>6, <1>8 DEF TasksGoOn
  <2> QED
    BY <1>4, <2>1, <2>2, <2>3
<1> QED
  BY <1>7, <1>8

LEMMA EmptyFacts ==
  ASSUME NEW in, NEW res, NEW tres
  PROVE  /\ Writing(<<>>, "none", in, res, tres)
         /\ \A calls : CallsOnly(<<>>, calls)
         /\ \A m, S : ~ Awaited(m, S, <<>>, in)
         /\ Ids(<<>>) = {} /\ OnceIn(<<>>)
<1>1. DOMAIN <<>> = {}
  OBVIOUS
<1> QED
  BY <1>1 DEF Writing, CallsOnly, Awaited, Ids, OnceIn

\* Between two definitions, what is recorded is complete.
LEMMA BetweenDefinitions ==
  ASSUME AnalysisInv, stack = <<>>
  PROVE  /\ ret = "none"
         /\ \A d \in cached : d \in Ids(written)
         /\ \A d \in Ids(written) \cap Definitions :
              Parsed(d, input) \cap Definitions \subseteq Ids(written)
         /\ Running => \A d \in Ids(written) \cap Definitions : result[d] # "none"
<1>1. Len(stack) = 0
  OBVIOUS
<1>2. Writing(stack, ret, input, result, testResult)
  BY <1>1 DEF AnalysisInv, StackIsRight, Evaluation
<1>3. ret = "none"
  BY <1>1, <1>2 DEF Writing
<1>4. \A m, S : ~ Awaited(m, S, stack, input)
  BY EmptyFacts
<1>5. Running => \A d \in Ids(written) \cap Definitions : result[d] # "none"
  BY WrittenFacts, NoneIsNoResult DEF Running, WrittenStands, Ids
<1> QED
  BY <1>3, <1>4, <1>5 DEF AnalysisInv, RecordsGoOn, CachedGoOn

LEMMA AnalysisInit == Init => AnalysisInv
<1> SUFFICES ASSUME Init PROVE AnalysisInv
  OBVIOUS
<1>1. input \in Inputs /\ input \in Input
  BY InputsAssumption DEF Init
<1>2. /\ stack = <<>> /\ ret = "none" /\ cached = {} /\ reported = <<>> /\ written = <<>>
      /\ result = [d \in Definitions |-> "none"] /\ testResult = [t \in Tests |-> "none"]
  BY DEF Init
<1>3. todo \in Seq(Task) /\ TasksAreSorted(todo, input) /\ TasksGoOn(todo, cached, input)
  BY <1>2, InitTasks
<1>4. TypeOK
  BY <1>1, <1>2, <1>3 DEF TypeOK, Task
<1>5. StackIsRight(stack, ret, input, result, testResult)
  BY <1>2, EmptyFacts DEF StackIsRight
<1>6. AnalyzedIsSettled(input, result, testResult)
  BY <1>2 DEF AnalyzedIsSettled
<1>7. Ids(written) = {} /\ Ids(reported) = {} /\ OnceIn(written) /\ OnceIn(reported)
  BY <1>2, EmptyFacts
<1>8. RecordsGoOn(stack, Ids(written), input) /\ CachedGoOn(stack, Ids(written), cached, input)
  BY <1>2, <1>7 DEF RecordsGoOn, CachedGoOn
<1>9. Phases
  BY <1>2, EmptyFacts DEF Phases, Analyzing, ValuesMean
<1>10. DOMAIN written = {} /\ DOMAIN reported = {}
  BY <1>2
<1>11. WrittenMeans(written, input) /\ ReportedMeans(reported, input)
       /\ WrittenStands(written, result, testResult)
  BY <1>10 DEF WrittenMeans, ReportedMeans, WrittenStands
<1>12. Running
  BY <1>2, <1>3, <1>7, <1>11 DEF Running, ReportedStands
<1> QED
  BY <1>1, <1>3, <1>4, <1>5, <1>6, <1>7, <1>8, <1>9, <1>11, <1>12 DEF AnalysisInv

\* The rest of the tasks, when the first is taken up, or skipped.
LEMMA RestOfTasks ==
  ASSUME NEW in, NEW tasks \in Seq(Task), tasks # <<>>, NEW ids, NEW ids2, ids \subseteq ids2,
         Head(tasks).id \in Definitions => Head(tasks).id \in ids2
  PROVE  /\ Tail(tasks) \in Seq(Task)
         /\ TasksAreSorted(tasks, in) => TasksAreSorted(Tail(tasks), in)
         /\ TasksGoOn(tasks, ids, in) => TasksGoOn(Tail(tasks), ids2, in)
         /\ (\A i \in DOMAIN tasks : tasks[i].call = "NotEvaluated")
              => \A i \in DOMAIN Tail(tasks) : Tail(tasks)[i].call = "NotEvaluated"
<1> DEFINE rest == Tail(tasks)
<1>1. /\ rest \in Seq(Task) /\ Head(tasks) = tasks[1]
      /\ \A i \in DOMAIN rest : i + 1 \in DOMAIN tasks /\ rest[i] = tasks[i + 1]
      /\ \A i \in DOMAIN tasks : i = 1 \/ \E j \in DOMAIN rest : rest[j] = tasks[i]
      /\ \A i, j \in DOMAIN rest : i < j => i + 1 < j + 1
  BY TailFacts
<1> HIDE DEF rest
<1>2. TasksAreSorted(tasks, in) => TasksAreSorted(rest, in)
  BY <1>1 DEF TasksAreSorted
<1>3. TasksGoOn(tasks, ids, in) => TasksGoOn(rest, ids2, in)
  BY <1>1 DEF TasksGoOn
<1>4. (\A i \in DOMAIN tasks : tasks[i].call = "NotEvaluated")
        => \A i \in DOMAIN rest : rest[i].call = "NotEvaluated"
  BY <1>1
<1> QED
  BY <1>1, <1>2, <1>3, <1>4 DEF rest

LEMMA SkipDefinitionStep == AnalysisInv /\ SkipDefinition => AnalysisInv' /\ Running'
<1> SUFFICES ASSUME AnalysisInv, SkipDefinition PROVE AnalysisInv' /\ Running'
  OBVIOUS
<1>1. /\ stack = <<>> /\ todo # <<>> /\ Head(todo).id \notin Definitions \ cached
      /\ todo' = Tail(todo)
      /\ UNCHANGED <<input, stack, ret, cached, result, testResult, reported, written>>
  BY DEF SkipDefinition
<1>2. Running
  BY <1>1 DEF AnalysisInv, Over, Done
<1>3. todo \in Seq(Task)
  BY DEF AnalysisInv, TypeOK, Task
<1>4. /\ todo' \in Seq(Task)
      /\ TasksAreSorted(todo, input) => TasksAreSorted(todo', input)
      /\ TasksGoOn(todo, cached, input) => TasksGoOn(todo', cached, input)
      /\ (\A i \in DOMAIN todo : todo[i].call = "NotEvaluated")
           => \A i \in DOMAIN todo' : todo'[i].call = "NotEvaluated"
  BY <1>1, <1>3, RestOfTasks
<1>5. TypeOK'
  BY <1>1, <1>4 DEF AnalysisInv, TypeOK, Task
<1>6. Phases'
  <2>1. CASE Analyzing(stack, input, result, testResult)
    BY <1>1, <2>1 DEF Phases
  <2>2. CASE Marking(todo, stack, input, result)
    BY <1>1, <1>4, <2>2 DEF Phases, Marking
  <2> QED
    BY <2>1, <2>2 DEF AnalysisInv, Phases
<1>7. Running'
  BY <1>1, <1>2, <1>4 DEF Running
<1>8. /\ TasksAreSorted(todo', input') /\ (input \in Inputs)'
      /\ StackIsRight(stack', ret', input', result', testResult')
      /\ AnalyzedIsSettled(input', result', testResult')
      /\ RecordsGoOn(stack', Ids(written'), input')
      /\ CachedGoOn(stack', Ids(written'), cached', input')
      /\ OnceIn(written') /\ OnceIn(reported')
      /\ WrittenMeans(written', input') /\ ReportedMeans(reported', input')
  BY <1>1, <1>4 DEF AnalysisInv
<1> QED
  BY <1>5, <1>6, <1>7, <1>8, Zenon DEF AnalysisInv

LEMMA RunDefinitionStep == AnalysisInv /\ RunDefinition => AnalysisInv' /\ Running'
<1> SUFFICES ASSUME AnalysisInv, RunDefinition PROVE AnalysisInv' /\ Running'
  OBVIOUS
<1> DEFINE d == Head(todo).id
           call == Head(todo).call
           f == Frame("Write", d)
           g == Frame(call, d)
<1>1. /\ stack = <<>> /\ todo # <<>> /\ d \in Definitions
      /\ cached' = cached \cup (Parsed(d, input) \cap Definitions)
      /\ stack' = <<f, g>> /\ todo' = Tail(todo)
      /\ UNCHANGED <<input, ret, result, testResult, reported, written>>
  BY DEF RunDefinition
<1>2. Running /\ ret = "none"
  BY <1>1, BetweenDefinitions DEF AnalysisInv, Over, Done
<1>3. todo \in Seq(Task) /\ cached \in SUBSET Definitions
  BY DEF AnalysisInv, TypeOK, Task
<1>4. input \in Input /\ Acyclic(input) /\ d \in Elements
  BY <1>1, InvFacts DEF Elements
<1>5. d \in Parsed(d, input)
  BY <1>4, ParsedFacts
<1>6. Head(todo) \in Task /\ call \in Evaluating /\ Head(todo) = todo[1] /\ 1 \in DOMAIN todo
      /\ \A i \in DOMAIN todo : i = 1 \/ 1 < i
  <2>1. Head(todo) \in Task /\ Head(todo) = todo[1] /\ 1 \in DOMAIN todo
        /\ \A i \in DOMAIN todo : i = 1 \/ 1 < i
    BY <1>1, <1>3, TailFacts
  <2> QED
    BY <2>1 DEF Task
<1>7. /\ f \in CallFrame /\ f.call = "Write" /\ f.node = d
      /\ g \in CallFrame /\ g.call = call /\ g.node = d
  BY <1>4, <1>6, FrameFacts DEF Calls, Evaluating
<1>8. cached' \in SUBSET Definitions /\ cached \subseteq cached' /\ d \in cached'
  BY <1>1, <1>3, <1>5
<1>9. /\ todo' \in Seq(Task)
      /\ TasksAreSorted(todo, input) => TasksAreSorted(todo', input)
      /\ TasksGoOn(todo, cached, input) => TasksGoOn(todo', cached', input)
      /\ (\A i \in DOMAIN todo : todo[i].call = "NotEvaluated")
           => \A i \in DOMAIN todo' : todo'[i].call = "NotEvaluated"
  BY <1>1, <1>3, <1>8, RestOfTasks
<1> HIDE DEF f, g, d, call
<1>10. /\ stack' \in Seq(CallFrame) /\ Len(stack') = 2
       /\ Evaluation(stack', "none", input, result, testResult)
  BY <1>1, <1>4, <1>6, <1>7, StartKeeps
<1>11. DOMAIN stack' = {1, 2} /\ stack'[1] = f /\ stack'[2] = g
  BY <1>1, <1>10
<1>12. TypeOK'
  BY <1>1, <1>8, <1>9, <1>10 DEF AnalysisInv, TypeOK, Task, CallFrame, Elements
<1>13. StackIsRight(stack', ret', input', result', testResult')
  BY <1>1, <1>2, <1>10 DEF StackIsRight
<1>14. RecordsGoOn(stack', Ids(written), input) /\ CachedGoOn(stack', Ids(written), cached, input)
  <2>1. LosesNothing(stack, stack', Ids(written), input)
    BY <1>1, EmptyFacts DEF LosesNothing
  <2>2. RecordsGoOn(stack, Ids(written), input) /\ CachedGoOn(stack, Ids(written), cached, input)
    BY DEF AnalysisInv
  <2> QED
    BY <1>3, <1>4, <2>1, <2>2, NothingIsLost
<1>15. CachedGoOn(stack', Ids(written), cached', input)
  <2> SUFFICES ASSUME NEW x \in cached' PROVE x \in Ids(written) \/ Awaited(x, Elements, stack', input)
    BY DEF CachedGoOn
  <2>1. CASE x \in cached
    BY <1>14, <2>1 DEF CachedGoOn
  <2>2. CASE x \in Parsed(d, input) \cap Definitions
    <3>1. x \in Left(f, input)
      BY <1>1, <1>7, <2>2 DEF Left
    <3> QED
      BY <1>4, <1>7, <1>11, <3>1 DEF Awaited
  <2> QED
    BY <1>1, <2>1, <2>2
<1>16. ASSUME Analyzing(stack, input, result, testResult), call = "NotEvaluated"
       PROVE  Marking(todo, stack, input, result)
  <2>1. \A i \in DOMAIN todo : todo[i].call = "NotEvaluated"
    BY <1>6, <1>16 DEF AnalysisInv, TasksAreSorted, call
  <2>2. input.listed
    BY <1>6, <2>1 DEF AnalysisInv, TasksAreSorted
  <2>3. ASSUME NEW x \in ToAnalyze(input) \cap Definitions
        PROVE  result[x] = Meaning(input)[x]
    <3>1. PICK y \in Definitions : (\E k \in DOMAIN input.ids : input.ids[k] = y) /\ x \in Parsed(y, input)
      BY <2>2 DEF ToAnalyze, Selected
    <3>2. y \in cached
      BY <1>2, <2>1, <2>2, <3>1 DEF Running, TasksGoOn
    <3>3. x \in Ids(written)
      BY <1>1, <3>1, <3>2, BetweenDefinitions
    <3>4. result[x] # "none"
      BY <1>1, <1>2, <3>3, BetweenDefinitions
    <3> QED
      BY <1>16, <3>4 DEF Analyzing, ValuesMean
  <2>4. CallsOnly(stack, {"NotEvaluated", "Write"})
    BY <1>1, EmptyFacts
  <2> QED
    BY <2>1, <2>3, <2>4 DEF Marking, SelectedMean
<1>17. Phases'
  <2>1. CASE call = "Analyze"
    <3>1. ~ Marking(todo, stack, input, result)
      BY <1>6, <2>1 DEF Marking, call
    <3>2. ValuesMean(input, result, testResult)
      BY <3>1 DEF AnalysisInv, Phases, Analyzing
    <3>3. CallsOnly(stack', {"Analyze", "Write"})
      BY <1>7, <1>11, <2>1 DEF CallsOnly
    <3> QED
      BY <1>1, <3>2, <3>3 DEF Phases, Analyzing
  <2>2. CASE call = "NotEvaluated"
    <3>1. Marking(todo, stack, input, result)
      BY <1>16, <2>2 DEF AnalysisInv, Phases
    <3>2. CallsOnly(stack', {"NotEvaluated", "Write"})
      BY <1>7, <1>11, <2>2 DEF CallsOnly
    <3> QED
      BY <1>1, <1>9, <3>1, <3>2 DEF Phases, Marking
  <2> QED
    BY <1>6, <2>1, <2>2 DEF Evaluating
<1>18. Running'
  BY <1>1, <1>2, <1>9 DEF Running
<1>19. /\ TasksAreSorted(todo', input') /\ (input \in Inputs)'
       /\ AnalyzedIsSettled(input', result', testResult')
       /\ OnceIn(written') /\ OnceIn(reported')
       /\ WrittenMeans(written', input') /\ ReportedMeans(reported', input')
  BY <1>1, <1>9 DEF AnalysisInv
<1>20. /\ RecordsGoOn(stack', Ids(written'), input')
       /\ CachedGoOn(stack', Ids(written'), cached', input')
  BY <1>1, <1>14, <1>15
<1> QED
  BY <1>12, <1>13, <1>17, <1>18, <1>19, <1>20, Zenon DEF AnalysisInv

LEMMA FinishStep == AnalysisInv /\ Finish => AnalysisInv'
<1> SUFFICES ASSUME AnalysisInv, Finish PROVE AnalysisInv'
  OBVIOUS
<1>1. /\ stack = <<>> /\ todo = <<>> /\ cached # {} /\ cached' = {}
      /\ result' = [d \in Definitions |-> "none"] /\ testResult' = [t \in Tests |-> "none"]
      /\ UNCHANGED <<input, todo, stack, ret, reported, written>>
  BY DEF Finish
<1>2. Running
  BY <1>1 DEF AnalysisInv, Over, Done
<1>3. Definitions \subseteq cached
  BY <1>1, <1>2 DEF Running, TasksGoOn
<1>4. Definitions \subseteq Ids(written)
  BY <1>1, <1>3, BetweenDefinitions
<1>5. Definitions \subseteq Ids(reported)
  BY <1>1, <1>2, <1>4, BetweenDefinitions DEF Running, ReportedStands
<1>6. Over'
  BY <1>1, <1>4, <1>5 DEF Over, Done
<1>7. TypeOK'
  BY <1>1 DEF AnalysisInv, TypeOK
<1>8. ret = "none" /\ \A m, S : ~ Awaited(m, S, stack, input)
  BY <1>1, BetweenDefinitions, EmptyFacts
<1>9. StackIsRight(stack', ret', input', result', testResult')
  BY <1>1, <1>8, EmptyFacts DEF StackIsRight
<1>10. AnalyzedIsSettled(input', result', testResult')
  BY <1>1 DEF AnalyzedIsSettled
<1>11. Phases'
  BY <1>1, EmptyFacts DEF Phases, Analyzing, ValuesMean
<1>12. RecordsGoOn(stack', Ids(written'), input') /\ CachedGoOn(stack', Ids(written'), cached', input')
  BY <1>1 DEF AnalysisInv, CachedGoOn
<1>13. /\ (input \in Inputs)' /\ OnceIn(written') /\ OnceIn(reported')
       /\ TasksAreSorted(todo', input')
       /\ WrittenMeans(written', input') /\ ReportedMeans(reported', input')
  BY <1>1 DEF AnalysisInv
<1> QED
  BY <1>6, <1>7, <1>9, <1>10, <1>11, <1>12, <1>13, Zenon DEF AnalysisInv

-----------------------------------------------------------------------------
\* The invariant holds, and what follows from it.

\* Each action preserves the invariant; only Finish clears the results.
LEMMA AnalysisStep == AnalysisInv /\ Next => AnalysisInv' /\ (~ Finish => Running')
<1> SUFFICES ASSUME AnalysisInv, Next PROVE AnalysisInv' /\ (~ Finish => Running')
  OBVIOUS
<1>1. CASE RunDefinition
  BY <1>1, RunDefinitionStep
<1>2. CASE SkipDefinition
  BY <1>2, SkipDefinitionStep
<1>3. CASE Finish
  BY <1>3, FinishStep
<1>4. CASE DefinitionStep
  BY <1>4, AlreadyAnalyzedStep, EnterCriteriaStep, NoCriteriaStep, CriteriaReturnsStep
     DEF DefinitionStep
<1>5. CASE CriteriaStep
  BY <1>5, AskTestStep, AskChildStep, ChildReturnsStep, CombineCriteriaStep DEF CriteriaStep
<1>6. CASE WriteStep
  BY <1>6, WriteDefinitionStep, AlreadyWrittenStep, WriteChildStep, CriteriaWrittenStep
     DEF WriteStep
<1> QED
  BY <1>1, <1>2, <1>3, <1>4, <1>5, <1>6 DEF Next

LEMMA AnalysisStutters == AnalysisInv /\ UNCHANGED vars => AnalysisInv'
BY DEF AnalysisInv, TypeOK, Phases, Running, Over, Done, vars

LEMMA AnalysisInvariant == Spec => []AnalysisInv
<1>1. AnalysisInv /\ [Next]_vars => AnalysisInv'
  BY AnalysisStep, AnalysisStutters
<1> QED
  BY <1>1, AnalysisInit, PTL DEF Spec

\* The document, the calls on the stack and the records keep their shape: a criteria
\* collects one result for each child, and what is written of a definition or a test
\* is a result and never the absence of one (Definition.cpp:191-304).
THEOREM AnalyzerIsTyped == Spec => []TypeOK
<1>1. AnalysisInv => TypeOK
  BY DEF AnalysisInv
<1> QED
  BY <1>1, AnalysisInvariant, PTL

\* In a list that has a record of x once, there is one.
LEMMA OnceMeansOne ==
  ASSUME NEW s, OnceIn(s), NEW x \in Ids(s)
  PROVE  Cardinality({i \in DOMAIN s : s[i].id = x}) = 1
<1>1. PICK i \in DOMAIN s : s[i].id = x
  BY DEF Ids
<1>2. {j \in DOMAIN s : s[j].id = x} = {i}
  BY <1>1 DEF OnceIn
<1> QED
  BY <1>2, FS_Singleton

\* A definition that is skipped because it is in the cache has been analyzed and
\* written, as a part of another one, and in the end each definition of the document
\* stands once in the results document and once in the lists, for any document and
\* any list of ids (Analyzer.cpp:183, 256, 299, Definition.cpp:191-216, 241-304).
THEOREM EveryDefinitionOnce == Spec => []CachedIsReportedOnce
<1>1. AnalysisInv => CachedIsReportedOnce
  <2> SUFFICES ASSUME AnalysisInv PROVE CachedIsReported /\ EachReportedOnce
    BY DEF CachedIsReportedOnce
  <2>1. CachedIsReported
    <3> SUFFICES ASSUME stack = <<>>, NEW d \in cached
                 PROVE  result[d] # "none" /\ IsWritten(d)
      BY DEF CachedIsReported
    <3>1. Running /\ d \in Definitions
      BY DEF AnalysisInv, Over, Done, TypeOK
    <3>2. d \in Ids(written)
      BY BetweenDefinitions
    <3> QED
      BY <3>1, <3>2, BetweenDefinitions, IsWrittenMeans
  <2>2. EachReportedOnce
    <3> SUFFICES ASSUME Done, NEW d \in Definitions
                 PROVE  d \in Ids(written) /\ d \in Ids(reported)
      BY OnceMeansOne DEF EachReportedOnce, AnalysisInv
    <3>1. ~ Running
      <4>1. DOMAIN todo = {}
        BY DEF Done
      <4> QED
        BY <4>1 DEF Running, TasksGoOn, Done
    <3> QED
      BY <3>1 DEF AnalysisInv, Over
  <2> QED
    BY <2>1, <2>2
<1> QED
  BY <1>1, AnalysisInvariant, PTL

\* Every definition is reported once, and the result that is written and listed of one
\* that is to be analyzed is the combination of the outcomes of its tests through its criteria and what it extends,
\* although it may have been met before and although the same walk marks those that
\* are not listed (Analyzer.cpp:256, 299, Definition.cpp:241-304).
THEOREM MeaningsAreReported == Spec => []ReportsTheMeaning
<1>1. AnalysisInv => MeaningIsReported
  BY DEF AnalysisInv, WrittenMeans, ReportedMeans, MeaningIsReported
<1>2. MeaningIsReported /\ CachedIsReportedOnce => ReportsTheMeaning
  BY DEF ReportsTheMeaning
<1> QED
  BY <1>1, <1>2, AnalysisInvariant, EveryDefinitionOnce, PTL

\* A definition or a test is written after its result is there, and keeps that result
\* (Definition.cpp:191-216, 241-304, Test.cpp:663-671).
THEOREM WrittenStaysFinal == Spec => WrittenIsFinal
<1> DEFINE Final == \A i \in DOMAIN written' :
                      LET id == written'[i].id
                      IN  \/ Finish
                          \/ /\ id \in Definitions => result'[id] = written'[i].result
                             /\ id \in Tests => testResult'[id] = written'[i].result
<1>1. AnalysisInv /\ [Next]_vars => [Final]_vars
  BY AnalysisStep DEF Running, WrittenStands
<1>2. Spec => [][Final]_vars
  BY <1>1, AnalysisInvariant, PTL DEF Spec
<1> QED
  BY <1>2 DEF WrittenIsFinal
=============================================================================
