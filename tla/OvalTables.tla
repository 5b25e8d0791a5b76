----------------------------- MODULE OvalTables -----------------------------
(***************************************************************************)
(* The evaluation charts of the OVAL schemas that ship with the interpreter *)
(* (xml/oval-common-schema.xsd, xml/oval-definitions-schema.xsd), written  *)
(* down row by row as the reference the combination code is compared with. *)
(* A row gives, for each of the counted values, the pattern its count must *)
(* match, and the combined value.                                          *)
(***************************************************************************)
EXTENDS Naturals, FiniteSets, Sequences

MatchesPattern(n, pattern) ==
  CASE pattern = "0"    -> n = 0
    [] pattern = "1"    -> n = 1
    [] pattern = "0,1"  -> n <= 1
    [] pattern = "0+"   -> TRUE
    [] pattern = "1+"   -> n >= 1
    [] pattern = "2+"   -> n >= 2
    [] pattern = "odd"  -> n % 2 = 1
    [] pattern = "even" -> n % 2 = 0

Occurrences(vec, x) == Cardinality({i \in DOMAIN vec : vec[i] = x})

\* The rows of a chart a vector falls under, columns being the counted values.
MatchingRows(chart, columns, vec) ==
  {row \in chart : \A c \in DOMAIN columns :
     MatchesPattern(Occurrences(vec, columns[c]), row[c])}

\* The value of the row a vector falls under (the last column of a row).
ChartValue(chart, columns, vec) ==
  LET row == CHOOSE r \in MatchingRows(chart, columns, vec) : TRUE
  IN  row[Len(columns) + 1]

ResultColumns == <<"true", "false", "error", "unknown", "not evaluated",
                   "not applicable">>

\* oval-common-schema.xsd:160-205 (CheckEnumeration), 632-684 (OperatorEnumeration).
\*                     T      F     E     U     NE    NA
AllChart == {
  <<"1+",  "0",  "0",  "0",  "0",  "0+", "true">>,
  <<"0+",  "1+", "0+", "0+", "0+", "0+", "false">>,
  <<"0+",  "0",  "1+", "0+", "0+", "0+", "error">>,
  <<"0+",  "0",  "0",  "1+", "0+", "0+", "unknown">>,
  <<"0+",  "0",  "0",  "0",  "1+", "0+", "not evaluated">>,
  <<"0",   "0",  "0",  "0",  "0",  "1+", "not applicable">>}

AtLeastOneChart == {
  <<"1+",  "0+", "0+", "0+", "0+", "0+", "true">>,
  <<"0",   "1+", "0",  "0",  "0",  "0+", "false">>,
  <<"0",   "0+", "1+", "0+", "0+", "0+", "error">>,
  <<"0",   "0+", "0",  "1+", "0+", "0+", "unknown">>,
  <<"0",   "0+", "0",  "0",  "1+", "0+", "not evaluated">>,
  <<"0",   "0",  "0",  "0",  "0",  "1+", "not applicable">>}

OnlyOneChart == {
  <<"1",   "0+", "0",  "0",  "0",  "0+", "true">>,
  <<"2+",  "0+", "0+", "0+", "0+", "0+", "false">>,
  <<"0",   "1+", "0",  "0",  "0",  "0+", "false">>,
  <<"0,1", "0+", "1+", "0+", "0+", "0+", "error">>,
  <<"0,1", "0+", "0",  "1+", "0+", "0+", "unknown">>,
  <<"0,1", "0+", "0",  "0",  "1+", "0+", "not evaluated">>,
  <<"0",   "0",  "0",  "0",  "0",  "1+", "not applicable">>}

NoneSatisfyChart == {
  <<"0",   "1+", "0",  "0",  "0",  "0+", "true">>,
  <<"1+",  "0+", "0+", "0+", "0+", "0+", "false">>,
  <<"0",   "0+", "1+", "0+", "0+", "0+", "error">>,
  <<"0",   "0+", "0",  "1+", "0+", "0+", "unknown">>,
  <<"0",   "0+", "0",  "0",  "1+", "0+", "not evaluated">>,
  <<"0",   "0",  "0",  "0",  "0",  "1+", "not applicable">>}

\* The even row of this chart also covers a vector of not applicables only; the
\* not applicable row is the more specific one.
XorChart == {
  <<"odd", "0+", "0",  "0",  "0",  "0+", "true">>,
  <<"even","0+", "0",  "0",  "0",  "0+", "false">>,
  <<"0+",  "0+", "1+", "0+", "0+", "0+", "error">>,
  <<"0+",  "0+", "0",  "1+", "0+", "0+", "unknown">>,
  <<"0+",  "0+", "0",  "0",  "1+", "0+", "not evaluated">>,
  <<"0",   "0",  "0",  "0",  "0",  "1+", "not applicable">>}

NotApplicableRow == <<"0", "0", "0", "0", "0", "1+", "not applicable">>

CheckChart == [check \in {"all", "at least one", "none satisfy", "only one"} |->
  CASE check = "all"          -> AllChart
    [] check = "at least one" -> AtLeastOneChart
    [] check = "none satisfy" -> NoneSatisfyChart
    [] check = "only one"     -> OnlyOneChart]

OperatorChart == [op \in {"AND", "ONE", "OR", "XOR"} |->
  CASE op = "AND" -> AllChart
    [] op = "ONE" -> OnlyOneChart
    [] op = "OR"  -> AtLeastOneChart
    [] op = "XOR" -> XorChart]

ChartResult(chart, vec) ==
  IF NotApplicableRow \in MatchingRows(chart, ResultColumns, vec)
    THEN "not applicable"
    ELSE ChartValue(chart, ResultColumns, vec)

-----------------------------------------------------------------------------
\* oval-common-schema.xsd:373-446 (ExistenceEnumeration), by the statuses of the
\* items.  No row of at_least_one_exists covers an object without items.
StatusColumns == <<"exists", "does not exist", "error", "not collected">>

\*                EX     DE    ER    NC
ExistenceChart == [
  all_exist |-> {
    <<"1+",  "0",  "0",  "0",  "true">>,
    <<"0",   "0",  "0",  "0",  "false">>,
    <<"0+",  "1+", "0+", "0+", "false">>,
    <<"0+",  "0",  "1+", "0+", "error">>,
    <<"0+",  "0",  "0",  "1+", "unknown">>},
  any_exist |-> {
    <<"0+",  "0+", "0",  "0+", "true">>,
    <<"1+",  "0+", "1+", "0+", "true">>,
    <<"0",   "0+", "1+", "0+", "error">>},
  at_least_one_exists |-> {
    <<"1+",  "0+", "0+", "0+", "true">>,
    <<"0",   "1+", "0",  "0",  "false">>,
    <<"0",   "0+", "1+", "0+", "error">>,
    <<"0",   "0+", "0",  "1+", "unknown">>},
  none_exist |-> {
    <<"0",   "0+", "0",  "0",  "true">>,
    <<"1+",  "0+", "0+", "0+", "false">>,
    <<"0",   "0+", "1+", "0+", "error">>,
    <<"0",   "0+", "0",  "1+", "unknown">>},
  only_one_exists |-> {
    <<"1",   "0+", "0",  "0",  "true">>,
    <<"2+",  "0+", "0+", "0+", "false">>,
    <<"0",   "0+", "0",  "0",  "false">>,
    <<"0,1", "0+", "1+", "0+", "error">>,
    <<"0,1", "0+", "0",  "1+", "unknown">>}]

HasExistenceRow(existence, vec) ==
  MatchingRows(ExistenceChart[existence], StatusColumns, vec) # {}

ChartExistence(existence, vec) ==
  ChartValue(ExistenceChart[existence], StatusColumns, vec)

-----------------------------------------------------------------------------
\* oval-definitions-schema.xsd:980-1028 (SetOperatorEnumeration).  A row is a
\* flag of the second operand, a column a flag of the first one.
FlagColumns == <<"E", "C", "I", "DNE", "NC", "NA">>

FlagAbbreviation == [flag \in {"error", "complete", "incomplete",
                              "does not exist", "not collected",
                              "not applicable"} |->
  CASE flag = "error"          -> "E"
    [] flag = "complete"       -> "C"
    [] flag = "incomplete"     -> "I"
    [] flag = "does not exist" -> "DNE"
    [] flag = "not collected"  -> "NC"
    [] flag = "not applicable" -> "NA"]

UnionChart == [
  E   |-> <<"E",   "E",   "E",   "E",   "E",   "E">>,
  C   |-> <<"E",   "C",   "I",   "C",   "I",   "C">>,
  I   |-> <<"E",   "I",   "I",   "I",   "I",   "I">>,
  DNE |-> <<"E",   "C",   "I",   "DNE", "I",   "DNE">>,
  NC  |-> <<"E",   "I",   "I",   "I",   "NC",  "NC">>,
  NA  |-> <<"E",   "C",   "I",   "DNE", "NC",  "NA">>]

IntersectionChart == [
  E   |-> <<"E",   "E",   "E",   "DNE", "E",   "E">>,
  C   |-> <<"E",   "C",   "I",   "DNE", "NC",  "C">>,
  I   |-> <<"E",   "I",   "I",   "DNE", "NC",  "I">>,
  DNE |-> <<"DNE", "DNE", "DNE", "DNE", "DNE", "DNE">>,
  NC  |-> <<"E",   "NC",  "NC",  "DNE", "NC",  "NC">>,
  NA  |-> <<"E",   "C",   "I",   "DNE", "NC",  "NA">>]

ComplementChart == [
  E   |-> <<"E",   "E",   "E",   "DNE", "E",   "E">>,
  C   |-> <<"E",   "C",   "I",   "DNE", "NC",  "E">>,
  I   |-> <<"E",   "E",   "E",   "DNE", "NC",  "E">>,
  DNE |-> <<"E",   "C",   "I",   "DNE", "NC",  "E">>,
  NC  |-> <<"E",   "NC",  "NC",  "DNE", "NC",  "E">>,
  NA  |-> <<"E",   "E",   "E",   "E",   "E",   "E">>]

SetOperatorChart == [op \in {"UNION", "INTERSECTION", "COMPLEMENT"} |->
  CASE op = "UNION"        -> UnionChart
    [] op = "INTERSECTION" -> IntersectionChart
    [] op = "COMPLEMENT"   -> ComplementChart]

\* The flag the chart of the operator gives for two operands, abbreviated.
ChartFlag(op, f1, f2) ==
  LET column == CHOOSE i \in DOMAIN FlagColumns :
                  FlagColumns[i] = FlagAbbreviation[f1]
  IN  SetOperatorChart[op][FlagAbbreviation[f2]][column]

-----------------------------------------------------------------------------
\* oval-definitions-schema.xsd:731-741: the flag of a function of several
\* components.
ComponentFlagColumns == <<"error", "complete", "incomplete", "does not exist",
                          "not collected", "not applicable">>

\*   E     C     I     DNE   NC    NA
FunctionFlagChart == {
  <<"1+", "0+", "0+", "0+", "0+", "0+", "error">>,
  <<"0",  "1+", "0",  "0",  "0",  "0",  "complete">>,
  <<"0",  "0+", "1+", "0",  "0",  "0",  "incomplete">>,
  <<"0",  "0+", "0+", "1+", "0",  "0",  "does not exist">>,
  <<"0",  "0+", "0+", "0+", "1+", "0",  "not collected">>,
  <<"0",  "0+", "0+", "0+", "0+", "1+", "not applicable">>}

ChartFunctionFlag(flags) ==
  ChartValue(FunctionFlagChart, ComponentFlagColumns, flags)
=============================================================================
