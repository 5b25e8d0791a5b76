------------------------ MODULE TestEvaluationProofs ------------------------
(***************************************************************************)
(* The result of a test is the one of the charts, but for what items that do *)
(* not exist have to say, and a verdict is founded, for objects of any size,  *)
(* any states and any answers of the states.  An                              *)
(* entity of a state follows its check, for any number of values or fields, *)
(* and values are compared as the numbers, lists and sets that they are,    *)
(* for any widths, any number of components and texts of any length, as     *)
(* long as each number fits its type.                                       *)
(***************************************************************************)
EXTENDS TestEvaluation, Entity, SharedLemmas

-----------------------------------------------------------------------------
\* The existence charts, for items of any number.

LEMMA StatusRows ==
  ASSUME NEW chart, NEW vec, NEW row
  PROVE  row \in MatchingRows(chart, StatusColumns, vec) <=>
           /\ row \in chart
           /\ MatchesPattern(Occurrences(vec, "exists"), row[1])
           /\ MatchesPattern(Occurrences(vec, "does not exist"), row[2])
           /\ MatchesPattern(Occurrences(vec, "error"), row[3])
           /\ MatchesPattern(Occurrences(vec, "not collected"), row[4])
<1> DEFINE Fits(c) == MatchesPattern(Occurrences(vec, StatusColumns[c]), row[c])
<1>1. DOMAIN StatusColumns = {1, 2, 3, 4}
  BY DEF StatusColumns
<1>2. row \in MatchingRows(chart, StatusColumns, vec) <=>
        row \in chart /\ \A c \in {1, 2, 3, 4} : Fits(c)
  BY <1>1 DEF MatchingRows
<1>3. /\ StatusColumns[1] = "exists" /\ StatusColumns[2] = "does not exist"
      /\ StatusColumns[3] = "error" /\ StatusColumns[4] = "not collected"
  BY DEF StatusColumns
<1>4. (\A c \in {1, 2, 3, 4} : Fits(c)) <=> Fits(1) /\ Fits(2) /\ Fits(3) /\ Fits(4)
  <2> HIDE DEF Fits
  <2> QED
    BY Zenon
<1> QED
  BY <1>2, <1>3, <1>4, Zenon

LEMMA StatusValueColumn == Len(StatusColumns) + 1 = 5
BY DEF StatusColumns

\* The value of an existence chart, when one row fits.
LEMMA ChartExistenceIs ==
  ASSUME NEW existence, NEW vec,
         NEW row \in MatchingRows(ExistenceChart[existence], StatusColumns, vec),
         \A r \in MatchingRows(ExistenceChart[existence], StatusColumns, vec) : r = row
  PROVE  HasExistenceRow(existence, vec) /\ ChartExistence(existence, vec) = row[5]
BY StatusValueColumn, ChartValueIs DEF ChartExistence, HasExistenceRow

LEMMA OccurringStatuses ==
  ASSUME NEW vec \in Seq(Statuses)
  PROVE  (Occurring(vec) = {} <=> vec = <<>>) /\ Occurring(vec) \subseteq Statuses
<1>1. (DOMAIN vec = {} <=> vec = <<>>) /\ \A i \in DOMAIN vec : vec[i] \in Statuses
  OBVIOUS
<1> QED
  BY <1>1, Zenon DEF Occurring

LEMMA AllExistAgrees ==
  ASSUME NEW vec \in Seq(Statuses)
  PROVE  /\ HasExistenceRow("all_exist", vec)
         /\ ChartExistence("all_exist", vec) =
              IF "does not exist" \in Occurring(vec) \/ vec = <<>> THEN "false"
              ELSE IF "error" \in Occurring(vec) THEN "error"
              ELSE IF "not collected" \in Occurring(vec) THEN "unknown"
              ELSE "true"
<1> DEFINE occ == Occurring(vec)
           chart == ExistenceChart["all_exist"]
           M == MatchingRows(chart, StatusColumns, vec)
           R1 == <<"1+", "0", "0", "0", "true">>
           R2 == <<"0", "0", "0", "0", "false">>
           R3 == <<"0+", "1+", "0+", "0+", "false">>
           R4 == <<"0+", "0", "1+", "0+", "error">>
           R5 == <<"0+", "0", "0", "1+", "unknown">>
<1>1. chart = {R1, R2, R3, R4, R5} /\ M \subseteq chart
  BY DEF ExistenceChart, MatchingRows
<1>2. \A row \in chart : row \in M <=>
        /\ MatchesPattern(Occurrences(vec, "exists"), row[1])
        /\ MatchesPattern(Occurrences(vec, "does not exist"), row[2])
        /\ MatchesPattern(Occurrences(vec, "error"), row[3])
        /\ MatchesPattern(Occurrences(vec, "not collected"), row[4])
  BY StatusRows, Zenon
<1>3. (occ = {} <=> vec = <<>>) /\ occ \subseteq Statuses
  BY OccurringStatuses
<1> HIDE DEF chart, M
<1>5. /\ R1 \in M <=> "exists" \in occ /\ "does not exist" \notin occ /\ "error" \notin occ /\ "not collected" \notin occ
      /\ R2 \in M <=> "exists" \notin occ /\ "does not exist" \notin occ /\ "error" \notin occ /\ "not collected" \notin occ
      /\ R3 \in M <=> "does not exist" \in occ
      /\ R4 \in M <=> "does not exist" \notin occ /\ "error" \in occ
      /\ R5 \in M <=> "does not exist" \notin occ /\ "error" \notin occ /\ "not collected" \in occ
  BY <1>1, <1>2, PatternMeans
<1>6. /\ R1[5] = "true" /\ R2[5] = "false" /\ R3[5] = "false" /\ R4[5] = "error"
      /\ R5[5] = "unknown"
  OBVIOUS
<1> HIDE DEF R1, R2, R3, R4, R5, occ
<1>7. \A r1, r2 \in M : r1 = r2
  BY <1>1, <1>5
<1>8. /\ R1 \in M => HasExistenceRow("all_exist", vec) /\ ChartExistence("all_exist", vec) = "true"
      /\ R2 \in M => HasExistenceRow("all_exist", vec) /\ ChartExistence("all_exist", vec) = "false"
      /\ R3 \in M => HasExistenceRow("all_exist", vec) /\ ChartExistence("all_exist", vec) = "false"
      /\ R4 \in M => HasExistenceRow("all_exist", vec) /\ ChartExistence("all_exist", vec) = "error"
      /\ R5 \in M => HasExistenceRow("all_exist", vec) /\ ChartExistence("all_exist", vec) = "unknown"
  BY <1>6, <1>7, ChartExistenceIs, Zenon DEF M, chart
<1> QED
  BY <1>3, <1>5, <1>8 DEF Statuses, occ

LEMMA AnyExistAgrees ==
  ASSUME NEW vec \in Seq(Statuses)
  PROVE  /\ HasExistenceRow("any_exist", vec)
         /\ ChartExistence("any_exist", vec) =
              IF "exists" \notin Occurring(vec) /\ "error" \in Occurring(vec) THEN "error"
              ELSE "true"
<1> DEFINE occ == Occurring(vec)
           chart == ExistenceChart["any_exist"]
           M == MatchingRows(chart, StatusColumns, vec)
           R1 == <<"0+", "0+", "0", "0+", "true">>
           R2 == <<"1+", "0+", "1+", "0+", "true">>
           R3 == <<"0", "0+", "1+", "0+", "error">>
<1>1. chart = {R1, R2, R3} /\ M \subseteq chart
  BY DEF ExistenceChart, MatchingRows
<1>2. \A row \in chart : row \in M <=>
        /\ MatchesPattern(Occurrences(vec, "exists"), row[1])
        /\ MatchesPattern(Occurrences(vec, "does not exist"), row[2])
        /\ MatchesPattern(Occurrences(vec, "error"), row[3])
        /\ MatchesPattern(Occurrences(vec, "not collected"), row[4])
  BY StatusRows, Zenon
<1>3. (occ = {} <=> vec = <<>>) /\ occ \subseteq Statuses
  BY OccurringStatuses
<1> HIDE DEF chart, M
<1>5. /\ R1 \in M <=> "error" \notin occ
      /\ R2 \in M <=> "exists" \in occ /\ "error" \in occ
      /\ R3 \in M <=> "exists" \notin occ /\ "error" \in occ
  BY <1>1, <1>2, PatternMeans
<1>6. /\ R1[5] = "true" /\ R2[5] = "true" /\ R3[5] = "error"
  OBVIOUS
<1> HIDE DEF R1, R2, R3, occ
<1>7. \A r1, r2 \in M : r1 = r2
  BY <1>1, <1>5
<1>8. /\ R1 \in M => HasExistenceRow("any_exist", vec) /\ ChartExistence("any_exist", vec) = "true"
      /\ R2 \in M => HasExistenceRow("any_exist", vec) /\ ChartExistence("any_exist", vec) = "true"
      /\ R3 \in M => HasExistenceRow("any_exist", vec) /\ ChartExistence("any_exist", vec) = "error"
  BY <1>6, <1>7, ChartExistenceIs, Zenon DEF M, chart
<1> QED
  BY <1>3, <1>5, <1>8 DEF Statuses, occ

LEMMA AtLeastOneExistsAgrees ==
  ASSUME NEW vec \in Seq(Statuses), vec # <<>>
  PROVE  /\ HasExistenceRow("at_least_one_exists", vec)
         /\ ChartExistence("at_least_one_exists", vec) =
              IF "exists" \in Occurring(vec) THEN "true"
              ELSE IF "error" \in Occurring(vec) THEN "error"
              ELSE IF "not collected" \in Occurring(vec) THEN "unknown"
              ELSE "false"
<1> DEFINE occ == Occurring(vec)
           chart == ExistenceChart["at_least_one_exists"]
           M == MatchingRows(chart, StatusColumns, vec)
           R1 == <<"1+", "0+", "0+", "0+", "true">>
           R2 == <<"0", "1+", "0", "0", "false">>
           R3 == <<"0", "0+", "1+", "0+", "error">>
           R4 == <<"0", "0+", "0", "1+", "unknown">>
<1>1. chart = {R1, R2, R3, R4} /\ M \subseteq chart
  BY DEF ExistenceChart, MatchingRows
<1>2. \A row \in chart : row \in M <=>
        /\ MatchesPattern(Occurrences(vec, "exists"), row[1])
        /\ MatchesPattern(Occurrences(vec, "does not exist"), row[2])
        /\ MatchesPattern(Occurrences(vec, "error"), row[3])
        /\ MatchesPattern(Occurrences(vec, "not collected"), row[4])
  BY StatusRows, Zenon
<1>3. (occ = {} <=> vec = <<>>) /\ occ \subseteq Statuses
  BY OccurringStatuses
<1> HIDE DEF chart, M
<1>5. /\ R1 \in M <=> "exists" \in occ
      /\ R2 \in M <=> "exists" \notin occ /\ "does not exist" \in occ /\ "error" \notin occ /\ "not collected" \notin occ
      /\ R3 \in M <=> "exists" \notin occ /\ "error" \in occ
      /\ R4 \in M <=> "exists" \notin occ /\ "error" \notin occ /\ "not collected" \in occ
  BY <1>1, <1>2, PatternMeans
<1>6. /\ R1[5] = "true" /\ R2[5] = "false" /\ R3[5] = "error" /\ R4[5] = "unknown"
  OBVIOUS
<1> HIDE DEF R1, R2, R3, R4, occ
<1>7. \A r1, r2 \in M : r1 = r2
  BY <1>1, <1>5
<1>8. /\ R1 \in M => HasExistenceRow("at_least_one_exists", vec) /\ ChartExistence("at_least_one_exists", vec) = "true"
      /\ R2 \in M => HasExistenceRow("at_least_one_exists", vec) /\ ChartExistence("at_least_one_exists", vec) = "false"
      /\ R3 \in M => HasExistenceRow("at_least_one_exists", vec) /\ ChartExistence("at_least_one_exists", vec) = "error"
      /\ R4 \in M => HasExistenceRow("at_least_one_exists", vec) /\ ChartExistence("at_least_one_exists", vec) = "unknown"
  BY <1>6, <1>7, ChartExistenceIs, Zenon DEF M, chart
<1> QED
  BY <1>3, <1>5, <1>8 DEF Statuses, occ

LEMMA NoneExistAgrees ==
  ASSUME NEW vec \in Seq(Statuses)
  PROVE  /\ HasExistenceRow("none_exist", vec)
         /\ ChartExistence("none_exist", vec) =
              IF "exists" \in Occurring(vec) THEN "false"
              ELSE IF "error" \in Occurring(vec) THEN "error"
              ELSE IF "not collected" \in Occurring(vec) THEN "unknown"
              ELSE "true"
<1> DEFINE occ == Occurring(vec)
           chart == ExistenceChart["none_exist"]
           M == MatchingRows(chart, StatusColumns, vec)
           R1 == <<"0", "0+", "0", "0", "true">>
           R2 == <<"1+", "0+", "0+", "0+", "false">>
           R3 == <<"0", "0+", "1+", "0+", "error">>
           R4 == <<"0", "0+", "0", "1+", "unknown">>
<1>1. chart = {R1, R2, R3, R4} /\ M \subseteq chart
  BY DEF ExistenceChart, MatchingRows
<1>2. \A row \in chart : row \in M <=>
        /\ MatchesPattern(Occurrences(vec, "exists"), row[1])
        /\ MatchesPattern(Occurrences(vec, "does not exist"), row[2])
        /\ MatchesPattern(Occurrences(vec, "error"), row[3])
        /\ MatchesPattern(Occurrences(vec, "not collected"), row[4])
  BY StatusRows, Zenon
<1>3. (occ = {} <=> vec = <<>>) /\ occ \subseteq Statuses
  BY OccurringStatuses
<1> HIDE DEF chart, M
<1>5. /\ R1 \in M <=> "exists" \notin occ /\ "error" \notin occ /\ "not collected" \notin occ
      /\ R2 \in M <=> "exists" \in occ
      /\ R3 \in M <=> "exists" \notin occ /\ "error" \in occ
      /\ R4 \in M <=> "exists" \notin occ /\ "error" \notin occ /\ "not collected" \in occ
  BY <1>1, <1>2, PatternMeans
<1>6. /\ R1[5] = "true" /\ R2[5] = "false" /\ R3[5] = "error" /\ R4[5] = "unknown"
  OBVIOUS
<1> HIDE DEF R1, R2, R3, R4, occ
<1>7. \A r1, r2 \in M : r1 = r2
  BY <1>1, <1>5
<1>8. /\ R1 \in M => HasExistenceRow("none_exist", vec) /\ ChartExistence("none_exist", vec) = "true"
      /\ R2 \in M => HasExistenceRow("none_exist", vec) /\ ChartExistence("none_exist", vec) = "false"
      /\ R3 \in M => HasExistenceRow("none_exist", vec) /\ ChartExistence("none_exist", vec) = "error"
      /\ R4 \in M => HasExistenceRow("none_exist", vec) /\ ChartExistence("none_exist", vec) = "unknown"
  BY <1>6, <1>7, ChartExistenceIs, Zenon DEF M, chart
<1> QED
  BY <1>3, <1>5, <1>8 DEF Statuses, occ

LEMMA OnlyOneExistsAgrees ==
  ASSUME NEW vec \in Seq(Statuses)
  PROVE  /\ HasExistenceRow("only_one_exists", vec)
         /\ ChartExistence("only_one_exists", vec) =
              IF Count(vec, "exists") > 1 THEN "false"
              ELSE IF "error" \in Occurring(vec) THEN "error"
              ELSE IF "not collected" \in Occurring(vec) THEN "unknown"
              ELSE IF Count(vec, "exists") = 1 THEN "true"
              ELSE "false"
<1> DEFINE occ == Occurring(vec)
           chart == ExistenceChart["only_one_exists"]
           M == MatchingRows(chart, StatusColumns, vec)
           One == Count(vec, "exists") = 1
           Many == Count(vec, "exists") > 1
           R1 == <<"1", "0+", "0", "0", "true">>
           R2 == <<"2+", "0+", "0+", "0+", "false">>
           R3 == <<"0", "0+", "0", "0", "false">>
           R4 == <<"0,1", "0+", "1+", "0+", "error">>
           R5 == <<"0,1", "0+", "0", "1+", "unknown">>
<1>1. chart = {R1, R2, R3, R4, R5} /\ M \subseteq chart
  BY DEF ExistenceChart, MatchingRows
<1>2. \A row \in chart : row \in M <=>
        /\ MatchesPattern(Occurrences(vec, "exists"), row[1])
        /\ MatchesPattern(Occurrences(vec, "does not exist"), row[2])
        /\ MatchesPattern(Occurrences(vec, "error"), row[3])
        /\ MatchesPattern(Occurrences(vec, "not collected"), row[4])
  BY StatusRows, Zenon
<1>3. (occ = {} <=> vec = <<>>) /\ occ \subseteq Statuses
  BY OccurringStatuses
<1>4. /\ MatchesPattern(Occurrences(vec, "exists"), "1") <=> One
      /\ MatchesPattern(Occurrences(vec, "exists"), "0,1") <=> ~Many
      /\ MatchesPattern(Occurrences(vec, "exists"), "2+") <=> Many
      /\ "exists" \in occ <=> One \/ Many
      /\ ~(One /\ Many)
  BY CountPatternMeans, Zenon
<1> HIDE DEF chart, M, One, Many
<1>5. /\ R1 \in M <=> One /\ "error" \notin occ /\ "not collected" \notin occ
      /\ R2 \in M <=> Many
      /\ R3 \in M <=> "exists" \notin occ /\ "error" \notin occ /\ "not collected" \notin occ
      /\ R4 \in M <=> ~Many /\ "error" \in occ
      /\ R5 \in M <=> ~Many /\ "error" \notin occ /\ "not collected" \in occ
  BY <1>1, <1>2, <1>4, PatternMeans
<1>6. /\ R1[5] = "true" /\ R2[5] = "false" /\ R3[5] = "false" /\ R4[5] = "error"
      /\ R5[5] = "unknown"
  OBVIOUS
<1> HIDE DEF R1, R2, R3, R4, R5, occ
<1>7. \A r1, r2 \in M : r1 = r2
  BY <1>1, <1>4, <1>5
<1>8. /\ R1 \in M => HasExistenceRow("only_one_exists", vec) /\ ChartExistence("only_one_exists", vec) = "true"
      /\ R2 \in M => HasExistenceRow("only_one_exists", vec) /\ ChartExistence("only_one_exists", vec) = "false"
      /\ R3 \in M => HasExistenceRow("only_one_exists", vec) /\ ChartExistence("only_one_exists", vec) = "false"
      /\ R4 \in M => HasExistenceRow("only_one_exists", vec) /\ ChartExistence("only_one_exists", vec) = "error"
      /\ R5 \in M => HasExistenceRow("only_one_exists", vec) /\ ChartExistence("only_one_exists", vec) = "unknown"
  BY <1>6, <1>7, ChartExistenceIs, Zenon DEF M, chart
<1> QED
  BY <1>3, <1>4, <1>5, <1>8 DEF Statuses, occ, One, Many

-----------------------------------------------------------------------------
\* The items of a test and what they say of existence.

LEMMA StatusesOfItems ==
  ASSUME NEW its \in Seq(Item), NEW s, s = [i \in DOMAIN its |-> its[i].status]
  PROVE  /\ s \in Seq(Statuses)
         /\ s = <<>> <=> its = <<>>
         /\ DOMAIN s = DOMAIN its
         /\ \A i \in DOMAIN its : s[i] = its[i].status
<1>1. /\ DOMAIN its = 1 .. Len(its)
      /\ Len(its) \in Nat
      /\ \A i \in DOMAIN its : its[i] \in Item
  OBVIOUS
<1>2. \A i \in DOMAIN its : its[i].status \in Statuses
  BY <1>1 DEF Item
<1> QED
  BY <1>1, <1>2

LEMMA StatusesOfTheItems ==
  ASSUME items \in Seq(Item)
  PROVE  /\ ItemStatuses \in Seq(Statuses)
         /\ ItemStatuses = <<>> <=> items = <<>>
         /\ DOMAIN ItemStatuses = DOMAIN items
         /\ \A i \in DOMAIN items : ItemStatuses[i] = items[i].status
BY StatusesOfItems DEF ItemStatuses

LEMMA CountSigns ==
  ASSUME NEW vec \in Seq(Statuses), NEW x
  PROVE  /\ Count(vec, x) > 0 <=> x \in Occurring(vec)
         /\ Count(vec, x) = 0 <=> x \notin Occurring(vec)
         /\ Count(vec, x) > 1 => x \in Occurring(vec)
<1> DEFINE n == Count(vec, x)
<1>1. n \in Nat /\ (x \in Occurring(vec) <=> n >= 1)
  BY CountFacts
<1> HIDE DEF n
<1>2. /\ n > 0 <=> n >= 1
      /\ n = 0 <=> ~(n >= 1)
      /\ n > 1 => n >= 1
  BY <1>1
<1> QED
  BY <1>1, <1>2 DEF n

LEMMA NoRowForNothing == ~HasExistenceRow("at_least_one_exists", <<>>)
<1> DEFINE chart == ExistenceChart["at_least_one_exists"]
           M == MatchingRows(chart, StatusColumns, <<>>)
<1>1. /\ M \subseteq chart
      /\ \A row \in chart : row \in M <=>
           /\ MatchesPattern(Occurrences(<<>>, "exists"), row[1])
           /\ MatchesPattern(Occurrences(<<>>, "does not exist"), row[2])
           /\ MatchesPattern(Occurrences(<<>>, "error"), row[3])
           /\ MatchesPattern(Occurrences(<<>>, "not collected"), row[4])
  BY StatusRows, Zenon DEF MatchingRows
<1>2. chart = {<<"1+", "0+", "0+", "0+", "true">>, <<"0", "1+", "0", "0", "false">>,
               <<"0", "0+", "1+", "0+", "error">>, <<"0", "0+", "0", "1+", "unknown">>}
  BY DEF ExistenceChart
<1>3. <<>> \in Seq(Statuses) /\ \A x : x \notin Occurring(<<>>)
  BY DEF Occurring
<1> HIDE DEF chart, M
<1>4. \A row \in chart : row \notin M
  BY <1>1, <1>2, <1>3, PatternMeans
<1>5. M = {}
  BY <1>1, <1>4
<1> QED
  BY <1>5 DEF HasExistenceRow, M, chart

\* The code decides existence as the charts do; only at_least_one_exists has no
\* row for an object without items.
LEMMA ExistenceAgrees ==
  ASSUME items \in Seq(Item), test.existence \in Existences
  PROVE  /\ items # <<>> => HasExistenceRow(test.existence, ItemStatuses)
         /\ HasExistenceRow(test.existence, ItemStatuses) =>
              EvaluateCheckExistence = ChartExistence(test.existence, ItemStatuses)
<1> DEFINE vec == ItemStatuses
           occ == Occurring(vec)
<1>1. vec \in Seq(Statuses) /\ (vec = <<>> <=> items = <<>>)
  BY StatusesOfItems DEF ItemStatuses
<1>2. /\ Exists > 0 <=> "exists" \in occ
      /\ Exists = 0 <=> "exists" \notin occ
  BY <1>1, CountSigns DEF Exists
<1>3. \A x : Occurs(x) <=> x \in occ
  BY DEF Occurs
<1>4. Exists = Count(vec, "exists")
  BY DEF Exists
<1>5. CASE test.existence = "all_exist"
  <2>1. EvaluateCheckExistence =
          IF "does not exist" \in occ \/ vec = <<>> THEN "false"
          ELSE IF "error" \in occ THEN "error"
          ELSE IF "not collected" \in occ THEN "unknown"
          ELSE "true"
    BY <1>1, <1>3, <1>5 DEF EvaluateCheckExistence
  <2> QED
    BY <1>1, <1>5, <2>1, AllExistAgrees, Zenon
<1>6. CASE test.existence = "any_exist"
  <2>1. EvaluateCheckExistence =
          IF "exists" \notin occ /\ "error" \in occ THEN "error" ELSE "true"
    BY <1>2, <1>3, <1>6 DEF EvaluateCheckExistence
  <2> QED
    BY <1>1, <1>6, <2>1, AnyExistAgrees, Zenon
<1>7. CASE test.existence = "at_least_one_exists"
  <2>1. ASSUME vec # <<>>
        PROVE  EvaluateCheckExistence =
                 IF "exists" \in occ THEN "true"
                 ELSE IF "error" \in occ THEN "error"
                 ELSE IF "not collected" \in occ THEN "unknown"
                 ELSE "false"
    <3>1. "exists" \in occ \/ "error" \in occ \/ "not collected" \in occ \/ "does not exist" \in occ
      BY <1>1, <2>1, OccurringStatuses DEF Statuses
    <3> QED
      BY <1>2, <1>3, <1>7, <3>1 DEF EvaluateCheckExistence
  <2>2. vec = <<>> => ~HasExistenceRow(test.existence, vec)
    BY <1>7, NoRowForNothing
  <2> QED
    BY <1>1, <1>7, <2>1, <2>2, AtLeastOneExistsAgrees, Zenon
<1>8. CASE test.existence = "none_exist"
  <2>1. EvaluateCheckExistence =
          IF "exists" \in occ THEN "false"
          ELSE IF "error" \in occ THEN "error"
          ELSE IF "not collected" \in occ THEN "unknown"
          ELSE "true"
    BY <1>2, <1>3, <1>8 DEF EvaluateCheckExistence
  <2> QED
    BY <1>1, <1>8, <2>1, NoneExistAgrees, Zenon
<1>9. CASE test.existence = "only_one_exists"
  <2>1. EvaluateCheckExistence =
          IF Count(vec, "exists") > 1 THEN "false"
          ELSE IF "error" \in occ THEN "error"
          ELSE IF "not collected" \in occ THEN "unknown"
          ELSE IF Count(vec, "exists") = 1 THEN "true"
          ELSE "false"
    BY <1>3, <1>4, <1>9 DEF EvaluateCheckExistence
  <2> QED
    BY <1>1, <1>9, <2>1, OnlyOneExistsAgrees, Zenon
<1> QED
  BY <1>5, <1>6, <1>7, <1>8, <1>9 DEF Existences

\* What is concluded from some of the statuses holds for all of them.
LEMMA PartialExistenceStands ==
  ASSUME NEW s \in Seq(Statuses), items \in Seq(Item), test.existence \in Existences,
         Count(s, "exists") >= Exists
  PROVE  /\ PartialExistence = "false" => ChartExistence(test.existence, s) = "false"
         /\ PartialExistence = "true" /\ "exists" \in Occurring(s) =>
              ChartExistence(test.existence, s) = "true"
         /\ PartialExistence \in {"true", "false", "unknown"}
<1> DEFINE Many == Count(s, "exists") > 1
           One == "exists" \in Occurring(s)
<1>1. /\ Exists > 0 => One
      /\ Exists > 1 => Many
  <2>1. ItemStatuses \in Seq(Statuses)
    BY StatusesOfItems DEF ItemStatuses
  <2>2. Exists \in Nat /\ Count(s, "exists") \in Nat
    BY <2>1, CountFacts DEF Exists
  <2>3. Exists > 0 => Count(s, "exists") > 0
    BY <2>2
  <2>4. Exists > 1 => Count(s, "exists") > 1
    BY <2>2
  <2> QED
    BY <2>3, <2>4, CountSigns
<1> DEFINE some == Exists > 0
           several == Exists > 1
<1>2. /\ some => One
      /\ several => Many
  BY <1>1
<1>3. /\ PartialExistence = "false" <=>
           \/ test.existence = "none_exist" /\ some
           \/ test.existence = "only_one_exists" /\ several
      /\ PartialExistence = "true" =>
           \/ test.existence = "at_least_one_exists" /\ some
           \/ test.existence = "any_exist"
      /\ PartialExistence \in {"true", "false", "unknown"}
  <2> HIDE DEF One, Many
  <2> QED
    BY Zenon DEF PartialExistence, some, several
<1> HIDE DEF some, several
<1>4. s # <<>> \/ ~One
  BY OccurringStatuses
<1>5. Many => ChartExistence("only_one_exists", s) = "false"
  BY OnlyOneExistsAgrees
<1>6. One => ChartExistence("none_exist", s) = "false"
  BY NoneExistAgrees
<1>7. One => ChartExistence("at_least_one_exists", s) = "true"
  BY <1>4, AtLeastOneExistsAgrees
<1>8. One => ChartExistence("any_exist", s) = "true"
  BY AnyExistAgrees
<1> QED
  <2> HIDE DEF Many
  <2> QED
    BY <1>2, <1>3, <1>5, <1>6, <1>7, <1>8, Zenon

\* A sequence with more behind it has no fewer of any value.
LEMMA CountGrows ==
  ASSUME NEW S, NEW s \in Seq(S), NEW t \in Seq(S), DOMAIN s \subseteq DOMAIN t,
         \A i \in DOMAIN s : t[i] = s[i], NEW x
  PROVE  Count(t, x) >= Count(s, x)
<1> DEFINE A == {i \in DOMAIN s : s[i] = x}
           B == {i \in DOMAIN t : t[i] = x}
<1>1. A \subseteq B
  OBVIOUS
<1>2. IsFiniteSet(B)
  <2>1. DOMAIN t = 1 .. Len(t) /\ Len(t) \in Nat
    OBVIOUS
  <2>2. IsFiniteSet(DOMAIN t)
    BY <2>1, FS_Interval
  <2> QED
    BY <2>2, FS_Subset
<1>3. Cardinality(A) <= Cardinality(B) /\ Cardinality(A) \in Nat /\ Cardinality(B) \in Nat
  BY <1>1, <1>2, FS_Subset, FS_CardinalityType
<1>4. Count(s, x) = Cardinality(A) /\ Count(t, x) = Cardinality(B)
  BY DEF Count
<1> HIDE DEF A, B
<1> QED
  BY <1>3, <1>4

-----------------------------------------------------------------------------
\* Combinations are results, and a verdict of all or of none satisfy has its
\* reason in one of the combined results.

LEMMA CombinationIsResult ==
  ASSUME NEW vec, NEW op \in Operators
  PROVE  CombineResultsByOperator(vec, op) \in Results
<1>1. \A occ : Trivial(occ) => TrivialResult(occ) \in Results
  BY DEF TrivialResult, Results
<1>2. \A occ : Precedence(occ) \in Results
  BY DEF Precedence, Results
<1>3. "true" \in Results /\ "false" \in Results
  BY DEF Results
<1>4. CASE Trivial(Occurring(vec))
  BY <1>1, <1>4, Zenon DEF CombineResultsByOperator
<1>5. CASE ~Trivial(Occurring(vec))
  <2>1. CASE op = "AND"
    BY <1>2, <1>3, <1>5, <2>1 DEF CombineResultsByOperator, Decide
  <2>2. CASE op = "OR"
    BY <1>2, <1>3, <1>5, <2>2 DEF CombineResultsByOperator, Decide
  <2>3. CASE op = "ONE"
    BY <1>2, <1>3, <1>5, <2>3 DEF CombineResultsByOperator, Decide
  <2>4. CASE op = "XOR"
    BY <1>2, <1>3, <1>5, <2>4 DEF CombineResultsByOperator, Decide
  <2> QED
    BY <2>1, <2>2, <2>3, <2>4 DEF Operators
<1> QED
  BY <1>4, <1>5

\* The result that makes all, and none satisfy, false.
Witness(check) == IF check = "all" THEN "false" ELSE "true"

LEMMA FalseHasWitness ==
  ASSUME NEW vec, NEW check \in {"all", "none satisfy"}
  PROVE  CombineResultsByCheck(vec, check) = "false" <=> Witness(check) \in Occurring(vec)
<1> DEFINE occ == Occurring(vec)
<1>1. Trivial(occ) => /\ TrivialResult(occ) # "false"
                      /\ "false" \notin occ /\ "true" \notin occ
  BY DEF Trivial, TrivialResult
<1>2. Precedence(occ) # "false"
  BY DEF Precedence
<1>3. CASE check = "all"
  BY <1>1, <1>2, <1>3 DEF CombineResultsByCheck, Decide, Witness
<1>4. CASE check = "none satisfy"
  BY <1>1, <1>2, <1>4 DEF CombineResultsByCheck, Decide, Witness
<1> QED
  BY <1>3, <1>4

-----------------------------------------------------------------------------
\* The inductive invariant.

\* What the states make of an item.
ItemVerdict(t, item) == CombineResultsByOperator(StateResults(t.states, item), t.operator)

TypeOK ==
  /\ test \in TestElement
  /\ items \in Seq(Item)
  /\ itemResults \in Seq(Results)

NotDeprecated == test.check # "none exist"

\* The tested items have been evaluated one by one, each by all of the states.
ItemsAreEvaluated ==
  /\ Len(itemResults) <= Len(items)
  /\ \A i \in 1 .. Len(itemResults) : itemResults[i] = ItemVerdict(test, items[i])
  /\ itemResults # <<>> => Loads
  /\ pc \notin {"state", "analyzed"} => itemResults = <<>>

FlagIsKnown ==
  /\ pc = "flag" => test.object
  /\ pc = "flag" \/ Analyzed => flag # "missing"

\* The states are asked only when existence does not decide.
StateIsAsked ==
  pc = "state" =>
    /\ test.object
    /\ \/ flag = "complete" /\ EvaluateCheckExistence = "true" /\ test.states # {}
       \/ flag = "incomplete" /\ PartialExistence = "true"

AllEvaluated == Len(itemResults) = Len(items)

\* Where the result comes from, for each of the flags.
OfComplete ==
  Analyzed /\ flag = "complete" =>
    IF EvaluateCheckExistence # "true" \/ test.states = {}
    THEN result = EvaluateCheckExistence
    ELSE /\ Loads /\ items # <<>> =>
              AllEvaluated /\ result = CombineResultsByCheck(itemResults, test.check)
         /\ ~Loads /\ items # <<>> => result = "error"

OfIncomplete ==
  Analyzed /\ flag = "incomplete" =>
    IF PartialExistence # "true" THEN result = PartialExistence
    ELSE /\ Loads /\ result = "false" =>
              /\ test.states # {}
              /\ AllEvaluated
              /\ CombineResultsByCheck(itemResults, test.check) = "false"
         /\ Loads /\ test.check # "at least one" => result # "true"
         /\ ~Loads /\ items # <<>> => result = "unknown"

OfAbsent ==
  Analyzed /\ flag = "does not exist" =>
    result = IF test.existence \in {"none_exist", "any_exist"} THEN "true" ELSE "false"

OfUnusable ==
  Analyzed /\ flag \in {"error", "not applicable", "not collected"} /\ test.states # {} =>
    ~Definite(result)

FlagIsFlag == flag \in Flags \cup {"missing"}

ResultInv ==
  /\ TypeOK /\ NotDeprecated /\ FlagIsFlag
  /\ ItemsAreEvaluated /\ FlagIsKnown /\ StateIsAsked
  /\ OfComplete /\ OfIncomplete /\ OfAbsent /\ OfUnusable

LEMMA InitResultInv == Init => ResultInv
<1> SUFFICES ASSUME Init PROVE ResultInv
  OBVIOUS
<1>1. PICK t \in Tests : test = ParseCheck(t)
  BY DEF Init
<1>2. test \in TestElement /\ NotDeprecated
  <2>1. t \in TestElement
    BY TestsAssumption
  <2>2. "none_exist" \in Existences /\ "none satisfy" \in Checks
    BY DEF Existences, Checks
  <2>3. /\ t.object \in BOOLEAN /\ t.existence \in Existences /\ t.check \in Checks
        /\ t.operator \in Operators /\ t.states \in SUBSET StateIds
        /\ t.broken \in SUBSET StateIds
    BY <2>1 DEF TestElement
  <2>4. CASE t.check = "none exist"
    <3>1. test = [t EXCEPT !.existence = "none_exist", !.check = "none satisfy"]
      BY <1>1, <2>4 DEF ParseCheck
    <3> QED
      BY <2>1, <2>2, <3>1 DEF TestElement, NotDeprecated
  <2>5. CASE t.check # "none exist"
    BY <1>1, <2>1, <2>5 DEF ParseCheck, NotDeprecated
  <2> QED
    BY <2>4, <2>5
<1>3. /\ items = <<>> /\ itemResults = <<>> /\ pc = "collect"
      /\ flag \in Flags \cup {"missing"}
  BY DEF Init
<1>4. TypeOK /\ ItemsAreEvaluated
  <2>1. <<>> \in Seq(Item) /\ <<>> \in Seq(Results) /\ Len(<<>>) = 0 /\ 1 .. 0 = {}
    OBVIOUS
  <2> QED
    BY <1>2, <1>3, <2>1 DEF TypeOK, ItemsAreEvaluated
<1> QED
  BY <1>2, <1>3, <1>4
  DEF ResultInv, FlagIsFlag, FlagIsKnown, StateIsAsked, OfComplete, OfIncomplete,
      OfAbsent, OfUnusable, Analyzed

\* What a step leaves alone.
LEMMA SameExistence ==
  ASSUME UNCHANGED <<test, items>>
  PROVE  /\ EvaluateCheckExistence' = EvaluateCheckExistence
         /\ PartialExistence' = PartialExistence
         /\ Loads' = Loads
<1>1. ItemStatuses' = ItemStatuses
  BY DEF ItemStatuses
<1>2. Exists' = Exists
  BY <1>1 DEF Exists
<1>3. \A x : Occurs(x)' <=> Occurs(x)
  BY <1>1 DEF Occurs
<1>4. PartialExistence' = PartialExistence
  BY <1>2 DEF PartialExistence
<1>5. Loads' = Loads
  BY DEF Loads
<1>6. EvaluateCheckExistence' = EvaluateCheckExistence
  BY <1>2, <1>3 DEF EvaluateCheckExistence
<1> QED
  BY <1>4, <1>5, <1>6

LEMMA SameEvaluation ==
  ASSUME ResultInv, UNCHANGED <<test, items, itemResults>>,
         pc' \notin {"state", "analyzed"} => itemResults = <<>>
  PROVE  TypeOK' /\ NotDeprecated' /\ ItemsAreEvaluated'
<1>1. TypeOK' /\ NotDeprecated'
  BY DEF ResultInv, TypeOK, NotDeprecated
<1>2. ItemsAreEvaluated'
  BY DEF ResultInv, ItemsAreEvaluated, Loads
<1> QED
  BY <1>1, <1>2

\* A result is set: what it must be for each of the flags.
LEMMA SetResultStep ==
  ASSUME ResultInv, NEW r, SetResult(r), test.object => flag # "missing",
         test.object => OfComplete', test.object => OfIncomplete',
         test.object => OfAbsent', test.object => OfUnusable'
  PROVE  ResultInv'
<1>1. UNCHANGED <<test, flag, items, itemResults>> /\ result' = r /\ pc' = "analyzed"
  BY DEF SetResult
<1>2. TypeOK' /\ NotDeprecated' /\ ItemsAreEvaluated'
  BY <1>1, SameEvaluation
<1>3. FlagIsFlag' /\ FlagIsKnown' /\ StateIsAsked'
  BY <1>1 DEF ResultInv, FlagIsFlag, FlagIsKnown, StateIsAsked, Analyzed
<1>4. OfComplete' /\ OfIncomplete' /\ OfAbsent' /\ OfUnusable'
  <2>1. CASE test.object
    BY <2>1
  <2>2. CASE ~test.object
    <3>1. ~Analyzed'
      BY <1>1, <2>2 DEF Analyzed
    <3> QED
      BY <3>1 DEF OfComplete, OfIncomplete, OfAbsent, OfUnusable
  <2> QED
    BY <2>1, <2>2
<1> QED
  BY <1>2, <1>3, <1>4 DEF ResultInv

\* A step before the result is set, that looks at no state yet.
LEMMA EarlyStep ==
  ASSUME pc' \notin {"state", "analyzed"}
  PROVE  /\ StateIsAsked' /\ OfComplete' /\ OfIncomplete' /\ OfAbsent' /\ OfUnusable'
         /\ ~Analyzed'
BY DEF StateIsAsked, OfComplete, OfIncomplete, OfAbsent, OfUnusable, Analyzed

LEMMA NoObjectStep == ResultInv /\ NoObject => ResultInv'
BY SetResultStep DEF NoObject

LEMMA AppendStep ==
  ASSUME ResultInv, NEW item \in Items, AppendTestedItem(item)
  PROVE  ResultInv'
<1>1. /\ pc = "collect" /\ items' = Append(items, item)
      /\ UNCHANGED <<test, flag, itemResults, result, pc>>
  BY DEF AppendTestedItem
<1>2. itemResults = <<>> /\ items \in Seq(Item) /\ item \in Item
  BY <1>1, ItemsAssumption DEF ResultInv, ItemsAreEvaluated, TypeOK
<1>3. TypeOK'
  <2>1. items' \in Seq(Item)
    BY <1>1, <1>2
  <2> QED
    BY <1>1, <2>1 DEF ResultInv, TypeOK
<1>4. ItemsAreEvaluated'
  <2>1. Len(items') \in Nat /\ Len(itemResults') = 0 /\ 1 .. 0 = {} /\ itemResults' = <<>>
    BY <1>1, <1>2, <1>3
  <2> QED
    BY <1>1, <2>1 DEF ItemsAreEvaluated
<1>5. NotDeprecated' /\ FlagIsFlag' /\ FlagIsKnown'
  BY <1>1 DEF ResultInv, NotDeprecated, FlagIsFlag, FlagIsKnown, Analyzed
<1> QED
  BY <1>1, <1>3, <1>4, <1>5, EarlyStep DEF ResultInv

LEMMA RaisesStep == ResultInv /\ CandidateRaises => ResultInv'
<1> SUFFICES ASSUME ResultInv, CandidateRaises PROVE ResultInv'
  OBVIOUS
<1>1. /\ pc = "collect" /\ pc' = "raised"
      /\ UNCHANGED <<test, flag, items, itemResults, result>>
  BY DEF CandidateRaises
<1>2. itemResults = <<>>
  BY <1>1 DEF ResultInv, ItemsAreEvaluated
<1>3. TypeOK' /\ NotDeprecated' /\ ItemsAreEvaluated'
  BY <1>1, <1>2, SameEvaluation
<1>4. FlagIsFlag' /\ FlagIsKnown'
  BY <1>1 DEF ResultInv, FlagIsFlag, FlagIsKnown, Analyzed
<1> QED
  BY <1>1, <1>3, <1>4, EarlyStep DEF ResultInv

LEMMA CollectedStep == ResultInv /\ Collected => ResultInv'
<1> SUFFICES ASSUME ResultInv, Collected PROVE ResultInv'
  OBVIOUS
<1>1. /\ pc = "collect" /\ pc' = "flag" /\ test.object
      /\ UNCHANGED <<test, items, itemResults, result>>
      /\ flag' = IF flag # "missing" THEN flag
                 ELSE IF items # <<>> THEN "complete" ELSE "does not exist"
  BY DEF Collected
<1>2. itemResults = <<>>
  BY <1>1 DEF ResultInv, ItemsAreEvaluated
<1>3. TypeOK' /\ NotDeprecated' /\ ItemsAreEvaluated'
  BY <1>1, <1>2, SameEvaluation
<1>4. FlagIsFlag' /\ FlagIsKnown'
  BY <1>1 DEF ResultInv, FlagIsFlag, FlagIsKnown, Flags
<1> QED
  BY <1>1, <1>3, <1>4, EarlyStep DEF ResultInv

LEMMA FlagDecidesStep == ResultInv /\ FlagDecides => ResultInv'
<1> SUFFICES ASSUME ResultInv, FlagDecides PROVE ResultInv'
  OBVIOUS
<1> DEFINE r == IF test.existence = "any_exist" /\ test.states = {}
                  THEN "true" ELSE FlagResult(flag)
<1>1. /\ pc = "flag" /\ flag \in {"error", "not applicable", "not collected"}
      /\ SetResult(r)
  BY DEF FlagDecides
<1>2. UNCHANGED <<test, flag, items, itemResults>> /\ result' = r
  BY <1>1 DEF SetResult
<1>3. OfComplete' /\ OfIncomplete' /\ OfAbsent'
  BY <1>1, <1>2 DEF OfComplete, OfIncomplete, OfAbsent
<1>4. OfUnusable'
  <2>1. test.states # {} => r \notin {"true", "false"}
    BY <1>1 DEF FlagResult
  <2> QED
    BY <1>2, <2>1 DEF OfUnusable, Definite
<1> HIDE DEF r
<1> QED
  BY <1>1, <1>3, <1>4, SetResultStep

LEMMA DoesNotExistStep == ResultInv /\ DoesNotExist => ResultInv'
<1> SUFFICES ASSUME ResultInv, DoesNotExist PROVE ResultInv'
  OBVIOUS
<1> DEFINE r == IF test.existence \in {"none_exist", "any_exist"} THEN "true" ELSE "false"
<1>1. flag = "does not exist" /\ SetResult(r)
  BY DEF DoesNotExist
<1>2. UNCHANGED <<test, flag, items, itemResults>> /\ result' = r
  BY <1>1 DEF SetResult
<1>3. OfComplete' /\ OfIncomplete' /\ OfAbsent' /\ OfUnusable'
  BY <1>1, <1>2 DEF OfComplete, OfIncomplete, OfAbsent, OfUnusable
<1> HIDE DEF r
<1> QED
  BY <1>1, <1>3, SetResultStep

\* The states are asked from now on.
LEMMA CheckStateStep ==
  ASSUME ResultInv, pc = "flag", CheckState, test.object,
         \/ flag = "complete" /\ EvaluateCheckExistence = "true" /\ test.states # {}
         \/ flag = "incomplete" /\ PartialExistence = "true"
  PROVE  ResultInv'
<1>1. UNCHANGED <<test, flag, items, itemResults, result>> /\ pc' = "state"
  BY DEF CheckState
<1>2. TypeOK' /\ NotDeprecated' /\ ItemsAreEvaluated'
  BY <1>1, SameEvaluation
<1>3. FlagIsFlag' /\ FlagIsKnown'
  BY <1>1 DEF ResultInv, FlagIsFlag, FlagIsKnown, Analyzed
<1>4. StateIsAsked'
  BY <1>1, SameExistence DEF StateIsAsked
<1>5. ~Analyzed'
  BY <1>1 DEF Analyzed
<1>6. OfComplete' /\ OfIncomplete' /\ OfAbsent' /\ OfUnusable'
  BY <1>5 DEF OfComplete, OfIncomplete, OfAbsent, OfUnusable
<1> QED
  BY <1>2, <1>3, <1>4, <1>6 DEF ResultInv

LEMMA CompleteStep == ResultInv /\ Complete => ResultInv'
<1> SUFFICES ASSUME ResultInv, Complete PROVE ResultInv'
  OBVIOUS
<1>1. pc = "flag" /\ flag = "complete" /\ test.object
  BY DEF Complete, ResultInv, FlagIsKnown
<1>2. CASE EvaluateCheckExistence = "true" /\ test.states # {}
  <2>1. CheckState
    BY <1>2 DEF Complete
  <2> QED
    BY <1>1, <1>2, <2>1, CheckStateStep
<1>3. CASE ~(EvaluateCheckExistence = "true" /\ test.states # {})
  <2>1. SetResult(EvaluateCheckExistence)
    BY <1>3 DEF Complete
  <2>2. /\ UNCHANGED <<test, flag, items, itemResults>>
        /\ result' = EvaluateCheckExistence
    BY <2>1 DEF SetResult
  <2>3. EvaluateCheckExistence' = EvaluateCheckExistence
    BY <2>2, SameExistence
  <2>4. OfComplete' /\ OfIncomplete' /\ OfAbsent' /\ OfUnusable'
    BY <1>1, <1>3, <2>2, <2>3 DEF OfComplete, OfIncomplete, OfAbsent, OfUnusable
  <2> QED
    BY <1>1, <2>1, <2>4, SetResultStep
<1> QED
  BY <1>2, <1>3

LEMMA IncompleteStep == ResultInv /\ Incomplete => ResultInv'
<1> SUFFICES ASSUME ResultInv, Incomplete PROVE ResultInv'
  OBVIOUS
<1>1. pc = "flag" /\ flag = "incomplete" /\ test.object
  BY DEF Incomplete, ResultInv, FlagIsKnown
<1>2. CASE PartialExistence = "true"
  <2>1. CheckState
    BY <1>2 DEF Incomplete
  <2> QED
    BY <1>1, <1>2, <2>1, CheckStateStep
<1>3. CASE PartialExistence # "true"
  <2>1. SetResult(PartialExistence)
    BY <1>3 DEF Incomplete
  <2>2. UNCHANGED <<test, flag, items, itemResults>> /\ result' = PartialExistence
    BY <2>1 DEF SetResult
  <2>3. PartialExistence' = PartialExistence
    BY <2>2, SameExistence
  <2>4. OfComplete' /\ OfIncomplete' /\ OfAbsent' /\ OfUnusable'
    BY <1>1, <1>3, <2>2, <2>3 DEF OfComplete, OfIncomplete, OfAbsent, OfUnusable
  <2> QED
    BY <1>1, <2>1, <2>4, SetResultStep
<1> QED
  BY <1>2, <1>3

LEMMA EvaluateItemStep == ResultInv /\ EvaluateItem => ResultInv'
<1> SUFFICES ASSUME ResultInv, EvaluateItem PROVE ResultInv'
  OBVIOUS
<1> DEFINE k == Len(itemResults) + 1
           v == ItemVerdict(test, items[k])
<1>1. /\ pc = "state" /\ Loads /\ Len(itemResults) < Len(items)
      /\ itemResults' = Append(itemResults, v)
      /\ UNCHANGED <<test, flag, items, result, pc>>
  BY DEF EvaluateItem, Loads, ItemVerdict
<1>2. /\ itemResults \in Seq(Results) /\ items \in Seq(Item) /\ test \in TestElement
      /\ \A i \in 1 .. Len(itemResults) : itemResults[i] = ItemVerdict(test, items[i])
  BY DEF ResultInv, TypeOK, ItemsAreEvaluated
<1>3. v \in Results
  <2>1. test.operator \in Operators
    BY <1>2 DEF TestElement
  <2> QED
    BY <2>1, CombinationIsResult DEF ItemVerdict
<1>4. TypeOK'
  BY <1>1, <1>2, <1>3 DEF TypeOK
<1>5. ItemsAreEvaluated'
  <2> HIDE DEF v
  <2>1. /\ Len(itemResults') = k
        /\ \A i \in 1 .. k : itemResults'[i] = IF i = k THEN v ELSE itemResults[i]
    BY <1>1, <1>2, <1>3
  <2>2. k <= Len(items)
    BY <1>1, <1>2
  <2>3. \A i \in 1 .. k : i = k \/ i \in 1 .. Len(itemResults)
    BY <1>2
  <2> HIDE DEF k
  <2>4. \A i \in 1 .. k : itemResults'[i] = ItemVerdict(test, items[i])
    BY <1>2, <2>1, <2>3, Zenon DEF v
  <2>5. Loads'
    BY <1>1 DEF Loads
  <2>6. \A i \in 1 .. Len(itemResults') : itemResults'[i] = ItemVerdict(test', items'[i])
    BY <1>1, <2>1, <2>4, Zenon
  <2> QED
    BY <1>1, <2>1, <2>2, <2>5, <2>6 DEF ItemsAreEvaluated
<1>6. NotDeprecated' /\ FlagIsFlag' /\ FlagIsKnown'
  BY <1>1 DEF ResultInv, NotDeprecated, FlagIsFlag, FlagIsKnown, Analyzed
<1>7. StateIsAsked'
  BY <1>1, SameExistence DEF ResultInv, StateIsAsked
<1>8. ~Analyzed'
  BY <1>1 DEF Analyzed
<1>9. OfComplete' /\ OfIncomplete' /\ OfAbsent' /\ OfUnusable'
  BY <1>8 DEF OfComplete, OfIncomplete, OfAbsent, OfUnusable
<1> QED
  BY <1>4, <1>5, <1>6, <1>7, <1>9 DEF ResultInv

\* What is set from the result of the states.
LEMMA UseStateResultStep ==
  ASSUME ResultInv, pc = "state", NEW r, UseStateResult(r),
         test.states # {} /\ Loads /\ items # <<>> =>
           AllEvaluated /\ r = CombineResultsByCheck(itemResults, test.check),
         test.states # {} /\ Loads /\ r = "false" =>
           AllEvaluated /\ r = CombineResultsByCheck(itemResults, test.check),
         ~Loads /\ items # <<>> => r = "error",
         test.states = {} => r = "true"
  PROVE  ResultInv'
<1> DEFINE u == IF flag = "complete" \/ r = "false" THEN r
                ELSE IF r = "true" /\ test.check = "at least one" THEN "true"
                ELSE "unknown"
<1>1. SetResult(u)
  BY DEF UseStateResult
<1>2. UNCHANGED <<test, flag, items, itemResults>> /\ result' = u
  BY <1>1 DEF SetResult
<1>3. /\ EvaluateCheckExistence' = EvaluateCheckExistence
      /\ PartialExistence' = PartialExistence
      /\ Loads' = Loads
  BY <1>2, SameExistence
<1>4. /\ test.object
      /\ \/ flag = "complete" /\ EvaluateCheckExistence = "true" /\ test.states # {}
         \/ flag = "incomplete" /\ PartialExistence = "true"
  BY DEF ResultInv, StateIsAsked
<1>5. AllEvaluated' = AllEvaluated
  BY <1>2 DEF AllEvaluated
<1>6. CombineResultsByCheck(itemResults, test.check)' =
        CombineResultsByCheck(itemResults, test.check)
  BY <1>2
<1> DEFINE c == CombineResultsByCheck(itemResults, test.check)
<1>7. OfComplete'
  <2>1. CASE flag = "complete"
    <3>1. u = r /\ EvaluateCheckExistence = "true" /\ test.states # {}
      BY <1>4, <2>1
    <3> QED
      BY <1>2, <1>3, <1>5, <1>6, <3>1 DEF OfComplete
  <2>2. CASE flag # "complete"
    BY <1>2, <2>2 DEF OfComplete
  <2> QED
    BY <2>1, <2>2
<1>8. OfIncomplete'
  <2>1. CASE flag = "incomplete"
    <3>1. PartialExistence = "true"
      BY <1>4, <2>1
    <3>2. u = "false" => r = "false"
      BY <2>1
    <3>3. r = "false" => test.states # {}
      OBVIOUS
    <3>4. u = "true" => test.check = "at least one"
      BY <2>1
    <3>5. r = "error" => u = "unknown"
      BY <2>1
    <3> HIDE DEF u
    <3> QED
      BY <1>2, <1>3, <1>5, <1>6, <3>1, <3>2, <3>3, <3>4, <3>5 DEF OfIncomplete
  <2>2. CASE flag # "incomplete"
    BY <1>2, <2>2 DEF OfIncomplete
  <2> QED
    BY <2>1, <2>2
<1>9. OfAbsent' /\ OfUnusable'
  BY <1>2, <1>4 DEF OfAbsent, OfUnusable
<1>10. flag # "missing"
  BY <1>4
<1> HIDE DEF u
<1> QED
  BY <1>1, <1>7, <1>8, <1>9, <1>10, SetResultStep

LEMMA StateRaisesStep == ResultInv /\ StateRaises => ResultInv'
<1> SUFFICES ASSUME ResultInv, StateRaises PROVE ResultInv'
  OBVIOUS
<1>1. pc = "state" /\ ~Loads /\ UseStateResult("error")
  BY DEF StateRaises, Loads
<1>2. test.states # {}
  BY <1>1 DEF Loads
<1> QED
  BY <1>1, <1>2, UseStateResultStep

LEMMA StateEvaluatedStep == ResultInv /\ StateEvaluated => ResultInv'
<1> SUFFICES ASSUME ResultInv, StateEvaluated PROVE ResultInv'
  OBVIOUS
<1> DEFINE r == IF test.states = {} THEN "true"
                ELSE CombineResultsByCheck(itemResults, test.check)
<1>1. /\ pc = "state" /\ (test.states = {} \/ AllEvaluated) /\ UseStateResult(r)
  BY DEF StateEvaluated, AllEvaluated
<1>2. test.states = {} => r = "true" /\ Loads
  BY DEF Loads
<1>3. test.states # {} => AllEvaluated /\ r = CombineResultsByCheck(itemResults, test.check)
  BY <1>1
<1>4. ~Loads => items = <<>>
  <2> SUFFICES ASSUME ~Loads PROVE items = <<>>
    OBVIOUS
  <2>1. AllEvaluated /\ itemResults = <<>> /\ items \in Seq(Item)
    BY <1>1, <1>2 DEF ResultInv, ItemsAreEvaluated, TypeOK
  <2> QED
    BY <2>1 DEF AllEvaluated
<1> HIDE DEF r
<1> QED
  BY <1>1, <1>2, <1>3, <1>4, UseStateResultStep

LEMMA NextResultInv == ResultInv /\ [Next]_vars => ResultInv'
<1> SUFFICES ASSUME ResultInv, [Next]_vars PROVE ResultInv'
  OBVIOUS
<1>1. CASE NoObject
  BY <1>1, NoObjectStep
<1>2. CASE CandidateRaises
  BY <1>2, RaisesStep
<1>3. CASE Collected
  BY <1>3, CollectedStep
<1>4. CASE \E item \in Items : AppendTestedItem(item)
  BY <1>4, AppendStep
<1>5. CASE FlagDecides
  BY <1>5, FlagDecidesStep
<1>6. CASE DoesNotExist
  BY <1>6, DoesNotExistStep
<1>7. CASE Complete
  BY <1>7, CompleteStep
<1>8. CASE Incomplete
  BY <1>8, IncompleteStep
<1>9. CASE EvaluateItem
  BY <1>9, EvaluateItemStep
<1>10. CASE StateRaises
  BY <1>10, StateRaisesStep
<1>11. CASE StateEvaluated
  BY <1>11, StateEvaluatedStep
<1>12. CASE UNCHANGED vars
  <2>1. UNCHANGED <<test, flag, items, itemResults, result, pc>>
    BY <1>12 DEF vars
  <2>2. TypeOK' /\ NotDeprecated' /\ ItemsAreEvaluated'
    BY <2>1, SameEvaluation DEF ResultInv, ItemsAreEvaluated
  <2>3. FlagIsFlag' /\ FlagIsKnown'
    BY <2>1 DEF ResultInv, FlagIsFlag, FlagIsKnown, Analyzed
  <2>4. /\ EvaluateCheckExistence' = EvaluateCheckExistence
        /\ PartialExistence' = PartialExistence
        /\ Loads' = Loads
    BY <2>1, SameExistence
  <2>5. Analyzed' = Analyzed /\ AllEvaluated' = AllEvaluated
    BY <2>1 DEF Analyzed, AllEvaluated
  <2>6. StateIsAsked' /\ OfComplete' /\ OfIncomplete'
    BY <2>1, <2>4, <2>5 DEF ResultInv, StateIsAsked, OfComplete, OfIncomplete
  <2>7. OfAbsent' /\ OfUnusable'
    BY <2>1, <2>5 DEF ResultInv, OfAbsent, OfUnusable, Definite
  <2> QED
    BY <2>2, <2>3, <2>6, <2>7 DEF ResultInv
<1> QED
  BY <1>1, <1>2, <1>3, <1>4, <1>5, <1>6, <1>7, <1>8, <1>9, <1>10, <1>11, <1>12 DEF Next

-----------------------------------------------------------------------------
\* What follows from the invariant.

LEMMA SmallNumbers ==
  /\ \A n \in Nat : n >= n
  /\ \A n : n = 0 => ~(n > 0) /\ ~(n > 1) /\ n # 1
OBVIOUS

LEMMA LengthFacts ==
  ASSUME NEW S, NEW s \in Seq(S)
  PROVE  /\ Len(s) \in Nat /\ DOMAIN s = 1 .. Len(s)
         /\ Len(s) + 1 \in Nat /\ Len(s) + 1 >= 1
OBVIOUS

LEMMA SequenceFacts ==
  ASSUME NEW S, NEW n \in Nat, n >= 1, NEW s, s = [i \in 1 .. n |-> s[i]],
         \A i \in 1 .. n : s[i] \in S
  PROVE  s \in Seq(S) /\ s # <<>>
OBVIOUS

LEMMA NoneIsEven == 0 # 1 /\ 0 % 2 = 0 /\ 0 % 2 # 1
OBVIOUS

\* An item that does not exist is one that fails the states, whatever they are.
LEMMA AbsentFails ==
  ASSUME NEW t \in TestElement, t.states # {}, NEW item \in Item,
         item.status = "does not exist"
  PROVE  ItemVerdict(t, item) = "false"
<1> DEFINE S == t.states
           vec == StateResults(S, item)
           IsOrder(s) == \A id \in S : \E i \in DOMAIN s : s[i] = id
<1>1. IsFiniteSet(S)
  BY StateIdsAssumption, FS_Subset DEF TestElement
<1>2. \E s \in [1 .. Cardinality(S) -> S] : IsOrder(s)
  <2>1. PICK f : f \in Bijection(1 .. Cardinality(S), S)
    BY <1>1, FS_CardinalityType DEF ExistsBijection
  <2>2. f \in [1 .. Cardinality(S) -> S] /\ \A id \in S : \E i \in 1 .. Cardinality(S) : f[i] = id
    BY <2>1 DEF Bijection, Surjection, Injection, IsInjective
  <2> QED
    BY <2>2
<1>3. PICK s \in [1 .. Cardinality(S) -> S] :
        IsOrder(s) /\ vec = [i \in DOMAIN s |-> Analyze(s[i], item)]
  BY <1>2 DEF StateResults
<1>4. Occurring(vec) = {"false"}
  <2>1. \A id : Analyze(id, item) = "false"
    BY DEF Analyze
  <2>2. vec = [i \in DOMAIN s |-> "false"]
    BY <1>3, <2>1
  <2>3. DOMAIN s # {}
    BY <1>3
  <2> HIDE DEF vec
  <2> QED
    BY <2>2, <2>3 DEF Occurring
<1>5. Count(vec, "true") = 0
  <2> HIDE DEF vec
  <2>1. {i \in DOMAIN vec : vec[i] = "true"} = {}
    BY <1>4 DEF Occurring
  <2> QED
    BY <2>1, FS_EmptySet DEF Count
<1>6. t.operator \in Operators
  BY DEF TestElement
<1> HIDE DEF vec
<1>7. CombineResultsByOperator(vec, t.operator) = "false"
  <2> DEFINE occ == Occurring(vec)
             trues == Count(vec, "true")
  <2>a. occ = {"false"}
    BY <1>4
  <2>1. /\ ~Trivial(occ) /\ occ \cap Undecided = {}
        /\ "true" \notin occ /\ "false" \in occ
    <3> HIDE DEF occ
    <3>1. \A x : x \in occ <=> x = "false"
      BY <2>a, Zenon
    <3>a. "false" \in occ
      BY <3>1, Zenon
    <3>b. \A x \in occ : x # "true"
      BY <3>1, Zenon
    <3>2. ~Trivial(occ)
      BY <3>a, Zenon DEF Trivial
    <3>3. \A x \in Undecided : x # "false"
      BY Zenon DEF Undecided
    <3>4. occ \cap Undecided = {}
      BY <3>1, <3>3, Zenon
    <3> QED
      BY <3>a, <3>b, <3>2, <3>4, Zenon
  <2>2. trues # 1 /\ trues % 2 = 0 /\ trues % 2 # 1
    BY <1>5, NoneIsEven, Zenon
  <2>3. trues = 0
    BY <1>5
  <2> HIDE DEF occ, trues
  <2>4. CASE t.operator = "AND"
    BY <2>1, <2>4, Zenon DEF CombineResultsByOperator, Decide, occ
  <2>5. CASE t.operator = "OR"
    BY <2>1, <2>5 DEF CombineResultsByOperator, Decide, occ
  <2>6. CASE t.operator = "ONE"
    BY <2>1, <2>2, <2>3, <2>6 DEF CombineResultsByOperator, Decide, occ, trues
  <2>7. CASE t.operator = "XOR"
    BY <2>1, <2>2, <2>7 DEF CombineResultsByOperator, Decide, occ, trues
  <2> QED
    BY <1>6, <2>4, <2>5, <2>6, <2>7 DEF Operators
<1> QED
  BY <1>7 DEF ItemVerdict, vec

\* The results that a check is about, with the others not applicable: the charts do
\* not tell the two apart.
Blanked ==
  [i \in DOMAIN items |->
     IF items[i].status = "does not exist" THEN "not applicable" ELSE itemResults[i]]

LEMMA BlankedIs ==
  ASSUME items \in Seq(Item), itemResults \in Seq(Results), Len(itemResults) = Len(items)
  PROVE  /\ Blanked \in Seq(Results)
         /\ items # <<>> => Blanked # <<>>
         /\ \A x \in Results \ {"not applicable"} :
              /\ Occurrences(CheckedResults, x) = Occurrences(Blanked, x)
              /\ x \in Occurring(CheckedResults) <=> x \in Occurring(Blanked)
<1>1. /\ DOMAIN items = 1 .. Len(items) /\ DOMAIN itemResults = 1 .. Len(items)
      /\ Len(items) \in Nat
  OBVIOUS
<1>2. \A i \in 1 .. Len(items) : Blanked[i] \in Results
  <2>1. \A i \in 1 .. Len(items) : itemResults[i] \in Results
    BY <1>1
  <2>2. "not applicable" \in Results
    BY DEF Results
  <2> QED
    BY <1>1, <2>1, <2>2 DEF Blanked
<1>3. Blanked = [i \in 1 .. Len(items) |-> Blanked[i]]
  BY <1>1 DEF Blanked
<1>4. Blanked \in Seq(Results) /\ (items # <<>> => Blanked # <<>>)
  BY <1>1, <1>2, <1>3
<1>5. ASSUME NEW x \in Results \ {"not applicable"}
      PROVE  {i \in DOMAIN CheckedResults : CheckedResults[i] = x} =
               {i \in DOMAIN Blanked : Blanked[i] = x}
  BY <1>5 DEF CheckedResults, Blanked
<1> QED
  BY <1>4, <1>5 DEF Occurrences, Occurring

\* All rows of the charts but one take any number of not applicables.
PassesOver(row) == row = NotApplicableRow \/ row[6] = "0+"

LEMMA SixthOfSeven ==
  ASSUME NEW a, NEW b, NEW c, NEW d, NEW e, NEW f, NEW g
  PROVE  <<a, b, c, d, e, f, g>>[6] = f
OBVIOUS

LEMMA NotApplicableColumn ==
  \A row \in AllChart \cup AtLeastOneChart \cup NoneSatisfyChart \cup OnlyOneChart :
    PassesOver(row)
<1> DEFINE R(a, b, c, d, e, g) == <<a, b, c, d, e, "0+", g>>
<1>1. \A a, b, c, d, e, g : PassesOver(R(a, b, c, d, e, g))
  BY SixthOfSeven DEF PassesOver
<1>2. PassesOver(NotApplicableRow)
  BY DEF PassesOver
<1>3. AllChart = {R("1+", "0", "0", "0", "0", "true"),
        R("0+", "1+", "0+", "0+", "0+", "false"),
        R("0+", "0", "1+", "0+", "0+", "error"),
        R("0+", "0", "0", "1+", "0+", "unknown"),
        R("0+", "0", "0", "0", "1+", "not evaluated"),
        NotApplicableRow}
  BY DEF AllChart, NotApplicableRow
<1>4. AtLeastOneChart = {R("1+", "0+", "0+", "0+", "0+", "true"),
        R("0", "1+", "0", "0", "0", "false"),
        R("0", "0+", "1+", "0+", "0+", "error"),
        R("0", "0+", "0", "1+", "0+", "unknown"),
        R("0", "0+", "0", "0", "1+", "not evaluated"),
        NotApplicableRow}
  BY DEF AtLeastOneChart, NotApplicableRow
<1>5. NoneSatisfyChart = {R("0", "1+", "0", "0", "0", "true"),
        R("1+", "0+", "0+", "0+", "0+", "false"),
        R("0", "0+", "1+", "0+", "0+", "error"),
        R("0", "0+", "0", "1+", "0+", "unknown"),
        R("0", "0+", "0", "0", "1+", "not evaluated"),
        NotApplicableRow}
  BY DEF NoneSatisfyChart, NotApplicableRow
<1>6. OnlyOneChart = {R("1", "0+", "0", "0", "0", "true"),
        R("2+", "0+", "0+", "0+", "0+", "false"),
        R("0", "1+", "0", "0", "0", "false"),
        R("0,1", "0+", "1+", "0+", "0+", "error"),
        R("0,1", "0+", "0", "1+", "0+", "unknown"),
        R("0,1", "0+", "0", "0", "1+", "not evaluated"),
        NotApplicableRow}
  BY DEF OnlyOneChart, NotApplicableRow
<1> HIDE DEF R
<1>7. \A row \in AllChart : PassesOver(row)
  BY <1>1, <1>2, <1>3, Zenon
<1>8. \A row \in AtLeastOneChart : PassesOver(row)
  BY <1>1, <1>2, <1>4, Zenon
<1>9. \A row \in NoneSatisfyChart : PassesOver(row)
  BY <1>1, <1>2, <1>5, Zenon
<1>10. \A row \in OnlyOneChart : PassesOver(row)
  BY <1>1, <1>2, <1>6, Zenon
<1> QED
  BY <1>7, <1>8, <1>9, <1>10, Zenon

LEMMA ChartsAre ==
  ASSUME NEW check \in Checks \ {"none exist"}
  PROVE  CheckChart[check] \subseteq AllChart \cup AtLeastOneChart \cup NoneSatisfyChart \cup OnlyOneChart
<1>1. check \in {"all", "at least one", "none satisfy", "only one"}
  BY DEF Checks
<1> QED
  BY <1>1 DEF CheckChart

\* Two vectors have the same number of each result that is not of a set.
SameBut(f, g, S) == \A x \in Results \ S : Occurrences(f, x) = Occurrences(g, x)

\* Some result that is not a not applicable.
HasResult(occ) ==
  \/ "true" \in occ \/ "false" \in occ \/ "error" \in occ
  \/ "unknown" \in occ \/ "not evaluated" \in occ

LEMMA SomeResult ==
  ASSUME NEW g \in Seq(Results)
  PROVE  ~Trivial(Occurring(g)) => HasResult(Occurring(g))
<1>1. \A i \in DOMAIN g : g[i] \in Results
  OBVIOUS
<1>2. \A x \in Occurring(g) : x \in Results
  BY <1>1, Zenon DEF Occurring
<1>3. \A x \in Results : x = "not applicable" \/ x = "true" \/ x = "false" \/ x = "error"
                         \/ x = "unknown" \/ x = "not evaluated"
  BY Zenon DEF Results
<1> QED
  BY <1>2, <1>3, Zenon DEF Trivial, HasResult

\* The row of the not applicables fits a vector with nothing else only.
LEMMA NotApplicableOnly ==
  ASSUME NEW chart, NEW f, NEW g \in Seq(Results), HasResult(Occurring(g)),
         SameBut(f, g, {"not applicable"})
  PROVE  NotApplicableRow \notin MatchingRows(chart, ResultColumns, f)
<1>1. /\ NotApplicableRow[1] = "0" /\ NotApplicableRow[2] = "0" /\ NotApplicableRow[3] = "0"
      /\ NotApplicableRow[4] = "0" /\ NotApplicableRow[5] = "0"
  BY DEF NotApplicableRow
<1>2. \A x : MatchesPattern(Occurrences(g, x), "0") => x \notin Occurring(g)
  BY PatternMeans, Zenon
<1>3. ASSUME NotApplicableRow \in MatchingRows(chart, ResultColumns, f) PROVE FALSE
  <2>1. /\ MatchesPattern(Occurrences(f, "true"), NotApplicableRow[1])
        /\ MatchesPattern(Occurrences(f, "false"), NotApplicableRow[2])
        /\ MatchesPattern(Occurrences(f, "error"), NotApplicableRow[3])
        /\ MatchesPattern(Occurrences(f, "unknown"), NotApplicableRow[4])
        /\ MatchesPattern(Occurrences(f, "not evaluated"), NotApplicableRow[5])
    BY <1>3, ResultRows, Zenon
  <2>2. /\ Occurrences(f, "true") = Occurrences(g, "true")
        /\ Occurrences(f, "false") = Occurrences(g, "false")
        /\ Occurrences(f, "error") = Occurrences(g, "error")
        /\ Occurrences(f, "unknown") = Occurrences(g, "unknown")
        /\ Occurrences(f, "not evaluated") = Occurrences(g, "not evaluated")
    BY Zenon DEF SameBut, Results
  <2>3. /\ MatchesPattern(Occurrences(g, "true"), "0")
        /\ MatchesPattern(Occurrences(g, "false"), "0")
        /\ MatchesPattern(Occurrences(g, "error"), "0")
        /\ MatchesPattern(Occurrences(g, "unknown"), "0")
        /\ MatchesPattern(Occurrences(g, "not evaluated"), "0")
    BY <1>1, <2>1, <2>2, Zenon
  <2> QED
    BY <1>2, <2>3, Zenon DEF HasResult
<1> QED
  BY <1>3

\* The charts pass over what is not applicable, beside anything else.
LEMMA ChartsPassOver ==
  ASSUME NEW f, NEW g \in Seq(Results), NEW check \in Checks \ {"none exist"},
         SameBut(f, g, {"not applicable"}), ~Trivial(Occurring(g))
  PROVE  ChartResult(CheckChart[check], f) = ChartResult(CheckChart[check], g)
<1> DEFINE chart == CheckChart[check]
           MF == MatchingRows(chart, ResultColumns, f)
           MG == MatchingRows(chart, ResultColumns, g)
<1>1. \A row \in chart : PassesOver(row)
  BY ChartsAre, NotApplicableColumn, Zenon
<1>2. HasResult(Occurring(g)) /\ SameBut(g, g, {"not applicable"})
  BY SomeResult, Zenon DEF SameBut
<1> HIDE DEF chart
<1>3. NotApplicableRow \notin MF /\ NotApplicableRow \notin MG
  BY <1>2, NotApplicableOnly, Zenon
<1>4. /\ Occurrences(f, "true") = Occurrences(g, "true")
      /\ Occurrences(f, "false") = Occurrences(g, "false")
      /\ Occurrences(f, "error") = Occurrences(g, "error")
      /\ Occurrences(f, "unknown") = Occurrences(g, "unknown")
      /\ Occurrences(f, "not evaluated") = Occurrences(g, "not evaluated")
  BY Zenon DEF SameBut, Results
<1>5. \A n : MatchesPattern(n, "0+")
  BY DEF MatchesPattern
<1>6. ASSUME NEW row \in chart, row # NotApplicableRow PROVE row \in MF <=> row \in MG
  <2>1. row[6] = "0+"
    BY <1>1, <1>6, Zenon DEF PassesOver
  <2>2. /\ MatchesPattern(Occurrences(f, "not applicable"), row[6])
        /\ MatchesPattern(Occurrences(g, "not applicable"), row[6])
    BY <1>5, <2>1, Zenon
  <2> QED
    BY <1>4, <1>6, <2>2, ResultRows, Zenon
<1>7. MF \subseteq chart /\ MG \subseteq chart
  BY Zenon DEF MatchingRows
<1>8. MF = MG
  <2> HIDE DEF MF, MG
  <2>1. \A row : row \in MF <=> row \in MG
    BY <1>3, <1>6, <1>7, Zenon
  <2> QED
    BY <2>1, Zenon
<1>9. ChartResult(chart, f) = ChartValue(chart, ResultColumns, f)
  BY <1>3, Zenon DEF ChartResult
<1>10. ChartResult(chart, g) = ChartValue(chart, ResultColumns, g)
  BY <1>3, Zenon DEF ChartResult
<1>11. ChartValue(chart, ResultColumns, f) = ChartValue(chart, ResultColumns, g)
  BY <1>8, Zenon DEF ChartValue
<1> HIDE DEF MF, MG
<1> QED
  BY <1>9, <1>10, <1>11, Zenon DEF chart

\* What no true is among: none, and not two of them.
LEMMA NoTrues ==
  ASSUME NEW S, NEW vec \in Seq(S), "true" \notin Occurring(vec)
  PROVE  /\ Count(vec, "true") = 0 /\ Count(vec, "true") # 1 /\ ~(Count(vec, "true") > 1)
<1> DEFINE n == Count(vec, "true")
<1>1. n \in Nat /\ ~(n >= 1)
  BY CountFacts
<1> HIDE DEF n
<1>2. n = 0 /\ n # 1 /\ ~(n > 1)
  BY <1>1
<1> QED
  BY <1>2 DEF n

\* What false results of items that do not exist make of a check.
FalseDecides(vec, rest, check) ==
  /\ check = "all" => CombineResultsByCheck(vec, check) = "false"
  /\ Trivial(Occurring(rest)) =>
       CombineResultsByCheck(vec, check) = IF check = "none satisfy" THEN "true" ELSE "false"
  /\ check # "all" /\ ~Trivial(Occurring(rest)) =>
       CombineResultsByCheck(vec, check) = CombineResultsByCheck(rest, check)

LEMMA FalseBeside ==
  ASSUME NEW vec \in Seq(Results), NEW rest \in Seq(Results),
         NEW check \in Checks \ {"none exist"},
         "false" \in Occurring(vec), SameBut(vec, rest, {"false", "not applicable"})
  PROVE  FalseDecides(vec, rest, check)
<1> DEFINE occ == Occurring(vec)
           left == Occurring(rest)
           trues == Count(vec, "true")
<1>1. \A x : /\ Count(vec, x) = Occurrences(vec, x) /\ (x \in occ <=> Count(vec, x) >= 1)
             /\ Count(rest, x) = Occurrences(rest, x) /\ (x \in left <=> Count(rest, x) >= 1)
  BY CountFacts, Zenon
<1>2. /\ Occurrences(vec, "true") = Occurrences(rest, "true")
      /\ Occurrences(vec, "error") = Occurrences(rest, "error")
      /\ Occurrences(vec, "unknown") = Occurrences(rest, "unknown")
      /\ Occurrences(vec, "not evaluated") = Occurrences(rest, "not evaluated")
  BY Zenon DEF SameBut, Results
<1>3. /\ trues = Count(rest, "true")
      /\ "true" \in occ <=> "true" \in left
      /\ "error" \in occ <=> "error" \in left
      /\ "unknown" \in occ <=> "unknown" \in left
      /\ "not evaluated" \in occ <=> "not evaluated" \in left
  BY <1>1, <1>2, Zenon
<1>4. ~Trivial(occ) /\ "false" \in occ
  BY Zenon DEF Trivial
<1>6. Precedence(occ) = Precedence(left)
  BY <1>3, Zenon DEF Precedence
<1>7. occ \cap Undecided = {} <=> left \cap Undecided = {}
  BY <1>3, Zenon DEF Undecided
<1>8. Trivial(left) => left \cap Undecided = {} /\ "true" \notin left
  BY Zenon DEF Undecided, Trivial
<1>9. "true" \notin occ => trues = 0 /\ trues # 1 /\ ~(trues > 1)
  BY NoTrues, Zenon
<1> HIDE DEF occ, left, trues
<1>10. CASE check = "all"
  <2>1. CombineResultsByCheck(vec, check) = "false"
    BY <1>4, <1>10, Zenon DEF CombineResultsByCheck, Decide, occ
  <2> QED
    BY <1>10, <2>1, Zenon DEF FalseDecides
<1>11. CASE check = "at least one"
  <2>1. CombineResultsByCheck(vec, check) =
          Decide("true" \in occ, occ \cap Undecided = {} /\ "true" \notin occ, occ)
    BY <1>4, <1>11, Zenon DEF CombineResultsByCheck, occ
  <2>2. ~Trivial(left) => CombineResultsByCheck(rest, check) =
          Decide("true" \in left, left \cap Undecided = {} /\ "true" \notin left, left)
    BY <1>11, Zenon DEF CombineResultsByCheck, left
  <2> QED
    BY <1>3, <1>6, <1>7, <1>8, <1>11, <2>1, <2>2, Zenon DEF FalseDecides, Decide, left
<1>12. CASE check = "none satisfy"
  <2>1. CombineResultsByCheck(vec, check) =
          Decide(occ \cap Undecided = {} /\ "true" \notin occ, "true" \in occ, occ)
    BY <1>4, <1>12, Zenon DEF CombineResultsByCheck, occ
  <2>2. ~Trivial(left) => CombineResultsByCheck(rest, check) =
          Decide(left \cap Undecided = {} /\ "true" \notin left, "true" \in left, left)
    BY <1>12, Zenon DEF CombineResultsByCheck, left
  <2> QED
    BY <1>3, <1>6, <1>7, <1>8, <1>12, <2>1, <2>2, Zenon DEF FalseDecides, Decide, left
<1>13. CASE check = "only one"
  <2>1. CombineResultsByCheck(vec, check) =
          Decide(occ \cap Undecided = {} /\ trues = 1,
                 trues > 1 \/ (occ \cap Undecided = {} /\ trues = 0), occ)
    BY <1>4, <1>13, Zenon DEF CombineResultsByCheck, occ, trues
  <2>2. ~Trivial(left) => CombineResultsByCheck(rest, check) =
          Decide(left \cap Undecided = {} /\ trues = 1,
                 trues > 1 \/ (left \cap Undecided = {} /\ trues = 0), left)
    BY <1>3, <1>13, Zenon DEF CombineResultsByCheck, left
  <2> QED
    BY <1>3, <1>6, <1>7, <1>8, <1>9, <1>13, <2>1, <2>2, Zenon DEF FalseDecides, Decide, left
<1>14. check = "all" \/ check = "at least one" \/ check = "none satisfy" \/ check = "only one"
  BY Zenon DEF Checks
<1> QED
  BY <1>10, <1>11, <1>12, <1>13, <1>14, Zenon

\* All tested items have been evaluated: the check is of those that exist, or it is
\* one that an item that does not exist decides.
LEMMA CheckFollowsChart ==
  ASSUME ResultInv, test.states # {}, Loads, items # <<>>, AllEvaluated
  PROVE  CombineResultsByCheck(itemResults, test.check) =
           IF AbsentDecides THEN AbsentResult
           ELSE ChartResult(CheckChart[test.check], CheckedResults)
<1>1. /\ test \in TestElement /\ items \in Seq(Item) /\ itemResults \in Seq(Results)
      /\ NotDeprecated /\ ItemsAreEvaluated
  BY DEF ResultInv, TypeOK
<1>2. test.check \in Checks \ {"none exist"}
  BY <1>1 DEF TestElement, NotDeprecated
<1>3. Len(itemResults) = Len(items) /\ DOMAIN items = 1 .. Len(items) /\ itemResults # <<>>
      /\ DOMAIN itemResults = 1 .. Len(items)
  BY <1>1 DEF AllEvaluated
<1>4. /\ Blanked \in Seq(Results) /\ Blanked # <<>>
      /\ \A x \in Results \ {"not applicable"} :
           /\ Occurrences(CheckedResults, x) = Occurrences(Blanked, x)
           /\ x \in Occurring(CheckedResults) <=> x \in Occurring(Blanked)
  BY <1>1, <1>3, BlankedIs
<1>5. \A i \in DOMAIN items : items[i].status = "does not exist" => itemResults[i] = "false"
  <2> TAKE i \in DOMAIN items
  <2>1. items[i] \in Item /\ i \in 1 .. Len(itemResults)
    BY <1>1, <1>3
  <2>2. itemResults[i] = ItemVerdict(test, items[i])
    BY <1>1, <2>1 DEF ItemsAreEvaluated
  <2> QED
    BY <1>1, <2>1, <2>2, AbsentFails
<1>6. Trivial(Occurring(CheckedResults)) <=> Trivial(Occurring(Blanked))
  <2>1. Occurring(CheckedResults) \subseteq Results /\ Occurring(Blanked) \subseteq Results
    <3>1. \A i \in DOMAIN items : itemResults[i] \in Results
      BY <1>1, <1>3
    <3>2. /\ DOMAIN CheckedResults \subseteq DOMAIN items
          /\ \A i \in DOMAIN CheckedResults : CheckedResults[i] = itemResults[i]
      BY DEF CheckedResults
    <3>3. \A i \in DOMAIN Blanked : Blanked[i] \in Results
      <4>1. Blanked \in Seq(Results)
        BY <1>4
      <4> QED
        BY <4>1
    <3> QED
      BY <3>1, <3>2, <3>3 DEF Occurring
  <2> QED
    BY <1>4, <2>1, Zenon DEF Trivial
<1>7. Occurs("does not exist") <=> \E i \in DOMAIN items : items[i].status = "does not exist"
  BY DEF Occurs, Occurring, ItemStatuses
<1>8. CASE ~Occurs("does not exist")
  <2>1. CheckedResults = itemResults
    <3>1. {k \in DOMAIN items : items[k].status # "does not exist"} = DOMAIN itemResults
      BY <1>3, <1>7, <1>8
    <3>2. itemResults = [i \in DOMAIN itemResults |-> itemResults[i]]
      BY <1>1
    <3> QED
      BY <3>1, <3>2, Zenon DEF CheckedResults
  <2> QED
    BY <1>1, <1>2, <1>3, <1>8, <2>1, CheckMatchesChart DEF AbsentDecides
<1>9. CASE Occurs("does not exist")
  <2>1. "false" \in Occurring(itemResults)
    BY <1>3, <1>5, <1>7, <1>9 DEF Occurring
  <2>2. SameBut(itemResults, Blanked, {"false", "not applicable"})
    <3> SUFFICES ASSUME NEW x \in Results \ {"false", "not applicable"}
                 PROVE  Occurrences(itemResults, x) = Occurrences(Blanked, x)
      BY Zenon DEF SameBut
    <3>1. {i \in DOMAIN itemResults : itemResults[i] = x} = {i \in DOMAIN Blanked : Blanked[i] = x}
      BY <1>3, <1>5 DEF Blanked
    <3> QED
      BY <3>1 DEF Occurrences
  <2>3. CASE AbsentDecides
    <3>1. FalseDecides(itemResults, Blanked, test.check)
      BY <1>1, <1>2, <1>4, <2>1, <2>2, FalseBeside, Zenon
    <3>2. test.check = "all" \/ Trivial(Occurring(Blanked))
      BY <1>6, <2>3, Zenon DEF AbsentDecides, Trivial
    <3> QED
      BY <2>3, <3>1, <3>2, Zenon DEF FalseDecides, AbsentResult
  <2>4. CASE ~AbsentDecides
    <3>1. test.check # "all" /\ ~Trivial(Occurring(Blanked))
      BY <1>6, <1>9, <2>4, Zenon DEF AbsentDecides, Trivial
    <3>2. CombineResultsByCheck(itemResults, test.check) =
            CombineResultsByCheck(Blanked, test.check)
      BY <1>1, <1>2, <1>4, <2>1, <2>2, <3>1, FalseBeside, Zenon DEF FalseDecides
    <3>3. CombineResultsByCheck(Blanked, test.check) = ChartResult(CheckChart[test.check], Blanked)
      BY <1>2, <1>4, CheckMatchesChart
    <3>4. ChartResult(CheckChart[test.check], CheckedResults) =
            ChartResult(CheckChart[test.check], Blanked)
      <4>1. SameBut(CheckedResults, Blanked, {"not applicable"})
        BY <1>4, Zenon DEF SameBut
      <4> QED
        BY <1>2, <1>4, <3>1, <4>1, ChartsPassOver, Zenon
    <3> QED
      BY <2>4, <3>2, <3>3, <3>4
  <2> QED
    BY <2>3, <2>4
<1> QED
  BY <1>8, <1>9

LEMMA CompleteFollowsCharts == ResultInv => CompleteMatchesCharts
<1> SUFFICES ASSUME ResultInv, Analyzed, flag = "complete",
                    HasExistenceRow(test.existence, ItemStatuses)
             PROVE  IF \/ ChartExistence(test.existence, ItemStatuses) # "true"
                       \/ test.states = {}
                    THEN result = ChartExistence(test.existence, ItemStatuses)
                    ELSE Loads /\ items # <<>> =>
                           /\ Len(itemResults) = Len(items)
                           /\ result = IF AbsentDecides THEN AbsentResult
                                       ELSE ChartResult(CheckChart[test.check], CheckedResults)
  BY Zenon DEF CompleteMatchesCharts
<1>1. /\ test \in TestElement /\ items \in Seq(Item) /\ itemResults \in Seq(Results)
      /\ OfComplete
  BY DEF ResultInv, TypeOK
<1>2. test.existence \in Existences
  BY <1>1 DEF TestElement
<1>3. EvaluateCheckExistence = ChartExistence(test.existence, ItemStatuses)
  BY <1>1, <1>2, ExistenceAgrees
<1>4. CASE EvaluateCheckExistence # "true" \/ test.states = {}
  <2>1. result = EvaluateCheckExistence
    BY <1>1, <1>4 DEF OfComplete
  <2> QED
    BY <1>3, <1>4, <2>1
<1>5. CASE EvaluateCheckExistence = "true" /\ test.states # {}
  <2>1. ASSUME Loads, items # <<>>
        PROVE  /\ Len(itemResults) = Len(items)
               /\ result = IF AbsentDecides THEN AbsentResult
                           ELSE ChartResult(CheckChart[test.check], CheckedResults)
    <3>1. AllEvaluated /\ result = CombineResultsByCheck(itemResults, test.check)
      BY <1>1, <1>5, <2>1 DEF OfComplete
    <3> QED
      BY <1>5, <2>1, <3>1, CheckFollowsChart, Zenon DEF AllEvaluated
  <2> QED
    BY <1>3, <1>5, <2>1
<1> QED
  BY <1>4, <1>5

LEMMA AbsentFollowsChart == ResultInv => AbsentMatchesChart
<1> SUFFICES ASSUME ResultInv, Analyzed, flag = "does not exist", test.states = {},
                    Occurring(ItemStatuses) \subseteq {"does not exist"},
                    HasExistenceRow(test.existence, ItemStatuses)
             PROVE  result = ChartExistence(test.existence, ItemStatuses)
  BY Zenon DEF AbsentMatchesChart
<1>1. test \in TestElement /\ items \in Seq(Item) /\ OfAbsent
  BY DEF ResultInv, TypeOK
<1>2. test.existence \in Existences
  BY <1>1 DEF TestElement
<1>3. EvaluateCheckExistence = ChartExistence(test.existence, ItemStatuses)
  BY <1>1, <1>2, ExistenceAgrees
<1> DEFINE occ == Occurring(ItemStatuses)
<1>4. ItemStatuses \in Seq(Statuses) /\ (ItemStatuses = <<>> <=> items = <<>>)
  BY <1>1, StatusesOfTheItems
<1>5. "exists" \notin occ /\ "error" \notin occ /\ "not collected" \notin occ
  OBVIOUS
<1>6. occ = {} <=> items = <<>>
  BY <1>4, OccurringStatuses
<1>7. /\ ~(Exists > 0) /\ Exists = 0 /\ ~(Exists > 1) /\ Exists # 1
  <2>1. Count(ItemStatuses, "exists") = 0
    BY <1>4, <1>5, CountSigns
  <2> QED
    BY <2>1, SmallNumbers, Zenon DEF Exists
<1>8. /\ ~Occurs("error") /\ ~Occurs("not collected")
      /\ Occurs("does not exist") \/ items = <<>>
  BY <1>5, <1>6 DEF Occurs
<1>9. result = IF test.existence \in {"none_exist", "any_exist"} THEN "true" ELSE "false"
  BY <1>1 DEF OfAbsent
<1>10. CASE test.existence = "at_least_one_exists" /\ items = <<>>
  <2>1. ItemStatuses = <<>>
    BY <1>4, <1>10
  <2> QED
    BY <1>10, <2>1, NoRowForNothing
<1>11. CASE test.existence = "at_least_one_exists" /\ items # <<>>
  <2>1. EvaluateCheckExistence = "false"
    BY <1>7, <1>8, <1>11 DEF EvaluateCheckExistence
  <2> QED
    BY <1>3, <1>9, <1>11, <2>1
<1>12. CASE test.existence = "none_exist"
  <2>1. EvaluateCheckExistence = "true"
    BY <1>7, <1>8, <1>12 DEF EvaluateCheckExistence
  <2> QED
    BY <1>3, <1>9, <1>12, <2>1
<1>13. CASE test.existence = "any_exist"
  <2>1. EvaluateCheckExistence = "true"
    BY <1>7, <1>8, <1>13 DEF EvaluateCheckExistence
  <2> QED
    BY <1>3, <1>9, <1>13, <2>1
<1>14. CASE test.existence = "all_exist"
  <2>1. EvaluateCheckExistence = "false"
    BY <1>7, <1>8, <1>14 DEF EvaluateCheckExistence
  <2> QED
    BY <1>3, <1>9, <1>14, <2>1
<1>15. CASE test.existence = "only_one_exists"
  <2>1. EvaluateCheckExistence = "false"
    BY <1>7, <1>8, <1>15 DEF EvaluateCheckExistence
  <2> QED
    BY <1>3, <1>9, <1>15, <2>1
<1> QED
  BY <1>2, <1>10, <1>11, <1>12, <1>13, <1>14, <1>15 DEF Existences

\* A test's result is the one of the schema's charts, for objects of any size that were
\* collected completely or looked for in vain, with the exception that an item that does
\* not exist counts as one that fails the states (Test.cpp:613-653, State.cpp:71).
THEOREM TestsFollowTheCharts == Spec => []MatchesCharts
<1>1. ResultInv => MatchesCharts
  BY CompleteFollowsCharts, AbsentFollowsChart DEF MatchesCharts
<1> QED
  BY <1>1, InitResultInv, NextResultInv, PTL DEF Spec

-----------------------------------------------------------------------------
LEMMA FailureGivesNoVerdict == ResultInv => FailureIsNotAVerdict
<1> SUFFICES ASSUME ResultInv, Analyzed, ~Loads, items # <<>>, Definite(result),
                    flag # "does not exist"
             PROVE  result = "false" /\ ChartExistence(test.existence, ItemStatuses) = "false"
  BY Zenon DEF FailureIsNotAVerdict
<1>1. /\ test \in TestElement /\ items \in Seq(Item) /\ flag \in Flags
      /\ OfComplete /\ OfIncomplete /\ OfUnusable
  BY DEF ResultInv, TypeOK, FlagIsFlag, FlagIsKnown
<1>2. test.existence \in Existences
  BY <1>1 DEF TestElement
<1>3. test.states # {}
  BY DEF Loads
<1>4. ItemStatuses \in Seq(Statuses)
  BY <1>1, StatusesOfTheItems
<1>5. CASE flag = "complete"
  <2>1. EvaluateCheckExistence = ChartExistence(test.existence, ItemStatuses)
    BY <1>1, <1>2, ExistenceAgrees
  <2>2. EvaluateCheckExistence # "true" /\ result = EvaluateCheckExistence
    BY <1>1, <1>3, <1>5 DEF OfComplete, Definite
  <2> QED
    BY <2>1, <2>2 DEF Definite
<1>6. CASE flag = "incomplete"
  <2>1. PartialExistence # "true" /\ result = PartialExistence
    BY <1>1, <1>6 DEF OfIncomplete, Definite
  <2>2. Count(ItemStatuses, "exists") >= Exists
    <3>1. Count(ItemStatuses, "exists") \in Nat
      BY <1>4, CountFacts
    <3> QED
      BY <3>1, SmallNumbers, Zenon DEF Exists
  <2>3. PartialExistence = "false" => ChartExistence(test.existence, ItemStatuses) = "false"
    BY <1>1, <1>2, <1>4, <2>2, PartialExistenceStands
  <2> QED
    BY <2>1, <2>3 DEF Definite
<1>7. CASE flag \in {"error", "not applicable", "not collected"}
  BY <1>1, <1>3, <1>7 DEF OfUnusable
<1> QED
  BY <1>1, <1>5, <1>6, <1>7 DEF Flags

\* What remains of a sequence when an element follows.
LEMMA ItemsAndOneMore ==
  ASSUME NEW S, NEW s \in Seq(S), NEW x \in S
  PROVE  /\ (s \o <<x>>) \in Seq(S)
         /\ DOMAIN (s \o <<x>>) = 1 .. Len(s) + 1
         /\ DOMAIN s = 1 .. Len(s)
         /\ \A i \in 1 .. Len(s) :
              i \in DOMAIN (s \o <<x>>) /\ (s \o <<x>>)[i] = s[i]
         /\ Len(s) + 1 \in DOMAIN (s \o <<x>>)
         /\ (s \o <<x>>)[Len(s) + 1] = x
OBVIOUS

\* What the items and one more that exists say of existence.
LEMMA OneMoreItem ==
  ASSUME items \in Seq(Item), NEW one \in Item, one.status = "exists",
         NEW all, all = items \o <<one>>,
         NEW statuses, statuses = [i \in DOMAIN all |-> all[i].status]
  PROVE  /\ all \in Seq(Item)
         /\ DOMAIN all = 1 .. Len(items) + 1
         /\ \A i \in 1 .. Len(items) : i \in DOMAIN all /\ all[i] = items[i]
         /\ statuses \in Seq(Statuses)
         /\ "exists" \in Occurring(statuses)
         /\ Count(statuses, "exists") >= Exists
<1>1. /\ all \in Seq(Item)
      /\ DOMAIN all = 1 .. Len(items) + 1
      /\ DOMAIN items = 1 .. Len(items)
      /\ \A i \in 1 .. Len(items) : i \in DOMAIN all /\ all[i] = items[i]
      /\ Len(items) + 1 \in DOMAIN all
      /\ all[Len(items) + 1] = one
  BY ItemsAndOneMore
<1>2. /\ statuses \in Seq(Statuses)
      /\ DOMAIN statuses = DOMAIN all
      /\ \A i \in DOMAIN all : statuses[i] = all[i].status
  BY <1>1, StatusesOfItems
<1>3. "exists" \in Occurring(statuses)
  BY <1>1, <1>2, Zenon DEF Occurring
<1>4. Count(statuses, "exists") >= Exists
  <2>1. /\ ItemStatuses \in Seq(Statuses)
        /\ DOMAIN ItemStatuses = DOMAIN items
        /\ \A i \in DOMAIN items : ItemStatuses[i] = items[i].status
    BY StatusesOfTheItems
  <2>2. DOMAIN ItemStatuses \subseteq DOMAIN statuses
    BY <1>1, <1>2, <2>1, Zenon
  <2>3. \A i \in DOMAIN ItemStatuses : statuses[i] = ItemStatuses[i]
    BY <1>1, <1>2, <2>1, Zenon
  <2> QED
    BY <1>2, <2>1, <2>2, <2>3, CountGrows DEF Exists
<1> QED
  BY <1>1, <1>2, <1>3, <1>4

LEMMA PartialVerdictStands == ResultInv => IncompleteVerdictStands
<1> SUFFICES ASSUME ResultInv, Analyzed, flag = "incomplete", Loads, Definite(result),
                    test.check \in {"all", "none satisfy"},
                    NEW answers \in [StateIds -> Answers]
             PROVE  CompletedResult(<<[status |-> "exists", answers |-> answers]>>) = result
  BY Zenon DEF IncompleteVerdictStands, VerdictStands
<1> DEFINE one == [status |-> "exists", answers |-> answers]
           all == items \o <<one>>
           statuses == [i \in DOMAIN all |-> all[i].status]
           charted == ChartExistence(test.existence, statuses)
           results == [i \in DOMAIN all |-> ItemVerdict(test, all[i])]
<1>1. /\ test \in TestElement /\ items \in Seq(Item) /\ itemResults \in Seq(Results)
      /\ OfIncomplete /\ NotDeprecated /\ ItemsAreEvaluated
  BY DEF ResultInv, TypeOK
<1>2. /\ test.existence \in Existences /\ test.operator \in Operators
      /\ test.check \in Checks
  BY <1>1 DEF TestElement
<1>3. one \in Item /\ one.status = "exists"
  BY DEF Item, Statuses
<1>4. CompletedResult(<<one>>) =
        IF charted # "true" \/ test.states = {} THEN charted
        ELSE ChartResult(CheckChart[test.check], results)
  BY Zenon DEF CompletedResult, ItemVerdict
<1> HIDE DEF one
<1>5. /\ all \in Seq(Item)
      /\ DOMAIN all = 1 .. Len(items) + 1
      /\ \A i \in 1 .. Len(items) : i \in DOMAIN all /\ all[i] = items[i]
      /\ statuses \in Seq(Statuses)
      /\ "exists" \in Occurring(statuses)
      /\ Count(statuses, "exists") >= Exists
  BY <1>1, <1>3, OneMoreItem, Zenon
<1> HIDE DEF all, statuses
<1>6. /\ PartialExistence = "false" => charted = "false"
      /\ PartialExistence = "true" => charted = "true"
  BY <1>1, <1>2, <1>5, PartialExistenceStands
<1>7. CASE PartialExistence # "true"
  <2>1. PartialExistence = "false" /\ result = "false"
    BY <1>1, <1>7 DEF OfIncomplete, Definite
  <2>2. charted = "false"
    BY <1>6, <2>1
  <2> HIDE DEF charted, results
  <2> QED
    BY <1>4, <2>1, <2>2 DEF one
<1>8. CASE PartialExistence = "true"
  <2>1. test.check # "at least one"
    OBVIOUS
  <2>2. result = "false"
    BY <1>1, <1>8, <2>1 DEF OfIncomplete, Definite
  <2>3. /\ test.states # {} /\ AllEvaluated
        /\ CombineResultsByCheck(itemResults, test.check) = "false"
    BY <1>1, <1>8, <2>2 DEF OfIncomplete
  <2>4. results \in Seq(Results) /\ results # <<>>
    <3>1. \A item : ItemVerdict(test, item) \in Results
      BY <1>2, CombinationIsResult DEF ItemVerdict
    <3> DEFINE k == Len(items) + 1
    <3>2. k \in Nat /\ k >= 1
      BY <1>1, LengthFacts, Zenon
    <3>3. DOMAIN all = 1 .. k
      BY <1>5
    <3> HIDE DEF k
    <3>4. results = [i \in 1 .. k |-> ItemVerdict(test, all[i])]
      BY <3>3
    <3>5. /\ results = [i \in 1 .. k |-> results[i]]
          /\ \A i \in 1 .. k : results[i] \in Results
      BY <3>1, <3>4, Zenon
    <3> HIDE DEF results
    <3> QED
      BY <3>2, <3>5, SequenceFacts, Zenon
  <2>5. \A i \in 1 .. Len(items) : i \in DOMAIN results /\ results[i] = itemResults[i]
    <3>1. \A i \in 1 .. Len(itemResults) : itemResults[i] = ItemVerdict(test, items[i])
      BY <1>1 DEF ItemsAreEvaluated
    <3> QED
      BY <1>5, <2>3, <3>1, Zenon DEF AllEvaluated
  <2> HIDE DEF results
  <2>6. Witness(test.check) \in Occurring(itemResults)
    BY <2>3, FalseHasWitness
  <2>7. Occurring(itemResults) \subseteq Occurring(results)
    <3>1. DOMAIN itemResults = 1 .. Len(items)
      BY <1>1, <2>3, LengthFacts, Zenon DEF AllEvaluated
    <3> QED
      BY <2>5, <3>1, Zenon DEF Occurring
  <2>8. CombineResultsByCheck(results, test.check) = "false"
    BY <2>6, <2>7, FalseHasWitness
  <2>9. ChartResult(CheckChart[test.check], results) = "false"
    BY <1>1, <1>2, <2>4, <2>8, CheckMatchesChart DEF NotDeprecated
  <2>10. charted = "true"
    BY <1>6, <1>8
  <2> HIDE DEF charted
  <2> QED
    BY <1>4, <2>2, <2>3, <2>9, <2>10 DEF one
<1> QED
  BY <1>7, <1>8

\* True and false are said only for reasons that stand: whatever the states that do
\* not load, and whatever item that exists had been collected as well, for objects
\* of any size (Test.cpp:554-611, 838-841).
THEOREM VerdictsStand == Spec => []VerdictsAreFounded
<1>1. ResultInv => VerdictsAreFounded
  BY FailureGivesNoVerdict, PartialVerdictStands DEF VerdictsAreFounded
<1> QED
  BY <1>1, InitResultInv, NextResultInv, PTL DEF Spec

-----------------------------------------------------------------------------
\* The entities of states.

\* What a comparison can give, and what combining such results can give.
Comparisons == {"true", "false", "error", "exception"}
Basic       == {"true", "false", "error", "unknown"}
UsedChecks  == Checks \ {"none exist"}

LEMMA VerdictIsBasic == \A c : Verdict(c) \in Comparisons
BY DEF Verdict, Comparisons

LEMMA OrderIsComparison == \A operation, sense : ByOrder(operation, sense) \in Comparisons
<1> TAKE operation, sense
<1>1. CASE operation \in Ordering
  BY <1>1, VerdictIsBasic DEF ByOrder, Ordering
<1>2. CASE operation \notin Ordering
  BY <1>2 DEF ByOrder, Ordering, Comparisons
<1> QED
  BY <1>1, <1>2

LEMMA EqualityIsComparison == \A operation, equal : EqualityOnly(operation, equal) \in Comparisons
BY OrderIsComparison DEF EqualityOnly, Comparisons

LEMMA IntegerIsComparison ==
  \A operation, def, sc : CompareInteger(operation, def, sc) \in Comparisons
<1>1. \A operation, d, s : BitwiseResult(operation, d, s) \in Comparisons
  BY VerdictIsBasic, Zenon DEF BitwiseResult
<1>2. \A operation, d, s : CompareIntOperation(operation, d, s) \in Comparisons
  BY <1>1, OrderIsComparison, Zenon DEF CompareIntOperation
<1>3. \A operation, d, s : CompareMixed(operation, d, s) \in Comparisons
  BY <1>1, OrderIsComparison, Zenon DEF CompareMixed
<1>4. "exception" \in Comparisons
  BY DEF Comparisons
<1> QED
  BY <1>2, <1>3, <1>4, Zenon DEF CompareInteger

LEMMA AddressIsComparison ==
  \A operation, def, sc : /\ CompareIpv4Address(operation, def, sc) \in Comparisons
                          /\ CompareIpv6Address(operation, def, sc) \in Comparisons
<1>1. "exception" \in Comparisons /\ "error" \in Comparisons
  BY DEF Comparisons
<1>2. \A operation, d, s, sense : CompareAddresses(operation, d, s, sense) \in Comparisons
  BY <1>1, OrderIsComparison, EqualityIsComparison, Zenon DEF CompareAddresses
<1> TAKE operation, def, sc
<1>3. CompareIpv4Address(operation, def, sc) \in Comparisons
  <2>1. CASE operation = "subset of"
    BY <1>1, <2>1, VerdictIsBasic DEF CompareIpv4Address
  <2>2. CASE operation = "superset of"
    BY <1>1, <2>2, VerdictIsBasic DEF CompareIpv4Address
  <2>3. CASE operation \notin {"subset of", "superset of"}
    BY <1>1, <1>2, <2>3 DEF CompareIpv4Address
  <2> QED
    BY <2>1, <2>2, <2>3
<1>4. CompareIpv6Address(operation, def, sc) \in Comparisons
  <2>1. CASE operation = "subset of"
    BY <1>1, <2>1, VerdictIsBasic DEF CompareIpv6Address
  <2>2. CASE operation = "superset of"
    BY <1>1, <2>2, VerdictIsBasic DEF CompareIpv6Address
  <2>3. CASE operation \notin {"subset of", "superset of"}
    BY <1>1, <1>2, <2>3 DEF CompareIpv6Address
  <2> QED
    BY <2>1, <2>2, <2>3
<1> QED
  BY <1>3, <1>4

\* Whatever is compared, the comparison gives a result or fails.
LEMMA CompareReturns ==
  ASSUME NEW datatype \in Datatypes, NEW operation, NEW def, NEW sc
  PROVE  Compare(datatype, operation, def, sc) \in Comparisons
<1>1. "exception" \in Comparisons /\ "error" \in Comparisons
  BY DEF Comparisons
<1>2. CompareBinary(operation, def, sc) \in Comparisons
      /\ CompareBoolean(operation, def, sc) \in Comparisons
  BY EqualityIsComparison, Zenon DEF CompareBinary, CompareBoolean
<1>3. CompareFloat(operation, def, sc) \in Comparisons
      /\ CompareEvrString(operation, def, sc) \in Comparisons
  BY OrderIsComparison, Zenon DEF CompareFloat, CompareEvrString
<1>4. CompareVersion(operation, def, sc) \in Comparisons
  BY <1>1, OrderIsComparison, Zenon DEF CompareVersion
<1>5. CompareString(operation, def, sc) \in Comparisons
  <2>1. CASE operation \in {"equals", "not equal", "case insensitive equals",
                            "case insensitive not equal", "pattern match"}
    BY <2>1, VerdictIsBasic DEF CompareString
  <2>2. CASE operation \notin {"equals", "not equal", "case insensitive equals",
                               "case insensitive not equal", "pattern match"}
    BY <1>1, <2>2 DEF CompareString
  <2> QED
    BY <2>1, <2>2
<1> HIDE DEF Comparisons
<1>6. CASE datatype # "string" /\ (def = <<>> \/ sc = <<>>)
  BY <1>1, <1>6 DEF Compare
<1>7. CASE ~(datatype # "string" /\ (def = <<>> \/ sc = <<>>))
  BY <1>1, <1>2, <1>3, <1>4, <1>5, <1>7, IntegerIsComparison, AddressIsComparison
  DEF Compare, Datatypes
<1> QED
  BY <1>6, <1>7

\* Combining true, false, error and unknown gives one of them.
LEMMA BasicCombination ==
  ASSUME NEW vec, Occurring(vec) \subseteq Basic, NEW check \in UsedChecks
  PROVE  CombineResultsByCheck(vec, check) \in Basic
<1> DEFINE occ == Occurring(vec)
<1>1. Trivial(occ) => TrivialResult(occ) \in Basic
  BY DEF Trivial, TrivialResult, Basic
<1>2. Precedence(occ) \in Basic
  BY DEF Precedence, Basic
<1>3. "true" \in Basic /\ "false" \in Basic
  BY DEF Basic
<1> HIDE DEF occ
<1>4. \A a, b : Decide(a, b, occ) \in Basic
  BY <1>2, <1>3, Zenon DEF Decide
<1>5. CASE Trivial(occ)
  BY <1>1, <1>5, Zenon DEF CombineResultsByCheck, occ
<1>6. CASE ~Trivial(occ)
  <2>1. CASE check = "all"
    BY <1>4, <1>6, <2>1 DEF CombineResultsByCheck, occ
  <2>2. CASE check = "at least one"
    BY <1>4, <1>6, <2>2 DEF CombineResultsByCheck, occ
  <2>3. CASE check = "none satisfy"
    BY <1>4, <1>6, <2>3 DEF CombineResultsByCheck, occ
  <2>4. CASE check = "only one"
    BY <1>4, <1>6, <2>4 DEF CombineResultsByCheck, occ
  <2> QED
    BY <2>1, <2>2, <2>3, <2>4 DEF UsedChecks, Checks
<1> QED
  BY <1>5, <1>6

\* What true means for each check: it is the code's promise about a list that has
\* no result but these.
LEMMA TrueMeans ==
  ASSUME NEW vec, Occurring(vec) \subseteq Basic, NEW check \in UsedChecks,
         CombineResultsByCheck(vec, check) = "true"
  PROVE  /\ check = "all"          => Occurring(vec) = {"true"}
         /\ check = "at least one" => "true" \in Occurring(vec)
         /\ check = "only one"     => Count(vec, "true") = 1
         /\ check = "none satisfy" => "true" \notin Occurring(vec)
<1> DEFINE occ == Occurring(vec)
<1>1. ~Trivial(occ)
  <2>1. Trivial(occ) => CombineResultsByCheck(vec, check) = TrivialResult(occ)
    BY Zenon DEF CombineResultsByCheck
  <2>2. TrivialResult(occ) # "true"
    BY DEF TrivialResult
  <2> QED
    BY <2>1, <2>2
<1>2. occ # {}
  BY <1>1 DEF Trivial
<1>3. \A a, b : Decide(a, b, occ) = "true" => a
  <2>1. Precedence(occ) # "true"
    BY DEF Precedence
  <2> QED
    BY <2>1, Zenon DEF Decide
<1>4. occ \subseteq Basic
  OBVIOUS
<1> HIDE DEF occ
<1>5. CASE check = "all"
  <2>1. occ \cap Undecided = {} /\ "false" \notin occ
    BY <1>1, <1>3, <1>5 DEF CombineResultsByCheck, occ
  <2> QED
    BY <1>2, <1>4, <1>5, <2>1 DEF Basic, Undecided, occ
<1>6. CASE check = "at least one"
  <2> DEFINE isFalse == occ \cap Undecided = {} /\ "true" \notin occ
  <2>1. CombineResultsByCheck(vec, check) = Decide("true" \in occ, isFalse, occ)
    BY <1>1, <1>6 DEF CombineResultsByCheck, occ
  <2> HIDE DEF isFalse
  <2>2. Decide("true" \in occ, isFalse, occ) = "true"
    BY <2>1, Zenon
  <2>3. "true" \in occ
    <3> SUFFICES ASSUME "true" \notin occ PROVE FALSE
      OBVIOUS
    <3>1. Decide("true" \in occ, isFalse, occ) = (IF isFalse THEN "false" ELSE Precedence(occ))
      BY Zenon DEF Decide
    <3>2. Precedence(occ) # "true"
      BY DEF Precedence
    <3> QED
      BY <2>2, <3>1, <3>2
  <2> QED
    BY <1>6, <2>3 DEF occ
<1>7. CASE check = "only one"
  BY <1>1, <1>3, <1>7 DEF CombineResultsByCheck, occ
<1>8. CASE check = "none satisfy"
  BY <1>1, <1>3, <1>8 DEF CombineResultsByCheck, occ
<1> QED
  BY <1>5, <1>6, <1>7, <1>8 DEF UsedChecks, Checks

\* Comparisons with the values of a variable, or with one, give one of the four.
LEMMA KnownIsComparison ==
  ASSUME NEW datatypes \in SUBSET Datatypes, NEW part \in Part, NEW def, NEW sc
  PROVE  CompareIfKnown(datatypes, part, def, sc) \in Comparisons
<1>1. part.datatype \in Datatypes
  BY DEF Part
<1>2. "error" \in Comparisons
  BY DEF Comparisons
<1> QED
  BY <1>1, <1>2, CompareReturns, Zenon DEF CompareIfKnown

LEMMA VariableIsBasic ==
  ASSUME NEW part \in Part, NEW sc
  PROVE  CompareVariable(part, sc) \in Basic
<1> DEFINE variable == part.variable[1]
           results == [k \in DOMAIN variable.values |->
                         CompareIfKnown(WithoutIpv6, part, variable.values[k], sc)]
<1>1. part.varCheck \in UsedChecks
  BY DEF Part, UsedChecks
<1>2. WithoutIpv6 \subseteq Datatypes
  BY DEF WithoutIpv6
<1>3. \A def : CompareIfKnown(WithoutIpv6, part, def, sc) \in Comparisons
  BY <1>2, KnownIsComparison
<1>4. "exception" \notin Occurring(results) => Occurring(results) \subseteq Basic
  BY <1>3 DEF Occurring, Comparisons, Basic
<1>5. "exception" \notin Occurring(results) => CombineResultsByCheck(results, part.varCheck) \in Basic
  BY <1>1, <1>4, BasicCombination
<1>6. "error" \in Basic
  BY DEF Basic
<1> QED
  BY <1>5, <1>6 DEF CompareVariable

LEMMA FieldIsBasic ==
  ASSUME NEW field \in Part, NEW itemField
  PROVE  AnalyzeField(field, itemField) \in Basic
<1>1. \A status : StatusResult(status) \in Basic
  BY DEF StatusResult, Basic
<1>2. WithoutIpv6 \subseteq Datatypes
  BY DEF WithoutIpv6
<1>3. Caught(CompareIfKnown(WithoutIpv6, field, field.value, itemField.value)) \in Basic
  <2>1. CompareIfKnown(WithoutIpv6, field, field.value, itemField.value) \in Comparisons
    BY <1>2, KnownIsComparison
  <2> QED
    BY <2>1 DEF Caught, Comparisons, Basic
<1>4. CompareVariable(field, itemField.value) \in Basic
  BY VariableIsBasic
<1> QED
  BY <1>1, <1>3, <1>4, Zenon DEF AnalyzeField

\* What the fields of an item with the name of a field give for it.
Same(field)    == {k \in DOMAIN scElement.fields : scElement.fields[k].name = field.name}
Matches(field) == {k \in Same(field) : AnalyzeField(field, scElement.fields[k]) = "true"}
FieldResults(field) ==
  IF Same(field) = {} THEN <<"error">>
  ELSE [k \in Same(field) |-> AnalyzeField(field, scElement.fields[k])]

LEMMA FieldResultsAreBasic ==
  ASSUME NEW field \in Part
  PROVE  /\ CompareField(field) = CombineResultsByCheck(FieldResults(field), field.entityCheck)
         /\ Occurring(FieldResults(field)) \subseteq Basic
         /\ CompareField(field) \in Basic
<1>1. CompareField(field) = CombineResultsByCheck(FieldResults(field), field.entityCheck)
  BY DEF CompareField, FieldResults, Same
<1>2. \A k : AnalyzeField(field, scElement.fields[k]) \in Basic
  BY FieldIsBasic
<1>3. Occurring(FieldResults(field)) \subseteq Basic
  <2>1. CASE Same(field) = {}
    BY <2>1 DEF FieldResults, Occurring, Basic
  <2>2. CASE Same(field) # {}
    BY <1>2, <2>2 DEF FieldResults, Occurring
  <2> QED
    BY <2>1, <2>2
<1>4. field.entityCheck \in UsedChecks
  BY DEF Part, UsedChecks
<1> QED
  BY <1>1, <1>3, <1>4, BasicCombination

LEMMA CountOfError == Count(<<"error">>, "true") # 1
<1>1. {i \in DOMAIN <<"error">> : <<"error">>[i] = "true"} = {}
  OBVIOUS
<1> QED
  BY <1>1, FS_EmptySet DEF Count

\* A field that matches is one the item has, as its check says.
LEMMA MatchingField ==
  ASSUME NEW field \in Part, CompareField(field) = "true"
  PROVE  /\ Same(field) # {}
         /\ field.entityCheck = "all"          => Matches(field) = Same(field)
         /\ field.entityCheck = "at least one" => Matches(field) # {}
         /\ field.entityCheck = "only one"     => Cardinality(Matches(field)) = 1
         /\ field.entityCheck = "none satisfy" => Matches(field) = {}
<1> DEFINE results == FieldResults(field)
           check == field.entityCheck
<1>1. check \in UsedChecks
  BY DEF Part, UsedChecks
<1>2. /\ check = "all"          => Occurring(results) = {"true"}
      /\ check = "at least one" => "true" \in Occurring(results)
      /\ check = "only one"     => Count(results, "true") = 1
      /\ check = "none satisfy" => "true" \notin Occurring(results)
  <2>1. Occurring(results) \subseteq Basic /\ CombineResultsByCheck(results, check) = "true"
    BY FieldResultsAreBasic
  <2> QED
    BY <1>1, <2>1, TrueMeans
<1>3. Same(field) # {}
  <2> SUFFICES ASSUME Same(field) = {} PROVE FALSE
    OBVIOUS
  <2>1. results = <<"error">>
    BY DEF FieldResults
  <2>2. CombineResultsByCheck(<<"error">>, check) = "true"
    BY <2>1, FieldResultsAreBasic
  <2>0. Occurring(<<"error">>) = {"error"}
    BY DEF Occurring
  <2>3. ~Trivial(Occurring(<<"error">>)) /\ "error" \in Occurring(<<"error">>)
        /\ "true" \notin Occurring(<<"error">>) /\ Occurring(<<"error">>) \cap Undecided # {}
    BY <2>0 DEF Trivial, Undecided
  <2>4. Occurring(<<"error">>) \subseteq Basic
    BY DEF Occurring, Basic
  <2>5. check = "none satisfy"
    BY <1>1, <1>2, <2>1, <2>3, CountOfError DEF UsedChecks, Checks
  <2>6. Decide(FALSE, FALSE, Occurring(<<"error">>)) = "error"
    BY <2>3 DEF Decide, Precedence
  <2> QED
    BY <2>2, <2>3, <2>5, <2>6 DEF CombineResultsByCheck, Decide, Precedence
<1>4. results = [k \in Same(field) |-> AnalyzeField(field, scElement.fields[k])]
  BY <1>3 DEF FieldResults
<1>5. DOMAIN results = Same(field)
      /\ \A k \in Same(field) : results[k] = AnalyzeField(field, scElement.fields[k])
  BY <1>4
<1> HIDE DEF results
<1>6. Matches(field) = {k \in DOMAIN results : results[k] = "true"}
  BY <1>5 DEF Matches
<1>7. Count(results, "true") = Cardinality(Matches(field))
  BY <1>6 DEF Count
<1>8. Occurring(results) = {"true"} => Matches(field) = Same(field)
  BY <1>5, <1>6 DEF Occurring
<1>9. "true" \in Occurring(results) <=> Matches(field) # {}
  BY <1>6 DEF Occurring
<1> HIDE DEF check
<1> QED
  BY <1>2, <1>3, <1>7, <1>8, <1>9 DEF check

-----------------------------------------------------------------------------
\* What is compared is a request, and what came out follows the checks.
EntityInv ==
  /\ entity.part \in Part /\ entity.fields \in Seq(Part)
  /\ ChecksAreFollowed

\* An entity starts without a result.
LEMMA InitEntityInv == EntityInit => EntityInv
<1> SUFFICES ASSUME EntityInit PROVE EntityInv
  OBVIOUS
<1>1. PICK k \in DOMAIN Requests : \E request \in Requests[k] : entity = request.entity
  BY DEF EntityInit
<1>2. PICK request \in Requests[k] : entity = request.entity
  BY <1>1
<1>3. request \in Request
  BY RequestsAssumption
<1>4. entity \in EntityElement
  BY <1>2, <1>3 DEF Request
<1>5. entity.part \in Part /\ entity.fields \in Seq(Part)
  BY <1>4 DEF EntityElement
<1>6. comparison = "none"
  BY DEF EntityInit
<1> QED
  BY <1>5, <1>6 DEF EntityInv, ChecksAreFollowed, VariableFollowsCheck, RecordNeedsEveryField,
     Compared

\* Errors combine to an error, and a record with a variable is never true.
LEMMA OnlyErrors ==
  ASSUME NEW vec, Occurring(vec) = {"error"}, NEW check \in UsedChecks, Count(vec, "true") = 0
  PROVE  CombineResultsByCheck(vec, check) = "error"
<1> DEFINE occ == Occurring(vec)
<1>1. ~Trivial(occ) /\ occ \cap Undecided # {} /\ "true" \notin occ /\ "false" \notin occ
  BY DEF Trivial, Undecided
<1>2. Decide(FALSE, FALSE, occ) = "error"
  BY DEF Decide, Precedence
<1> HIDE DEF occ
<1>3. CASE check = "all"
  BY <1>1, <1>2, <1>3 DEF CombineResultsByCheck, Decide, occ
<1>4. CASE check = "at least one"
  BY <1>1, <1>2, <1>4 DEF CombineResultsByCheck, Decide, occ
<1>5. CASE check = "none satisfy"
  BY <1>1, <1>2, <1>5 DEF CombineResultsByCheck, Decide, occ
<1>6. CASE check = "only one"
  <2> DEFINE trues == Count(vec, "true")
             definite == occ \cap Undecided = {}
  <2>1. CombineResultsByCheck(vec, check)
          = Decide(definite /\ trues = 1, trues > 1 \/ (definite /\ trues = 0), occ)
    BY <1>1, <1>6 DEF CombineResultsByCheck, occ
  <2>2. ~(definite /\ trues = 1) /\ ~(trues > 1 \/ (definite /\ trues = 0))
    BY <1>1
  <2> HIDE DEF trues, definite
  <2> QED
    BY <1>2, <2>1, <2>2, Zenon DEF Decide
<1> QED
  BY <1>3, <1>4, <1>5, <1>6 DEF UsedChecks, Checks

\* Comparing with the values of a complete variable is what the chart says.
LEMMA VariableByChart ==
  ASSUME NEW part \in Part, part.variable # <<>>, NEW sc, CompareVariable(part, sc) # "error"
  PROVE  LET values == part.variable[1].values
             each   == [k \in DOMAIN values |->
                          Caught(Compare(part.datatype, part.operation, values[k], sc))]
         IN  /\ part.variable[1].flag = "complete"
             /\ IF values = <<>> THEN CompareVariable(part, sc) = "unknown"
                ELSE CompareVariable(part, sc) = ChartResult(CheckChart[part.varCheck], each)
<1> DEFINE values == part.variable[1].values
           each == [k \in DOMAIN values |->
                      Caught(Compare(part.datatype, part.operation, values[k], sc))]
           results == [k \in DOMAIN values |->
                         CompareIfKnown(WithoutIpv6, part, values[k], sc)]
           check == part.varCheck
<1>1. part.variable[1].flag = "complete" /\ "exception" \notin Occurring(results)
      /\ CompareVariable(part, sc) = CombineResultsByCheck(results, check)
  BY DEF CompareVariable
<1>2. check \in UsedChecks /\ part.datatype \in Datatypes /\ part.variable \in Seq(Variable)
  BY DEF Part, UsedChecks
<1>3. values \in Seq(Value)
  <2>1. part.variable[1] \in Variable
    BY <1>2
  <2> QED
    BY <2>1 DEF Variable
<1> HIDE DEF values, check
<1>4. CASE values = <<>>
  <2>1. Occurring(results) = {}
    BY <1>4 DEF Occurring
  <2>2. CombineResultsByCheck(results, check) = TrivialResult({})
    BY <2>1 DEF CombineResultsByCheck, Trivial
  <2> QED
    BY <1>1, <1>4, <2>2 DEF TrivialResult, values
<1>5. CASE values # <<>>
  <2>1. CASE part.datatype = "ipv6_address"
    <3>1. \A k \in DOMAIN values : results[k] = "error"
      BY <2>1 DEF CompareIfKnown, WithoutIpv6
    <3>2. Occurring(results) = {"error"}
      BY <1>3, <1>5, <3>1 DEF Occurring
    <3>3. {k \in DOMAIN results : results[k] = "true"} = {}
      BY <3>1
    <3>4. Count(results, "true") = 0
      BY <3>3, FS_EmptySet DEF Count
    <3>5. CombineResultsByCheck(results, check) = "error"
      BY <1>2, <3>2, <3>4, OnlyErrors
    <3> QED
      BY <1>1, <3>5
  <2>2. CASE part.datatype # "ipv6_address"
    <3>1. \A k \in DOMAIN values :
            results[k] = Compare(part.datatype, part.operation, values[k], sc)
      BY <1>2, <2>2 DEF CompareIfKnown, WithoutIpv6
    <3>2. \A k \in DOMAIN values : results[k] # "exception"
      BY <1>1 DEF Occurring
    <3>3. each = results
      BY <3>1, <3>2 DEF Caught
    <3>4. \A k \in DOMAIN values : results[k] \in Results
      BY <1>2, <3>1, <3>2, CompareReturns DEF Comparisons, Results
    <3>5. results \in Seq(Results) /\ results # <<>>
      BY <1>3, <1>5, <3>4
    <3>6. check \in Checks /\ check # "none exist"
      BY <1>2 DEF UsedChecks
    <3>7. CombineResultsByCheck(results, check) = ChartResult(CheckChart[check], results)
      BY <3>5, <3>6, CheckMatchesChart
    <3> HIDE DEF each, results
    <3> QED
      BY <1>1, <1>5, <3>3, <3>7 DEF values, each, check
  <2> QED
    BY <2>1, <2>2
<1> QED
  BY <1>4, <1>5

LEMMA RecordVariable ==
  ASSUME NEW part \in Part, part.datatype = "record", NEW sc
  PROVE  CompareVariable(part, sc) # "true"
<1> DEFINE values == part.variable[1].values
           results == [k \in DOMAIN values |->
                         CompareIfKnown(WithoutIpv6, part, values[k], sc)]
<1>1. \A def : CompareIfKnown(WithoutIpv6, part, def, sc) = "exception"
  BY DEF CompareIfKnown, WithoutIpv6, Datatypes, Compare
<1>2. \A k \in DOMAIN results : results[k] = "exception"
  BY <1>1
<1>3. "exception" \notin Occurring(results) => Occurring(results) = {}
  BY <1>2 DEF Occurring
<1>4. Occurring(results) = {} => CombineResultsByCheck(results, part.varCheck) = "unknown"
  BY DEF CombineResultsByCheck, Trivial, TrivialResult
<1> QED
  BY <1>3, <1>4 DEF CompareVariable

\* What Analyze returns follows the checks.
LEMMA NextEntityInv == EntityInv /\ [EntityNext]_entityVars => EntityInv'
<1> SUFFICES ASSUME EntityInv, [EntityNext]_entityVars PROVE EntityInv'
  OBVIOUS
<1>1. entity.part \in Part /\ entity.fields \in Seq(Part)
  BY DEF EntityInv
<1>2. CASE StatusDecides
  BY <1>1, <1>2 DEF StatusDecides, Return, EntityInv, ChecksAreFollowed, VariableFollowsCheck,
     RecordNeedsEveryField, Compared
<1>3. CASE AnalyzeValue
  BY <1>1, <1>3 DEF AnalyzeValue, Return, EntityInv, ChecksAreFollowed, VariableFollowsCheck,
     RecordNeedsEveryField, Compared, IsRecord
<1>4. CASE AnalyzeVariable
  <2>1. /\ UNCHANGED <<entity, scElement>> /\ entity.part.variable # <<>>
        /\ comparison' = CompareVariable(entity.part, scElement.value)
    BY <1>4 DEF AnalyzeVariable, Return
  <2>2. VariableFollowsCheck'
    BY <1>1, <2>1, VariableByChart DEF VariableFollowsCheck
  <2>3. IsRecord => comparison' # "true"
    BY <1>1, <2>1, RecordVariable DEF IsRecord
  <2>4. RecordNeedsEveryField'
    BY <2>1, <2>3 DEF RecordNeedsEveryField, IsRecord
  <2> QED
    BY <1>1, <2>1, <2>2, <2>4 DEF EntityInv, ChecksAreFollowed
<1>5. CASE CompareRecord
  <2> DEFINE results == [k \in DOMAIN entity.fields |-> CompareField(entity.fields[k])]
  <2>1. /\ UNCHANGED <<entity, scElement>> /\ entity.part.variable = <<>>
        /\ comparison' = IF entity.part.operation # "equals" THEN "error"
                         ELSE CombineResultsByCheck(results, "all")
    BY <1>5 DEF CompareRecord, Return
  <2>2. VariableFollowsCheck'
    BY <2>1 DEF VariableFollowsCheck
  <2>3. RecordNeedsEveryField'
    <3> SUFFICES ASSUME comparison' = "true", NEW field \in Occurring(entity.fields)
                 PROVE  /\ Same(field) # {}
                        /\ field.entityCheck = "all"          => Matches(field) = Same(field)
                        /\ field.entityCheck = "at least one" => Matches(field) # {}
                        /\ field.entityCheck = "only one"     => Cardinality(Matches(field)) = 1
                        /\ field.entityCheck = "none satisfy" => Matches(field) = {}
      BY <2>1, ZenonT(60) DEF RecordNeedsEveryField, Same, Matches
    <3>1. PICK k \in DOMAIN entity.fields : field = entity.fields[k]
      BY DEF Occurring
    <3>2. field \in Part
      BY <1>1, <3>1
    <3>3. \A i \in DOMAIN entity.fields : CompareField(entity.fields[i]) \in Basic
      BY <1>1, FieldResultsAreBasic
    <3>4. Occurring(results) \subseteq Basic
      BY <3>3 DEF Occurring
    <3>5. CombineResultsByCheck(results, "all") = "true"
      BY <2>1
    <3>6. Occurring(results) = {"true"}
      BY <3>4, <3>5, TrueMeans DEF UsedChecks, Checks
    <3>7. CompareField(field) = "true"
      BY <3>1, <3>6 DEF Occurring
    <3> QED
      BY <3>2, <3>7, MatchingField
  <2> QED
    BY <1>1, <2>1, <2>2, <2>3 DEF EntityInv, ChecksAreFollowed
<1>6. CASE UNCHANGED entityVars
  BY <1>1, <1>6 DEF entityVars, EntityInv, ChecksAreFollowed, VariableFollowsCheck,
     RecordNeedsEveryField, Compared, IsRecord
<1> QED
  BY <1>2, <1>3, <1>4, <1>5, <1>6 DEF EntityNext

\* With a complete variable the result of an entity is the one that the chart of
\* var_check has for all its values, and a record matches only if the item has every
\* field and each matches as its entity_check says, for any number of values, fields
\* and widths of numbers (AbsEntity.cpp:138-232, EntityComparator.cpp:742-826).
THEOREM EntitiesFollowTheChecks == EntitySpec => []ChecksAreFollowed
<1>1. EntityInv => ChecksAreFollowed
  BY DEF EntityInv
<1> QED
  BY <1>1, InitEntityInv, NextEntityInv, PTL DEF EntitySpec

-----------------------------------------------------------------------------
\* Powers of two.

LEMMA PowersExist ==
  \E f \in [Nat -> Nat \ {0}] : \A n \in Nat : f[n] = IF n = 0 THEN 1 ELSE 2 * f[n - 1]
<1> DEFINE S == Nat \ {0}
           Good(f, n) == f \in [0 .. n -> S] /\ f[0] = 1 /\ \A i \in 1 .. n : f[i] = 2 * f[i - 1]
           part == [n \in Nat |-> CHOOSE f \in [0 .. n -> S] : Good(f, n)]
<1>1. ASSUME NEW n \in Nat PROVE Good(part[n], n)
  <2> DEFINE step == [x \in (1 .. n) \X S |-> 2 * x[2]]
  <2>1. step \in StepTables(S, n)
    BY DEF StepTables
  <2>2. \A i \in 1 .. n, v \in S : step[<<i, v>>] = 2 * v
    OBVIOUS
  <2> HIDE DEF step
  <2>3. \E f \in [0 .. n -> S] : Unfolds(f, 1, n, step)
    <3>1. 1 \in S
      OBVIOUS
    <3> HIDE DEF S
    <3> QED
      BY <2>1, <3>1, StepByStep, Zenon
  <2>4. PICK f \in [0 .. n -> S] : f[0] = 1 /\ \A i \in 1 .. n : f[i] = step[<<i, f[i - 1]>>]
    BY <2>3 DEF Unfolds
  <2>5. \A i \in 1 .. n : f[i] = 2 * f[i - 1]
    <3> TAKE i \in 1 .. n
    <3>1. i - 1 \in 0 .. n
      OBVIOUS
    <3>2. f[i - 1] \in S
      BY <3>1
    <3> HIDE DEF S
    <3> QED
      BY <2>2, <2>4, <3>2
  <2>6. Good(f, n)
    BY <2>4, <2>5
  <2>7. \E g \in [0 .. n -> S] : Good(g, n)
    BY <2>6
  <2> HIDE DEF Good, S
  <2> QED
    BY <2>7
<1> HIDE DEF part
<1>2. ASSUME NEW a \in Nat, NEW b \in Nat
      PROVE  \A k \in Nat : k <= a /\ k <= b => part[a][k] = part[b][k]
  <2> DEFINE T == {k \in Nat : k <= a /\ k <= b => part[a][k] = part[b][k]}
  <2>1. 0 \in T
    BY <1>1
  <2>2. ASSUME NEW n \in Nat, n \in T PROVE n + 1 \in T
    <3> SUFFICES ASSUME n + 1 <= a, n + 1 <= b PROVE part[a][n + 1] = part[b][n + 1]
      OBVIOUS
    <3>1. n + 1 \in 1 .. a /\ n + 1 \in 1 .. b /\ (n + 1) - 1 = n
      OBVIOUS
    <3>2. part[a][n + 1] = 2 * part[a][n] /\ part[b][n + 1] = 2 * part[b][n]
      BY <1>1, <3>1
    <3>3. part[a][n] = part[b][n]
      BY <2>2
    <3> QED
      BY <3>2, <3>3
  <2> HIDE DEF T
  <2>3. Nat \subseteq T
    BY <2>1, <2>2, SetInduction
  <2> QED
    BY <2>3 DEF T
<1> DEFINE whole == [n \in Nat |-> part[n][n]]
<1>3. whole \in [Nat -> S]
  BY <1>1
<1>4. ASSUME NEW n \in Nat PROVE whole[n] = IF n = 0 THEN 1 ELSE 2 * whole[n - 1]
  <2>1. CASE n = 0
    BY <1>1, <2>1
  <2>2. CASE n # 0
    <3>1. n \in 1 .. n /\ n - 1 \in Nat /\ n - 1 <= n
      BY <2>2
    <3>2. part[n][n] = 2 * part[n][n - 1]
      BY <1>1, <3>1
    <3>3. part[n][n - 1] = part[n - 1][n - 1]
      BY <1>2, <3>1
    <3> QED
      BY <2>2, <3>1, <3>2, <3>3
  <2> QED
    BY <2>1, <2>2
<1> HIDE DEF whole
<1> QED
  BY <1>3, <1>4

LEMMA PowersAre ==
  /\ TwoTo \in [Nat -> Nat \ {0}]
  /\ TwoTo[0] = 1
  /\ \A n \in Nat : TwoTo[n + 1] = 2 * TwoTo[n]
<1>1. PICK f \in [Nat -> Nat \ {0}] : \A n \in Nat : f[n] = IF n = 0 THEN 1 ELSE 2 * f[n - 1]
  BY PowersExist
<1> DEFINE Unrolls(g) == g = [n \in Nat |-> IF n = 0 THEN 1 ELSE 2 * g[n - 1]]
           powers == CHOOSE g : Unrolls(g)
<1>2. Unrolls(f)
  BY <1>1
<1>3. TwoTo = powers
  BY DEF TwoTo
<1>4. Unrolls(powers)
  <2> HIDE DEF Unrolls
  <2> QED
    BY <1>2
<1> HIDE DEF powers
<1>5. DOMAIN powers = Nat /\ \A n \in Nat : powers[n] = IF n = 0 THEN 1 ELSE 2 * powers[n - 1]
  BY <1>4
<1>6. \A n \in Nat : powers[n + 1] = 2 * powers[n]
  BY <1>5
<1> DEFINE T == {n \in Nat : powers[n] \in Nat \ {0}}
<1>7. Nat \subseteq T
  <2>1. 0 \in T
    BY <1>5
  <2>2. ASSUME NEW n \in Nat, n \in T PROVE n + 1 \in T
    BY <1>6, <2>2
  <2> HIDE DEF T
  <2> QED
    BY <2>1, <2>2, SetInduction
<1>8. \A n \in Nat : powers[n] \in Nat \ {0}
  BY <1>7
<1>9. powers = [n \in Nat |-> powers[n]]
  <2>1. powers = [n \in Nat |-> IF n = 0 THEN 1 ELSE 2 * powers[n - 1]]
    BY <1>4
  <2> QED
    BY <2>1, <1>5
<1>10. powers \in [Nat -> Nat \ {0}]
  <2> HIDE DEF T, Unrolls
  <2> QED
    BY <1>8, <1>9
<1> QED
  BY <1>3, <1>5, <1>6, <1>10

\* They multiply.
LEMMA PowersMultiply ==
  ASSUME NEW a \in Nat, NEW b \in Nat
  PROVE  TwoTo[a + b] = TwoTo[a] * TwoTo[b]
<1> DEFINE T == {n \in Nat : TwoTo[a + n] = TwoTo[a] * TwoTo[n]}
<1>1. 0 \in T
  <2>1. a + 0 = a /\ TwoTo[a] * 1 = TwoTo[a]
    BY PowersAre
  <2> QED
    BY <2>1, PowersAre
<1>2. ASSUME NEW n \in Nat, n \in T PROVE n + 1 \in T
  <2> DEFINE x == TwoTo[a]
             y == TwoTo[n]
             z == TwoTo[a + n]
  <2>1. a + n \in Nat /\ a + (n + 1) = (a + n) + 1
    OBVIOUS
  <2>2. TwoTo[a + (n + 1)] = 2 * z /\ TwoTo[n + 1] = 2 * y
    BY <2>1, PowersAre
  <2>3. x \in Nat /\ y \in Nat /\ z \in Nat /\ z = x * y
    BY <1>2, <2>1, PowersAre
  <2> HIDE DEF x, y, z
  <2>4. 2 * z = x * (2 * y)
    BY <2>3
  <2>5. TwoTo[a + (n + 1)] = TwoTo[a] * TwoTo[n + 1]
    BY <2>2, <2>4 DEF x
  <2> QED
    BY <2>5
<1> HIDE DEF T
<1>3. b \in T
  BY <1>1, <1>2, SetInduction
<1> QED
  BY <1>3 DEF T

\* They grow.
LEMMA PowersGrow ==
  ASSUME NEW a \in Nat, NEW b \in Nat
  PROVE  TwoTo[a] <= TwoTo[b] <=> a <= b
<1>1. ASSUME NEW m \in Nat, NEW n \in Nat, m < n PROVE TwoTo[m] < TwoTo[n]
  <2> DEFINE k == n - m - 1
  <2>1. k \in Nat /\ n = (m + k) + 1 /\ m + k \in Nat
    BY <1>1
  <2> HIDE DEF k
  <2> DEFINE x == TwoTo[m]
             y == TwoTo[k]
  <2>2. TwoTo[n] = 2 * (x * y)
    BY <2>1, PowersAre, PowersMultiply
  <2>3. x \in Nat \ {0} /\ y \in Nat \ {0}
    BY <2>1, PowersAre
  <2> HIDE DEF x, y
  <2>4. x * y >= x
    BY <2>3
  <2>5. x * y \in Nat
    BY <2>3
  <2>6. 2 * (x * y) > x
    BY <2>3, <2>4, <2>5
  <2> QED
    BY <2>2, <2>6 DEF x
<1>2. TwoTo[a] \in Nat /\ TwoTo[b] \in Nat
  BY PowersAre
<1>3. a < b => TwoTo[a] < TwoTo[b]
  BY <1>1
<1>4. b < a => TwoTo[b] < TwoTo[a]
  BY <1>1
<1>5. a = b => TwoTo[a] = TwoTo[b]
  OBVIOUS
<1> QED
  BY <1>2, <1>3, <1>4, <1>5

-----------------------------------------------------------------------------
\* What an operation makes of a sense is what the sense is wanted for.

LEMMA ByOrderIs ==
  ASSUME NEW operation \in Ordering, NEW sense \in {-1, 0, 1}
  PROVE  /\ ByOrder(operation, sense) = Verdict(sense \in Wanted[operation])
         /\ Caught(ByOrder(operation, sense)) = Verdict(sense \in Wanted[operation])
<1>1. ByOrder(operation, sense) = Verdict(sense \in Wanted[operation])
  <2>1. Wanted["equals"] = {0} /\ Wanted["not equal"] = {-1, 1} /\ Wanted["less than"] = {-1}
    BY DEF Wanted, Ordering
  <2>2. /\ Wanted["less than or equal"] = {-1, 0} /\ Wanted["greater than"] = {1}
        /\ Wanted["greater than or equal"] = {0, 1}
    BY DEF Wanted, Ordering
  <2>3. CASE operation = "equals"
    BY <2>1, <2>3 DEF ByOrder, Verdict
  <2>4. CASE operation = "not equal"
    <3>1. ByOrder(operation, sense) = Verdict(sense # 0)
      BY <2>4 DEF ByOrder
    <3>2. sense # 0 <=> sense \in Wanted[operation]
      <4>1. Wanted[operation] = {-1, 1}
        BY <2>1, <2>4
      <4>2. sense \in Int /\ (sense = -1 \/ sense = 0 \/ sense = 1)
        OBVIOUS
      <4>3. sense \in {-1, 1} <=> sense = -1 \/ sense = 1
        OBVIOUS
      <4>4. sense # 0 <=> sense = -1 \/ sense = 1
        BY <4>2
      <4> QED
        BY <4>1, <4>3, <4>4
    <3> QED
      BY <3>1, <3>2 DEF Verdict
  <2>5. CASE operation = "less than"
    BY <2>1, <2>5 DEF ByOrder, Verdict
  <2>6. CASE operation = "less than or equal"
    BY <2>2, <2>6 DEF ByOrder, Verdict
  <2>7. CASE operation = "greater than"
    BY <2>2, <2>7 DEF ByOrder, Verdict
  <2>8. CASE operation = "greater than or equal"
    BY <2>2, <2>8 DEF ByOrder, Verdict
  <2> QED
    BY <2>3, <2>4, <2>5, <2>6, <2>7, <2>8 DEF Ordering
<1> QED
  BY <1>1 DEF Caught, Verdict

LEMMA SenseIs ==
  ASSUME NEW d \in Int, NEW s \in Int
  PROVE  Sense(d, s) \in {-1, 0, 1} /\ Sense(d, s) = SenseOf(s < d, s > d)
BY DEF Sense, SenseOf

-----------------------------------------------------------------------------
\* Integers, at the bounds of both types.

LEMMA IntegersFollow ==
  ASSUME NEW d \in Int, NEW s \in Int, NEW operation \in Ordering,
         Usable(d), Usable(s), ~Wraps(d, s)
  PROVE  CompareInteger(operation, <<<<d>>>>, <<<<s>>>>)
           = ByOrder(operation, SenseOf(s < d, s > d))
<1> DEFINE half == TwoTo[IntBits - 1]
           full == TwoTo[IntBits]
<1>1. half \in Nat \ {0} /\ full = 2 * half
  <2>1. IntBits - 1 \in Nat /\ IntBits = (IntBits - 1) + 1
    BY WidthsAssumption
  <2> QED
    BY <2>1, PowersAre
<1>2. \A n \in Int : Signed(n) <=> -half <= n /\ n < half
  <2> HIDE DEF half
  <2>1. \A n \in Int : n \in -half .. half - 1 <=> -half <= n /\ n < half
    BY <1>1
  <2> QED
    BY <2>1 DEF Signed, half
<1>3. \A n \in Int : FitsUnsigned(n) <=> (IF Windows THEN 0 <= n ELSE 1 - full <= n) /\ n < full
  <2> HIDE DEF full
  <2>1. \A n \in Int : n \in 0 .. full - 1 <=> 0 <= n /\ n < full
    BY <1>1
  <2>2. \A n \in Int : n \in 1 - full .. full - 1 <=> 1 - full <= n /\ n < full
    BY <1>1
  <2> QED
    BY <2>1, <2>2 DEF FitsUnsigned, full
<1>4. \A n \in Int : Usable(n) <=> -half <= n /\ n < full
  <2> HIDE DEF half, full
  <2>1. \A n \in Int : n \in -half .. full - 1 <=> -half <= n /\ n < full
    BY <1>1
  <2> QED
    BY <2>1 DEF Usable, half, full
<1>5. \A n \in Nat : n < full => AsUnsigned(n) = n
  <2> HIDE DEF full
  <2>1. \A n \in Nat : n < full => n % full = n
    BY <1>1
  <2> QED
    BY <2>1 DEF AsUnsigned, full
<1>6. operation \notin {"bitwise and", "bitwise or"}
  BY DEF Ordering
<1> HIDE DEF half, full
<1>7. \A a, b \in Int : CompareIntOperation(operation, a, b) = ByOrder(operation, SenseOf(b < a, b > a))
  BY <1>6, SenseIs DEF CompareIntOperation
<1>8. \A a, b : CompareMixed(operation, a, b) = ByOrder(operation, IF Signed(b) THEN -1 ELSE 1)
  BY <1>6 DEF CompareMixed
<1>9. CompareInteger(operation, <<<<d>>>>, <<<<s>>>>) =
        IF Signed(d) /\ Signed(s) THEN CompareIntOperation(operation, d, s)
        ELSE IF FitsUnsigned(d) /\ FitsUnsigned(s)
          THEN CompareIntOperation(operation, AsUnsigned(d), AsUnsigned(s))
        ELSE IF (Signed(d) /\ FitsUnsigned(s)) \/ (FitsUnsigned(d) /\ Signed(s))
          THEN CompareMixed(operation, d, s)
        ELSE "exception"
  BY DEF CompareInteger
<1>10. CASE Signed(d) /\ Signed(s)
  BY <1>7, <1>9, <1>10
<1>11. CASE ~(Signed(d) /\ Signed(s)) /\ FitsUnsigned(d) /\ FitsUnsigned(s)
  <2>1. d >= 0 /\ s >= 0 /\ d < full /\ s < full
    BY <1>1, <1>2, <1>3, <1>11 DEF Wraps
  <2>2. AsUnsigned(d) = d /\ AsUnsigned(s) = s
    BY <1>5, <2>1
  <2> QED
    BY <1>7, <1>9, <1>11, <2>2
<1>12. CASE ~(Signed(d) /\ Signed(s)) /\ ~(FitsUnsigned(d) /\ FitsUnsigned(s))
  <2>1. Windows
    <3> SUFFICES ASSUME ~Windows PROVE FALSE
      OBVIOUS
    <3> QED
      BY <1>1, <1>2, <1>3, <1>4, <1>12
  <2>2. \/ /\ Signed(d) /\ FitsUnsigned(s) /\ ~Signed(s) /\ d < 0 /\ s >= half
        \/ /\ Signed(s) /\ FitsUnsigned(d) /\ ~Signed(d) /\ s < 0 /\ d >= half
    BY <1>1, <1>2, <1>3, <1>4, <1>12, <2>1
  <2>3. CASE Signed(d) /\ FitsUnsigned(s) /\ ~Signed(s) /\ d < 0 /\ s >= half
    <3>1. SenseOf(s < d, s > d) = 1
      BY <1>1, <2>3 DEF SenseOf
    <3> QED
      BY <1>8, <1>9, <1>12, <2>3, <3>1
  <2>4. CASE Signed(s) /\ FitsUnsigned(d) /\ ~Signed(d) /\ s < 0 /\ d >= half
    <3>1. SenseOf(s < d, s > d) = -1
      BY <1>1, <2>4 DEF SenseOf
    <3> QED
      BY <1>8, <1>9, <1>12, <2>4, <3>1
  <2> QED
    BY <2>2, <2>3, <2>4
<1> QED
  BY <1>10, <1>11, <1>12

-----------------------------------------------------------------------------
\* The least and the greatest of some numbers.

LEMMA MinIs ==
  ASSUME NEW S, S \subseteq Nat, S # {}
  PROVE  SetsExt!Min(S) \in S /\ \A n \in S : SetsExt!Min(S) <= n
<1>1. \E m \in S : \A n \in S : m <= n
  BY LeastNumber
<1> QED
  BY <1>1 DEF SetsExt!Min

LEMMA MinOfTwo ==
  ASSUME NEW a \in Nat, NEW b \in Nat
  PROVE  SetsExt!Min({a, b}) = IF a <= b THEN a ELSE b
<1>1. SetsExt!Min({a, b}) \in {a, b} /\ \A n \in {a, b} : SetsExt!Min({a, b}) <= n
  <2>1. {a, b} \subseteq Nat /\ {a, b} # {}
    OBVIOUS
  <2> QED
    BY <2>1, MinIs, Zenon
<1> QED
  BY <1>1

LEMMA MaxIs ==
  ASSUME NEW S, S \subseteq Nat, \E m \in S : \A n \in S : m >= n
  PROVE  SetsExt!Max(S) \in S /\ \A n \in S : SetsExt!Max(S) >= n
BY DEF SetsExt!Max

LEMMA MaxOfTwo ==
  ASSUME NEW a \in Nat, NEW b \in Nat
  PROVE  SetsExt!Max({a, b}) = IF a <= b THEN b ELSE a
<1>1. SetsExt!Max({a, b}) \in {a, b} /\ \A n \in {a, b} : SetsExt!Max({a, b}) >= n
  <2>1. {a, b} \subseteq Nat /\ \E m \in {a, b} : \A n \in {a, b} : m >= n
    OBVIOUS
  <2> QED
    BY <2>1, MaxIs, Zenon
<1> QED
  BY <1>1

\* The components of two versions have a greatest one.
LEMMA GreatestComponent ==
  ASSUME NEW s \in Seq(Nat), s # <<>>
  PROVE  \E m \in Occurring(s) : \A n \in Occurring(s) : m >= n
<1>a. PICK N \in Nat : N = Len(s) /\ N >= 1 /\ DOMAIN s = 1 .. N
  OBVIOUS
<1>b. \A i \in 1 .. N : s[i] \in Nat
  BY <1>a
<1> DEFINE T == {n \in Nat : n + 1 <= N => \E k \in 1 .. n + 1 : \A i \in 1 .. n + 1 : s[k] >= s[i]}
<1>1. 0 \in T
  <2>1. 1 \in 1 .. 0 + 1 /\ \A i \in 1 .. 0 + 1 : i = 1
    OBVIOUS
  <2>2. s[1] >= s[1]
    BY <1>a, <1>b
  <2> QED
    BY <2>1, <2>2
<1>2. ASSUME NEW n \in Nat, n \in T PROVE n + 1 \in T
  <2> SUFFICES ASSUME (n + 1) + 1 <= N
      PROVE  \E k \in 1 .. (n + 1) + 1 : \A i \in 1 .. (n + 1) + 1 : s[k] >= s[i]
    OBVIOUS
  <2>1. PICK k \in 1 .. n + 1 : \A i \in 1 .. n + 1 : s[k] >= s[i]
    BY <1>2
  <2> DEFINE l == n + 2
  <2>2. k \in 1 .. N /\ l \in 1 .. N /\ \A i \in 1 .. (n + 1) + 1 : i \in 1 .. n + 1 \/ i = l
    OBVIOUS
  <2>3. s[k] \in Nat /\ s[l] \in Nat /\ \A i \in 1 .. n + 1 : s[i] \in Nat
    BY <1>b, <2>2
  <2>4. CASE s[k] >= s[l]
    <3>1. \A i \in 1 .. (n + 1) + 1 : s[k] >= s[i]
      BY <2>1, <2>2, <2>4
    <3> QED
      BY <3>1
  <2>5. CASE s[l] > s[k]
    <3>1. \A i \in 1 .. (n + 1) + 1 : s[l] >= s[i]
      BY <2>1, <2>2, <2>3, <2>5
    <3>2. l \in 1 .. (n + 1) + 1
      OBVIOUS
    <3> QED
      BY <3>1, <3>2
  <2>6. s[k] >= s[l] \/ s[l] > s[k]
    BY <2>3
  <2> HIDE DEF l
  <2> QED
    BY <2>4, <2>5, <2>6
<1> HIDE DEF T
<1>3. N - 1 \in T
  BY <1>1, <1>2, <1>a, SetInduction, SMTT(30)
<1>4. PICK k \in 1 .. N : \A i \in 1 .. N : s[k] >= s[i]
  BY <1>3, <1>a DEF T
<1> QED
  BY <1>4, <1>a DEF Occurring

-----------------------------------------------------------------------------
\* Numerals.

LEMMA NumeralsAre ==
  ASSUME NEW d \in Seq(Nat), NEW base \in Nat
  PROVE  /\ Numerals(d, base) \in [0 .. Len(d) -> Nat]
         /\ Numerals(d, base)[0] = 0
         /\ \A i \in 1 .. Len(d) : Numerals(d, base)[i] = Numerals(d, base)[i - 1] * base + d[i]
<1>a. PICK N \in Nat : N = Len(d)
  OBVIOUS
<1>b. \A i \in 1 .. N : d[i] \in Nat
  BY <1>a
<1> DEFINE step == [x \in (1 .. N) \X Nat |-> x[2] * base + d[x[1]]]
<1>1. \A i \in 1 .. N, n \in Nat : n * base + d[i] \in Nat
  BY <1>b
<1>2. step \in StepTables(Nat, N)
  BY <1>1 DEF StepTables
<1>3. \A i \in 1 .. N, n \in Nat : step[<<i, n>>] = n * base + d[i]
  BY <1>1
<1> HIDE DEF step
<1>4. \E f \in [0 .. N -> Nat] : Unfolds(f, 0, N, step)
  BY <1>2, StepByStep, Zenon
<1>5. PICK f \in [0 .. N -> Nat] : f[0] = 0 /\ \A i \in 1 .. N : f[i] = step[<<i, f[i - 1]>>]
  BY <1>4 DEF Unfolds
<1>6. \A i \in 1 .. N : f[i] = f[i - 1] * base + d[i]
  <2> TAKE i \in 1 .. N
  <2>1. i - 1 \in 0 .. N
    OBVIOUS
  <2>2. f[i - 1] \in Nat
    BY <2>1
  <2> QED
    BY <1>3, <1>5, <2>2
<1> DEFINE Unrolls(g) == g = [n \in 0 .. N |-> IF n = 0 THEN 0 ELSE g[n - 1] * base + d[n]]
           numerals == CHOOSE g : Unrolls(g)
<1>7. Unrolls(f)
  <2>1. \A i \in 0 .. N : f[i] = IF i = 0 THEN 0 ELSE f[i - 1] * base + d[i]
    BY <1>5, <1>6
  <2> QED
    BY <2>1
<1>8. Numerals(d, base) = numerals
  BY <1>a DEF Numerals
<1>9. Unrolls(numerals)
  <2> HIDE DEF Unrolls
  <2> QED
    BY <1>7
<1> HIDE DEF numerals
<1>10. DOMAIN numerals = 0 .. N
       /\ \A i \in 0 .. N : numerals[i] = IF i = 0 THEN 0 ELSE numerals[i - 1] * base + d[i]
  BY <1>9
<1>11. \A i \in 0 .. N : numerals[i] = f[i]
  <2> DEFINE T == {n \in Nat : n <= N => numerals[n] = f[n]}
  <2>1. 0 \in T
    <3>1. 0 \in 0 .. N
      OBVIOUS
    <3> QED
      BY <1>5, <1>10, <3>1
  <2>2. ASSUME NEW n \in Nat, n \in T PROVE n + 1 \in T
    <3> SUFFICES ASSUME n + 1 <= N PROVE numerals[n + 1] = f[n + 1]
      OBVIOUS
    <3>1. n + 1 \in 0 .. N /\ n + 1 \in 1 .. N /\ n + 1 # 0 /\ (n + 1) - 1 = n
      OBVIOUS
    <3>2. numerals[n + 1] = numerals[n] * base + d[n + 1]
      BY <1>10, <3>1
    <3>3. f[n + 1] = f[n] * base + d[n + 1]
      BY <1>6, <3>1
    <3>4. numerals[n] = f[n]
      BY <2>2
    <3> QED
      BY <3>2, <3>3, <3>4
  <2> HIDE DEF T
  <2>3. Nat \subseteq T
    BY <2>1, <2>2, SetInduction
  <2> QED
    BY <2>3 DEF T
<1>12. numerals = f
  <2>1. numerals = [i \in 0 .. N |-> numerals[i]]
    <3>1. numerals = [n \in 0 .. N |-> IF n = 0 THEN 0 ELSE numerals[n - 1] * base + d[n]]
      BY <1>9
    <3> QED
      BY <1>10, <3>1
  <2> HIDE DEF Unrolls
  <2> QED
    BY <1>11, <2>1
<1> QED
  BY <1>a, <1>5, <1>6, <1>8, <1>12

LEMMA DigitsBelow ==
  ASSUME NEW m \in Nat, NEW n \in Nat, NEW x \in Nat, NEW y \in Nat, NEW base \in Nat,
         m < n, x < base
  PROVE  m * base + x < n * base + y
<1>1. m * base + base = (m + 1) * base /\ m * base \in Nat /\ n * base \in Nat
  OBVIOUS
<1>2. (m + 1) * base <= n * base
  BY m + 1 <= n
<1>3. (m + 1) * base \in Nat
  OBVIOUS
<1> QED
  BY <1>1, <1>2, <1>3

\* What is less, or equal, at one digit is so at the end.
Aligned(d, e, i, j) == i \in 0 .. Len(d) /\ j \in 0 .. Len(e) /\ Len(d) - i = Len(e) - j

Below(d, base) == \A k \in 1 .. Len(d) : d[k] < base
SameFrom(d, e, i, j, n) == \A k \in 1 .. n : d[i + k] = e[j + k]

LEMMA StaysBelow ==
  ASSUME NEW d \in Seq(Nat), NEW e \in Seq(Nat), NEW base \in Nat, NEW i, NEW j, Aligned(d, e, i, j),
         Below(d, base),
         Numerals(d, base)[i] < Numerals(e, base)[j]
  PROVE  Numeral(d, base) < Numeral(e, base)
<1>a. PICK M \in Nat, N \in Nat : M = Len(d) /\ N = Len(e)
  OBVIOUS
<1>b. i \in 0 .. M /\ j \in 0 .. N /\ M - i = N - j
  BY <1>a DEF Aligned
<1> DEFINE f == Numerals(d, base)
           g == Numerals(e, base)
<1>1. /\ f \in [0 .. M -> Nat] /\ g \in [0 .. N -> Nat]
      /\ \A k \in 1 .. M : f[k] = f[k - 1] * base + d[k]
      /\ \A k \in 1 .. N : g[k] = g[k - 1] * base + e[k]
  BY <1>a, NumeralsAre
<1>2. \A k \in 1 .. M : d[k] \in Nat /\ d[k] < base
  BY <1>a DEF Below
<1>3. \A k \in 1 .. N : e[k] \in Nat
  BY <1>a
<1>4. f[i] < g[j]
  OBVIOUS
<1>5. Numeral(d, base) = f[M] /\ Numeral(e, base) = g[N]
  BY <1>a DEF Numeral
<1> HIDE DEF f, g
<1> DEFINE T == {n \in Nat : i + n <= M => f[i + n] < g[j + n]}
<1>6. 0 \in T
  BY <1>b, <1>4
<1>7. ASSUME NEW n \in Nat, n \in T PROVE n + 1 \in T
  <2> SUFFICES ASSUME i + (n + 1) <= M PROVE f[i + (n + 1)] < g[j + (n + 1)]
    OBVIOUS
  <2> DEFINE p == i + n
             q == j + n
  <2>1. /\ p \in 0 .. M /\ q \in 0 .. N /\ p + 1 \in 1 .. M /\ q + 1 \in 1 .. N
        /\ i + (n + 1) = p + 1 /\ j + (n + 1) = q + 1 /\ (p + 1) - 1 = p /\ (q + 1) - 1 = q
    BY <1>b
  <2>2. f[p] < g[q]
    BY <1>7, <1>b
  <2> HIDE DEF p, q
  <2>3. f[p + 1] = f[p] * base + d[p + 1] /\ g[q + 1] = g[q] * base + e[q + 1]
    BY <1>1, <2>1
  <2>4. f[p] \in Nat /\ g[q] \in Nat /\ d[p + 1] \in Nat /\ d[p + 1] < base /\ e[q + 1] \in Nat
    BY <1>1, <1>2, <1>3, <2>1
  <2>5. f[p] * base + d[p + 1] < g[q] * base + e[q + 1]
    BY <2>2, <2>4, DigitsBelow
  <2> QED
    BY <2>1, <2>3, <2>5
<1> HIDE DEF T
<1>8. M - i \in T
  <2>1. M - i \in Nat
    BY <1>b
  <2>2. Nat \subseteq T
    BY <1>6, <1>7, SetInduction
  <2> QED
    BY <2>1, <2>2
<1>9. i + (M - i) = M /\ j + (M - i) = N
  BY <1>b
<1>10. f[i + (M - i)] < g[j + (M - i)]
  BY <1>8, <1>9 DEF T
<1> QED
  BY <1>5, <1>9, <1>10

Agree(d, e, base, i, j) == Numerals(d, base)[i] = Numerals(e, base)[j]

LEMMA StaysEqual ==
  ASSUME NEW d \in Seq(Nat), NEW e \in Seq(Nat), NEW base \in Nat, NEW i, NEW j, Aligned(d, e, i, j),
         NEW n \in Nat, i + n <= Len(d), SameFrom(d, e, i, j, n),
         Agree(d, e, base, i, j)
  PROVE  Agree(d, e, base, i + n, j + n)
<1>a. PICK M \in Nat, N \in Nat : M = Len(d) /\ N = Len(e)
  OBVIOUS
<1>b. i \in 0 .. M /\ j \in 0 .. N /\ M - i = N - j
  BY <1>a DEF Aligned
<1> DEFINE f == Numerals(d, base)
           g == Numerals(e, base)
<1>1. /\ \A k \in 1 .. M : f[k] = f[k - 1] * base + d[k]
      /\ \A k \in 1 .. N : g[k] = g[k - 1] * base + e[k]
  BY <1>a, NumeralsAre
<1>4. f[i] = g[j]
  BY DEF Agree
<1> HIDE DEF f, g
<1> DEFINE T == {m \in Nat : m <= n => f[i + m] = g[j + m]}
<1>6. 0 \in T
  BY <1>b, <1>4
<1>7. ASSUME NEW m \in Nat, m \in T PROVE m + 1 \in T
  <2> SUFFICES ASSUME m + 1 <= n PROVE f[i + (m + 1)] = g[j + (m + 1)]
    OBVIOUS
  <2> DEFINE p == i + m
             q == j + m
  <2>1. /\ p + 1 \in 1 .. M /\ q + 1 \in 1 .. N
        /\ i + (m + 1) = p + 1 /\ j + (m + 1) = q + 1 /\ (p + 1) - 1 = p /\ (q + 1) - 1 = q
    BY <1>a, <1>b
  <2>2. f[p] = g[q]
    BY <1>7, <1>b
  <2>3. d[p + 1] = e[q + 1]
    BY <2>1, m + 1 \in 1 .. n DEF SameFrom
  <2> HIDE DEF p, q
  <2>4. f[p + 1] = f[p] * base + d[p + 1] /\ g[q + 1] = g[q] * base + e[q + 1]
    BY <1>1, <2>1
  <2> QED
    BY <2>1, <2>2, <2>3, <2>4
<1> HIDE DEF T
<1>8. n \in T
  BY <1>6, <1>7, SetInduction
<1> QED
  BY <1>8 DEF T, f, g, Agree

-----------------------------------------------------------------------------
\* Sequences of numbers in the order of their first difference.

\* The first k elements of two sequences are the same.
SameUpTo(d, e, k) == \A i \in 1 .. k : d[i] = e[i]
DifferFirst(d, e, k) ==
  k \in Nat /\ k < Len(d) /\ k < Len(e) /\ SameUpTo(d, e, k) /\ d[k + 1] # e[k + 1]

LEMMA BelowIsWithin ==
  ASSUME NEW m \in Nat, NEW c \in Nat, m <= c, NEW i \in 1 .. m - 1
  PROVE  i \in 1 .. c /\ i < m
OBVIOUS

LEMMA LexicographicIs ==
  ASSUME NEW d \in Seq(Nat), NEW e \in Seq(Nat)
  PROVE  \/ \E k \in Nat : DifferFirst(d, e, k) /\ Lexicographic(d, e) = Sense(d[k + 1], e[k + 1])
         \/ /\ SameUpTo(d, e, IF Len(d) <= Len(e) THEN Len(d) ELSE Len(e))
            /\ Lexicographic(d, e) = Sense(Len(d), Len(e))
<1>a. PICK M \in Nat, N \in Nat : M = Len(d) /\ N = Len(e)
  OBVIOUS
<1> DEFINE common == IF M <= N THEN M ELSE N
           differing == {i \in 1 .. common : d[i] # e[i]}
<1>1. SetsExt!Min({Len(d), Len(e)}) = common
  BY <1>a, MinOfTwo
<1>2. Lexicographic(d, e) =
        IF differing = {} THEN Sense(Len(d), Len(e))
        ELSE Sense(d[SetsExt!Min(differing)], e[SetsExt!Min(differing)])
  BY <1>1 DEF Lexicographic
<1>b. common \in Nat /\ common <= M /\ common <= N /\ common = IF Len(d) <= Len(e) THEN Len(d) ELSE Len(e)
  BY <1>a
<1> HIDE DEF common
<1>3. CASE differing = {}
  BY <1>2, <1>3, <1>b DEF SameUpTo
<1>4. CASE differing # {}
  <2> DEFINE m == SetsExt!Min(differing)
             k == m - 1
  <2>1. m \in differing /\ \A n \in differing : m <= n
    <3>1. differing \subseteq Nat
      BY <1>b
    <3> HIDE DEF differing
    <3> QED
      BY <1>4, <3>1, MinIs, Zenon
  <2>2. m \in 1 .. common /\ d[m] # e[m]
    BY <2>1
  <2>3. Lexicographic(d, e) = Sense(d[m], e[m])
    BY <1>2, <1>4
  <2> HIDE DEF m
  <2>4. k \in Nat /\ k + 1 = m /\ k < M /\ k < N
    BY <1>b, <2>2
  <2>5. SameUpTo(d, e, k)
    <3> SUFFICES ASSUME NEW i \in 1 .. k, d[i] # e[i] PROVE FALSE
      BY DEF SameUpTo
    <3>a. m \in Nat /\ m <= common /\ common \in Nat
      BY <1>b, <2>2
    <3>1. i \in 1 .. common /\ i < m
      BY <3>a, BelowIsWithin
    <3>2. i \in differing
      BY <3>1
    <3> QED
      BY <2>1, <2>2, <3>1, <3>2
  <2>6. DifferFirst(d, e, k)
    BY <1>a, <2>2, <2>4, <2>5 DEF DifferFirst
  <2> HIDE DEF k, differing
  <2> QED
    BY <2>3, <2>4, <2>6
<1> QED
  BY <1>3, <1>4

\* The order of the first difference is the order of the numerals.
LEMMA FirstDifferenceDecides ==
  ASSUME NEW d \in Seq(Nat), NEW e \in Seq(Nat), NEW base \in Nat, Len(d) = Len(e),
         Below(d, base),
         NEW k \in Nat, DifferFirst(d, e, k), d[k + 1] < e[k + 1]
  PROVE  Numeral(d, base) < Numeral(e, base)
<1>a. PICK N \in Nat : N = Len(d) /\ N = Len(e)
  OBVIOUS
<1> DEFINE f == Numerals(d, base)
           g == Numerals(e, base)
<1>1. k < N /\ \A i \in 1 .. k : d[i] = e[i]
  BY <1>a DEF DifferFirst, SameUpTo
<1>f. f \in [0 .. N -> Nat] /\ f[0] = 0 /\ \A i \in 1 .. N : f[i] = f[i - 1] * base + d[i]
  BY <1>a, NumeralsAre
<1>g. g \in [0 .. N -> Nat] /\ g[0] = 0 /\ \A i \in 1 .. N : g[i] = g[i - 1] * base + e[i]
  BY <1>a, NumeralsAre
<1>2. k + 1 \in 1 .. N /\ (k + 1) - 1 = k /\ k \in 0 .. N
  BY <1>1
<1>3. f[k] = g[k]
  <2>0. PICK z \in Nat : z = 0
    OBVIOUS
  <2>1. Aligned(d, e, z, z)
    BY <1>a, <2>0 DEF Aligned
  <2>2. SameFrom(d, e, z, z, k)
    BY <1>1, <2>0 DEF SameFrom
  <2>3. z + k <= Len(d) /\ Agree(d, e, base, z, z)
    BY <1>1, <1>a, <1>f, <1>g, <2>0 DEF Agree
  <2>4. Agree(d, e, base, z + k, z + k)
    BY <2>1, <2>2, <2>3, StaysEqual, Zenon
  <2>5. f[z + k] = g[z + k]
    BY <2>4 DEF Agree
  <2> HIDE DEF f, g
  <2> QED
    BY <2>0, <2>5
<1>5. Aligned(d, e, k + 1, k + 1)
  BY <1>a, <1>1 DEF Aligned
<1>6. d[k + 1] \in Nat /\ e[k + 1] \in Nat
  BY <1>2, <1>a
<1>4. f[k + 1] < g[k + 1]
  <2> HIDE DEF f, g
  <2>1. f[k + 1] = f[k] * base + d[k + 1] /\ g[k + 1] = g[k] * base + e[k + 1]
    BY <1>2, <1>f, <1>g
  <2>2. f[k] \in Nat
    BY <1>2, <1>f
  <2>3. f[k] * base \in Nat
    BY <2>2
  <2> QED
    BY <1>3, <1>6, <2>1, <2>3
<1> QED
  BY <1>4, <1>5, StaysBelow, Zenon

LEMMA SameNumerals ==
  ASSUME NEW d \in Seq(Nat), NEW e \in Seq(Nat), NEW base \in Nat, Len(d) = Len(e),
         SameUpTo(d, e, Len(d))
  PROVE  Numeral(d, base) = Numeral(e, base)
<1>1. d = e
  BY DEF SameUpTo
<1> QED
  BY <1>1

LEMMA NumeralIsNat ==
  ASSUME NEW d \in Seq(Nat), NEW base \in Nat
  PROVE  Numeral(d, base) \in Nat
<1>1. Len(d) \in 0 .. Len(d)
  OBVIOUS
<1> QED
  BY <1>1, NumeralsAre DEF Numeral

LEMMA NumeralOrder ==
  ASSUME NEW d \in Seq(Nat), NEW e \in Seq(Nat), NEW base \in Nat, Len(d) = Len(e),
         Below(d, base), Below(e, base)
  PROVE  Lexicographic(d, e) = Sense(Numeral(d, base), Numeral(e, base))
<1>1. Numeral(d, base) \in Nat /\ Numeral(e, base) \in Nat
  BY NumeralIsNat
<1>2. CASE SameUpTo(d, e, Len(d)) /\ Lexicographic(d, e) = Sense(Len(d), Len(e))
  BY <1>1, <1>2, SameNumerals DEF Sense
<1>3. ASSUME NEW k \in Nat, DifferFirst(d, e, k), Lexicographic(d, e) = Sense(d[k + 1], e[k + 1])
      PROVE  Lexicographic(d, e) = Sense(Numeral(d, base), Numeral(e, base))
  <2>1. d[k + 1] \in Nat /\ e[k + 1] \in Nat /\ d[k + 1] # e[k + 1]
    <3>1. k + 1 \in 1 .. Len(d) /\ k + 1 \in 1 .. Len(e)
      BY <1>3 DEF DifferFirst
    <3> QED
      BY <1>3, <3>1 DEF DifferFirst
  <2>2. CASE d[k + 1] < e[k + 1]
    <3>2. Numeral(d, base) < Numeral(e, base)
      BY <1>3, <2>2, FirstDifferenceDecides, Zenon
    <3> QED
      BY <1>1, <1>3, <2>1, <2>2, <3>2, SMTT(30) DEF Sense
  <2>3. CASE e[k + 1] < d[k + 1]
    <3>1. DifferFirst(e, d, k)
      BY <1>3 DEF DifferFirst, SameUpTo
    <3>2. Numeral(e, base) < Numeral(d, base)
      <4>1. Len(e) = Len(d)
        OBVIOUS
      <4> QED
        BY <1>3, <2>3, <3>1, <4>1, FirstDifferenceDecides, Zenon
    <3> QED
      BY <1>1, <1>3, <2>1, <2>3, <3>2 DEF Sense
  <2> QED
    BY <2>1, <2>2, <2>3
<1> QED
  BY <1>2, <1>3, LexicographicIs

-----------------------------------------------------------------------------
\* Versions.

Filled(version, length) == [i \in 1 .. length |-> IF i <= Len(version) THEN version[i] ELSE 0]

IsFilled(f, v, m, n) ==
  f \in Seq(Nat) /\ Len(f) = n /\ \A i \in 1 .. n : f[i] = IF i <= m THEN v[i] ELSE 0

LEMMA FilledIs ==
  ASSUME NEW v \in Seq(Nat), NEW n \in Nat, NEW M \in Nat, M = Len(v), M <= n
  PROVE  IsFilled(Filled(v, n), v, M, n)
<1>1. \A i \in 1 .. n : (IF i <= Len(v) THEN v[i] ELSE 0) \in Nat
  OBVIOUS
<1>2. Filled(v, n) \in [1 .. n -> Nat]
  BY <1>1 DEF Filled
<1> QED
  BY <1>2 DEF Filled, IsFilled

LEMMA PaddedIs ==
  ASSUME NEW v \in Seq(Nat), NEW n \in Nat, Len(v) <= n
  PROVE  Padded(v, n) = Filled(v, n)
<1>a. PICK M \in Nat : M = Len(v)
  OBVIOUS
<1> DEFINE zeros == [i \in 1 .. n - M |-> 0]
<1>1. zeros \in Seq(Nat) /\ Len(zeros) = n - M /\ \A i \in 1 .. n - M : zeros[i] = 0
  <2>1. n - M \in Nat
    BY <1>a
  <2>2. zeros \in [1 .. n - M -> Nat]
    OBVIOUS
  <2> HIDE DEF zeros
  <2>3. zeros \in Seq(Nat) /\ Len(zeros) = n - M
    BY <2>1, <2>2
  <2> QED
    BY <2>3 DEF zeros
<1>2. Padded(v, n) = v \o zeros
  BY <1>a DEF Padded
<1> HIDE DEF zeros
<1>3. v \o zeros \in Seq(Nat) /\ Len(v \o zeros) = n
  BY <1>1, <1>a
<1>4. \A i \in 1 .. n : (v \o zeros)[i] = IF i <= M THEN v[i] ELSE 0
  BY <1>1, <1>a
<1>5. Filled(v, n) \in Seq(Nat) /\ Len(Filled(v, n)) = n
      /\ \A i \in 1 .. n : Filled(v, n)[i] = IF i <= M THEN v[i] ELSE 0
  BY <1>a, FilledIs DEF IsFilled
<1> DEFINE a == v \o zeros
           b == Filled(v, n)
<1>6. a \in Seq(Nat) /\ b \in Seq(Nat) /\ Len(a) = Len(b) /\ \A i \in 1 .. Len(a) : a[i] = b[i]
  BY <1>3, <1>4, <1>5
<1> HIDE DEF a, b
<1>7. a = b
  BY <1>6, SMTT(30)
<1> QED
  BY <1>2, <1>7 DEF a, b

\* A component that is a long long is converted to itself.
LEMMA ConversionKeeps ==
  ASSUME NEW v \in Components, ComponentsFit(v)
  PROVE  ParseVersionStr(v) = v
<1>1. v = [i \in DOMAIN v |-> v[i]]
  BY DEF Components
<1>2. \A i \in DOMAIN v : ToLongLong(v[i]) = v[i]
  BY DEF ComponentsFit, ToLongLong
<1> QED
  BY <1>1, <1>2, Zenon DEF ParseVersionStr

LEMMA VersionsFollow ==
  ASSUME NEW def \in Components, NEW sc \in Components, NEW operation \in Ordering,
         ComponentsFit(def), ComponentsFit(sc),
         NEW base, base = 1 + SetsExt!Max(Occurring(def) \cup Occurring(sc)),
         NEW length, length = Len(def) + Len(sc),
         NEW d, d = VersionNumber(def, base, length), NEW s, s = VersionNumber(sc, base, length)
  PROVE  CompareVersion(operation, <<def>>, <<sc>>) = ByOrder(operation, SenseOf(s < d, s > d))
<1>0. def \in Seq(Nat) /\ sc \in Seq(Nat) /\ def # <<>>
  BY DEF Components
<1>a. PICK M \in Nat, N \in Nat : M = Len(def) /\ N = Len(sc) /\ DOMAIN def = 1 .. M /\ DOMAIN sc = 1 .. N
  BY <1>0
<1>b. length = M + N /\ length \in Nat
  BY <1>a
<1>1. base \in Nat /\ (\A i \in 1 .. M : def[i] < base) /\ (\A i \in 1 .. N : sc[i] < base) /\ 0 < base
  <2> DEFINE both == def \o sc
             max == SetsExt!Max(Occurring(both))
  <2>1. both \in Seq(Nat) /\ Len(both) = M + N /\ DOMAIN both = 1 .. M + N
    BY <1>0, <1>a
  <2>2. /\ \A i \in 1 .. M : both[i] = def[i] /\ i \in DOMAIN both
        /\ \A i \in 1 .. N : both[M + i] = sc[i] /\ M + i \in DOMAIN both
    BY <1>0, <1>a, <2>1
  <2>a. \A i \in 1 .. M + N : IF i <= M THEN i \in 1 .. M /\ both[i] = def[i]
                              ELSE i - M \in 1 .. N /\ both[i] = sc[i - M]
    BY <1>0, <1>a
  <2> HIDE DEF both
  <2>3. Occurring(both) = Occurring(def) \cup Occurring(sc)
    <3>1. \A x \in Occurring(both) : x \in Occurring(def) \cup Occurring(sc)
      BY <1>a, <2>1, <2>a DEF Occurring
    <3>2. \A x \in Occurring(def) : x \in Occurring(both)
      BY <1>a, <2>1, <2>2 DEF Occurring
    <3>3. \A x \in Occurring(sc) : x \in Occurring(both)
      BY <1>a, <2>1, <2>2 DEF Occurring
    <3> QED
      BY <3>1, <3>2, <3>3
  <2>4. both # <<>>
    <3>1. M > 0
      BY <1>0, <1>a
    <3> QED
      BY <2>1, <3>1
  <2>5. Occurring(both) \subseteq Nat
    BY <2>1 DEF Occurring
  <2>6. max \in Nat /\ \A x \in Occurring(both) : max >= x
    BY <2>1, <2>4, <2>5, GreatestComponent, MaxIs
  <2>7. base = 1 + max
    BY <2>3
  <2> HIDE DEF max
  <2>8. \A i \in 1 .. M : def[i] \in Nat /\ max >= def[i]
    BY <1>0, <1>a, <2>2, <2>6 DEF Occurring
  <2>9. \A i \in 1 .. N : sc[i] \in Nat /\ max >= sc[i]
    BY <1>0, <1>a, <2>2, <2>6 DEF Occurring
  <2>10. base \in Nat /\ max < base /\ 0 < base
    BY <2>6, <2>7
  <2>11. ASSUME NEW i \in 1 .. M PROVE def[i] < base
    BY <2>6, <2>8, <2>10
  <2>12. ASSUME NEW i \in 1 .. N PROVE sc[i] < base
    BY <2>6, <2>9, <2>10
  <2>13. (\A i \in 1 .. M : def[i] < base) /\ \A i \in 1 .. N : sc[i] < base
    BY <2>11, <2>12, Zenon
  <2> QED
    BY <2>10, <2>13
<1> DEFINE D == Filled(def, length)
           S == Filled(sc, length)
           L == IF M <= N THEN N ELSE M
           P == Filled(def, L)
           Q == Filled(sc, L)
<1>4. L \in Nat /\ L <= length /\ M <= L /\ N <= L /\ M <= length /\ N <= length
  BY <1>a, <1>b
<1>2. D \in Seq(Nat) /\ S \in Seq(Nat) /\ Len(D) = length /\ Len(S) = length
      /\ \A i \in 1 .. length : D[i] = (IF i <= M THEN def[i] ELSE 0) /\ S[i] = (IF i <= N THEN sc[i] ELSE 0)
  <2>0. def \in Seq(Nat) /\ sc \in Seq(Nat) /\ M = Len(def) /\ N = Len(sc)
    BY <1>0, <1>a
  <2> HIDE DEF Components, L
  <2>c. length \in Nat /\ M <= length /\ N <= length
    BY <1>4, <1>b
  <2>1. IsFilled(D, def, M, length)
    BY <2>0, <2>c, FilledIs, Zenon
  <2>2. IsFilled(S, sc, N, length)
    BY <2>0, <2>c, FilledIs, Zenon
  <2> HIDE DEF D, S
  <2> QED
    BY <2>1, <2>2 DEF IsFilled
<1>3. P \in Seq(Nat) /\ Q \in Seq(Nat) /\ Len(P) = L /\ Len(Q) = L
      /\ \A i \in 1 .. L : P[i] = (IF i <= M THEN def[i] ELSE 0) /\ Q[i] = (IF i <= N THEN sc[i] ELSE 0)
  <2>0. def \in Seq(Nat) /\ sc \in Seq(Nat) /\ M = Len(def) /\ N = Len(sc)
    BY <1>0, <1>a
  <2> HIDE DEF L
  <2>1. IsFilled(P, def, M, L)
    BY <1>4, <2>0, FilledIs, Zenon
  <2>2. IsFilled(Q, sc, N, L)
    BY <1>4, <2>0, FilledIs, Zenon
  <2> HIDE DEF P, Q
  <2> QED
    BY <2>1, <2>2 DEF IsFilled
<1>5. d = Numeral(D, base) /\ s = Numeral(S, base)
  BY DEF VersionNumber, Filled
<1>6. Padded(def, L) = P /\ Padded(sc, L) = Q
  BY <1>0, <1>4, <1>a, PaddedIs
<1>7. CompareVersion(operation, <<def>>, <<sc>>) = ByOrder(operation, Lexicographic(P, Q))
  <2>1. SetsExt!Max({Len(def), Len(sc)}) = L
    BY <1>a, MaxOfTwo
  <2>2. operation \notin {"pattern match", "bitwise and", "bitwise or"}
    BY DEF Ordering
  <2>3. ParseVersionStr(def) = def /\ ParseVersionStr(sc) = sc
    BY ConversionKeeps
  <2> HIDE DEF L, P, Q
  <2> QED
    BY <1>6, <2>1, <2>2, <2>3 DEF CompareVersion
<1> HIDE DEF D, S, P, Q, L
<1>8. \A i \in 1 .. L : D[i] = P[i] /\ S[i] = Q[i]
  <2> TAKE i \in 1 .. L
  <2>1. i \in 1 .. length
    BY <1>4, <1>b
  <2> QED
    BY <1>2, <1>3, <2>1
<1>9. \A i \in 1 .. length : D[i] < base /\ S[i] < base
  <2> TAKE i \in 1 .. length
  <2>1. D[i] < base
    <3>0. D[i] = IF i <= M THEN def[i] ELSE 0
      BY <1>2
    <3>1. CASE i <= M
      <4>1. i \in 1 .. M
        BY <1>b, <3>1
      <4> QED
        BY <1>1, <3>0, <3>1, <4>1
    <3>2. CASE ~(i <= M)
      BY <1>1, <3>0, <3>2
    <3> QED
      BY <3>1, <3>2
  <2>2. S[i] < base
    <3>0. S[i] = IF i <= N THEN sc[i] ELSE 0
      BY <1>2
    <3>1. CASE i <= N
      <4>1. i \in 1 .. N
        BY <1>b, <3>1
      <4> QED
        BY <1>1, <3>0, <3>1, <4>1
    <3>2. CASE ~(i <= N)
      BY <1>1, <3>0, <3>2
    <3> QED
      BY <3>1, <3>2
  <2> QED
    BY <2>1, <2>2
<1>10. d \in Nat /\ s \in Nat
  BY <1>1, <1>2, <1>5, NumeralIsNat
<1>11. CASE SameUpTo(P, Q, L) /\ Lexicographic(P, Q) = Sense(Len(P), Len(Q))
  <2>1. \A i \in 1 .. length : D[i] = S[i]
    <3> TAKE i \in 1 .. length
    <3>1. CASE i <= L
      <4>1. i \in 1 .. L
        BY <1>4, <3>1
      <4> QED
        BY <1>8, <1>11, <4>1 DEF SameUpTo
    <3>2. CASE i > L
      BY <1>2, <1>4, <1>a, <3>2
    <3> QED
      BY <1>4, <3>1, <3>2
  <2>2. SameUpTo(D, S, Len(D))
    BY <1>2, <2>1 DEF SameUpTo
  <2>3. d = s
    BY <1>1, <1>2, <1>5, <2>2, SameNumerals
  <2>4. Lexicographic(P, Q) = SenseOf(s < d, s > d)
    BY <1>3, <1>4, <1>10, <1>11, <2>3 DEF Sense, SenseOf
  <2> QED
    BY <1>7, <2>4
<1>12. ASSUME NEW k \in Nat, DifferFirst(P, Q, k), Lexicographic(P, Q) = Sense(P[k + 1], Q[k + 1])
       PROVE  Lexicographic(P, Q) = SenseOf(s < d, s > d)
  <2>1. k < L /\ k + 1 \in 1 .. L /\ k < length /\ SameUpTo(P, Q, k) /\ P[k + 1] # Q[k + 1]
    BY <1>3, <1>4, <1>12, <1>b DEF DifferFirst
  <2>2. SameUpTo(D, S, k)
    <3>1. \A i \in 1 .. k : i \in 1 .. L
      BY <1>4, <2>1
    <3> QED
      BY <1>8, <2>1, <3>1 DEF SameUpTo
  <2>3. D[k + 1] = P[k + 1] /\ S[k + 1] = Q[k + 1]
    BY <1>8, <2>1
  <2>4. DifferFirst(D, S, k) /\ DifferFirst(S, D, k)
    BY <1>2, <2>1, <2>2, <2>3 DEF DifferFirst, SameUpTo
  <2>5. P[k + 1] \in Nat /\ Q[k + 1] \in Nat
    BY <1>3, <2>1
  <2>a. Below(D, base) /\ Below(S, base) /\ Len(D) = Len(S) /\ D \in Seq(Nat) /\ S \in Seq(Nat)
    BY <1>2, <1>9 DEF Below
  <2>6. CASE P[k + 1] < Q[k + 1]
    <3>1. d < s
      <4>1. D[k + 1] < S[k + 1]
        BY <2>3, <2>6
      <4> QED
        BY <1>1, <1>5, <2>4, <2>a, <4>1, FirstDifferenceDecides, Zenon
    <3> QED
      BY <1>10, <1>12, <2>5, <2>6, <3>1 DEF Sense, SenseOf
  <2>7. CASE Q[k + 1] < P[k + 1]
    <3>1. s < d
      <4>1. S[k + 1] < D[k + 1] /\ Len(S) = Len(D)
        BY <2>3, <2>7, <2>a
      <4> QED
        BY <1>1, <1>5, <2>4, <2>a, <4>1, FirstDifferenceDecides, Zenon
    <3> QED
      BY <1>10, <1>12, <2>5, <2>7, <3>1 DEF Sense, SenseOf
  <2> QED
    BY <2>1, <2>5, <2>6, <2>7
<1> QED
  <2>1. \/ \E k \in Nat : DifferFirst(P, Q, k) /\ Lexicographic(P, Q) = Sense(P[k + 1], Q[k + 1])
        \/ SameUpTo(P, Q, L) /\ Lexicographic(P, Q) = Sense(Len(P), Len(Q))
    <3>1. L = IF Len(P) <= Len(Q) THEN Len(P) ELSE Len(Q)
      BY <1>3
    <3> QED
      BY <1>3, <3>1, LexicographicIs
  <2> QED
    BY <1>7, <1>11, <1>12, <2>1

-----------------------------------------------------------------------------
\* Texts and their segments.

Text(t, L) == t \in Seq(Nat) /\ L \in Nat /\ L = Len(t) /\ DOMAIN t = 1 .. L

LEMMA TextIs ==
  ASSUME NEW t \in Seq(Nat)
  PROVE  \E L \in Nat : Text(t, L)
BY DEF Text

LEMMA NoBoth == ~\E c : c \in Digit /\ c \in Letter
BY DEF Digit, Letter

\* The first position behind p with, or without, one of some characters.
IsFirst(t, L, p, q, chars) ==
  /\ q \in Nat /\ p <= q /\ q <= L + 1
  /\ q <= L => t[q] \in chars
  /\ \A i \in Nat : p <= i /\ i < q => t[i] \notin chars
IsFirstNot(t, L, p, q, chars) ==
  /\ q \in Nat /\ p <= q /\ q <= L + 1
  /\ q <= L => t[q] \notin chars
  /\ \A i \in Nat : p <= i /\ i < q => t[i] \in chars

LEMMA FirstInIs ==
  ASSUME NEW t, NEW L, Text(t, L), NEW p \in Nat, 1 <= p, p <= L + 1, NEW chars
  PROVE  IsFirst(t, L, p, FirstIn(t, p, chars), chars)
<1>a. L \in Nat /\ L = Len(t)
  BY DEF Text
<1> DEFINE S == {i \in p .. L : t[i] \in chars} \cup {L + 1}
           q == SetsExt!Min(S)
<1>1. S \subseteq Nat /\ S # {}
  BY <1>a
<1>2. q \in S /\ \A n \in S : q <= n
  <2> HIDE DEF S
  <2> QED
    BY <1>1, MinIs, Zenon
<1>3. FirstIn(t, p, chars) = q
  BY <1>a DEF FirstIn
<1> HIDE DEF q
<1>4. q \in Nat /\ p <= q /\ q <= L + 1 /\ (q <= L => t[q] \in chars)
  BY <1>1, <1>2, <1>a
<1>5. ASSUME NEW i \in Nat, p <= i, i < q, t[i] \in chars PROVE FALSE
  <2>1. i \in S
    BY <1>4, <1>5, <1>a
  <2> QED
    BY <1>2, <1>4, <1>5, <2>1
<1> QED
  BY <1>3, <1>4, <1>5 DEF IsFirst

LEMMA FirstNotInIs ==
  ASSUME NEW t, NEW L, Text(t, L), NEW p \in Nat, 1 <= p, p <= L + 1, NEW chars
  PROVE  IsFirstNot(t, L, p, FirstNotIn(t, p, chars), chars)
<1>a. L \in Nat /\ L = Len(t)
  BY DEF Text
<1> DEFINE S == {i \in p .. L : t[i] \notin chars} \cup {L + 1}
           q == SetsExt!Min(S)
<1>1. S \subseteq Nat /\ S # {}
  BY <1>a
<1>2. q \in S /\ \A n \in S : q <= n
  <2> HIDE DEF S
  <2> QED
    BY <1>1, MinIs, Zenon
<1>3. FirstNotIn(t, p, chars) = q
  BY <1>a DEF FirstNotIn
<1> HIDE DEF q
<1>4. q \in Nat /\ p <= q /\ q <= L + 1 /\ (q <= L => t[q] \notin chars)
  BY <1>1, <1>2, <1>a
<1>5. ASSUME NEW i \in Nat, p <= i, i < q, t[i] \notin chars PROVE FALSE
  <2>1. i \in S
    BY <1>4, <1>5, <1>a
  <2> QED
    BY <1>2, <1>4, <1>5, <2>1
<1> QED
  BY <1>3, <1>4, <1>5 DEF IsFirstNot

\* The starts before a position, and those up to it.
Before(t, p) == {j \in Starts(t) : j < p}
UpTo(t, p)   == {j \in Starts(t) : j <= p}
Rank(t, p)   == Cardinality(Before(t, p))

LEMMA StartsAre ==
  ASSUME NEW t, NEW L, Text(t, L)
  PROVE  /\ Starts(t) \subseteq 1 .. L /\ IsFiniteSet(Starts(t)) /\ Cardinality(Starts(t)) \in Nat
         /\ \A p : IsFiniteSet(Before(t, p)) /\ Rank(t, p) \in Nat
         /\ \A p : IsFiniteSet(UpTo(t, p)) /\ Cardinality(UpTo(t, p)) \in Nat
<1>1. L \in Nat /\ Starts(t) \subseteq 1 .. L
  BY DEF Text, Starts
<1>2. IsFiniteSet(1 .. L)
  <2>1. 1 \in Int /\ L \in Int
    BY <1>1
  <2> QED
    BY <2>1, FS_Interval, Zenon
<1>3. IsFiniteSet(Starts(t))
  <2>1. Starts(t) \in SUBSET (1 .. L)
    BY <1>1
  <2> QED
    BY <1>2, <2>1, FS_Subset, Zenon
<1>4. \A p : Before(t, p) \in SUBSET Starts(t) /\ UpTo(t, p) \in SUBSET Starts(t)
  BY DEF Before, UpTo
<1>5. \A p : IsFiniteSet(Before(t, p)) /\ IsFiniteSet(UpTo(t, p))
  BY <1>3, <1>4, FS_Subset, Zenon
<1> QED
  BY <1>1, <1>3, <1>5, FS_CardinalityType, Zenon DEF Rank

\* A start is told by the number of the starts up to it.
LEMMA StartIsTold ==
  ASSUME NEW t, NEW L, Text(t, L), NEW i \in Starts(t), NEW j \in Starts(t),
         Cardinality(UpTo(t, i)) = Cardinality(UpTo(t, j))
  PROVE  i = j
<1>1. i \in Nat /\ j \in Nat
  BY StartsAre
<1>2. ASSUME NEW a \in Starts(t), NEW b \in Starts(t), a \in Nat, b \in Nat, a < b,
             Cardinality(UpTo(t, b)) = Cardinality(UpTo(t, a))
      PROVE FALSE
  <2>1. UpTo(t, a) \in SUBSET UpTo(t, b)
    BY <1>2, StartsAre DEF UpTo
  <2>2. IsFiniteSet(UpTo(t, b))
    BY StartsAre
  <2>3. UpTo(t, b) = UpTo(t, a)
    BY <1>2, <2>1, <2>2, FS_Subset, Zenon
  <2>4. b \in UpTo(t, b) /\ b \notin UpTo(t, a)
    BY <1>2 DEF UpTo
  <2> QED
    BY <2>3, <2>4
<1>3. i < j \/ j < i \/ i = j
  BY <1>1
<1> QED
  BY <1>1, <1>2, <1>3

\* A position where a segment does not go on.
Boundary(t, L, p) ==
  /\ p \in Nat /\ 1 <= p /\ p <= L + 1
  /\ 1 < p /\ p <= L => \A kind \in {Digit, Letter} : ~(t[p - 1] \in kind /\ t[p] \in kind)
KindOf(c) == IF c \in Digit THEN Digit ELSE Letter

\* From a boundary, the next segment goes from q to e; it is the one after as many
\* as start before the boundary.
IsNext(t, L, p, q, e) ==
  /\ IsFirst(t, L, p, q, Digit \cup Letter) /\ q <= L
  /\ IsFirstNot(t, L, q, e, KindOf(t[q])) /\ q < e

LEMMA NextIs ==
  ASSUME NEW t, NEW L, Text(t, L), NEW p, Boundary(t, L, p), p <= L, t[L] \in Digit \cup Letter,
         NEW q, q = FirstIn(t, p, Digit \cup Letter), NEW e, e = FirstNotIn(t, q, KindOf(t[q]))
  PROVE  IsNext(t, L, p, q, e)
<1>1. p \in Nat /\ 1 <= p /\ p <= L + 1 /\ L \in Nat
  BY DEF Boundary, Text
<1>2. IsFirst(t, L, p, q, Digit \cup Letter)
  BY <1>1, FirstInIs
<1>3. q \in Nat /\ q <= L /\ 1 <= q /\ q <= L + 1
  <2> SUFFICES ASSUME q > L PROVE FALSE
    BY <1>1, <1>2 DEF IsFirst
  <2>1. p <= L /\ L < q /\ q \in Nat
    BY <1>1, <1>2 DEF IsFirst
  <2> QED
    BY <1>1, <1>2, <2>1 DEF IsFirst
<1>4. IsFirstNot(t, L, q, e, KindOf(t[q]))
  BY <1>3, FirstNotInIs
<1>5. q < e
  <2>1. t[q] \in KindOf(t[q])
    BY <1>2, <1>3 DEF IsFirst, KindOf
  <2> QED
    BY <1>3, <1>4, <2>1 DEF IsFirstNot
<1> QED
  BY <1>2, <1>3, <1>4, <1>5 DEF IsNext

LEMMA NextSegment ==
  ASSUME NEW t, NEW L, Text(t, L), NEW p, Boundary(t, L, p), NEW q, NEW e, IsNext(t, L, p, q, e)
  PROVE  /\ q \in Starts(t) /\ Boundary(t, L, e)
         /\ Before(t, e) = Before(t, p) \cup {q} /\ UpTo(t, q) = Before(t, p) \cup {q}
         /\ q \notin Before(t, p)
<1>a. L \in Nat /\ L = Len(t) /\ DOMAIN t = 1 .. L /\ p \in Nat /\ 1 <= p /\ p <= L + 1
  BY DEF Text, Boundary
<1>b. q \in Nat /\ p <= q /\ q <= L /\ e \in Nat /\ q < e /\ e <= L + 1
  BY <1>a DEF IsNext, IsFirst, IsFirstNot
<1> DEFINE kind == KindOf(t[q])
<1>1. kind \in {Digit, Letter} /\ t[q] \in kind
  BY <1>b DEF IsNext, IsFirst, KindOf
<1>2. \A i \in Nat : q <= i /\ i < e => t[i] \in kind
  BY DEF IsNext, IsFirstNot
<1>3. e <= L => t[e] \notin kind
  BY DEF IsNext, IsFirstNot
<1>4. \A i \in Nat : p <= i /\ i < q => t[i] \notin Digit /\ t[i] \notin Letter
  BY DEF IsNext, IsFirst
<1> HIDE DEF kind
<1>5. q \in Starts(t)
  <2>1. q = 1 \/ t[q - 1] \notin kind
    <3>1. CASE p = q
      BY <1>1, <1>a, <1>b, <3>1 DEF Boundary
    <3>2. CASE p < q
      <4>1. q - 1 \in Nat /\ p <= q - 1 /\ q - 1 < q
        BY <1>a, <1>b, <3>2
      <4> QED
        BY <1>1, <1>4, <4>1
    <3> QED
      BY <1>a, <1>b, <3>1, <3>2
  <2>2. q \in DOMAIN t
    BY <1>a, <1>b
  <2> QED
    BY <1>1, <2>1, <2>2 DEF Starts
<1>6. Boundary(t, L, e)
  <2> SUFFICES ASSUME 1 < e, e <= L, NEW k \in {Digit, Letter}, t[e - 1] \in k, t[e] \in k PROVE FALSE
    BY <1>a, <1>b DEF Boundary
  <2>1. e - 1 \in Nat /\ q <= e - 1 /\ e - 1 < e
    BY <1>b
  <2>2. t[e - 1] \in kind
    BY <1>2, <2>1
  <2>3. k = kind
    BY <1>1, <2>2, NoBoth
  <2> QED
    BY <1>3, <2>3
<1>7. ASSUME NEW j \in Starts(t), p <= j, j < e PROVE j = q
  <2>1. j \in Nat /\ 1 <= j /\ j <= L
    BY <1>a, StartsAre
  <2>2. PICK k \in {Digit, Letter} : t[j] \in k /\ (j = 1 \/ t[j - 1] \notin k)
    BY DEF Starts
  <2>3. CASE j < q
    BY <1>4, <1>7, <2>1, <2>2, <2>3
  <2>4. CASE j > q
    <3>1. j - 1 \in Nat /\ q <= j - 1 /\ j - 1 < e /\ q <= j /\ j # 1
      BY <1>7, <1>a, <1>b, <2>1, <2>4
    <3>2. t[j] \in kind /\ t[j - 1] \in kind
      BY <1>2, <1>7, <2>1, <3>1
    <3>3. k = kind
      BY <1>1, <2>2, <3>2, NoBoth
    <3> QED
      BY <2>2, <3>1, <3>2, <3>3
  <2> QED
    BY <1>b, <2>1, <2>3, <2>4
<1>8. Starts(t) \subseteq Nat
  BY StartsAre
<1>9. \A j \in Starts(t) : j < e <=> j < p \/ j = q
  <2> TAKE j \in Starts(t)
  <2>1. j \in Nat
    BY <1>8
  <2>2. j < e => j < p \/ j = q
    BY <1>7, <1>a, <1>b, <2>1
  <2> QED
    BY <1>a, <1>b, <2>1, <2>2
<1>10. \A j \in Starts(t) : j <= q <=> j < p \/ j = q
  <2> TAKE j \in Starts(t)
  <2>1. j \in Nat
    BY <1>8
  <2> QED
    BY <1>9, <1>a, <1>b, <2>1
<1>11. Before(t, e) = Before(t, p) \cup {q}
  BY <1>5, <1>9 DEF Before
<1>12. UpTo(t, q) = Before(t, p) \cup {q}
  BY <1>5, <1>10 DEF Before, UpTo
<1>13. q \notin Before(t, p)
  BY <1>a, <1>b DEF Before
<1> QED
  BY <1>5, <1>6, <1>11, <1>12, <1>13

LEMMA NextRank ==
  ASSUME NEW t, NEW L, Text(t, L), NEW p, Boundary(t, L, p), NEW q, NEW e, IsNext(t, L, p, q, e)
  PROVE  /\ Boundary(t, L, e) /\ Rank(t, e) = Rank(t, p) + 1
         /\ Rank(t, p) + 1 \in 1 .. Len(Segments(t))
         /\ Segments(t)[Rank(t, p) + 1] = SubSeq(t, q, e - 1)
<1> DEFINE k == Rank(t, p) + 1
           C == Cardinality(Starts(t))
<1>1. /\ q \in Starts(t) /\ Boundary(t, L, e)
      /\ Before(t, e) = Before(t, p) \cup {q} /\ UpTo(t, q) = Before(t, p) \cup {q}
      /\ q \notin Before(t, p)
  BY NextSegment, Zenon
<1>2. IsFiniteSet(Before(t, p)) /\ Rank(t, p) \in Nat /\ IsFiniteSet(Starts(t)) /\ C \in Nat
  BY StartsAre
<1>3. Cardinality(Before(t, p) \cup {q}) = Rank(t, p) + 1
  BY <1>1, <1>2, FS_AddElement, Zenon DEF Rank
<1>4. Rank(t, e) = k /\ Cardinality(UpTo(t, q)) = k
  BY <1>1, <1>3 DEF Rank
<1>5. k <= C
  <2>1. Before(t, p) \cup {q} \in SUBSET Starts(t)
    BY <1>1 DEF Before
  <2> HIDE DEF k, C
  <2> QED
    BY <1>2, <1>3, <2>1, FS_Subset, Zenon DEF k, C
<1>6. k \in 1 .. C
  BY <1>2, <1>5
<1> HIDE DEF k, C
<1>7. Segments(t) = [n \in 1 .. C |->
                       Segment(t, CHOOSE i \in Starts(t) : Cardinality(UpTo(t, i)) = n)]
  BY DEF Segments, UpTo, C
<1>8. (CHOOSE i \in Starts(t) : Cardinality(UpTo(t, i)) = k) = q
  BY <1>1, <1>4, StartIsTold
<1>9. Segments(t)[k] = Segment(t, q)
  BY <1>6, <1>7, <1>8
<1>10. Segment(t, q) = SubSeq(t, q, e - 1)
  <2>1. e = FirstNotIn(t, q, KindOf(t[q]))
    <3> DEFINE f == FirstNotIn(t, q, KindOf(t[q]))
    <3>1. q \in Nat /\ 1 <= q /\ q <= L + 1 /\ L \in Nat
      <4>1. Starts(t) \subseteq 1 .. L
        BY StartsAre
      <4>2. L \in Nat
        BY DEF Text
      <4> QED
        BY <1>1, <4>1, <4>2
    <3>2. IsFirstNot(t, L, q, f, KindOf(t[q]))
      BY <3>1, FirstNotInIs
    <3>3. IsFirstNot(t, L, q, e, KindOf(t[q]))
      BY DEF IsNext
    <3> HIDE DEF f
    <3>4. e \in Nat /\ f \in Nat
      BY <3>2, <3>3 DEF IsFirstNot
    <3>5. ~(e < f)
      BY <3>1, <3>2, <3>3, <3>4 DEF IsFirstNot
    <3>6. ~(f < e)
      BY <3>1, <3>2, <3>3, <3>4 DEF IsFirstNot
    <3> QED
      BY <3>4, <3>5, <3>6 DEF f
  <2> QED
    BY <2>1 DEF Segment, KindOf
<1>11. Len(Segments(t)) = C
  BY <1>2, <1>7
<1> QED
  BY <1>1, <1>4, <1>6, <1>9, <1>10, <1>11 DEF k

\* At the two ends of a text.
LEMMA FirstBoundary ==
  ASSUME NEW t, NEW L, Text(t, L)
  PROVE  Boundary(t, L, 1) /\ Rank(t, 1) = 0
<1>1. Starts(t) \subseteq 1 .. L /\ L \in Nat
  BY StartsAre DEF Text
<1>2. Before(t, 1) = {}
  BY <1>1 DEF Before
<1> QED
  BY <1>1, <1>2, FS_EmptySet DEF Boundary, Rank

LEMMA LastRank ==
  ASSUME NEW t, NEW L, Text(t, L)
  PROVE  Rank(t, L + 1) = Len(Segments(t)) /\ Len(Segments(t)) \in Nat
<1>1. Starts(t) \subseteq 1 .. L /\ Cardinality(Starts(t)) \in Nat /\ L \in Nat
  BY StartsAre DEF Text
<1>2. Before(t, L + 1) = Starts(t)
  BY <1>1 DEF Before
<1> QED
  BY <1>1, <1>2 DEF Rank, Segments

-----------------------------------------------------------------------------
\* Words.

LEMMA WordOrder ==
  ASSUME NEW x \in Seq(Nat), NEW y \in Seq(Nat)
  PROVE  /\ OlderWord(x, y) <=> Lexicographic(y, x) = -1
         /\ OlderWord(y, x) <=> Lexicographic(y, x) = 1
         /\ Lexicographic(y, x) \in {-1, 0, 1}
<1>a. PICK M \in Nat, N \in Nat : M = Len(x) /\ N = Len(y)
  OBVIOUS
<1> DEFINE l == Lexicographic(y, x)
<1>1. ASSUME SameUpTo(y, x, IF N <= M THEN N ELSE M), l = Sense(N, M)
      PROVE  (OlderWord(x, y) <=> l = -1) /\ (OlderWord(y, x) <=> l = 1) /\ l \in {-1, 0, 1}
  <2>1. \A i \in Nat : 1 <= i /\ i <= M /\ i <= N => y[i] = x[i] /\ x[i] \in Nat
    BY <1>1, <1>a DEF SameUpTo
  <2>2. OlderWord(x, y) <=> M < N
    <3>1. ASSUME M < N PROVE OlderWord(x, y)
      <4>1. M \in 0 .. Len(x) /\ M < Len(y) /\ M = Len(x)
        BY <1>a, <3>1
      <4>2. \A i \in 1 .. M : x[i] = y[i]
        BY <2>1, <3>1
      <4> QED
        BY <4>1, <4>2 DEF OlderWord
    <3>2. ASSUME OlderWord(x, y) PROVE M < N
      <4>1. PICK k \in 0 .. M : k < N /\ (k = M \/ x[k + 1] < y[k + 1])
        BY <1>a, <3>2 DEF OlderWord
      <4>2. ~(k < M)
        BY <2>1, <4>1
      <4> QED
        BY <4>1, <4>2
    <3> QED
      BY <3>1, <3>2
  <2>3. OlderWord(y, x) <=> N < M
    <3>1. ASSUME N < M PROVE OlderWord(y, x)
      <4>1. N \in 0 .. Len(y) /\ N < Len(x) /\ N = Len(y)
        BY <1>a, <3>1
      <4>2. \A i \in 1 .. N : y[i] = x[i]
        BY <2>1, <3>1
      <4> QED
        BY <4>1, <4>2 DEF OlderWord
    <3>2. ASSUME OlderWord(y, x) PROVE N < M
      <4>1. PICK k \in 0 .. N : k < M /\ (k = N \/ y[k + 1] < x[k + 1])
        BY <1>a, <3>2 DEF OlderWord
      <4>2. ~(k < N)
        BY <2>1, <4>1
      <4> QED
        BY <4>1, <4>2
    <3> QED
      BY <3>1, <3>2
  <2> HIDE DEF l
  <2> QED
    BY <1>1, <2>2, <2>3 DEF Sense
<1>2. ASSUME NEW k \in Nat, DifferFirst(y, x, k), l = Sense(y[k + 1], x[k + 1])
      PROVE  (OlderWord(x, y) <=> l = -1) /\ (OlderWord(y, x) <=> l = 1) /\ l \in {-1, 0, 1}
  <2>1. /\ k < M /\ k < N /\ (\A i \in 1 .. k : y[i] = x[i]) /\ y[k + 1] # x[k + 1]
        /\ k \in 0 .. M /\ k \in 0 .. N
    BY <1>2, <1>a DEF DifferFirst, SameUpTo
  <2>2. \A i \in Nat : 1 <= i /\ i <= M => x[i] \in Nat
    BY <1>a
  <2>3. \A i \in Nat : 1 <= i /\ i <= N => y[i] \in Nat
    BY <1>a
  <2>4. x[k + 1] \in Nat /\ y[k + 1] \in Nat
    BY <2>1, <2>2, <2>3
  <2>5. OlderWord(x, y) <=> x[k + 1] < y[k + 1]
    <3>1. ASSUME x[k + 1] < y[k + 1] PROVE OlderWord(x, y)
      <4>1. k \in 0 .. Len(x) /\ k < Len(y)
        BY <1>a, <2>1
      <4> QED
        BY <2>1, <3>1, <4>1 DEF OlderWord
    <3>2. ASSUME OlderWord(x, y) PROVE x[k + 1] < y[k + 1]
      <4>1. PICK n \in 0 .. M : /\ n < N /\ (\A i \in 1 .. n : x[i] = y[i])
                                /\ (n = M \/ x[n + 1] < y[n + 1])
        BY <1>a, <3>2 DEF OlderWord
      <4>2. ~(n < k)
        <5> SUFFICES ASSUME n < k PROVE FALSE
          OBVIOUS
        <5>1. n + 1 \in 1 .. k /\ n # M /\ n + 1 <= M
          BY <2>1
        <5>2. x[n + 1] = y[n + 1] /\ x[n + 1] \in Nat
          BY <2>1, <2>2, <5>1
        <5> QED
          BY <4>1, <5>1, <5>2
      <4>3. ~(k < n)
        BY <2>1, <4>1
      <4>4. n = k
        BY <4>2, <4>3
      <4> QED
        BY <2>1, <4>1, <4>4
    <3> QED
      BY <3>1, <3>2
  <2>6. OlderWord(y, x) <=> y[k + 1] < x[k + 1]
    <3>1. ASSUME y[k + 1] < x[k + 1] PROVE OlderWord(y, x)
      <4>1. k \in 0 .. Len(y) /\ k < Len(x)
        BY <1>a, <2>1
      <4> QED
        BY <2>1, <3>1, <4>1 DEF OlderWord
    <3>2. ASSUME OlderWord(y, x) PROVE y[k + 1] < x[k + 1]
      <4>1. PICK n \in 0 .. N : /\ n < M /\ (\A i \in 1 .. n : y[i] = x[i])
                                /\ (n = N \/ y[n + 1] < x[n + 1])
        BY <1>a, <3>2 DEF OlderWord
      <4>2. ~(n < k)
        <5> SUFFICES ASSUME n < k PROVE FALSE
          OBVIOUS
        <5>1. n + 1 \in 1 .. k /\ n # N /\ n + 1 <= N
          BY <2>1
        <5>2. x[n + 1] = y[n + 1] /\ y[n + 1] \in Nat
          BY <2>1, <2>3, <5>1
        <5> QED
          BY <4>1, <5>1, <5>2
      <4>3. ~(k < n)
        BY <2>1, <4>1
      <4>4. n = k
        BY <4>2, <4>3
      <4> QED
        BY <2>1, <4>1, <4>4
    <3> QED
      BY <3>1, <3>2
  <2> HIDE DEF l
  <2> QED
    BY <1>2, <2>1, <2>4, <2>5, <2>6 DEF Sense
<1> QED
  <2>1. \/ \E k \in Nat : DifferFirst(y, x, k) /\ l = Sense(y[k + 1], x[k + 1])
        \/ SameUpTo(y, x, IF N <= M THEN N ELSE M) /\ l = Sense(N, M)
    BY <1>a, LexicographicIs
  <2> HIDE DEF l
  <2> QED
    BY <1>1, <1>2, <2>1 DEF l

-----------------------------------------------------------------------------
\* Numbers.

DigitsOf(x) == [i \in DOMAIN x |-> x[i] - 48]
Digits == Seq(Digit)

LEMMA DigitsAre ==
  ASSUME NEW x \in Digits
  PROVE  /\ x \in Seq(Nat) /\ DigitsOf(x) \in Seq(Nat) /\ Len(DigitsOf(x)) = Len(x)
         /\ \A i \in 1 .. Len(x) : x[i] \in 48 .. 57 /\ DigitsOf(x)[i] = x[i] - 48
         /\ Below(DigitsOf(x), 10)
         /\ NumberOf(x) = Numeral(DigitsOf(x), 10) /\ NumberOf(x) \in Nat
<1>a. PICK N \in Nat : N = Len(x)
  BY DEF Digits
<1>1. x \in Seq(48 .. 57) /\ DOMAIN x = 1 .. N
  BY <1>a DEF Digits, Digit
<1>2. \A i \in 1 .. N : x[i] \in 48 .. 57
  BY <1>1
<1>3. \A i \in 1 .. N : x[i] - 48 \in Nat /\ x[i] - 48 < 10 /\ x[i] \in Nat
  BY <1>2
<1>4. x \in Seq(Nat)
  BY <1>1
<1>5. DigitsOf(x) \in [1 .. N -> Nat] /\ \A i \in 1 .. N : DigitsOf(x)[i] = x[i] - 48
  BY <1>1, <1>3 DEF DigitsOf
<1>6. DigitsOf(x) \in Seq(Nat) /\ Len(DigitsOf(x)) = N
  BY <1>5
<1>7. Below(DigitsOf(x), 10)
  BY <1>3, <1>5, <1>6 DEF Below
<1>8. NumberOf(x) = Numeral(DigitsOf(x), 10)
  BY DEF NumberOf, DigitsOf
<1> QED
  BY <1>a, <1>2, <1>4, <1>5, <1>6, <1>7, <1>8, NumeralIsNat

\* Leading zeros do not count, and a digit that is none does.
LEMMA LeadingZeros ==
  ASSUME NEW d \in Seq(Nat), NEW z \in Nat, z <= Len(d), \A i \in 1 .. z : d[i] = 0
  PROVE  Numerals(d, 10)[z] = 0
<1>a. PICK N \in Nat : N = Len(d)
  OBVIOUS
<1> DEFINE f == Numerals(d, 10)
           T == {n \in Nat : n <= z => f[n] = 0}
<1>1. f[0] = 0 /\ \A i \in 1 .. N : f[i] = f[i - 1] * 10 + d[i]
  BY <1>a, NumeralsAre
<1> HIDE DEF f
<1>2. 0 \in T
  BY <1>1
<1>3. ASSUME NEW n \in Nat, n \in T PROVE n + 1 \in T
  <2> SUFFICES ASSUME n + 1 <= z PROVE f[n + 1] = 0
    OBVIOUS
  <2>1. n + 1 \in 1 .. N /\ n + 1 \in 1 .. z /\ (n + 1) - 1 = n
    BY <1>a
  <2>2. f[n] = 0 /\ d[n + 1] = 0
    BY <1>3, <2>1
  <2> QED
    BY <1>1, <2>1, <2>2
<1> HIDE DEF T
<1>4. z \in T
  BY <1>2, <1>3, SetInduction
<1> QED
  BY <1>4 DEF T, f

LEMMA LeadingDigit ==
  ASSUME NEW d \in Seq(Nat), NEW z \in Nat, z < Len(d), d[z + 1] > 0,
         NEW n \in Nat, z < n, n <= Len(d)
  PROVE  Numerals(d, 10)[n] > 0
<1>a. PICK N \in Nat : N = Len(d)
  OBVIOUS
<1> DEFINE f == Numerals(d, 10)
           T == {m \in Nat : z + 1 + m <= N => f[z + 1 + m] > 0}
<1>1. f \in [0 .. N -> Nat] /\ \A i \in 1 .. N : f[i] = f[i - 1] * 10 + d[i]
  BY <1>a, NumeralsAre
<1>b. \A i \in 1 .. N : d[i] \in Nat
  BY <1>a
<1> HIDE DEF f
<1>2. 0 \in T
  <2> SUFFICES ASSUME z + 1 <= N PROVE f[z + 1] > 0
    OBVIOUS
  <2>1. z + 1 \in 1 .. N /\ (z + 1) - 1 = z /\ z \in 0 .. N
    OBVIOUS
  <2>2. f[z] \in Nat /\ f[z + 1] = f[z] * 10 + d[z + 1] /\ d[z + 1] \in Nat
    BY <1>1, <1>b, <2>1
  <2> QED
    BY <2>2
<1>3. ASSUME NEW m \in Nat, m \in T PROVE m + 1 \in T
  <2> SUFFICES ASSUME z + 1 + (m + 1) <= N PROVE f[z + 1 + (m + 1)] > 0
    OBVIOUS
  <2> DEFINE k == z + 1 + m
  <2>1. k \in 0 .. N /\ k + 1 \in 1 .. N /\ (k + 1) - 1 = k /\ z + 1 + (m + 1) = k + 1
    OBVIOUS
  <2>2. f[k] > 0
    BY <1>3
  <2> HIDE DEF k
  <2>3. f[k] \in Nat /\ f[k + 1] = f[k] * 10 + d[k + 1] /\ d[k + 1] \in Nat
    BY <1>1, <1>b, <2>1
  <2>4. f[k + 1] > 0
    BY <2>2, <2>3
  <2> QED
    BY <2>1, <2>4
<1> HIDE DEF T
<1>4. n - (z + 1) \in T
  <2>1. n - (z + 1) \in Nat
    OBVIOUS
  <2>2. \A m \in Nat : m \in T => m + 1 \in T
    BY <1>3
  <2>3. Nat \subseteq T
    BY <1>2, <2>2, SetInduction, Zenon
  <2> QED
    BY <2>1, <2>3
<1>5. z + 1 + (n - (z + 1)) = n /\ n <= N
  BY <1>a
<1> QED
  BY <1>4, <1>5 DEF T, f

LEMMA ElementIs ==
  ASSUME NEW S, NEW s \in Seq(S), NEW N, N = Len(s), NEW i \in 1 .. N
  PROVE  s[i] \in S
OBVIOUS

\* A number and what is left of it without leading zeros.
Stripped(x) == SubSeq(x, FirstNotIn(x, 1, {48}), Len(x))
IsStripped(x, s, z) ==
  /\ z \in Nat /\ s \in Seq(Nat) /\ Len(x) = z + Len(s)
  /\ \A i \in 1 .. Len(s) : s[i] = x[z + i] /\ s[i] = DigitsOf(x)[z + i] + 48
  /\ Numerals(DigitsOf(x), 10)[z] = 0
  /\ Len(s) > 0 => DigitsOf(x)[z + 1] > 0

LEMMA StrippedIs ==
  ASSUME NEW x \in Digits
  PROVE  \E z \in Nat : IsStripped(x, Stripped(x), z)
<1>a. PICK N \in Nat : N = Len(x)
  BY DEF Digits
<1>1. /\ x \in Seq(Nat) /\ DigitsOf(x) \in Seq(Nat) /\ Len(DigitsOf(x)) = N
      /\ \A i \in 1 .. N : x[i] \in 48 .. 57 /\ DigitsOf(x)[i] = x[i] - 48
  BY <1>a, DigitsAre
<1>2. Text(x, N)
  BY <1>1, <1>a DEF Text
<1> DEFINE p == FirstNotIn(x, 1, {48})
           z == p - 1
           s == SubSeq(x, p, N)
<1>3. IsFirstNot(x, N, 1, p, {48})
  <2>1. 1 \in Nat /\ 1 <= 1 /\ 1 <= N + 1
    OBVIOUS
  <2> QED
    BY <1>2, <2>1, FirstNotInIs, Zenon
<1>4. Stripped(x) = s
  BY <1>a DEF Stripped
<1> HIDE DEF p
<1>5. /\ p \in Nat /\ 1 <= p /\ p <= N + 1 /\ (p <= N => x[p] # 48)
      /\ \A i \in Nat : 1 <= i /\ i < p => x[i] = 48
  BY <1>3 DEF IsFirstNot
<1>6. z \in Nat /\ z <= N /\ z + 1 = p
  BY <1>5
<1>7. s \in Seq(Nat) /\ Len(s) = N - z /\ \A i \in 1 .. N - z : s[i] = x[z + i]
  <2>1. Len(s) = N - z
    BY <1>1, <1>a, <1>5, <1>6
  <2>2. \A i \in 1 .. N - z : s[i] = x[z + i]
    <3> TAKE i \in 1 .. N - z
    <3>1. s[i] = x[p + i - 1]
      BY <1>1, <1>a, <1>5, <1>6
    <3>2. p + i - 1 = z + i
      BY <1>5
    <3> QED
      BY <3>1, <3>2
  <2>3. s \in Seq(Nat)
    BY <1>1, <1>a, <1>5
  <2> QED
    BY <2>1, <2>2, <2>3
<1> HIDE DEF s, z
<1>8. \A i \in 1 .. N - z : s[i] = DigitsOf(x)[z + i] + 48
  <2> TAKE i \in 1 .. N - z
  <2>1. z + i \in 1 .. N
    BY <1>6
  <2>2. x[z + i] \in 48 .. 57 /\ DigitsOf(x)[z + i] = x[z + i] - 48
    BY <1>1, <2>1
  <2> QED
    BY <1>7, <2>2
<1>9. \A i \in 1 .. z : DigitsOf(x)[i] = 0
  <2> TAKE i \in 1 .. z
  <2>1. i \in 1 .. N /\ x[i] = 48
    BY <1>5, <1>6
  <2> QED
    BY <1>1, <2>1
<1>10. Numerals(DigitsOf(x), 10)[z] = 0
  BY <1>1, <1>6, <1>9, LeadingZeros
<1>11. Len(s) > 0 => DigitsOf(x)[z + 1] > 0
  <2> SUFFICES ASSUME N - z > 0 PROVE DigitsOf(x)[p] > 0
    BY <1>6, <1>7
  <2>1. p \in 1 .. N /\ x[p] # 48
    BY <1>5, <1>6
  <2>2. x[p] \in 48 .. 57 /\ DigitsOf(x)[p] = x[p] - 48
    BY <1>1, <2>1
  <2> QED
    BY <2>1, <2>2
<1>12. IsStripped(x, s, z)
  BY <1>6, <1>7, <1>8, <1>10, <1>11, <1>a DEF IsStripped
<1> QED
  BY <1>4, <1>6, <1>12

\* Of two stripped numbers the longer one is greater.
LEMMA LongerIsGreater ==
  ASSUME NEW x \in Digits, NEW y \in Digits, NEW s, NEW z, IsStripped(x, s, z),
         NEW t, NEW w, IsStripped(y, t, w), Len(s) < Len(t)
  PROVE  NumberOf(x) < NumberOf(y)
<1> DEFINE d == DigitsOf(x)
           e == DigitsOf(y)
<1>1. d \in Seq(Nat) /\ e \in Seq(Nat) /\ Below(d, 10) /\ NumberOf(x) = Numeral(d, 10) /\ NumberOf(y) = Numeral(e, 10)
  BY DigitsAre
<1>a. PICK M \in Nat, N \in Nat : M = Len(d) /\ N = Len(e) /\ M = Len(x) /\ N = Len(y)
  BY <1>1, DigitsAre
<1>b. PICK A \in Nat, B \in Nat : A = Len(s) /\ B = Len(t)
  BY DEF IsStripped
<1>2. z \in Nat /\ w \in Nat /\ M = z + A /\ N = w + B /\ A < B
      /\ Numerals(d, 10)[z] = 0 /\ e[w + 1] > 0
  BY <1>a, <1>b DEF IsStripped
<1> HIDE DEF d, e
<1> DEFINE j == w + (B - A)
<1>3. j \in Nat /\ w < Len(e) /\ w < j /\ j <= Len(e) /\ Aligned(d, e, z, j)
  BY <1>2, <1>a DEF Aligned
<1>4. Numerals(e, 10)[j] > 0
  BY <1>1, <1>2, <1>3, LeadingDigit
<1> HIDE DEF j
<1>5. Numerals(d, 10)[z] < Numerals(e, 10)[j]
  BY <1>2, <1>4
<1>6. 10 \in Nat
  OBVIOUS
<1>7. Numeral(d, 10) < Numeral(e, 10)
  BY <1>1, <1>3, <1>5, <1>6, StaysBelow, Zenon
<1> QED
  BY <1>1, <1>7

LEMMA FirstDigitDecides ==
  ASSUME NEW x \in Digits, NEW y \in Digits, NEW s, NEW z, IsStripped(x, s, z),
         NEW t, NEW w, IsStripped(y, t, w), Len(s) = Len(t), NEW k, DifferFirst(s, t, k), s[k + 1] < t[k + 1]
  PROVE  NumberOf(x) < NumberOf(y)
<1> DEFINE d == DigitsOf(x)
           e == DigitsOf(y)
           f == Numerals(d, 10)
           g == Numerals(e, 10)
<1>1. /\ d \in Seq(Nat) /\ e \in Seq(Nat) /\ Below(d, 10) /\ NumberOf(x) = Numeral(d, 10)
      /\ NumberOf(y) = Numeral(e, 10)
  BY DigitsAre
<1>a. PICK M \in Nat, N \in Nat : M = Len(d) /\ N = Len(e) /\ M = Len(x) /\ N = Len(y)
  BY <1>1, DigitsAre
<1>b. PICK A \in Nat : A = Len(s) /\ A = Len(t)
  BY DEF IsStripped
<1>2. /\ z \in Nat /\ w \in Nat /\ M = z + A /\ N = w + A
      /\ f[z] = 0 /\ g[w] = 0
      /\ \A i \in 1 .. A : s[i] = d[z + i] + 48 /\ t[i] = e[w + i] + 48
  BY <1>a, <1>b DEF IsStripped
<1>3. k \in Nat /\ k < A /\ \A i \in 1 .. k : s[i] = t[i]
  BY <1>b DEF DifferFirst, SameUpTo
<1>c. \A i \in 1 .. A : d[z + i] \in Nat /\ e[w + i] \in Nat
  <2> TAKE i \in 1 .. A
  <2>1. z + i \in 1 .. M /\ w + i \in 1 .. N
    BY <1>2
  <2> HIDE DEF d, e
  <2>2. d[z + i] \in Nat
    BY <1>1, <1>a, <2>1, ElementIs
  <2>3. e[w + i] \in Nat
    BY <1>1, <1>a, <2>1, ElementIs
  <2> QED
    BY <2>2, <2>3
<1>f. f \in [0 .. M -> Nat] /\ \A i \in 1 .. M : f[i] = f[i - 1] * 10 + d[i]
  <2> HIDE DEF d
  <2>1. d \in Seq(Nat) /\ 10 \in Nat /\ M = Len(d)
    BY <1>1, <1>a
  <2> QED
    BY <2>1, NumeralsAre, Zenon
<1>g. g \in [0 .. N -> Nat] /\ \A i \in 1 .. N : g[i] = g[i - 1] * 10 + e[i]
  <2> HIDE DEF e
  <2>1. e \in Seq(Nat) /\ 10 \in Nat /\ N = Len(e)
    BY <1>1, <1>a
  <2> QED
    BY <2>1, NumeralsAre, Zenon
<1> HIDE DEF d, e
<1>4. f[z + k] = g[w + k]
  <2>1. Aligned(d, e, z, w) /\ z + k <= Len(d)
    <3>1. z \in Nat /\ w \in Nat /\ M = z + A /\ N = w + A /\ k \in Nat /\ k < A
      BY <1>2, <1>3
    <3> QED
      BY <3>1, <1>a DEF Aligned
  <2>2. SameFrom(d, e, z, w, k)
    <3> SUFFICES ASSUME NEW i \in 1 .. k PROVE d[z + i] = e[w + i]
      BY DEF SameFrom
    <3>1. i \in 1 .. A
      BY <1>3
    <3>2. s[i] = d[z + i] + 48 /\ t[i] = e[w + i] + 48 /\ s[i] = t[i] /\ d[z + i] \in Nat /\ e[w + i] \in Nat
      BY <1>2, <1>3, <1>c, <3>1
    <3> QED
      BY <3>2
  <2>3. Agree(d, e, 10, z, w)
    BY <1>2 DEF Agree
  <2>4. 10 \in Nat
    OBVIOUS
  <2>5. Agree(d, e, 10, z + k, w + k)
    BY <1>1, <1>3, <2>1, <2>2, <2>3, <2>4, StaysEqual, Zenon
  <2> QED
    BY <2>5 DEF Agree
<1> DEFINE i == z + k + 1
           j == w + k + 1
<1>5. f[i] < g[j]
  <2>1. /\ i \in 1 .. M /\ j \in 1 .. N /\ i - 1 = z + k /\ j - 1 = w + k /\ z + k \in 0 .. M
        /\ i = z + (k + 1) /\ j = w + (k + 1) /\ k + 1 \in 1 .. A
    BY <1>2, <1>3
  <2>2. s[k + 1] = d[i] + 48 /\ t[k + 1] = e[j] + 48 /\ d[i] \in Nat /\ e[j] \in Nat
    BY <1>2, <1>c, <2>1
  <2>3. d[i] < e[j]
    BY <2>2
  <2>4. f[i] = f[z + k] * 10 + d[i] /\ g[j] = g[w + k] * 10 + e[j] /\ f[z + k] \in Nat
    BY <1>f, <1>g, <2>1
  <2> HIDE DEF i, j, f, g
  <2> QED
    BY <1>4, <2>2, <2>3, <2>4
<1>6. Aligned(d, e, i, j)
  <2>1. z \in Nat /\ w \in Nat /\ M = z + A /\ N = w + A /\ k \in Nat /\ k < A
    BY <1>2, <1>3
  <2> QED
    BY <2>1, <1>a DEF Aligned
<1>7. 10 \in Nat
  OBVIOUS
<1> HIDE DEF i, j
<1>8. Numeral(d, 10) < Numeral(e, 10)
  BY <1>1, <1>5, <1>6, <1>7, StaysBelow, Zenon
<1> QED
  BY <1>1, <1>8

LEMMA SameDigits ==
  ASSUME NEW x \in Digits, NEW y \in Digits, NEW s, NEW z, IsStripped(x, s, z),
         NEW t, NEW w, IsStripped(y, t, w), Len(s) = Len(t), SameUpTo(s, t, Len(s))
  PROVE  NumberOf(x) = NumberOf(y)
<1> DEFINE d == DigitsOf(x)
           e == DigitsOf(y)
<1>1. /\ d \in Seq(Nat) /\ e \in Seq(Nat) /\ NumberOf(x) = Numeral(d, 10)
      /\ NumberOf(y) = Numeral(e, 10)
  BY DigitsAre
<1>a. PICK M \in Nat, N \in Nat : M = Len(d) /\ N = Len(e) /\ M = Len(x) /\ N = Len(y)
  BY <1>1, DigitsAre
<1>b. PICK A \in Nat : A = Len(s) /\ A = Len(t)
  BY DEF IsStripped
<1>2. /\ z \in Nat /\ w \in Nat /\ M = z + A /\ N = w + A
      /\ Numerals(d, 10)[z] = 0 /\ Numerals(e, 10)[w] = 0
      /\ \A i \in 1 .. A : s[i] = d[z + i] + 48 /\ t[i] = e[w + i] + 48
  BY <1>a, <1>b DEF IsStripped
<1>c. \A i \in 1 .. A : d[z + i] \in Nat /\ e[w + i] \in Nat
  <2> TAKE i \in 1 .. A
  <2>1. z + i \in 1 .. M /\ w + i \in 1 .. N
    BY <1>2
  <2> HIDE DEF d, e
  <2>2. d[z + i] \in Nat
    BY <1>1, <1>a, <2>1, ElementIs
  <2>3. e[w + i] \in Nat
    BY <1>1, <1>a, <2>1, ElementIs
  <2> QED
    BY <2>2, <2>3
<1> HIDE DEF d, e
<1>3. Aligned(d, e, z, w) /\ z + A <= Len(d)
  <2>1. z \in Nat /\ w \in Nat /\ M = z + A /\ N = w + A
    BY <1>2
  <2> QED
    BY <2>1, <1>a DEF Aligned
<1>4. SameFrom(d, e, z, w, A)
  <2> SUFFICES ASSUME NEW i \in 1 .. A PROVE d[z + i] = e[w + i]
    BY DEF SameFrom
  <2>1. s[i] = d[z + i] + 48 /\ t[i] = e[w + i] + 48 /\ s[i] = t[i] /\ d[z + i] \in Nat /\ e[w + i] \in Nat
    BY <1>2, <1>b, <1>c DEF SameUpTo
  <2> QED
    BY <2>1
<1>5. Agree(d, e, 10, z, w)
  BY <1>2 DEF Agree
<1>6. 10 \in Nat
  OBVIOUS
<1>7. Agree(d, e, 10, z + A, w + A)
  BY <1>1, <1>3, <1>4, <1>5, <1>6, StaysEqual, Zenon
<1> QED
  BY <1>1, <1>2, <1>7, <1>a DEF Agree, Numeral

LEMMA SenseOfNumbers ==
  ASSUME NEW a \in Nat, NEW b \in Nat
  PROVE  /\ Sense(a, b) \in {-1, 0, 1}
         /\ b < a => Sense(a, b) = -1
         /\ b = a => Sense(a, b) = 0
         /\ a < b => Sense(a, b) = 1
BY DEF Sense

LEMMA NumberOrder ==
  ASSUME NEW x \in Digits, NEW y \in Digits
  PROVE  CompareSegments(TRUE, y, x) = Sense(NumberOf(y), NumberOf(x))
<1>1. PICK z \in Nat : IsStripped(x, Stripped(x), z)
  BY StrippedIs
<1>2. PICK w \in Nat : IsStripped(y, Stripped(y), w)
  BY StrippedIs
<1> DEFINE s == Stripped(x)
           t == Stripped(y)
<1>3. CompareSegments(TRUE, y, x) = IF Len(t) # Len(s) THEN Sense(Len(t), Len(s)) ELSE Lexicographic(t, s)
  BY DEF CompareSegments, Stripped
<1> HIDE DEF s, t
<1>4. s \in Seq(Nat) /\ t \in Seq(Nat) /\ NumberOf(x) \in Nat /\ NumberOf(y) \in Nat
      /\ IsStripped(x, s, z) /\ IsStripped(y, t, w) /\ Len(s) \in Nat /\ Len(t) \in Nat
  BY <1>1, <1>2, DigitsAre DEF IsStripped, s, t
<1>b. PICK A \in Nat, B \in Nat : A = Len(s) /\ B = Len(t)
  BY <1>4
<1>c. PICK m \in Nat, n \in Nat : m = NumberOf(x) /\ n = NumberOf(y)
  BY <1>4
<1>5. CASE Len(s) < Len(t)
  <2>1. NumberOf(x) < NumberOf(y)
    BY <1>4, <1>5, LongerIsGreater, Zenon
  <2>2. Sense(B, A) = Sense(n, m) /\ A # B
    BY <1>b, <1>c, <1>5, <2>1, SenseOfNumbers
  <2> QED
    BY <1>3, <1>b, <1>c, <2>2
<1>6. CASE Len(t) < Len(s)
  <2>1. NumberOf(y) < NumberOf(x)
    BY <1>4, <1>6, LongerIsGreater, Zenon
  <2>2. Sense(B, A) = Sense(n, m) /\ A # B
    BY <1>b, <1>c, <1>6, <2>1, SenseOfNumbers
  <2> QED
    BY <1>3, <1>b, <1>c, <2>2
<1>7. CASE Len(t) = Len(s)
  <2>1. CASE SameUpTo(t, s, Len(t)) /\ Lexicographic(t, s) = Sense(Len(t), Len(s))
    <3>1. NumberOf(y) = NumberOf(x)
      BY <1>4, <1>7, <2>1, SameDigits, Zenon
    <3> QED
      BY <1>3, <1>4, <1>7, <2>1, <3>1, SenseOfNumbers, ZenonT(60)
  <2>2. ASSUME NEW k \in Nat, DifferFirst(t, s, k), Lexicographic(t, s) = Sense(t[k + 1], s[k + 1])
        PROVE  Lexicographic(t, s) = Sense(NumberOf(y), NumberOf(x))
    <3>1. t[k + 1] \in Nat /\ s[k + 1] \in Nat /\ t[k + 1] # s[k + 1] /\ DifferFirst(s, t, k)
      <4>1. k + 1 \in 1 .. Len(t) /\ k + 1 \in 1 .. Len(s)
        BY <1>4, <2>2 DEF DifferFirst
      <4> QED
        BY <1>4, <2>2, <4>1 DEF DifferFirst, SameUpTo
    <3>2. CASE t[k + 1] < s[k + 1]
      <4>1. NumberOf(y) < NumberOf(x)
        BY <1>4, <1>7, <2>2, <3>2, FirstDigitDecides, Zenon
      <4> QED
        BY <1>4, <2>2, <3>1, <3>2, <4>1, SenseOfNumbers
    <3>3. CASE s[k + 1] < t[k + 1]
      <4>1. NumberOf(x) < NumberOf(y)
        BY <1>4, <1>7, <3>1, <3>3, FirstDigitDecides, Zenon
      <4> QED
        BY <1>4, <2>2, <3>1, <3>3, <4>1, SenseOfNumbers
    <3> QED
      BY <3>1, <3>2, <3>3
  <2>3. \/ \E k \in Nat : DifferFirst(t, s, k) /\ Lexicographic(t, s) = Sense(t[k + 1], s[k + 1])
        \/ SameUpTo(t, s, Len(t)) /\ Lexicographic(t, s) = Sense(Len(t), Len(s))
    BY <1>4, <1>7, LexicographicIs
  <2> QED
    BY <1>3, <1>7, <2>1, <2>2, <2>3
<1>8. Len(s) < Len(t) \/ Len(t) < Len(s) \/ Len(t) = Len(s)
  <2>1. A < B \/ B < A \/ B = A
    OBVIOUS
  <2> QED
    BY <1>b, <2>1
<1> QED
  BY <1>5, <1>6, <1>7, <1>8, Zenon

-----------------------------------------------------------------------------
\* What is defined from one point to a lower one exists.
Descends(P, measure, bound, over, onward) ==
  /\ measure \in [P -> Nat] /\ bound \in Nat /\ over \subseteq P
  /\ \A p \in P : measure[p] < bound
  /\ \A p \in P \ over : onward[p] \in P /\ measure[onward[p]] < measure[p]
Arrives(f, P, over, outcome, onward) ==
  f = [p \in P |-> IF p \in over THEN outcome[p] ELSE f[onward[p]]]

LEMMA StepByStepDown ==
  ASSUME NEW P, NEW measure, NEW bound, NEW over, NEW outcome, NEW onward,
         Descends(P, measure, bound, over, onward)
  PROVE  \E f : Arrives(f, P, over, outcome, onward)
<1> DEFINE Walked(f, p) == IF p \in over THEN outcome[p] ELSE f[onward[p]]
           Fits(f, n) == \A p \in P : measure[p] < n => f[p] = Walked(f, p)
           T == {n \in Nat : \E f : Fits(f, n)}
<1>1. 0 \in T
  <2>1. Fits(outcome, 0)
    BY DEF Descends
  <2> QED
    BY <2>1
<1>2. ASSUME NEW n \in Nat, n \in T PROVE n + 1 \in T
  <2>1. PICK f : Fits(f, n)
    BY <1>2
  <2> DEFINE g == [p \in P |-> IF measure[p] < n THEN f[p] ELSE Walked(f, p)]
  <2>2. ASSUME NEW p \in P, measure[p] < n + 1 PROVE g[p] = Walked(g, p)
    <3>1. g[p] = Walked(f, p)
      BY <2>1
    <3>2. p \notin over => g[onward[p]] = f[onward[p]]
      <4> SUFFICES ASSUME p \notin over PROVE g[onward[p]] = f[onward[p]]
        OBVIOUS
      <4>1. onward[p] \in P /\ measure[onward[p]] < measure[p] /\ measure[p] \in Nat /\ measure[onward[p]] \in Nat
        BY DEF Descends
      <4>2. measure[onward[p]] < n
        BY <2>2, <4>1
      <4> QED
        BY <4>1, <4>2
    <3> QED
      BY <3>1, <3>2
  <2>3. Fits(g, n + 1)
    BY <2>2
  <2> HIDE DEF g, Fits
  <2>4. \E h : Fits(h, n + 1)
    BY <2>3
  <2>5. n + 1 \in Nat
    OBVIOUS
  <2> QED
    BY <2>4, <2>5
<1>3. bound \in T
  <2> HIDE DEF T
  <2>1. Nat \subseteq T
    BY <1>1, <1>2, SetInduction
  <2> QED
    BY <2>1 DEF Descends
<1>4. PICK f : Fits(f, bound)
  BY <1>3
<1>5. \A p \in P : f[p] = Walked(f, p)
  BY <1>4 DEF Descends
<1> DEFINE g == [p \in P |-> Walked(f, p)]
<1>6. \A p \in P : g[p] = f[p]
  BY <1>5
<1>7. \A p \in P : Walked(g, p) = Walked(f, p)
  BY <1>6 DEF Descends
<1>8. g = [p \in P |-> Walked(g, p)]
  BY <1>7
<1> QED
  BY <1>8 DEF Arrives

-----------------------------------------------------------------------------
\* The walk over two texts.
At(t, p)            == FirstIn(t, p, Digit \cup Letter)
Numeric(t, p)       == At(t, p) <= Len(t) /\ t[At(t, p)] \in Digit
KindAt(t, p)        == IF Numeric(t, p) THEN Digit ELSE Letter
EndOf(t, p, kind)   == FirstNotIn(t, At(t, p), kind)
Between(t, p, kind) == SubSeq(t, At(t, p), EndOf(t, p, kind) - 1)
Pairs(a, b)         == (1 .. Len(a) + 1) \X (1 .. Len(b) + 1)
PairSense(a, b, p) ==
  CompareSegments(Numeric(a, p[1]), Between(b, p[2], KindAt(a, p[1])), Between(a, p[1], KindAt(a, p[1])))
PairIsOver(a, b, p) ==
  \/ p[1] > Len(a) \/ p[2] > Len(b)
  \/ At(a, p[1]) = EndOf(a, p[1], KindAt(a, p[1]))
  \/ At(b, p[2]) = EndOf(b, p[2], KindAt(a, p[1]))
  \/ PairSense(a, b, p) # 0
PairOutcome(a, b, p) ==
  IF p[1] > Len(a) THEN (IF p[2] > Len(b) THEN 0 ELSE -1)
  ELSE IF p[2] > Len(b) THEN 1
  ELSE IF At(a, p[1]) = EndOf(a, p[1], KindAt(a, p[1])) THEN -1
  ELSE IF At(b, p[2]) = EndOf(b, p[2], KindAt(a, p[1])) THEN (IF Numeric(a, p[1]) THEN 1 ELSE -1)
  ELSE PairSense(a, b, p)
NextPair(a, b, p) == <<EndOf(a, p[1], KindAt(a, p[1])), EndOf(b, p[2], KindAt(a, p[1]))>>

LEMMA EndIs ==
  ASSUME NEW t, NEW L, Text(t, L), NEW p \in Nat, 1 <= p, p <= L + 1, NEW chars
  PROVE  /\ At(t, p) \in Nat /\ p <= At(t, p) /\ At(t, p) <= L + 1
         /\ EndOf(t, p, chars) \in Nat /\ At(t, p) <= EndOf(t, p, chars) /\ EndOf(t, p, chars) <= L + 1
<1>1. IsFirst(t, L, p, At(t, p), Digit \cup Letter)
  BY FirstInIs, Zenon DEF At
<1>2. At(t, p) \in Nat /\ p <= At(t, p) /\ At(t, p) <= L + 1 /\ 1 <= At(t, p)
  BY <1>1 DEF IsFirst, Text
<1>3. IsFirstNot(t, L, At(t, p), EndOf(t, p, chars), chars)
  BY <1>2, FirstNotInIs, Zenon DEF EndOf
<1> QED
  BY <1>2, <1>3 DEF IsFirstNot

LEMMA CompareFromIs ==
  ASSUME NEW a, NEW b, NEW L, NEW M, Text(a, L), Text(b, M), NEW p \in Nat, NEW q \in Nat,
         1 <= p, p <= L + 1, 1 <= q, q <= M + 1
  PROVE  CompareFrom(a, b)[<<p, q>>] =
           IF PairIsOver(a, b, <<p, q>>) THEN PairOutcome(a, b, <<p, q>>)
           ELSE CompareFrom(a, b)[NextPair(a, b, <<p, q>>)]
<1> DEFINE P == Pairs(a, b)
           over == {r \in P : PairIsOver(a, b, r)}
           outcome == [r \in P |-> PairOutcome(a, b, r)]
           onward == [r \in P |-> NextPair(a, b, r)]
           measure == [r \in P |-> L + 1 - r[1]]
           Body(f, r) ==
             IF r[1] > Len(a) THEN (IF r[2] > Len(b) THEN 0 ELSE -1)
             ELSE IF r[2] > Len(b) THEN 1
             ELSE LET i       == FirstIn(a, r[1], Digit \cup Letter)
                      j       == FirstIn(b, r[2], Digit \cup Letter)
                      numeric == i <= Len(a) /\ a[i] \in Digit
                      kind    == IF numeric THEN Digit ELSE Letter
                      iEnd    == FirstNotIn(a, i, kind)
                      jEnd    == FirstNotIn(b, j, kind)
                      rc      == CompareSegments(numeric, SubSeq(b, j, jEnd - 1), SubSeq(a, i, iEnd - 1))
                  IN  IF i = iEnd THEN -1
                      ELSE IF j = jEnd THEN (IF numeric THEN 1 ELSE -1)
                      ELSE IF rc # 0 THEN rc ELSE f[<<iEnd, jEnd>>]
           Unrolled(f) == f = [r \in (1 .. Len(a) + 1) \X (1 .. Len(b) + 1) |-> Body(f, r)]
<1>0. L = Len(a) /\ M = Len(b) /\ L \in Nat /\ M \in Nat
  BY DEF Text
<1>1. \A r \in P : r = <<r[1], r[2]>> /\ r[1] \in Nat /\ 1 <= r[1] /\ r[1] <= L + 1
                   /\ r[2] \in Nat /\ 1 <= r[2] /\ r[2] <= M + 1
  BY <1>0 DEF Pairs
<1>2. Descends(P, measure, L + 2, over, onward)
  <2>1. measure \in [P -> Nat] /\ L + 2 \in Nat /\ over \subseteq P
    BY <1>0, <1>1
  <2>2. \A r \in P : measure[r] < L + 2
    BY <1>0, <1>1
  <2>3. ASSUME NEW r \in P \ over PROVE onward[r] \in P /\ measure[onward[r]] < measure[r]
    <3> DEFINE i == At(a, r[1])
               j == At(b, r[2])
               x == EndOf(a, r[1], KindAt(a, r[1]))
               y == EndOf(b, r[2], KindAt(a, r[1]))
    <3>1. i \in Nat /\ r[1] <= i /\ i <= L + 1 /\ x \in Nat /\ i <= x /\ x <= L + 1
      BY <1>1, EndIs
    <3>2. y \in Nat /\ j \in Nat /\ r[2] <= j /\ j <= y /\ y <= M + 1
      BY <1>1, EndIs
    <3>3. i # x
      BY DEF PairIsOver
    <3>4. onward[r] = <<x, y>>
      BY DEF NextPair
    <3> HIDE DEF i, j, x, y
    <3>5. <<x, y>> \in P
      BY <1>0, <1>1, <3>1, <3>2 DEF Pairs
    <3>6. measure[<<x, y>>] = L + 1 - x /\ measure[r] = L + 1 - r[1]
      BY <3>5
    <3> HIDE DEF measure, onward, P
    <3>7. r[1] \in Nat
      BY <1>1
    <3> QED
      BY <1>0, <3>1, <3>3, <3>4, <3>5, <3>6, <3>7
  <2> HIDE DEF P, measure, over, onward
  <2> QED
    BY <2>1, <2>2, <2>3 DEF Descends
<1>3. \A f, r : Body(f, r) = IF PairIsOver(a, b, r) THEN PairOutcome(a, b, r) ELSE f[NextPair(a, b, r)]
  BY DEF PairIsOver, PairOutcome, NextPair, PairSense, Between, EndOf, KindAt, Numeric, At
<1>4. PICK f : Arrives(f, P, over, outcome, onward)
  <2> HIDE DEF P, measure, over, onward, outcome
  <2> QED
    BY <1>2, StepByStepDown, Zenon
<1>5. Unrolled(f)
  <2> DEFINE Other(r) == IF r \in over THEN outcome[r] ELSE f[onward[r]]
  <2>1. f = [r \in P |-> Other(r)]
    BY <1>4 DEF Arrives
  <2>2. ASSUME NEW r \in P PROVE Other(r) = Body(f, r)
    <3> HIDE DEF Body, P
    <3> QED
      BY <1>3
  <2>3. P = (1 .. Len(a) + 1) \X (1 .. Len(b) + 1)
    BY DEF Pairs
  <2> HIDE DEF Other, Body, P
  <2> QED
    BY <2>1, <2>2, <2>3
<1> HIDE DEF Body
<1>6. Unrolled(CompareFrom(a, b))
  <2>1. CompareFrom(a, b) = CHOOSE g : Unrolled(g)
    BY DEF CompareFrom, Body
  <2> QED
    BY <1>5, <2>1
<1>7. <<p, q>> \in (1 .. Len(a) + 1) \X (1 .. Len(b) + 1)
  BY <1>0
<1>8. CompareFrom(a, b)[<<p, q>>] = Body(CompareFrom(a, b), <<p, q>>)
  BY <1>6, <1>7
<1> QED
  BY <1>3, <1>8

\* A sense is what two relations say.
Tells(sense, less, more) ==
  sense \in {-1, 0, 1} /\ (sense = -1 <=> less) /\ (sense = 1 <=> more)

LEMMA SegmentsCompare ==
  ASSUME NEW x \in Seq(Nat), NEW y \in Seq(Nat), NEW numeric \in BOOLEAN,
         numeric => x \in Digits /\ y \in Digits, IsNumber(x) <=> numeric, IsNumber(y) <=> numeric
  PROVE  Tells(CompareSegments(numeric, y, x), OlderSegment(x, y), OlderSegment(y, x))
<1>1. CASE numeric
  <2>1. CompareSegments(TRUE, y, x) = Sense(NumberOf(y), NumberOf(x))
        /\ NumberOf(x) \in Nat /\ NumberOf(y) \in Nat
    BY <1>1, NumberOrder, DigitsAre
  <2>2. (OlderSegment(x, y) <=> NumberOf(x) < NumberOf(y)) /\ (OlderSegment(y, x) <=> NumberOf(y) < NumberOf(x))
    BY <1>1 DEF OlderSegment
  <2>3. PICK m \in Nat, n \in Nat : m = NumberOf(x) /\ n = NumberOf(y)
    BY <2>1
  <2>4. numeric = TRUE
    BY <1>1
  <2> DEFINE r == CompareSegments(numeric, y, x)
  <2>5. r = Sense(n, m)
    BY <2>1, <2>3, <2>4
  <2>6. (OlderSegment(x, y) <=> m < n) /\ (OlderSegment(y, x) <=> n < m)
    BY <2>2, <2>3
  <2> HIDE DEF r
  <2>7. r \in {-1, 0, 1} /\ (r = -1 <=> m < n) /\ (r = 1 <=> n < m)
    BY <2>5 DEF Sense
  <2>8. Tells(r, OlderSegment(x, y), OlderSegment(y, x))
    BY <2>6, <2>7, Zenon DEF Tells
  <2> QED
    BY <2>8 DEF r
<1>2. CASE ~numeric
  <2>1. CompareSegments(numeric, y, x) = Lexicographic(y, x)
    BY <1>2 DEF CompareSegments
  <2>2. (OlderSegment(x, y) <=> OlderWord(x, y)) /\ (OlderSegment(y, x) <=> OlderWord(y, x))
    BY <1>2 DEF OlderSegment
  <2> QED
    BY <2>1, <2>2, WordOrder DEF Tells
<1> QED
  BY <1>1, <1>2

LEMMA SeqOfThese ==
  ASSUME NEW S, NEW s \in Seq(Nat), NEW N \in Nat, N = Len(s), \A i \in 1 .. N : s[i] \in S
  PROVE  s \in Seq(S)
<1>1. s \in [1 .. N -> Nat]
  BY LenProperties
<1>2. s \in [1 .. N -> S]
  BY <1>1
<1> QED
  BY <1>2, SeqDef

LEMMA SegmentIs ==
  ASSUME NEW t, NEW L, Text(t, L), NEW p \in Nat, 1 <= p, NEW q, NEW e, IsNext(t, L, p, q, e),
         NEW x, x = SubSeq(t, q, e - 1)
  PROVE  x \in Seq(Nat) /\ (IsNumber(x) <=> t[q] \in Digit) /\ (t[q] \in Digit => x \in Digits)
<1>1. q \in Nat /\ e \in Nat /\ 1 <= q /\ q <= L /\ q < e /\ e <= L + 1
      /\ \A i \in Nat : q <= i /\ i < e => t[i] \in KindOf(t[q])
  BY DEF IsNext, IsFirst, IsFirstNot
<1>2. t \in Seq(Nat) /\ L = Len(t) /\ L \in Nat
  BY DEF Text
<1>3. x \in Seq(Nat) /\ Len(x) = e - q /\ \A i \in 1 .. e - q : x[i] = t[q + i - 1]
  BY <1>1, <1>2
<1>4. x[1] = t[q]
  BY <1>1, <1>3
<1>5. ASSUME t[q] \in Digit PROVE x \in Digits
  <2>1. \A i \in 1 .. e - q : x[i] \in Digit
    <3> TAKE i \in 1 .. e - q
    <3>1. q + i - 1 \in Nat /\ q <= q + i - 1 /\ q + i - 1 < e
      BY <1>1
    <3>2. t[q + i - 1] \in KindOf(t[q])
      BY <1>1, <3>1
    <3> QED
      BY <1>3, <1>5, <3>2 DEF KindOf
  <2>2. PICK N \in Nat : N = e - q
    BY <1>1
  <2>3. x \in Seq(Nat) /\ N = Len(x) /\ \A i \in 1 .. N : x[i] \in Digit
    BY <1>3, <2>1, <2>2
  <2> QED
    BY <2>3, SeqOfThese DEF Digits
<1> QED
  BY <1>3, <1>4, <1>5 DEF IsNumber

\* From a boundary on, the walk over one text takes its next segment, if that is of
\* the kind it looks for, and nothing if it is not.
LEMMA NextOf ==
  ASSUME NEW t, NEW L, Text(t, L), NEW p, Boundary(t, L, p), p <= L, t[L] \in Digit \cup Letter
  PROVE  \E e \in Nat :
           /\ IsNext(t, L, p, At(t, p), e)
           /\ Numeric(t, p) <=> t[At(t, p)] \in Digit
           /\ EndOf(t, p, KindAt(t, p)) = e
           /\ \A kind \in {Digit, Letter} : kind # KindAt(t, p) => EndOf(t, p, kind) = At(t, p)
<1> DEFINE q == At(t, p)
           e == FirstNotIn(t, q, KindOf(t[q]))
<1>1. IsNext(t, L, p, q, e)
  BY NextIs, Zenon DEF At
<1> HIDE DEF q, e
<1>2. /\ q \in Nat /\ q <= L /\ 1 <= q /\ t[q] \in Digit \cup Letter /\ e \in Nat /\ L = Len(t) /\ L \in Nat
  BY <1>1 DEF IsNext, IsFirst, IsFirstNot, Boundary, Text
<1>3. Numeric(t, p) <=> t[q] \in Digit
  BY <1>2 DEF Numeric, q
<1>4. KindAt(t, p) = KindOf(t[q])
  BY <1>3 DEF KindAt, KindOf
<1>5. ASSUME NEW kind \in {Digit, Letter}, kind # KindAt(t, p)
      PROVE  EndOf(t, p, kind) = q
  <2>1. t[q] \notin kind
    BY <1>2, <1>4, <1>5, NoBoth DEF KindOf
  <2>2. q <= L + 1
    BY <1>2
  <2>3. IsFirstNot(t, L, q, FirstNotIn(t, q, kind), kind)
    BY <1>2, <2>2, FirstNotInIs, Zenon
  <2>4. FirstNotIn(t, q, kind) = q
    BY <1>2, <2>1, <2>3 DEF IsFirstNot
  <2> QED
    BY <2>4 DEF EndOf, q
<1>6. EndOf(t, p, KindAt(t, p)) = e
  BY <1>4 DEF EndOf, q, e
<1> QED
  BY <1>1, <1>2, <1>3, <1>5, <1>6 DEF q

\* What a pair of segments does to the walk.
Decides(a, b, p, q, k) ==
  /\ PairIsOver(a, b, <<p, q>>) /\ PairOutcome(a, b, <<p, q>>) # 0
  /\ Tells(PairOutcome(a, b, <<p, q>>), OlderSegment(Segments(a)[k + 1], Segments(b)[k + 1]),
           OlderSegment(Segments(b)[k + 1], Segments(a)[k + 1]))
GoesOn(a, b, L, M, p, q, k) ==
  /\ ~PairIsOver(a, b, <<p, q>>)
  /\ ~OlderSegment(Segments(a)[k + 1], Segments(b)[k + 1])
  /\ ~OlderSegment(Segments(b)[k + 1], Segments(a)[k + 1])
  /\ \E x \in Nat, y \in Nat :
       /\ NextPair(a, b, <<p, q>>) = <<x, y>> /\ p < x
       /\ Boundary(a, L, x) /\ Rank(a, x) = k + 1 /\ Boundary(b, M, y) /\ Rank(b, y) = k + 1

LEMMA PairStep ==
  ASSUME NEW a, NEW b, NEW L, NEW M, Text(a, L), Text(b, M), NEW p, NEW q, NEW k \in Nat,
         Boundary(a, L, p), Boundary(b, M, q), p <= L, q <= M,
         a[L] \in Digit \cup Letter, b[M] \in Digit \cup Letter, Rank(a, p) = k, Rank(b, q) = k
  PROVE  /\ k + 1 \in 1 .. Len(Segments(a)) /\ k + 1 \in 1 .. Len(Segments(b))
         /\ Decides(a, b, p, q, k) \/ GoesOn(a, b, L, M, p, q, k)
<1> DEFINE i == At(a, p)
           j == At(b, q)
           kind == KindAt(a, p)
           v == Segments(a)[k + 1]
           w == Segments(b)[k + 1]
<1>a. PICK x \in Nat : /\ IsNext(a, L, p, i, x) /\ (Numeric(a, p) <=> a[i] \in Digit)
                       /\ EndOf(a, p, kind) = x
  BY NextOf
<1>b. PICK y \in Nat : /\ IsNext(b, M, q, j, y) /\ (Numeric(b, q) <=> b[j] \in Digit)
                       /\ EndOf(b, q, KindAt(b, q)) = y
                       /\ \A other \in {Digit, Letter} : other # KindAt(b, q) => EndOf(b, q, other) = j
  BY NextOf
<1>c. /\ Boundary(a, L, x) /\ Rank(a, x) = k + 1 /\ k + 1 \in 1 .. Len(Segments(a))
      /\ v = SubSeq(a, i, x - 1)
  BY <1>a, NextRank
<1>d. /\ Boundary(b, M, y) /\ Rank(b, y) = k + 1 /\ k + 1 \in 1 .. Len(Segments(b))
      /\ w = SubSeq(b, j, y - 1)
  BY <1>b, NextRank
<1>e. p \in Nat /\ 1 <= p /\ q \in Nat /\ 1 <= q
  BY DEF Boundary
<1>f. v \in Seq(Nat) /\ (IsNumber(v) <=> Numeric(a, p)) /\ (Numeric(a, p) => v \in Digits)
  BY <1>a, <1>c, <1>e, SegmentIs
<1>g. w \in Seq(Nat) /\ (IsNumber(w) <=> Numeric(b, q)) /\ (Numeric(b, q) => w \in Digits)
  BY <1>b, <1>d, <1>e, SegmentIs
<1>h. i < x /\ j < y /\ i \in Nat /\ j \in Nat /\ p <= i
  BY <1>a, <1>b DEF IsNext, IsFirst
<1>i. Len(a) = L /\ Len(b) = M /\ L \in Nat /\ M \in Nat /\ ~(p > Len(a)) /\ ~(q > Len(b))
  BY <1>e DEF Text
<1> HIDE DEF i, j, v, w
<1>1. CASE Numeric(a, p) # Numeric(b, q)
  <2>1. kind # KindAt(b, q) /\ kind \in {Digit, Letter}
    <3>1. Digit # Letter
      BY SMT DEF Digit, Letter
    <3> QED
      BY <1>1, <3>1 DEF KindAt, Numeric
  <2>2. EndOf(b, q, kind) = j
    BY <1>b, <2>1
  <2>3. PairIsOver(a, b, <<p, q>>)
    BY <2>2 DEF PairIsOver, j
  <2>4. PairOutcome(a, b, <<p, q>>) = IF Numeric(a, p) THEN 1 ELSE -1
    BY <1>a, <1>h, <1>i, <2>2 DEF PairOutcome, i, j
  <2>5. (OlderSegment(v, w) <=> ~Numeric(a, p)) /\ (OlderSegment(w, v) <=> Numeric(a, p))
    BY <1>f, <1>g, <1>1 DEF OlderSegment, Numeric
  <2>6. Decides(a, b, p, q, k)
    BY <2>3, <2>4, <2>5 DEF Decides, Tells, v, w
  <2> QED
    BY <1>c, <1>d, <2>6
<1>2. CASE Numeric(a, p) = Numeric(b, q)
  <2>1. KindAt(b, q) = kind
    BY <1>2 DEF KindAt
  <2>2. EndOf(b, q, kind) = y
    BY <1>b, <2>1
  <2> DEFINE rc == CompareSegments(Numeric(a, p), w, v)
  <2>3. PairSense(a, b, <<p, q>>) = rc
    BY <1>a, <1>c, <1>d, <2>2 DEF PairSense, Between, i, j
  <2>4. Tells(rc, OlderSegment(v, w), OlderSegment(w, v))
    BY <1>f, <1>g, <1>2, SegmentsCompare DEF Numeric
  <2> HIDE DEF rc
  <2>5. ~(At(a, p) = EndOf(a, p, kind)) /\ ~(At(b, q) = EndOf(b, q, kind))
    BY <1>a, <1>h, <2>2 DEF i, j
  <2>6. CASE rc # 0
    <3>1. PairIsOver(a, b, <<p, q>>) /\ PairOutcome(a, b, <<p, q>>) = rc
      BY <1>i, <2>3, <2>5, <2>6 DEF PairIsOver, PairOutcome
    <3>2. Decides(a, b, p, q, k)
      BY <2>4, <2>6, <3>1 DEF Decides, v, w
    <3> QED
      BY <1>c, <1>d, <3>2
  <2>7. CASE rc = 0
    <3>1. ~PairIsOver(a, b, <<p, q>>)
      BY <1>i, <2>3, <2>5, <2>7 DEF PairIsOver
    <3>2. ~OlderSegment(v, w) /\ ~OlderSegment(w, v)
      BY <2>4, <2>7 DEF Tells
    <3>3. NextPair(a, b, <<p, q>>) = <<x, y>>
      BY <1>a, <2>2 DEF NextPair
    <3>4. p < x
      BY <1>e, <1>h
    <3>5. GoesOn(a, b, L, M, p, q, k)
      BY <1>c, <1>d, <3>1, <3>2, <3>3, <3>4 DEF GoesOn, v, w
    <3> QED
      BY <1>c, <1>d, <3>5
  <2> QED
    BY <2>6, <2>7
<1> QED
  BY <1>1, <1>2

\* Older for what comes behind the first k segments.
OlderFrom(A, B, k) ==
  \E m \in k .. Len(A) :
    /\ m < Len(B)
    /\ \A i \in k + 1 .. m : ~OlderSegment(A[i], B[i]) /\ ~OlderSegment(B[i], A[i])
    /\ m = Len(A) \/ OlderSegment(A[m + 1], B[m + 1])

LEMMA OlderUnfolds ==
  ASSUME NEW A, NEW B, Len(A) \in Nat, Len(B) \in Nat, NEW k \in Nat, k < Len(A), k < Len(B)
  PROVE  OlderFrom(A, B, k) <=>
           \/ OlderSegment(A[k + 1], B[k + 1])
           \/ /\ ~OlderSegment(A[k + 1], B[k + 1]) /\ ~OlderSegment(B[k + 1], A[k + 1])
              /\ OlderFrom(A, B, k + 1)
<1>a. PICK M \in Nat, N \in Nat : M = Len(A) /\ N = Len(B)
  OBVIOUS
<1>1. ASSUME OlderFrom(A, B, k), ~OlderSegment(A[k + 1], B[k + 1])
      PROVE  ~OlderSegment(B[k + 1], A[k + 1]) /\ OlderFrom(A, B, k + 1)
  <2>1. PICK m \in k .. M :
          /\ m < N /\ \A i \in k + 1 .. m : ~OlderSegment(A[i], B[i]) /\ ~OlderSegment(B[i], A[i])
          /\ m = M \/ OlderSegment(A[m + 1], B[m + 1])
    BY <1>a, <1>1 DEF OlderFrom
  <2>2. m # k
    BY <1>a, <1>1, <2>1
  <2>3. m \in k + 1 .. M /\ k + 1 \in k + 1 .. m /\ \A i \in (k + 1) + 1 .. m : i \in k + 1 .. m
    BY <2>2
  <2> QED
    BY <1>a, <2>1, <2>3 DEF OlderFrom
<1>2. ASSUME OlderSegment(A[k + 1], B[k + 1]) PROVE OlderFrom(A, B, k)
  <2>1. k \in k .. Len(A) /\ \A i \in k + 1 .. k : FALSE
    BY <1>a
  <2> QED
    BY <1>2, <2>1 DEF OlderFrom
<1>3. ASSUME ~OlderSegment(A[k + 1], B[k + 1]), ~OlderSegment(B[k + 1], A[k + 1]), OlderFrom(A, B, k + 1)
      PROVE  OlderFrom(A, B, k)
  <2>1. PICK m \in k + 1 .. M :
          /\ m < N /\ \A i \in (k + 1) + 1 .. m : ~OlderSegment(A[i], B[i]) /\ ~OlderSegment(B[i], A[i])
          /\ m = M \/ OlderSegment(A[m + 1], B[m + 1])
    BY <1>a, <1>3 DEF OlderFrom
  <2>2. m \in k .. M /\ \A i \in k + 1 .. m : i = k + 1 \/ i \in (k + 1) + 1 .. m
    OBVIOUS
  <2>3. \A i \in k + 1 .. m : ~OlderSegment(A[i], B[i]) /\ ~OlderSegment(B[i], A[i])
    BY <1>3, <2>1, <2>2
  <2> QED
    BY <1>a, <2>1, <2>2, <2>3 DEF OlderFrom
<1> QED
  BY <1>1, <1>2, <1>3

LEMMA OlderAtTheEnd ==
  ASSUME NEW A, NEW B, Len(A) \in Nat, Len(B) \in Nat, NEW k \in Nat
  PROVE  /\ k = Len(A) => (OlderFrom(A, B, k) <=> k < Len(B))
         /\ k = Len(B) => ~OlderFrom(A, B, k)
<1>a. PICK M \in Nat, N \in Nat : M = Len(A) /\ N = Len(B)
  OBVIOUS
<1>1. ASSUME k = M, k < N PROVE OlderFrom(A, B, k)
  <2>1. k \in k .. Len(A) /\ \A i \in k + 1 .. k : FALSE
    BY <1>a, <1>1
  <2> QED
    BY <1>1, <1>a, <2>1 DEF OlderFrom
<1>2. ASSUME OlderFrom(A, B, k) PROVE k < N
  <2>1. PICK m \in k .. M : m < N
    BY <1>a, <1>2 DEF OlderFrom
  <2> QED
    BY <2>1
<1> QED
  BY <1>1, <1>2, <1>a

\* Where one of the texts is at its end.
LEMMA WalkEnds ==
  ASSUME NEW a, NEW b, NEW L, NEW M, Text(a, L), Text(b, M), NEW p, NEW q, NEW k \in Nat,
         Boundary(a, L, p), Boundary(b, M, q), ~(p <= L /\ q <= M),
         a[L] \in Digit \cup Letter, b[M] \in Digit \cup Letter, Rank(a, p) = k, Rank(b, q) = k
  PROVE  Tells(CompareFrom(a, b)[<<p, q>>], OlderFrom(Segments(a), Segments(b), k),
               OlderFrom(Segments(b), Segments(a), k))
<1> DEFINE A == Segments(a)
           B == Segments(b)
           c == CompareFrom(a, b)[<<p, q>>]
<1>a. L = Len(a) /\ M = Len(b) /\ L \in Nat /\ M \in Nat
  BY DEF Text
<1>b. p \in Nat /\ 1 <= p /\ p <= L + 1 /\ q \in Nat /\ 1 <= q /\ q <= M + 1
  BY DEF Boundary
<1>1. Len(A) \in Nat /\ Len(B) \in Nat /\ (p = L + 1 => k = Len(A)) /\ (q = M + 1 => k = Len(B))
  BY LastRank
<1>2. (p <= L => k < Len(A)) /\ (q <= M => k < Len(B))
  <2>1. ASSUME p <= L PROVE k < Len(A)
    <3>1. \E e \in Nat : IsNext(a, L, p, At(a, p), e)
      BY <2>1, NextOf
    <3>2. k + 1 \in 1 .. Len(A)
      BY <3>1, NextRank
    <3> QED
      BY <1>1, <3>2
  <2>2. ASSUME q <= M PROVE k < Len(B)
    <3>1. \E e \in Nat : IsNext(b, M, q, At(b, q), e)
      BY <2>2, NextOf
    <3>2. k + 1 \in 1 .. Len(B)
      BY <3>1, NextRank
    <3> QED
      BY <1>1, <3>2
  <2> QED
    BY <2>1, <2>2
<1>3. c = IF p > L THEN (IF q > M THEN 0 ELSE -1) ELSE 1
  <2>1. PairIsOver(a, b, <<p, q>>)
    BY <1>a, <1>b DEF PairIsOver
  <2>2. PairOutcome(a, b, <<p, q>>) = IF p > L THEN (IF q > M THEN 0 ELSE -1) ELSE 1
    BY <1>a, <1>b DEF PairOutcome
  <2> QED
    BY <1>b, <2>1, <2>2, CompareFromIs
<1> HIDE DEF A, B, c
<1>4. /\ k = Len(A) => (OlderFrom(A, B, k) <=> k < Len(B))
      /\ k = Len(B) => ~OlderFrom(A, B, k)
      /\ k = Len(B) => (OlderFrom(B, A, k) <=> k < Len(A))
      /\ k = Len(A) => ~OlderFrom(B, A, k)
  BY <1>1, OlderAtTheEnd
<1>c. PICK m \in Nat, n \in Nat : m = Len(A) /\ n = Len(B)
  BY <1>1
<1>5. CASE p = L + 1 /\ q = M + 1
  <2>1. c = 0 /\ ~OlderFrom(A, B, k) /\ ~OlderFrom(B, A, k)
    BY <1>a, <1>1, <1>3, <1>4, <1>5
  <2> QED
    BY <2>1 DEF Tells, A, B, c
<1>6. CASE p = L + 1 /\ q <= M
  <2>1. c = -1 /\ OlderFrom(A, B, k) /\ ~OlderFrom(B, A, k)
    BY <1>a, <1>b, <1>1, <1>2, <1>3, <1>4, <1>6
  <2> QED
    BY <2>1 DEF Tells, A, B, c
<1>7. CASE p <= L /\ q = M + 1
  <2>1. c = 1 /\ ~OlderFrom(A, B, k) /\ OlderFrom(B, A, k)
    BY <1>a, <1>b, <1>1, <1>2, <1>3, <1>4, <1>7
  <2> QED
    BY <2>1 DEF Tells, A, B, c
<1> QED
  BY <1>a, <1>b, <1>5, <1>6, <1>7

\* The walk from two boundaries behind as many segments.
WalkTells(a, b, L, M, p, q, k) ==
  Boundary(a, L, p) /\ Boundary(b, M, q) /\ Rank(a, p) = k /\ Rank(b, q) = k =>
    Tells(CompareFrom(a, b)[<<p, q>>], OlderFrom(Segments(a), Segments(b), k),
          OlderFrom(Segments(b), Segments(a), k))

LEMMA WalkTellsTheOrder ==
  ASSUME NEW a, NEW b, NEW L, NEW M, Text(a, L), Text(b, M),
         a[L] \in Digit \cup Letter, b[M] \in Digit \cup Letter
  PROVE  WalkTells(a, b, L, M, 1, 1, 0)
<1> DEFINE A == Segments(a)
           B == Segments(b)
           T == {n \in Nat : \A p \in Nat, q \in Nat, k \in Nat :
                   L + 1 <= p + n => WalkTells(a, b, L, M, p, q, k)}
<1>a. L = Len(a) /\ M = Len(b) /\ L \in Nat /\ M \in Nat
  BY DEF Text
<1>b. Len(A) \in Nat /\ Len(B) \in Nat
  BY LastRank
<1>1. ASSUME NEW p \in Nat, NEW q \in Nat, NEW k \in Nat, ~(p <= L /\ q <= M)
      PROVE  WalkTells(a, b, L, M, p, q, k)
  BY <1>1, WalkEnds DEF WalkTells
<1>2. 0 \in T
  <2>1. ASSUME NEW p \in Nat, NEW q \in Nat, NEW k \in Nat, L + 1 <= p + 0
        PROVE  WalkTells(a, b, L, M, p, q, k)
    <3>1. ~(p <= L /\ q <= M)
      BY <1>a, <2>1
    <3> QED
      BY <1>1, <3>1
  <2> QED
    BY <2>1
<1>3. ASSUME NEW n \in Nat, n \in T PROVE n + 1 \in T
  <2>1. ASSUME NEW p \in Nat, NEW q \in Nat, NEW k \in Nat, L + 1 <= p + (n + 1), p <= L, q <= M,
               Boundary(a, L, p), Boundary(b, M, q), Rank(a, p) = k, Rank(b, q) = k
        PROVE  Tells(CompareFrom(a, b)[<<p, q>>], OlderFrom(A, B, k), OlderFrom(B, A, k))
    <3> DEFINE c == CompareFrom(a, b)[<<p, q>>]
               less == OlderSegment(A[k + 1], B[k + 1])
               more == OlderSegment(B[k + 1], A[k + 1])
    <3>1. /\ k + 1 \in 1 .. Len(A) /\ k + 1 \in 1 .. Len(B)
          /\ Decides(a, b, p, q, k) \/ GoesOn(a, b, L, M, p, q, k)
      BY <2>1, PairStep
    <3>2. k < Len(A) /\ k < Len(B)
      BY <1>b, <3>1
    <3>3. c = IF PairIsOver(a, b, <<p, q>>) THEN PairOutcome(a, b, <<p, q>>)
              ELSE CompareFrom(a, b)[NextPair(a, b, <<p, q>>)]
      <4>1. 1 <= p /\ p <= L + 1 /\ 1 <= q /\ q <= M + 1
        BY <2>1 DEF Boundary
      <4> QED
        BY <4>1, CompareFromIs
    <3>4. /\ OlderFrom(A, B, k) <=> less \/ (~less /\ ~more /\ OlderFrom(A, B, k + 1))
          /\ OlderFrom(B, A, k) <=> more \/ (~more /\ ~less /\ OlderFrom(B, A, k + 1))
      <4> HIDE DEF A, B
      <4> QED
        BY <1>b, <3>2, OlderUnfolds
    <3> HIDE DEF c, less, more
    <3>5. CASE Decides(a, b, p, q, k)
      <4>1. c # 0 /\ Tells(c, less, more)
        BY <3>3, <3>5 DEF Decides, less, more
      <4>2. (OlderFrom(A, B, k) <=> less) /\ (OlderFrom(B, A, k) <=> more)
        BY <3>4, <4>1 DEF Tells
      <4> QED
        BY <4>1, <4>2 DEF Tells, c
    <3>6. CASE GoesOn(a, b, L, M, p, q, k)
      <4>1. PICK x \in Nat, y \in Nat :
              /\ NextPair(a, b, <<p, q>>) = <<x, y>> /\ p < x
              /\ Boundary(a, L, x) /\ Rank(a, x) = k + 1 /\ Boundary(b, M, y) /\ Rank(b, y) = k + 1
        BY <3>6 DEF GoesOn
      <4>2. ~PairIsOver(a, b, <<p, q>>) /\ ~less /\ ~more
        BY <3>6 DEF GoesOn, less, more
      <4>3. c = CompareFrom(a, b)[<<x, y>>]
        BY <3>3, <4>1, <4>2
      <4>4. L + 1 <= x + n /\ k + 1 \in Nat
        BY <1>a, <2>1, <4>1
      <4>5. WalkTells(a, b, L, M, x, y, k + 1)
        BY <1>3, <4>4
      <4>6. Tells(c, OlderFrom(A, B, k + 1), OlderFrom(B, A, k + 1))
        BY <4>1, <4>3, <4>5 DEF WalkTells
      <4> QED
        BY <3>4, <4>2, <4>6 DEF Tells, c
    <3> QED
      BY <3>1, <3>5, <3>6
  <2>2. ASSUME NEW p \in Nat, NEW q \in Nat, NEW k \in Nat, L + 1 <= p + (n + 1)
        PROVE  WalkTells(a, b, L, M, p, q, k)
    <3>1. CASE p <= L /\ q <= M
      BY <2>1, <2>2, <3>1 DEF WalkTells
    <3>2. CASE ~(p <= L /\ q <= M)
      BY <1>1, <3>2
    <3> QED
      BY <3>1, <3>2
  <2> QED
    BY <2>2
<1>4. L \in T
  <2> HIDE DEF T
  <2>1. Nat \subseteq T
    BY <1>2, <1>3, SetInduction
  <2> QED
    BY <1>a, <2>1
<1> QED
  BY <1>a, <1>4

LEMMA VersionTextsTell ==
  ASSUME NEW a \in Components, NEW b \in Components, EndsInSegment(a), EndsInSegment(b)
  PROVE  Tells(rpmvercmp(a, b), Older(Segments(a), Segments(b)), Older(Segments(b), Segments(a)))
<1>1. a \in Seq(Nat) /\ b \in Seq(Nat)
  BY DEF Components
<1>2. PICK L \in Nat : Text(a, L)
  BY <1>1, TextIs
<1>3. PICK M \in Nat : Text(b, M)
  BY <1>1, TextIs
<1>4. a[L] \in Digit \cup Letter /\ b[M] \in Digit \cup Letter
  BY <1>2, <1>3 DEF EndsInSegment, Text
<1> DEFINE A == Segments(a)
           B == Segments(b)
<1>5. (Older(A, B) <=> OlderFrom(A, B, 0)) /\ (Older(B, A) <=> OlderFrom(B, A, 0))
  <2> HIDE DEF A, B
  <2>1. 0 + 1 = 1
    OBVIOUS
  <2> QED
    BY <2>1 DEF Older, OlderFrom
<1>6. Tells(CompareFrom(a, b)[<<1, 1>>], Older(A, B), Older(B, A))
  <2>1. WalkTells(a, b, L, M, 1, 1, 0)
    BY <1>2, <1>3, <1>4, WalkTellsTheOrder
  <2>2. Boundary(a, L, 1) /\ Boundary(b, M, 1) /\ Rank(a, 1) = 0 /\ Rank(b, 1) = 0
    BY <1>2, <1>3, FirstBoundary
  <2>3. Tells(CompareFrom(a, b)[<<1, 1>>], OlderFrom(A, B, 0), OlderFrom(B, A, 0))
    BY <2>1, <2>2, Zenon DEF WalkTells
  <2> HIDE DEF A, B
  <2> QED
    BY <1>5, <2>3 DEF Tells
<1>7. CASE a = b
  <2>1. rpmvercmp(a, b) = 0 /\ A = B
    BY <1>7 DEF rpmvercmp
  <2>2. ~Older(A, B) /\ ~Older(B, A)
    BY <1>6, <2>1 DEF Tells
  <2> QED
    BY <2>1, <2>2 DEF Tells
<1>8. CASE a # b
  BY <1>6, <1>8 DEF rpmvercmp
<1> QED
  BY <1>7, <1>8

\* An epoch that is an int is converted to itself.
LEMMA EpochKeeps ==
  ASSUME NEW n \in Nat, EpochFits(n)
  PROVE  Atoi(n) = n
<1> DEFINE half == TwoTo[EpochBits - 1]
           full == TwoTo[EpochBits]
<1>1. half \in Nat \ {0} /\ full = 2 * half
  <2>1. EpochBits - 1 \in Nat /\ EpochBits = (EpochBits - 1) + 1
    BY WidthsAssumption
  <2> QED
    BY <2>1, PowersAre
<1>2. n < half /\ ToLongLong(n) = n
  BY DEF EpochFits, ToLongLong
<1>3. LowBits(n) = ((n + half) % full) - half
  BY DEF LowBits
<1>4. Windows => Atoi(n) = n
  BY <1>2 DEF Atoi
<1>5. ~Windows => Atoi(n) = LowBits(n)
  BY <1>2 DEF Atoi
<1> HIDE DEF half, full
<1>6. (n + half) % full = n + half
  BY <1>1, <1>2
<1>7. LowBits(n) = n
  BY <1>1, <1>3, <1>6
<1> QED
  BY <1>4, <1>5, <1>7, WindowsAssumption, Zenon

LEMMA PackagesFollow ==
  ASSUME NEW d \in Value, NEW s \in Value, IsParsed("evr_string", d), IsParsed("evr_string", s),
         EpochFits(d[1][1]), EpochFits(s[1][1]),
         NEW operation, \A k \in {2, 3} : EndsInSegment(d[k]) /\ EndsInSegment(s[k])
  PROVE  CompareEvrString(operation, d, s)
           = ByOrder(operation, SenseOf(OlderPackage(s, d), OlderPackage(d, s)))
<1>1. /\ Len(d) = 3 /\ Len(d[1]) = 1 /\ d[2] \in Components /\ d[3] \in Components
      /\ Len(s) = 3 /\ Len(s[1]) = 1 /\ s[2] \in Components /\ s[3] \in Components
      /\ d[1][1] \in Nat /\ s[1][1] \in Nat
  BY DEF IsParsed
<1>2. d[1] \in Seq(Int) /\ s[1] \in Seq(Int)
  BY <1>1 DEF Value
<1> DEFINE m == d[1][1]
           n == s[1][1]
           epoch == Sense(m, n)
           version == rpmvercmp(s[2], d[2])
           release == rpmvercmp(s[3], d[3])
           Order(x, y, k) == Older(Segments(x[k]), Segments(y[k]))
<1>3. m \in Int /\ n \in Int /\ (d[1] = s[1] <=> m = n)
  BY <1>1, <1>2
<1>4. Tells(version, Order(s, d, 2), Order(d, s, 2)) /\ Tells(release, Order(s, d, 3), Order(d, s, 3))
  <2>1. EndsInSegment(d[2]) /\ EndsInSegment(s[2]) /\ EndsInSegment(d[3]) /\ EndsInSegment(s[3])
    OBVIOUS
  <2> QED
    BY <1>1, <2>1, VersionTextsTell
<1>5. /\ OlderPackage(s, d) <=>
           IF m # n THEN n < m ELSE Order(s, d, 2) \/ (~Order(d, s, 2) /\ Order(s, d, 3))
      /\ OlderPackage(d, s) <=>
           IF m # n THEN m < n ELSE Order(d, s, 2) \/ (~Order(s, d, 2) /\ Order(d, s, 3))
  BY <1>3 DEF OlderPackage
<1>6. CompareEvrString(operation, d, s)
        = ByOrder(operation, IF epoch # 0 THEN epoch ELSE IF version # 0 THEN version ELSE release)
  <2>1. Atoi(m) = m /\ Atoi(n) = n
    BY <1>1, EpochKeeps
  <2> QED
    BY <2>1 DEF CompareEvrString
<1>7. epoch = (IF n < m THEN -1 ELSE IF n = m THEN 0 ELSE 1)
  BY DEF Sense
<1> HIDE DEF m, n, epoch, version, release, Order
<1>8. (IF epoch # 0 THEN epoch ELSE IF version # 0 THEN version ELSE release)
        = SenseOf(OlderPackage(s, d), OlderPackage(d, s))
  BY <1>3, <1>4, <1>5, <1>7 DEF Tells, SenseOf
<1> QED
  BY <1>6, <1>8

-----------------------------------------------------------------------------
\* Division.
LEMMA DivIs ==
  ASSUME NEW a \in Nat, NEW r \in Nat \ {0}
  PROVE  /\ a \div r \in Nat /\ a % r \in Nat /\ a % r < r
         /\ a = (a \div r) * r + (a % r)
OBVIOUS

LEMMA DivUnique ==
  ASSUME NEW a \in Nat, NEW r \in Nat \ {0}, NEW q \in Nat, NEW t \in Nat, t < r, a = (q * r) + t
  PROVE  a \div r = q
<1>1. PICK p \in Nat, u \in Nat : p = a \div r /\ u < r /\ a = (p * r) + u
  BY DivIs
<1>2. ~(p < q)
  <2>1. p < q => (p * r) + u < (q * r) + t
    BY <1>1, DigitsBelow
  <2>2. p * r \in Nat /\ q * r \in Nat
    OBVIOUS
  <2> QED
    BY <1>1, <2>1, <2>2
<1>3. ~(q < p)
  <2>1. q < p => (q * r) + t < (p * r) + u
    BY <1>1, DigitsBelow
  <2>2. p * r \in Nat /\ q * r \in Nat
    OBVIOUS
  <2> QED
    BY <1>1, <2>1, <2>2
<1> QED
  BY <1>1, <1>2, <1>3

LEMMA TimesGrows ==
  ASSUME NEW m \in Nat, NEW n \in Nat, m < n, NEW r \in Nat
  PROVE  (m * r) + r <= n * r
<1>1. PICK k \in Nat : n = (m + 1) + k
  <2>1. n - (m + 1) \in Nat /\ n = (m + 1) + (n - (m + 1))
    OBVIOUS
  <2> QED
    BY <2>1
<1>2. n * r = ((m * r) + r) + (k * r) /\ k * r \in Nat /\ m * r \in Nat
  BY <1>1
<1> QED
  BY <1>2

LEMMA DivDiv ==
  ASSUME NEW a \in Nat, NEW x \in Nat \ {0}, NEW y \in Nat \ {0}
  PROVE  a \div (x * y) = (a \div x) \div y
<1>1. PICK p \in Nat, u \in Nat : p = a \div x /\ u < x /\ a = (p * x) + u
  BY DivIs
<1>2. PICK q \in Nat, v \in Nat : q = p \div y /\ v < y /\ p = (q * y) + v
  BY DivIs
<1>3. PICK r \in Nat \ {0} : r = x * y
  <2>1. x * y \in Nat /\ x * y # 0
    OBVIOUS
  <2> QED
    BY <2>1
<1>4. PICK t \in Nat : t = (v * x) + u
  <2>1. v * x \in Nat
    OBVIOUS
  <2> QED
    BY <2>1
<1>5. t < r
  <2>1. (v * x) + x <= y * x
    BY <1>2, TimesGrows
  <2>2. v * x \in Nat /\ y * x = r
    BY <1>3
  <2> QED
    BY <1>1, <1>4, <2>1, <2>2
<1>6. a = (q * r) + t
  <2>1. p * x = ((q * y) * x) + (v * x)
    <3>1. PICK b \in Nat : b = q * y
      <4>1. q * y \in Nat
        OBVIOUS
      <4> QED
        BY <4>1
    <3>2. p = b + v /\ (b + v) * x = (b * x) + (v * x)
      BY <1>2, <3>1
    <3> QED
      BY <3>1, <3>2
  <2>2. (q * y) * x = q * r
    BY <1>3
  <2>3. v * x \in Nat /\ q * r \in Nat
    OBVIOUS
  <2> QED
    BY <1>1, <1>4, <2>1, <2>2, <2>3
<1>7. a \div r = q
  BY <1>5, <1>6, DivUnique
<1> QED
  BY <1>1, <1>2, <1>3, <1>7

LEMMA DivSum ==
  ASSUME NEW q \in Nat, NEW v \in Nat, NEW r \in Nat \ {0}
  PROVE  ((q * r) + v) \div r = q + (v \div r)
<1>1. PICK p \in Nat, u \in Nat : p = v \div r /\ u < r /\ v = (p * r) + u
  BY DivIs
<1>2. PICK a \in Nat : a = (q * r) + v
  <2>1. q * r \in Nat
    OBVIOUS
  <2> QED
    BY <2>1
<1>3. a = ((q + p) * r) + u
  <2>1. (q + p) * r = (q * r) + (p * r) /\ q * r \in Nat /\ p * r \in Nat
    OBVIOUS
  <2> QED
    BY <1>1, <1>2, <2>1
<1>4. a \div r = q + p
  <2>1. q + p \in Nat
    OBVIOUS
  <2> QED
    BY <1>1, <1>3, <2>1, DivUnique
<1> QED
  BY <1>1, <1>2, <1>4

-----------------------------------------------------------------------------
\* Prefixes of a width.
IsSize(W, z)   == z \in Nat /\ z <= W
IsNumeric(W, n) == n \in Nat /\ n < TwoTo[W]
Block(W, z, n) == {a \in 0 .. TwoTo[W] - 1 : a \div TwoTo[W - z] = n \div TwoTo[W - z]}

LEMMA PowerIs ==
  ASSUME NEW n \in Nat
  PROVE  TwoTo[n] \in Nat \ {0}
BY PowersAre

LEMMA RestIs ==
  ASSUME NEW W \in Nat, NEW z, IsSize(W, z)
  PROVE  /\ W - z \in Nat /\ TwoTo[W - z] \in Nat \ {0} /\ TwoTo[z] \in Nat \ {0} /\ TwoTo[W] \in Nat \ {0}
         /\ TwoTo[W] = TwoTo[z] * TwoTo[W - z]
<1>1. z \in Nat /\ W - z \in Nat /\ W = z + (W - z)
  BY DEF IsSize
<1>2. TwoTo[z + (W - z)] = TwoTo[z] * TwoTo[W - z]
  BY <1>1, PowersMultiply
<1> QED
  BY <1>1, <1>2, PowerIs

\* A prefix is an interval.
LEMMA BlockIs ==
  ASSUME NEW W \in Nat, NEW z, IsSize(W, z), NEW n, IsNumeric(W, n)
  PROVE  \E h \in Nat, r \in Nat \ {0} :
           /\ r = TwoTo[W - z] /\ h = HighBits(n, W, z) /\ h <= n /\ n <= h + r - 1
           /\ Block(W, z, n) = h .. h + r - 1
<1>a. PICK w \in Nat \ {0} : w = TwoTo[W]
  BY PowerIs
<1>b. PICK r \in Nat \ {0} : r = TwoTo[W - z]
  BY RestIs
<1>c. PICK c \in Nat \ {0} : c = TwoTo[z] /\ w = c * r
  BY <1>a, <1>b, RestIs
<1>d. n \in Nat /\ n < w
  BY <1>a DEF IsNumeric
<1>e. PICK q \in Nat, t \in Nat : q = n \div r /\ t < r /\ n = (q * r) + t
  BY <1>d, DivIs
<1>f. PICK h \in Nat : h = q * r
  <2>1. q * r \in Nat
    OBVIOUS
  <2> QED
    BY <2>1
<1>1. h = HighBits(n, W, z) /\ h <= n /\ n <= h + r - 1
  BY <1>b, <1>e, <1>f DEF HighBits
<1>2. q < c
  <2>1. ~(c <= q)
    <3> SUFFICES ASSUME c <= q PROVE FALSE
      OBVIOUS
    <3>1. c * r <= q * r
      <4>1. CASE c = q
        BY <4>1
      <4>2. CASE c < q
        <5>1. (c * r) + r <= q * r
          BY <4>2, TimesGrows
        <5> QED
          BY <1>c, <1>f, <5>1
      <4> QED
        BY <4>1, <4>2
    <3> QED
      BY <1>c, <1>d, <1>e, <1>f, <3>1
  <2> QED
    BY <2>1
<1>3. h + r <= w
  BY <1>2, <1>c, <1>f, TimesGrows
<1>4. ASSUME NEW a \in h .. h + r - 1 PROVE a \in 0 .. w - 1 /\ a \div r = q
  <2>1. PICK u \in Nat : u = a - h
    OBVIOUS
  <2>2. u < r /\ a = (q * r) + u /\ a \in Nat
    BY <1>f, <2>1
  <2>3. a \div r = q
    BY <2>2, DivUnique
  <2> QED
    BY <1>3, <2>3
<1>5. ASSUME NEW a \in 0 .. w - 1, a \div r = q PROVE a \in h .. h + r - 1
  <2>1. a % r \in Nat /\ a % r < r /\ a = ((a \div r) * r) + (a % r)
    BY DivIs
  <2>2. PICK u \in Nat : u = a % r
    BY <2>1
  <2>3. a = h + u /\ u < r
    BY <1>5, <1>f, <2>1, <2>2
  <2> QED
    BY <2>3
<1>6. Block(W, z, n) = {a \in 0 .. w - 1 : a \div r = q}
  BY <1>a, <1>b, <1>e DEF Block
<1>7. Block(W, z, n) = h .. h + r - 1
  BY <1>4, <1>5, <1>6
<1> QED
  BY <1>1, <1>7, <1>b

LEMMA HighBitsAre ==
  ASSUME NEW W \in Nat, NEW z, IsSize(W, z), NEW n \in Nat
  PROVE  /\ HighBits(n, W, z) \in Nat
         /\ HighBits(n, W, z) \div TwoTo[W - z] = n \div TwoTo[W - z]
<1>b. PICK r \in Nat \ {0} : r = TwoTo[W - z]
  BY RestIs
<1>e. PICK q \in Nat, t \in Nat : q = n \div r /\ t < r /\ n = (q * r) + t
  BY DivIs
<1>f. PICK h \in Nat : h = q * r
  <2>1. q * r \in Nat
    OBVIOUS
  <2> QED
    BY <2>1
<1>1. h = HighBits(n, W, z)
  BY <1>b, <1>e, <1>f DEF HighBits
<1>2. h = (q * r) + 0 /\ 0 < r /\ 0 \in Nat
  BY <1>f
<1>3. h \div r = q
  BY <1>2, DivUnique
<1> QED
  BY <1>1, <1>3, <1>b, <1>e

\* Numbers with the same high bits have the same quotient.
LEMMA HighBitsTell ==
  ASSUME NEW W \in Nat, NEW z, IsSize(W, z), NEW n \in Nat, NEW m \in Nat
  PROVE  HighBits(n, W, z) = HighBits(m, W, z) <=> n \div TwoTo[W - z] = m \div TwoTo[W - z]
<1>1. HighBits(n, W, z) = HighBits(m, W, z) => n \div TwoTo[W - z] = m \div TwoTo[W - z]
  BY HighBitsAre
<1> QED
  BY <1>1 DEF HighBits

\* Fewer bits of more are fewer.
LEMMA FewerBits ==
  ASSUME NEW W \in Nat, NEW z, IsSize(W, z), NEW y \in Nat, y <= z, NEW n \in Nat, NEW m \in Nat,
         n \div TwoTo[W - z] = m \div TwoTo[W - z]
  PROVE  n \div TwoTo[W - y] = m \div TwoTo[W - y]
<1>1. W - z \in Nat /\ z - y \in Nat /\ W - y = (W - z) + (z - y)
  BY DEF IsSize
<1>2. PICK r \in Nat \ {0} : r = TwoTo[W - z]
  BY RestIs
<1>3. PICK x \in Nat \ {0} : x = TwoTo[z - y]
  BY <1>1, PowerIs
<1>4. TwoTo[W - y] = r * x
  BY <1>1, <1>2, <1>3, PowersMultiply
<1>5. n \div (r * x) = (n \div r) \div x /\ m \div (r * x) = (m \div r) \div x
  BY DivDiv
<1> QED
  BY <1>2, <1>4, <1>5

LEMMA HighBitsAgain ==
  ASSUME NEW W \in Nat, NEW z, IsSize(W, z), NEW y \in Nat, y <= z, NEW n \in Nat
  PROVE  HighBits(HighBits(n, W, z), W, y) = HighBits(n, W, y)
<1>1. PICK h \in Nat : h = HighBits(n, W, z) /\ h \div TwoTo[W - z] = n \div TwoTo[W - z]
  BY HighBitsAre
<1>2. h \div TwoTo[W - y] = n \div TwoTo[W - y]
  BY <1>1, FewerBits
<1>3. IsSize(W, y)
  BY DEF IsSize
<1>4. HighBits(h, W, y) = HighBits(n, W, y)
  BY <1>2, <1>3, HighBitsTell
<1> QED
  BY <1>1, <1>4

LEMMA AllOrNoBits ==
  ASSUME NEW W \in Nat, NEW n, IsNumeric(W, n)
  PROVE  HighBits(n, W, W) = n /\ HighBits(n, W, 0) = 0
<1>1. n \in Nat /\ n < TwoTo[W]
  BY DEF IsNumeric
<1>2. HighBits(n, W, W) = n
  <2>1. W - W = 0 /\ TwoTo[W - W] = 1
    BY PowersAre
  <2>2. n = (n * 1) + 0 /\ 1 \in Nat \ {0} /\ 0 \in Nat /\ 0 < 1
    BY <1>1
  <2>3. n \div 1 = n
    BY <1>1, <2>2, DivUnique
  <2> QED
    BY <1>1, <2>1, <2>3 DEF HighBits
<1>3. HighBits(n, W, 0) = 0
  <2>1. PICK r \in Nat \ {0} : r = TwoTo[W]
    BY PowerIs
  <2>2. W - 0 = W /\ n < r /\ n = (0 * r) + n /\ 0 \in Nat
    BY <1>1, <2>1
  <2>3. n \div r = 0
    BY <1>1, <2>2, DivUnique
  <2>4. 0 * r = 0
    OBVIOUS
  <2> QED
    BY <2>1, <2>2, <2>3, <2>4 DEF HighBits
<1> QED
  BY <1>2, <1>3

-----------------------------------------------------------------------------
\* How prefixes stand to each other.
LEMMA BlockFacts ==
  ASSUME NEW W \in Nat, NEW z, IsSize(W, z), NEW n, IsNumeric(W, n)
  PROVE  /\ Cardinality(Block(W, z, n)) = TwoTo[W - z]
         /\ SetsExt!Min(Block(W, z, n)) = HighBits(n, W, z)
<1>1. PICK h \in Nat, r \in Nat \ {0} :
        /\ r = TwoTo[W - z] /\ h = HighBits(n, W, z) /\ Block(W, z, n) = h .. h + r - 1
  BY BlockIs
<1>2. Cardinality(h .. h + r - 1) = r
  <2>1. h \in Int /\ h + r - 1 \in Int /\ ~(h > h + r - 1) /\ (h + r - 1) - h + 1 = r
    OBVIOUS
  <2> QED
    BY <2>1, FS_Interval
<1>3. SetsExt!Min(h .. h + r - 1) = h
  <2> DEFINE S == h .. h + r - 1
  <2>1. S \subseteq Nat /\ h \in S /\ \A a \in S : h <= a
    OBVIOUS
  <2>2. SetsExt!Min(S) \in S /\ \A a \in S : SetsExt!Min(S) <= a
    <3> HIDE DEF S
    <3>1. S # {}
      BY <2>1
    <3> QED
      BY <2>1, <3>1, MinIs
  <2>3. SetsExt!Min(S) \in Nat /\ SetsExt!Min(S) <= h /\ h <= SetsExt!Min(S)
    BY <2>1, <2>2
  <2> QED
    BY <2>3
<1> QED
  BY <1>1, <1>2, <1>3

LEMMA BlocksNest ==
  ASSUME NEW W \in Nat, NEW z, IsSize(W, z), NEW n, IsNumeric(W, n),
         NEW y, IsSize(W, y), NEW m, IsNumeric(W, m)
  PROVE  Block(W, z, n) \subseteq Block(W, y, m) <=>
           y <= z /\ HighBits(n, W, y) = HighBits(m, W, y)
<1>a. n \in Nat /\ m \in Nat /\ n < TwoTo[W] /\ z \in Nat /\ y \in Nat /\ z <= W /\ y <= W
      /\ W - z \in Nat /\ W - y \in Nat
  BY DEF IsNumeric, IsSize
<1>w. PICK w \in Nat \ {0} : w = TwoTo[W]
  BY PowerIs
<1>b. PICK g \in Nat, r \in Nat \ {0} :
        /\ r = TwoTo[W - z] /\ g = HighBits(n, W, z) /\ g <= n /\ n <= g + r - 1
        /\ Block(W, z, n) = g .. g + r - 1
  BY BlockIs
<1>c. PICK h \in Nat, s \in Nat \ {0} : s = TwoTo[W - y] /\ Block(W, y, m) = h .. h + s - 1
  BY BlockIs
<1>1. ASSUME Block(W, z, n) \subseteq Block(W, y, m)
      PROVE  y <= z /\ HighBits(n, W, y) = HighBits(m, W, y)
  <2>1. g \in h .. h + s - 1 /\ g + r - 1 \in h .. h + s - 1 /\ n \in Block(W, y, m)
    <3>1. g \in g .. g + r - 1 /\ g + r - 1 \in g .. g + r - 1 /\ n \in g .. g + r - 1
      BY <1>a, <1>b
    <3> QED
      BY <1>1, <1>b, <1>c, <3>1
  <2>2. TwoTo[W - z] <= TwoTo[W - y]
    BY <1>b, <1>c, <2>1
  <2>3. W - z <= W - y
    BY <1>a, <2>2, PowersGrow
  <2>4. n \div TwoTo[W - y] = m \div TwoTo[W - y]
    BY <2>1 DEF Block
  <2> QED
    BY <1>a, <2>3, <2>4, HighBitsTell
<1>2. ASSUME y <= z, HighBits(n, W, y) = HighBits(m, W, y), NEW a \in Block(W, z, n)
      PROVE  a \in Block(W, y, m)
  <2>1. a \in Nat /\ a \in 0 .. TwoTo[W] - 1 /\ a \div TwoTo[W - z] = n \div TwoTo[W - z]
    BY <1>w DEF Block
  <2>2. a \div TwoTo[W - y] = n \div TwoTo[W - y]
    BY <1>2, <1>a, <2>1, FewerBits
  <2>3. n \div TwoTo[W - y] = m \div TwoTo[W - y]
    BY <1>2, <1>a, HighBitsTell
  <2> QED
    BY <2>1, <2>2, <2>3 DEF Block
<1> QED
  BY <1>1, <1>2

LEMMA BlocksEqual ==
  ASSUME NEW W \in Nat, NEW z, IsSize(W, z), NEW n, IsNumeric(W, n),
         NEW y, IsSize(W, y), NEW m, IsNumeric(W, m)
  PROVE  /\ Block(W, z, n) = Block(W, y, m) <=> z = y /\ HighBits(n, W, z) = HighBits(m, W, y)
         /\ Cardinality(Block(W, z, n)) = Cardinality(Block(W, y, m)) <=> z = y
<1>a. z \in Nat /\ y \in Nat /\ z <= W /\ y <= W /\ W - z \in Nat /\ W - y \in Nat
  BY DEF IsSize
<1>1. Block(W, z, n) \subseteq Block(W, y, m) <=> y <= z /\ HighBits(n, W, y) = HighBits(m, W, y)
  BY BlocksNest
<1>2. Block(W, y, m) \subseteq Block(W, z, n) <=> z <= y /\ HighBits(m, W, z) = HighBits(n, W, z)
  BY BlocksNest
<1>3. Block(W, z, n) = Block(W, y, m) <=> z = y /\ HighBits(n, W, z) = HighBits(m, W, y)
  <2>1. Block(W, z, n) = Block(W, y, m)
          <=> Block(W, z, n) \subseteq Block(W, y, m) /\ Block(W, y, m) \subseteq Block(W, z, n)
    OBVIOUS
  <2>2. z = y <=> z <= y /\ y <= z
    BY <1>a
  <2> QED
    BY <1>1, <1>2, <2>1, <2>2
<1>4. TwoTo[W - z] = TwoTo[W - y] <=> z = y
  <2>1. TwoTo[W - z] <= TwoTo[W - y] <=> W - z <= W - y
    BY <1>a, PowersGrow
  <2>2. TwoTo[W - y] <= TwoTo[W - z] <=> W - y <= W - z
    BY <1>a, PowersGrow
  <2>3. TwoTo[W - z] \in Nat /\ TwoTo[W - y] \in Nat
    BY RestIs
  <2> QED
    BY <1>a, <2>1, <2>2, <2>3
<1> QED
  BY <1>3, <1>4, BlockFacts

\* What a comparison of two prefixes of a width is by their numbers.
ByNumber(op, W, z, n, y, m, answer) ==
  /\ op = "subset of"   => answer = Verdict(z <= y /\ HighBits(m, W, z) = HighBits(n, W, z))
  /\ op = "superset of" => answer = Verdict(y <= z /\ HighBits(n, W, y) = HighBits(m, W, y))
  /\ op = "equals"      => answer = Verdict(y = z /\ HighBits(m, W, y) = HighBits(n, W, z))
  /\ op = "not equal"   => answer = Verdict(~(y = z /\ HighBits(m, W, y) = HighBits(n, W, z)))
  /\ op \notin Ordering \cup {"subset of", "superset of"} => answer = "error"
  /\ op \in Inequalities /\ y # z => answer = "error"
  /\ op \in Inequalities /\ y = z =>
       answer = Verdict(SenseOf(HighBits(m, W, y) < HighBits(n, W, z),
                                HighBits(m, W, y) > HighBits(n, W, z)) \in Wanted[op])

LEMMA NumberOrSet ==
  ASSUME NEW W \in Nat, NEW z, IsSize(W, z), NEW n, IsNumeric(W, n),
         NEW y, IsSize(W, y), NEW m, IsNumeric(W, m), NEW op, NEW answer,
         ByNumber(op, W, z, n, y, m, answer)
  PROVE  BySet(op, Block(W, z, n), Block(W, y, m), answer)
<1> DEFINE defined == Block(W, z, n)
           actual == Block(W, y, m)
<1>1. actual \subseteq defined <=> z <= y /\ HighBits(m, W, z) = HighBits(n, W, z)
  BY BlocksNest
<1>2. defined \subseteq actual <=> y <= z /\ HighBits(n, W, y) = HighBits(m, W, y)
  BY BlocksNest
<1>3. /\ actual = defined <=> y = z /\ HighBits(m, W, y) = HighBits(n, W, z)
      /\ Cardinality(actual) = Cardinality(defined) <=> y = z
  BY BlocksEqual
<1>4. SetsExt!Min(actual) = HighBits(m, W, y) /\ SetsExt!Min(defined) = HighBits(n, W, z)
  BY BlockFacts
<1> HIDE DEF defined, actual
<1>5. BySet(op, defined, actual, answer)
  <2>1. op = "subset of" => answer = Verdict(actual \subseteq defined)
    BY <1>1 DEF ByNumber, Verdict
  <2>2. op = "superset of" => answer = Verdict(defined \subseteq actual)
    BY <1>2 DEF ByNumber, Verdict
  <2>3. op = "equals" => answer = Verdict(actual = defined)
    BY <1>3 DEF ByNumber, Verdict
  <2>4. op = "not equal" => answer = Verdict(actual # defined)
    BY <1>3 DEF ByNumber, Verdict
  <2>5. op \notin Ordering \cup {"subset of", "superset of"} => answer = "error"
    BY DEF ByNumber
  <2>6. op \in Inequalities /\ Cardinality(actual) # Cardinality(defined) => answer = "error"
    BY <1>3 DEF ByNumber
  <2>7. op \in Inequalities /\ Cardinality(actual) = Cardinality(defined) =>
          answer = Verdict(SenseOf(SetsExt!Min(actual) < SetsExt!Min(defined),
                                   SetsExt!Min(actual) > SetsExt!Min(defined)) \in Wanted[op])
    <3> SUFFICES ASSUME op \in Inequalities, y = z
        PROVE  answer = Verdict(SenseOf(SetsExt!Min(actual) < SetsExt!Min(defined),
                                        SetsExt!Min(actual) > SetsExt!Min(defined)) \in Wanted[op])
      BY <1>3
    <3>1. answer = Verdict(SenseOf(HighBits(m, W, y) < HighBits(n, W, z),
                                   HighBits(m, W, y) > HighBits(n, W, z)) \in Wanted[op])
      BY Zenon DEF ByNumber
    <3> QED
      BY <1>4, <3>1, Zenon
  <2> QED
    BY <2>1, <2>2, <2>3, <2>4, <2>5, <2>6, <2>7, Zenon DEF BySet
<1> QED
  BY <1>5 DEF defined, actual

-----------------------------------------------------------------------------
\* IPv4.
Ones(mask) == {i \in 0 .. AddressBits - 1 : Bit(mask, i) = 1}

LEMMA MaskSizeIs ==
  ASSUME NEW mask, IsPrefixMask(mask)
  PROVE  Cardinality(Ones(mask)) = MaskSize(mask) /\ IsSize(AddressBits, MaskSize(mask))
<1> DEFINE W == AddressBits
<1>a. W \in Nat /\ W # 0
  BY WidthsAssumption
<1>b. MaskSize(mask) = IF Ones(mask) = {} THEN 0 ELSE W - SetsExt!Min(Ones(mask))
  BY DEF MaskSize, Ones
<1>c. Ones(mask) \subseteq 0 .. W - 1
  BY DEF Ones
<1> HIDE DEF W
<1>1. CASE Ones(mask) = {}
  BY <1>a, <1>b, <1>1, FS_EmptySet DEF IsSize, W
<1>2. CASE Ones(mask) # {}
  <2>1. PICK f \in Ones(mask) : f = SetsExt!Min(Ones(mask)) /\ \A i \in Ones(mask) : f <= i
    <3>1. Ones(mask) \subseteq Nat
      BY <1>c
    <3> QED
      BY <1>2, <3>1, MinIs
  <2>2. f \in Nat /\ f <= W - 1
    BY <1>a, <1>c
  <2> DEFINE T == {n \in Nat : f + n <= W - 1 => f + n \in Ones(mask)}
  <2>3. 0 \in T
    BY <2>2
  <2>4. ASSUME NEW n \in Nat, n \in T PROVE n + 1 \in T
    <3> SUFFICES ASSUME f + (n + 1) <= W - 1 PROVE f + (n + 1) \in Ones(mask)
      OBVIOUS
    <3>1. f + n \in Ones(mask)
      BY <1>a, <2>2, <2>4
    <3>2. f + n \in 0 .. AddressBits - 2 /\ (f + n) + 1 = f + (n + 1)
          /\ f + (n + 1) \in 0 .. AddressBits - 1
      BY <1>a, <2>2 DEF W
    <3>3. Bit(mask, (f + n) + 1) = 1
      BY <3>1, <3>2 DEF IsPrefixMask, Ones
    <3> QED
      BY <3>2, <3>3 DEF Ones
  <2>5. Nat \subseteq T
    <3> HIDE DEF T
    <3> QED
      BY <2>3, <2>4, SetInduction
  <2>6. Ones(mask) = f .. W - 1
    <3>1. ASSUME NEW i \in f .. W - 1 PROVE i \in Ones(mask)
      <4>1. i - f \in Nat /\ f + (i - f) = i /\ i <= W - 1
        BY <1>a, <2>2
      <4>2. i - f \in T
        BY <2>5, <4>1
      <4> QED
        BY <4>1, <4>2
    <3>2. ASSUME NEW i \in Ones(mask) PROVE i \in f .. W - 1
      BY <1>a, <1>c, <2>1, <2>2
    <3> QED
      BY <3>1, <3>2
  <2>7. Cardinality(f .. W - 1) = W - f
    <3>1. f \in Int /\ W - 1 \in Int /\ ~(f > W - 1) /\ (W - 1) - f + 1 = W - f
      BY <1>a, <2>2
    <3> QED
      BY <3>1, FS_Interval
  <2>8. MaskSize(mask) = W - f
    BY <1>b, <1>2, <2>1
  <2> QED
    BY <1>a, <2>2, <2>6, <2>7, <2>8 DEF IsSize, W
<1> QED
  BY <1>1, <1>2

\* The prefix that is written as an address.
Size4(v) ==
  CASE v[2] = <<>>     -> AddressBits
    [] Len(v[2]) = 1   -> v[2][1]
    [] OTHER           -> MaskSize(v[2][2])

LEMMA Ipv4Is ==
  ASSUME NEW v, IsParsed("ipv4_address", v), IsIpv4Address(v)
  PROVE  /\ AddressBits \in Nat /\ IsSize(AddressBits, Size4(v)) /\ IsNumeric(AddressBits, v[1][1])
         /\ Ipv4Address(v) = [address |-> HighBits(v[1][1], AddressBits, Size4(v)), prefixSize |-> Size4(v)]
<1>1. AddressBits \in Nat
  BY WidthsAssumption
<1>2. v[1][1] \in Unsigned(AddressBits) /\ v[2] \in Seq(Nat) /\ Len(v[2]) <= 2
  BY DEF IsParsed
<1>3. IsNumeric(AddressBits, v[1][1])
  <2>1. PICK w \in Nat : w = TwoTo[AddressBits]
    BY <1>1, PowerIs
  <2> QED
    BY <1>2, <2>1 DEF IsNumeric, Unsigned
<1>4. IsSize(AddressBits, Size4(v))
  <2>1. CASE v[2] = <<>>
    BY <1>1, <2>1 DEF Size4, IsSize
  <2>2. CASE v[2] # <<>> /\ Len(v[2]) = 1
    <3>1. v[2][1] \in 0 .. AddressBits
      BY <2>2 DEF IsIpv4Address
    <3> QED
      BY <1>1, <2>2, <3>1 DEF Size4, IsSize
  <2>3. CASE v[2] # <<>> /\ Len(v[2]) # 1
    <3>1. IsPrefixMask(v[2][2])
      BY <2>3 DEF IsIpv4Address
    <3> QED
      BY <2>3, <3>1, MaskSizeIs DEF Size4
  <2> QED
    BY <2>1, <2>2, <2>3
<1> QED
  BY <1>1, <1>3, <1>4 DEF Ipv4Address, Size4

LEMMA ZeroOrOne ==
  ASSUME NEW P
  PROVE  (IF P THEN 0 ELSE 1) # 0 <=> ~P
OBVIOUS

LEMMA PrefixesCompare ==
  ASSUME NEW W \in Nat, NEW z, IsSize(W, z), NEW n, IsNumeric(W, n),
         NEW y, IsSize(W, y), NEW m, IsNumeric(W, m), NEW def, NEW sc, NEW op, NEW sense,
         def.prefixSize = z, sc.prefixSize = y,
         def = sc <=> y = z /\ HighBits(m, W, y) = HighBits(n, W, z),
         y = z => sense = SenseOf(HighBits(m, W, y) < HighBits(n, W, z), HighBits(m, W, y) > HighBits(n, W, z)),
         op \notin {"subset of", "superset of"}
  PROVE  ByNumber(op, W, z, n, y, m, Caught(CompareAddresses(op, def, sc, sense)))
<1> DEFINE c == CompareAddresses(op, def, sc, sense)
           same == y = z /\ HighBits(m, W, y) = HighBits(n, W, z)
           less == HighBits(m, W, y) < HighBits(n, W, z)
           more == HighBits(m, W, y) > HighBits(n, W, z)
<1> HIDE DEF same, less, more
<1>a. def = sc <=> same
  BY DEF same
<1>b. op \in {"equals", "not equal"} => c = ByOrder(op, IF def = sc THEN 0 ELSE 1)
  BY DEF CompareAddresses, EqualityOnly
<1>1. op = "equals" => Caught(c) = Verdict(same)
  BY <1>a, <1>b DEF ByOrder, Verdict, Caught
<1>2. op = "not equal" => Caught(c) = Verdict(~same)
  <2> SUFFICES ASSUME op = "not equal" PROVE Caught(c) = Verdict(~same)
    OBVIOUS
  <2>1. c = Verdict((IF def = sc THEN 0 ELSE 1) # 0)
    BY <1>b DEF ByOrder
  <2> HIDE DEF c
  <2>2. CASE same
    <3>1. c = "false"
      BY <1>a, <2>1, <2>2 DEF Verdict
    <3>2. Verdict(~same) = "false"
      BY <2>2 DEF Verdict
    <3> QED
      BY <3>1, <3>2 DEF Caught
  <2>3. CASE ~same
    <3>1. c = "true"
      <4>1. def # sc
        BY <1>a, <2>3
      <4>2. (IF def = sc THEN 0 ELSE 1) # 0
        BY <4>1, ZeroOrOne, Zenon
      <4> QED
        BY <2>1, <4>2, Zenon DEF Verdict
    <3>2. Verdict(~same) = "true"
      BY <2>3 DEF Verdict
    <3> QED
      BY <3>1, <3>2 DEF Caught
  <2> QED
    BY <2>2, <2>3
<1>3. op \notin Ordering => Caught(c) = "error"
  BY DEF CompareAddresses, Caught, Ordering
<1>4. op \in Inequalities /\ y # z => Caught(c) = "error"
  BY DEF CompareAddresses, Caught, Inequalities
<1>5. op \in Inequalities /\ y = z => Caught(c) = Verdict(SenseOf(less, more) \in Wanted[op])
  <2> SUFFICES ASSUME op \in Inequalities, y = z PROVE Caught(c) = Verdict(SenseOf(less, more) \in Wanted[op])
    OBVIOUS
  <2>1. c = ByOrder(op, sense)
    BY DEF CompareAddresses, Inequalities
  <2>2. sense = SenseOf(less, more)
    BY DEF less, more
  <2>3. sense \in {-1, 0, 1}
    BY <2>2 DEF SenseOf
  <2>4. op \in Ordering
    BY DEF Inequalities
  <2> QED
    BY <2>1, <2>2, <2>3, <2>4, ByOrderIs
<1> HIDE DEF c
<1>6. ByNumber(op, W, z, n, y, m, Caught(c))
  <2>1. op \notin Ordering \cup {"subset of", "superset of"} => op \notin Ordering
    OBVIOUS
  <2> QED
    BY <1>1, <1>2, <1>3, <1>4, <1>5, <2>1, Zenon DEF ByNumber, same, less, more
<1> QED
  BY <1>6 DEF c

LEMMA VerdictStays ==
  ASSUME NEW P, NEW Q, P <=> Q
  PROVE  Caught(Verdict(P)) = Verdict(Q)
BY DEF Verdict, Caught

LEMMA Ipv4Follows ==
  ASSUME NEW d, IsParsed("ipv4_address", d), IsIpv4Address(d),
         NEW s, IsParsed("ipv4_address", s), IsIpv4Address(s), NEW op
  PROVE  ByNumber(op, AddressBits, Size4(d), d[1][1], Size4(s), s[1][1],
                  Caught(CompareIpv4Address(op, d, s)))
<1> DEFINE W == AddressBits
           z == Size4(d)
           n == d[1][1]
           y == Size4(s)
           m == s[1][1]
           def == Ipv4Address(d)
           sc == Ipv4Address(s)
           c == CompareIpv4Address(op, d, s)
<1>1. W \in Nat /\ IsSize(W, z) /\ IsNumeric(W, n) /\ def = [address |-> HighBits(n, W, z), prefixSize |-> z]
  BY Ipv4Is
<1>2. IsSize(W, y) /\ IsNumeric(W, m) /\ sc = [address |-> HighBits(m, W, y), prefixSize |-> y]
  BY Ipv4Is
<1>3. c = CASE op = "subset of"   -> Verdict(SubsetOf4(sc, def))
            [] op = "superset of" -> Verdict(SubsetOf4(def, sc))
            [] OTHER -> CompareAddresses(op, def, sc, Sense(def.address, sc.address))
  BY DEF CompareIpv4Address
<1> HIDE DEF W, z, n, y, m, def, sc, c
<1>4. def.address = HighBits(n, W, z) /\ def.prefixSize = z /\ sc.address = HighBits(m, W, y) /\ sc.prefixSize = y
  BY <1>1, <1>2
<1>5. z \in Nat /\ y \in Nat /\ n \in Nat /\ m \in Nat
  BY <1>1, <1>2 DEF IsSize, IsNumeric
<1>6. CASE op = "subset of"
  <2>1. SubsetOf4(sc, def) <=> y >= z /\ HighBits(HighBits(m, W, y), W, z) = HighBits(HighBits(n, W, z), W, z)
    BY <1>4 DEF SubsetOf4, W
  <2>2. z <= z /\ HighBits(HighBits(n, W, z), W, z) = HighBits(n, W, z)
    BY <1>1, <1>5, HighBitsAgain
  <2>3. z <= y => HighBits(HighBits(m, W, y), W, z) = HighBits(m, W, z)
    BY <1>1, <1>2, <1>5, HighBitsAgain
  <2>4. SubsetOf4(sc, def) <=> z <= y /\ HighBits(m, W, z) = HighBits(n, W, z)
    BY <1>5, <2>1, <2>2, <2>3
  <2>5. ByNumber(op, W, z, n, y, m, Caught(c))
    <3>1. c = Verdict(SubsetOf4(sc, def))
      BY <1>3, <1>6
    <3>2. Caught(c) = Verdict(z <= y /\ HighBits(m, W, z) = HighBits(n, W, z))
      BY <2>4, <3>1, VerdictStays
    <3>3. op \notin {"equals", "not equal"} /\ op \notin Inequalities /\ op \in Ordering \cup {"subset of", "superset of"}
      BY <1>6 DEF Inequalities, Ordering
    <3> QED
      BY <1>6, <3>2, <3>3 DEF ByNumber
  <2> QED
    BY <2>5 DEF W, z, n, y, m, c
<1>7. CASE op = "superset of"
  <2>1. SubsetOf4(def, sc) <=> z >= y /\ HighBits(HighBits(n, W, z), W, y) = HighBits(HighBits(m, W, y), W, y)
    BY <1>4 DEF SubsetOf4, W
  <2>2. y <= y /\ HighBits(HighBits(m, W, y), W, y) = HighBits(m, W, y)
    BY <1>1, <1>2, <1>5, HighBitsAgain
  <2>3. y <= z => HighBits(HighBits(n, W, z), W, y) = HighBits(n, W, y)
    BY <1>1, <1>5, HighBitsAgain
  <2>4. SubsetOf4(def, sc) <=> y <= z /\ HighBits(n, W, y) = HighBits(m, W, y)
    BY <1>5, <2>1, <2>2, <2>3
  <2>5. ByNumber(op, W, z, n, y, m, Caught(c))
    <3>1. c = Verdict(SubsetOf4(def, sc))
      BY <1>3, <1>7
    <3>2. Caught(c) = Verdict(y <= z /\ HighBits(n, W, y) = HighBits(m, W, y))
      BY <2>4, <3>1, VerdictStays
    <3>3. op \notin {"equals", "not equal"} /\ op \notin Inequalities /\ op \in Ordering \cup {"subset of", "superset of"}
      BY <1>7 DEF Inequalities, Ordering
    <3> QED
      BY <1>7, <3>2, <3>3 DEF ByNumber
  <2> QED
    BY <2>5 DEF W, z, n, y, m, c
<1>8. CASE op \notin {"subset of", "superset of"}
  <2>1. c = CompareAddresses(op, def, sc, Sense(def.address, sc.address))
    BY <1>3, <1>8
  <2>2. def = sc <=> y = z /\ HighBits(m, W, y) = HighBits(n, W, z)
    BY <1>1, <1>2
  <2>3. HighBits(m, W, y) \in Nat /\ HighBits(n, W, z) \in Nat
    BY <1>1, <1>2, <1>5, HighBitsAre
  <2>4. Sense(def.address, sc.address)
          = SenseOf(HighBits(m, W, y) < HighBits(n, W, z), HighBits(m, W, y) > HighBits(n, W, z))
    BY <1>4, <2>3, SenseIs
  <2>5. ByNumber(op, W, z, n, y, m, Caught(c))
    BY <1>1, <1>2, <1>4, <1>8, <2>1, <2>2, <2>4, PrefixesCompare
  <2> QED
    BY <2>5 DEF W, z, n, y, m, c
<1> QED
  BY <1>6, <1>7, <1>8

-----------------------------------------------------------------------------
\* IPv6: the bytes of an address are the digits of a number.

LEMMA LeastOfTwo ==
  ASSUME NEW a \in Int, NEW b \in Int
  PROVE  /\ SetsExt!Min({a, b}) = IF a <= b THEN a ELSE b
         /\ SetsExt!Max({a, b}) = IF a <= b THEN b ELSE a
<1> DEFINE least == IF a <= b THEN a ELSE b
           most == IF a <= b THEN b ELSE a
<1>1. least \in {a, b} /\ \A y \in {a, b} : least <= y
  OBVIOUS
<1>2. \A x \in {a, b} : (\A y \in {a, b} : x <= y) => x = least
  OBVIOUS
<1>3. most \in {a, b} /\ \A y \in {a, b} : most >= y
  OBVIOUS
<1>4. \A x \in {a, b} : (\A y \in {a, b} : x >= y) => x = most
  OBVIOUS
<1> HIDE DEF least, most
<1>5. SetsExt!Min({a, b}) = least
  BY <1>1, <1>2 DEF SetsExt!Min
<1>6. SetsExt!Max({a, b}) = most
  BY <1>3, <1>4 DEF SetsExt!Max
<1> QED
  BY <1>5, <1>6 DEF least, most

LEMMA BitsAre ==
  ASSUME NEW k \in Nat, NEW z \in Nat, NEW K \in Nat, K = k * ByteBits
  PROVE  BitsInByte(k + 1, z) =
           IF z <= K THEN 0 ELSE IF z <= K + ByteBits THEN z - K ELSE ByteBits
<1>1. ByteBits \in Nat
  BY WidthsAssumption
<1>2. ((k + 1) - 1) * ByteBits = K
  <2>1. (k + 1) - 1 = k
    OBVIOUS
  <2> QED
    BY <2>1
<1>3. PICK least \in Int : least = SetsExt!Min({ByteBits, z - K})
                           /\ least = IF ByteBits <= z - K THEN ByteBits ELSE z - K
  BY <1>1, LeastOfTwo
<1>4. SetsExt!Max({0, least}) = IF 0 <= least THEN least ELSE 0
  <2>1. 0 \in Int
    OBVIOUS
  <2> QED
    BY <2>1, LeastOfTwo
<1>5. BitsInByte(k + 1, z) = IF 0 <= least THEN least ELSE 0
  BY <1>2, <1>3, <1>4 DEF BitsInByte
<1> QED
  BY <1>1, <1>3, <1>5

LEMMA BytesBelow ==
  ASSUME NEW v \in Seq(Nat), NEW B \in Nat, Below(v, TwoTo[B]), NEW N \in Nat, N = Len(v)
  PROVE  \A k \in 0 .. N : Numerals(v, TwoTo[B])[k] < TwoTo[B * k]
<1>a. PICK base \in Nat \ {0} : base = TwoTo[B]
  BY PowerIs
<1> DEFINE f == Numerals(v, base)
           T == {k \in Nat : k <= N => f[k] < TwoTo[B * k]}
<1>b. f \in [0 .. N -> Nat] /\ f[0] = 0 /\ \A i \in 1 .. N : f[i] = f[i - 1] * base + v[i]
  BY NumeralsAre
<1> HIDE DEF f
<1>1. 0 \in T
  <2>1. B * 0 = 0 /\ TwoTo[0] = 1
    BY PowersAre
  <2> QED
    BY <1>b, <2>1
<1>2. ASSUME NEW k \in Nat, k \in T PROVE k + 1 \in T
  <2> SUFFICES ASSUME k + 1 <= N PROVE f[k + 1] < TwoTo[B * (k + 1)]
    OBVIOUS
  <2>1. k + 1 \in 1 .. N /\ (k + 1) - 1 = k /\ k \in 0 .. N
    OBVIOUS
  <2>2. PICK x \in Nat : x = v[k + 1] /\ x < base
    BY <1>a, <2>1, ElementIs DEF Below
  <2>3. PICK m \in Nat : m = f[k]
    BY <1>b, <2>1
  <2>4. PICK p \in Nat \ {0} : p = TwoTo[B * k]
    <3>1. B * k \in Nat
      OBVIOUS
    <3> QED
      BY <3>1, PowerIs
  <2>5. m < p
    BY <1>2, <2>1, <2>3, <2>4
  <2>6. TwoTo[B * (k + 1)] = p * base
    <3>1. B * (k + 1) = (B * k) + B /\ B * k \in Nat
      OBVIOUS
    <3> QED
      BY <1>a, <2>4, <3>1, PowersMultiply
  <2>7. (m * base) + base <= p * base
    BY <2>5, TimesGrows
  <2>8. f[k + 1] = (m * base) + x
    BY <1>b, <2>1, <2>2, <2>3
  <2>9. PICK a \in Nat, c \in Nat : a = m * base /\ c = p * base
    <3>1. m * base \in Nat /\ p * base \in Nat
      OBVIOUS
    <3> QED
      BY <3>1
  <2>10. a + x < c
    <3>1. a + base <= c
      BY <2>7, <2>9, Zenon
    <3>2. x < base
      BY <2>2
    <3> QED
      BY <3>1, <3>2
  <2> QED
    BY <2>6, <2>8, <2>9, <2>10, Zenon
<1> HIDE DEF T
<1>3. Nat \subseteq T
  BY <1>1, <1>2, SetInduction
<1> QED
  BY <1>3, <1>a DEF T, f

\* What one more byte does to the number and to its high bits: where the byte is in
\* the prefix in part, and where it is behind it.
Product(r, x, y)       == r = x * y
Linear(a, f, base, x)  == a = (f * base) + x
Floor(n, f, R)         == n = (f \div R) * R

LEMMA DivByProduct ==
  ASSUME NEW a \in Nat, NEW x \in Nat \ {0}, NEW y \in Nat \ {0}, NEW r, Product(r, x, y)
  PROVE  a \div r = (a \div x) \div y
<1>1. a \div (x * y) = (a \div x) \div y
  BY DivDiv
<1> QED
  BY <1>1, Zenon DEF Product

LEMMA ByteInPart ==
  ASSUME NEW f \in Nat, NEW x \in Nat, NEW c \in Nat, NEW R \in Nat \ {0}, NEW base, Product(base, c, R),
         NEW a \in Nat, Linear(a, f, base, x), NEW y, Floor(y, x, R), NEW b, Linear(b, f, base, y)
  PROVE  Floor(b, a, R)
<1>1. PICK q \in Nat : q = f * c
  <2>1. f * c \in Nat
    OBVIOUS
  <2> QED
    BY <2>1
<1>2. f * base = q * R
  BY <1>1 DEF Product
<1>3. PICK p \in Nat : p = x \div R
  BY DivIs
<1>4. ((q * R) + x) \div R = q + p
  BY <1>3, DivSum
<1>5. (q + p) * R = (q * R) + (p * R)
  OBVIOUS
<1>6. a \div R = q + p
  BY <1>2, <1>4, Zenon DEF Linear
<1> QED
  BY <1>2, <1>3, <1>5, <1>6, Zenon DEF Linear, Floor

LEMMA ByteBehind ==
  ASSUME NEW f \in Nat, NEW x \in Nat, NEW base \in Nat \ {0}, NEW R \in Nat \ {0}, x < base,
         NEW a \in Nat, Linear(a, f, base, x), NEW S, Product(S, base, R), NEW n, Floor(n, f, R)
  PROVE  Floor(n * base, a, S)
<1>1. a \div base = f
  BY DivUnique DEF Linear
<1>2. a \div S = f \div R
  BY <1>1, DivByProduct
<1>3. PICK q \in Nat : q = f \div R
  BY DivIs
<1>4. q * (base * R) = (q * R) * base
  OBVIOUS
<1> QED
  BY <1>2, <1>3, <1>4, Zenon DEF Floor, Product

\* The bytes of an address, and those of its prefix.
Bytes == {v \in Seq(Nat) : Len(v) = AddressBytes /\ Below(v, TwoTo[ByteBits])}
Masked(v, z) == [i \in 1 .. AddressBytes |-> HighBits(v[i], ByteBits, BitsInByte(i, z))]
Number6(v) == Numeral(v, TwoTo[ByteBits])
Width6 == ByteBits * AddressBytes

LEMMA Widths6 ==
  \E A \in Nat, B \in Nat, W \in Nat : A = AddressBytes /\ B = ByteBits /\ W = Width6 /\ W = A * B
<1>1. AddressBytes \in Nat /\ ByteBits \in Nat
  BY WidthsAssumption
<1>2. ByteBits * AddressBytes = AddressBytes * ByteBits /\ ByteBits * AddressBytes \in Nat
  BY <1>1
<1> QED
  BY <1>1, <1>2 DEF Width6

\* Byte k + 1, by where it stands to the end of the prefix.
LEMMA MaskedByte ==
  ASSUME NEW v \in Bytes, NEW z \in Nat, NEW k \in Nat, k < AddressBytes, NEW K \in Nat, K = k * ByteBits
  PROVE  \E x \in Nat :
           /\ x = v[k + 1] /\ IsNumeric(ByteBits, x) /\ Masked(v, z)[k + 1] \in Nat
           /\ IsNumeric(ByteBits, Masked(v, z)[k + 1])
           /\ K + ByteBits <= z => Masked(v, z)[k + 1] = x
           /\ z <= K => Masked(v, z)[k + 1] = 0
           /\ K < z /\ z < K + ByteBits =>
                Masked(v, z)[k + 1] = HighBits(x, ByteBits, z - K) /\ IsSize(ByteBits, z - K)
<1>a. PICK A \in Nat, B \in Nat : A = AddressBytes /\ B = ByteBits
  BY Widths6
<1>b. v \in Seq(Nat) /\ A = Len(v) /\ \A i \in 1 .. A : v[i] < TwoTo[B]
  BY <1>a DEF Bytes, Below
<1>c. k + 1 \in 1 .. A
  BY <1>a
<1>d. PICK x \in Nat : x = v[k + 1] /\ IsNumeric(B, x)
  BY <1>b, <1>c, ElementIs DEF IsNumeric
<1>e. PICK b \in Nat : b = BitsInByte(k + 1, z) /\ b = IF z <= K THEN 0 ELSE IF z <= K + B THEN z - K ELSE B
  <2>1. BitsInByte(k + 1, z) = IF z <= K THEN 0 ELSE IF z <= K + B THEN z - K ELSE B
    BY <1>a, BitsAre
  <2>2. (IF z <= K THEN 0 ELSE IF z <= K + B THEN z - K ELSE B) \in Nat
    OBVIOUS
  <2> QED
    BY <2>1, <2>2
<1>f. Masked(v, z)[k + 1] = HighBits(x, B, b) /\ IsSize(B, b)
  BY <1>a, <1>c, <1>d, <1>e DEF Masked, IsSize
<1>g. HighBits(x, B, B) = x /\ HighBits(x, B, 0) = 0
  BY <1>d, AllOrNoBits
<1>h. HighBits(x, B, b) \in Nat /\ HighBits(x, B, b) <= x
  <2>1. \E h \in Nat, r \in Nat \ {0} :
           /\ r = TwoTo[B - b] /\ h = HighBits(x, B, b) /\ h <= x /\ x <= h + r - 1
           /\ Block(B, b, x) = h .. h + r - 1
    BY <1>d, <1>f, BlockIs
  <2> QED
    BY <2>1
<1>i. IsNumeric(B, HighBits(x, B, b))
  <2>1. PICK t \in Nat : t = TwoTo[B]
    BY PowerIs
  <2> QED
    BY <1>d, <1>h, <2>1 DEF IsNumeric
<1>1. K + B <= z => b = B
  BY <1>e
<1>2. z <= K => b = 0
  BY <1>e
<1>3. K < z /\ z < K + B => b = z - K
  BY <1>e
<1> QED
  BY <1>a, <1>d, <1>f, <1>g, <1>h, <1>i, <1>1, <1>2, <1>3

LEMMA MaskedIs ==
  ASSUME NEW v \in Bytes, NEW z \in Nat
  PROVE  Masked(v, z) \in Bytes
<1>a. PICK A \in Nat, B \in Nat : A = AddressBytes /\ B = ByteBits
  BY Widths6
<1> DEFINE g == Masked(v, z)
<1>1. ASSUME NEW i \in 1 .. A PROVE g[i] \in Nat /\ g[i] < TwoTo[B]
  <2>1. PICK k \in Nat : i = k + 1 /\ k < A
    <3>1. i - 1 \in Nat /\ i = (i - 1) + 1 /\ i - 1 < A
      OBVIOUS
    <3> QED
      BY <3>1
  <2>2. PICK K \in Nat : K = k * B
    <3>1. k * B \in Nat
      OBVIOUS
    <3> QED
      BY <3>1
  <2>3. g[k + 1] \in Nat /\ IsNumeric(B, g[k + 1])
    BY <1>a, <2>1, <2>2, MaskedByte
  <2> QED
    BY <2>1, <2>3 DEF IsNumeric
<1>2. g = [i \in 1 .. A |-> HighBits(v[i], ByteBits, BitsInByte(i, z))]
  BY <1>a DEF Masked
<1>3. DOMAIN g = 1 .. A
  BY <1>2
<1>4. g \in [1 .. A -> Nat]
  BY <1>1, <1>2
<1> HIDE DEF g
<1>5. g \in Seq(Nat) /\ Len(g) = A
  BY <1>4
<1>6. g \in Bytes
  BY <1>a, <1>1, <1>5 DEF Bytes, Below
<1> QED
  BY <1>6 DEF g

\* The number of the bytes of a prefix is made of the high bits of the number.
LEMMA MaskedNumber ==
  ASSUME NEW v \in Bytes, NEW z, IsSize(Width6, z)
  PROVE  Number6(Masked(v, z)) = HighBits(Number6(v), Width6, z)
<1>a. PICK A \in Nat, B \in Nat, W \in Nat : A = AddressBytes /\ B = ByteBits /\ W = Width6 /\ W = A * B
  BY Widths6
<1>b. PICK base \in Nat \ {0} : base = TwoTo[B]
  BY PowerIs
<1> DEFINE w == Masked(v, z)
           f == Numerals(v, base)
           g == Numerals(w, base)
<1>c. w \in Bytes /\ z \in Nat /\ z <= W
  BY <1>a, MaskedIs DEF IsSize
<1>d. /\ v \in Seq(Nat) /\ Len(v) = A /\ w \in Seq(Nat) /\ Len(w) = A
  BY <1>a, <1>c DEF Bytes
<1> HIDE DEF w
<1>e. f \in [0 .. A -> Nat] /\ f[0] = 0 /\ \A i \in 1 .. A : f[i] = f[i - 1] * base + v[i]
  BY <1>d, NumeralsAre
<1>f. g \in [0 .. A -> Nat] /\ g[0] = 0 /\ \A i \in 1 .. A : g[i] = g[i - 1] * base + w[i]
  BY <1>d, NumeralsAre
<1> HIDE DEF f, g
<1> DEFINE Holds(k) == IF k * B <= z THEN g[k] = f[k]
                       ELSE g[k] = (f[k] \div TwoTo[k * B - z]) * TwoTo[k * B - z]
           T == {k \in Nat : k <= A => Holds(k)}
<1>1. 0 \in T
  <2>1. 0 * B = 0
    OBVIOUS
  <2> QED
    BY <1>c, <1>e, <1>f, <2>1
<1>2. ASSUME NEW k \in Nat, k \in T PROVE k + 1 \in T
  <2> SUFFICES ASSUME k + 1 <= A PROVE Holds(k + 1)
    OBVIOUS
  <2>1. k + 1 \in 1 .. A /\ (k + 1) - 1 = k /\ k \in 0 .. A /\ k < A
    OBVIOUS
  <2>2. PICK K \in Nat : K = k * B
    <3>1. k * B \in Nat
      OBVIOUS
    <3> QED
      BY <3>1
  <2>3. (k + 1) * B = K + B
    BY <2>2
  <2>4. PICK x \in Nat :
           /\ x = v[k + 1] /\ IsNumeric(B, x) /\ w[k + 1] \in Nat
           /\ K + B <= z => w[k + 1] = x
           /\ z <= K => w[k + 1] = 0
           /\ K < z /\ z < K + B => w[k + 1] = HighBits(x, B, z - K) /\ IsSize(B, z - K)
    <3>1. k < AddressBytes /\ K = k * ByteBits
      BY <1>a, <2>1, <2>2
    <3> QED
      BY <1>a, <1>c, <3>1, MaskedByte DEF w
  <2>5. PICK m \in Nat, n \in Nat, y \in Nat : m = f[k] /\ n = g[k] /\ y = w[k + 1]
    BY <1>e, <1>f, <2>1, <2>4
  <2>6. f[k + 1] = (m * base) + x /\ g[k + 1] = (n * base) + y
    <3>1. f[k + 1] = f[(k + 1) - 1] * base + v[k + 1]
      BY <1>e, <2>1
    <3>2. g[k + 1] = g[(k + 1) - 1] * base + w[k + 1]
      BY <1>f, <2>1
    <3> QED
      BY <2>1, <2>4, <2>5, <3>1, <3>2
  <2>7. /\ K <= z => n = m
        /\ ~(K <= z) => n = (m \div TwoTo[K - z]) * TwoTo[K - z]
    BY <1>2, <2>1, <2>2, <2>5
  <2>8. x < base
    BY <1>b, <2>4 DEF IsNumeric
  <2> HIDE DEF T
  <2>9. CASE K + B <= z
    <3>1. n = m /\ y = x
      BY <1>c, <2>4, <2>5, <2>7, <2>9
    <3> QED
      BY <2>3, <2>6, <2>9, <3>1
  <2>10. CASE ~(K + B <= z) /\ K < z
    <3>1. n = m /\ y = HighBits(x, B, z - K) /\ z - K \in Nat /\ IsSize(B, z - K)
      BY <1>c, <2>4, <2>5, <2>7, <2>10
    <3>2. PICK c \in Nat \ {0}, R \in Nat \ {0} :
             c = TwoTo[z - K] /\ R = TwoTo[B - (z - K)] /\ base = c * R
      BY <1>b, <3>1, RestIs
    <3>3. (K + B) - z = B - (z - K) /\ ~((k + 1) * B <= z)
      BY <1>c, <2>3, <2>10
    <3>4. Product(base, c, R) /\ Floor(y, x, R)
      BY <3>1, <3>2, Zenon DEF HighBits, Product, Floor
    <3>5. PICK a \in Nat, b \in Nat : a = f[k + 1] /\ Linear(a, m, base, x)
                                   /\ b = g[k + 1] /\ Linear(b, m, base, y)
      <4>1. f[k + 1] \in Nat /\ g[k + 1] \in Nat
        BY <1>e, <1>f, <2>1
      <4>2. Linear(f[k + 1], m, base, x) /\ Linear(g[k + 1], m, base, y)
        BY <2>6, <3>1, Zenon DEF Linear
      <4> QED
        BY <4>1, <4>2, Zenon
    <3>6. Floor(b, a, R)
      BY <3>4, <3>5, ByteInPart
    <3>7. g[k + 1] = (f[k + 1] \div R) * R
      BY <3>5, <3>6, Zenon DEF Floor
    <3> QED
      BY <2>3, <3>2, <3>3, <3>7, Zenon
  <2>11. CASE ~(K < z) /\ ~(K + B <= z)
    <3>1. y = 0
      BY <1>c, <2>4, <2>5, <2>11
    <3>2. K - z \in Nat /\ (K + B) - z = B + (K - z) /\ ~((k + 1) * B <= z)
      BY <1>c, <2>3, <2>11
    <3>3. PICK R \in Nat \ {0} : R = TwoTo[K - z]
      BY <3>2, PowerIs
    <3>4. TwoTo[(K + B) - z] = base * R
      BY <1>b, <3>2, <3>3, PowersMultiply
    <3>6. n = (m \div R) * R
      <4>1. CASE K = z
        <5>1. K - z = 0 /\ R = 1
          BY <1>c, <3>3, <4>1, PowersAre
        <5>2. m = (m * 1) + 0 /\ 1 \in Nat \ {0} /\ 0 \in Nat /\ 0 < 1
          OBVIOUS
        <5>3. m \div 1 = m
          BY <5>2, DivUnique
        <5> QED
          BY <1>c, <2>7, <4>1, <5>1, <5>2, <5>3
      <4>2. CASE K # z
        BY <1>c, <2>7, <2>11, <3>3, <4>2
      <4> QED
        BY <4>1, <4>2
    <3>7. g[k + 1] = n * base
      BY <2>6, <3>1
    <3>8. PICK a \in Nat, S \in Nat : a = f[k + 1] /\ Linear(a, m, base, x) /\ S = base * R /\ Product(S, base, R)
      <4>1. base * R \in Nat
        OBVIOUS
      <4> QED
        BY <1>e, <2>1, <2>6, <4>1 DEF Linear, Product
    <3>9. Floor(n, m, R)
      BY <3>6, Zenon DEF Floor
    <3>10. Floor(n * base, a, S)
      BY <2>8, <3>8, <3>9, ByteBehind
    <3>11. g[k + 1] = (f[k + 1] \div S) * S /\ S = TwoTo[(k + 1) * B - z]
      BY <2>3, <3>2, <3>4, <3>7, <3>8, <3>10, Zenon DEF Floor
    <3> QED
      BY <3>2, <3>11, Zenon
  <2> QED
    BY <2>9, <2>10, <2>11
<1>3. Holds(A)
  <2> HIDE DEF Holds
  <2>1. Nat \subseteq T
    <3> HIDE DEF T
    <3> QED
      BY <1>1, <1>2, SetInduction
  <2> QED
    BY <2>1
<1>4. PICK m \in Nat, n \in Nat : m = f[A] /\ n = g[A]
  BY <1>e, <1>f
<1>5. Number6(v) = m /\ Number6(w) = n
  BY <1>a, <1>b, <1>d, <1>4 DEF Number6, Numeral, f, g
<1>6. n = (m \div TwoTo[W - z]) * TwoTo[W - z]
  <2>1. CASE W = z
    <3>1. W - z = 0 /\ TwoTo[W - z] = 1
      BY <2>1, PowersAre
    <3>2. m = (m * 1) + 0 /\ 1 \in Nat \ {0} /\ 0 \in Nat /\ 0 < 1
      OBVIOUS
    <3>3. m \div 1 = m
      BY <3>2, DivUnique
    <3>4. n = m
      BY <1>a, <1>c, <1>3, <1>4, <2>1
    <3> QED
      BY <3>1, <3>2, <3>3, <3>4
  <2>2. CASE W # z
    <3>1. ~(A * B <= z)
      BY <1>a, <1>c, <2>2
    <3> QED
      BY <1>a, <1>3, <1>4, <3>1
  <2> QED
    BY <2>1, <2>2
<1> QED
  BY <1>5, <1>6, <1>a DEF HighBits, w

LEMMA NumberIsNumeric ==
  ASSUME NEW v \in Bytes
  PROVE  IsNumeric(Width6, Number6(v))
<1>a. PICK A \in Nat, B \in Nat, W \in Nat : A = AddressBytes /\ B = ByteBits /\ W = Width6 /\ W = A * B
  BY Widths6
<1>1. v \in Seq(Nat) /\ A = Len(v) /\ Below(v, TwoTo[B])
  BY <1>a DEF Bytes
<1>2. Numerals(v, TwoTo[B])[A] < TwoTo[B * A]
  BY <1>1, BytesBelow, SMTT(30)
<1>3. B * A = W
  BY <1>a
<1>4. TwoTo[B] \in Nat
  BY PowerIs
<1>5. Number6(v) \in Nat
  BY <1>1, <1>4, <1>a, NumeralIsNat DEF Number6
<1> QED
  BY <1>1, <1>2, <1>3, <1>5, <1>a DEF IsNumeric, Number6, Numeral

\* The numbers tell the bytes and their order.
LEMMA NumbersTell ==
  ASSUME NEW v \in Bytes, NEW u \in Bytes
  PROVE  /\ Lexicographic(v, u) = Sense(Number6(v), Number6(u))
         /\ Number6(v) = Number6(u) <=> v = u
         /\ Number6(v) = Number6(u) <=> \A i \in 1 .. AddressBytes : v[i] = u[i]
<1>a. PICK A \in Nat, B \in Nat : A = AddressBytes /\ B = ByteBits
  BY Widths6
<1>b. PICK base \in Nat \ {0} : base = TwoTo[B]
  BY PowerIs
<1>1. v \in Seq(Nat) /\ u \in Seq(Nat) /\ A = Len(v) /\ A = Len(u) /\ Below(v, base) /\ Below(u, base)
  BY <1>a, <1>b DEF Bytes
<1>2. Lexicographic(v, u) = Sense(Number6(v), Number6(u))
  BY <1>1, <1>a, <1>b, NumeralOrder, ZenonT(60) DEF Number6
<1>3. PICK m \in Nat, n \in Nat : m = Number6(v) /\ n = Number6(u)
  BY <1>1, <1>a, <1>b, NumeralIsNat DEF Number6
<1>4. ASSUME m = n PROVE \A i \in 1 .. A : v[i] = u[i]
  <2>1. Lexicographic(v, u) = 0
    BY <1>2, <1>3, <1>4, SenseOfNumbers
  <2>2. ASSUME NEW k \in Nat, DifferFirst(v, u, k), Lexicographic(v, u) = Sense(v[k + 1], u[k + 1])
        PROVE  FALSE
    <3>1. k + 1 \in 1 .. A
      BY <1>1, <2>2 DEF DifferFirst
    <3>2. PICK x \in Nat, y \in Nat : x = v[k + 1] /\ y = u[k + 1]
      BY <1>1, <3>1, ElementIs
    <3>3. x # y /\ Sense(x, y) = 0
      BY <2>1, <2>2, <3>2 DEF DifferFirst
    <3> QED
      BY <3>3 DEF Sense
  <2>3. SameUpTo(v, u, A)
    <3>1. (IF Len(v) <= Len(u) THEN Len(v) ELSE Len(u)) = A
      BY <1>1
    <3> QED
      BY <1>1, <2>2, <3>1, LexicographicIs
  <2> QED
    BY <2>3 DEF SameUpTo
<1>5. ASSUME \A i \in 1 .. A : v[i] = u[i] PROVE v = u
  <2>1. DOMAIN v = 1 .. A /\ DOMAIN u = 1 .. A
    BY <1>1, LenProperties
  <2> QED
    BY <1>1, <1>5, <2>1
<1> QED
  BY <1>2, <1>3, <1>4, <1>5, <1>a

\* A byte of a prefix and of one that begins with it.
LEMMA ByteOfPrefix ==
  ASSUME NEW v \in Bytes, NEW z \in Nat, NEW y \in Nat, y <= z,
         NEW k \in Nat, k < AddressBytes, NEW K \in Nat, K = k * ByteBits
  PROVE  /\ K + ByteBits <= y => Masked(v, z)[k + 1] = Masked(v, y)[k + 1]
         /\ K < y /\ y < K + ByteBits =>
              HighBits(Masked(v, z)[k + 1], ByteBits, y - K) = Masked(v, y)[k + 1]
         /\ y <= K => Masked(v, y)[k + 1] = 0
<1>a. PICK B \in Nat : B = ByteBits
  BY Widths6
<1>1. PICK x \in Nat :
        /\ x = v[k + 1] /\ IsNumeric(B, x)
        /\ K + B <= z => Masked(v, z)[k + 1] = x
        /\ K < z /\ z < K + B => Masked(v, z)[k + 1] = HighBits(x, B, z - K) /\ IsSize(B, z - K)
  BY <1>a, MaskedByte
<1>2. /\ K + B <= y => Masked(v, y)[k + 1] = x
      /\ y <= K => Masked(v, y)[k + 1] = 0
      /\ K < y /\ y < K + B => Masked(v, y)[k + 1] = HighBits(x, B, y - K) /\ IsSize(B, y - K)
  BY <1>a, <1>1, MaskedByte
<1>3. K + B <= y => Masked(v, z)[k + 1] = Masked(v, y)[k + 1]
  BY <1>1, <1>2
<1>4. ASSUME K < y, y < K + B PROVE HighBits(Masked(v, z)[k + 1], B, y - K) = Masked(v, y)[k + 1]
  <2>1. CASE K + B <= z
    BY <1>1, <1>2, <1>4, <2>1
  <2>2. CASE ~(K + B <= z)
    <3>1. K < z /\ z < K + B
      BY <1>4, <2>2
    <3>2. Masked(v, z)[k + 1] = HighBits(x, B, z - K) /\ IsSize(B, z - K)
      BY <1>1, <3>1
    <3>3. y - K \in Nat /\ y - K <= z - K
      BY <1>4
    <3>4. HighBits(HighBits(x, B, z - K), B, y - K) = HighBits(x, B, y - K)
      BY <3>2, <3>3, HighBitsAgain
    <3> QED
      BY <1>2, <1>4, <3>2, <3>4
  <2> QED
    BY <2>1, <2>2
<1> QED
  BY <1>a, <1>2, <1>3, <1>4

\* Two prefixes agree in their first y bits if all their bytes do.
SameBytes(v, u, y) == \A i \in 1 .. AddressBytes : Masked(v, y)[i] = Masked(u, y)[i]
SameSoFar(v, z, u, y) ==
  /\ \A i \in 1 .. y \div ByteBits : Masked(v, z)[i] = Masked(u, y)[i]
  /\ y % ByteBits # 0 =>
       HighBits(Masked(v, z)[y \div ByteBits + 1], ByteBits, y % ByteBits)
         = HighBits(Masked(u, y)[y \div ByteBits + 1], ByteBits, y % ByteBits)

LEMMA SameSoFarIs ==
  ASSUME NEW v \in Bytes, NEW u \in Bytes, NEW z \in Nat, NEW y, IsSize(Width6, y), y <= z
  PROVE  SameSoFar(v, z, u, y) <=> SameBytes(v, u, y)
<1>a. PICK A \in Nat, B \in Nat, W \in Nat : A = AddressBytes /\ B = ByteBits /\ W = Width6 /\ W = A * B
  BY Widths6
<1>b. y \in Nat /\ y <= W /\ B \in Nat \ {0}
  BY <1>a, WidthsAssumption DEF IsSize
<1>c. PICK n \in Nat, b \in Nat : n = y \div B /\ b = y % B /\ b < B /\ y = (n * B) + b
  BY <1>b, DivIs
<1>d. PICK K \in Nat : K = n * B
  <2>1. n * B \in Nat
    OBVIOUS
  <2> QED
    BY <2>1
<1>e. y = K + b
  BY <1>c, <1>d
<1>1. ASSUME NEW i \in Nat, 1 <= i, i <= n PROVE i \in 1 .. A /\ Masked(v, z)[i] = Masked(v, y)[i]
  <2>1. PICK k \in Nat : i = k + 1 /\ k < n
    <3>1. i - 1 \in Nat /\ i = (i - 1) + 1 /\ i - 1 < n
      BY <1>1
    <3> QED
      BY <3>1
  <2>2. PICK J \in Nat : J = k * B
    <3>1. k * B \in Nat
      OBVIOUS
    <3> QED
      BY <3>1
  <2>3. J + B <= y
    <3>1. (k * B) + B <= n * B
      BY <2>1, <1>b, TimesGrows
    <3>2. J + B <= K
      BY <1>d, <2>2, <3>1, Zenon
    <3> QED
      BY <1>e, <3>2
  <2>4. k < A
    <3>1. A <= k => FALSE
      <4> SUFFICES ASSUME A <= k PROVE FALSE
        OBVIOUS
      <4>1. A < k + 1
        OBVIOUS
      <4>2. (A * B) + B <= (k + 1) * B
        BY <1>b, <4>1, TimesGrows
      <4>3. (k + 1) * B = J + B
        BY <2>2
      <4>4. W + B <= J + B
        BY <1>a, <4>2, <4>3, Zenon
      <4> QED
        BY <1>b, <2>3, <4>4
    <3> QED
      BY <3>1
  <2>5. Masked(v, z)[k + 1] = Masked(v, y)[k + 1]
    BY <1>a, <1>b, <2>2, <2>3, <2>4, ByteOfPrefix
  <2> QED
    BY <2>1, <2>4, <2>5
<1>2. ASSUME b # 0
      PROVE  /\ n + 1 \in 1 .. A
             /\ HighBits(Masked(v, z)[n + 1], B, b) = Masked(v, y)[n + 1]
             /\ HighBits(Masked(u, y)[n + 1], B, b) = Masked(u, y)[n + 1]
  <2>1. n < A
    <3>1. A <= n => FALSE
      <4> SUFFICES ASSUME A <= n PROVE FALSE
        OBVIOUS
      <4>1. A < n + 1
        OBVIOUS
      <4>2. (A * B) + B <= (n + 1) * B
        BY <1>b, <4>1, TimesGrows
      <4>3. (n + 1) * B = K + B
        BY <1>d
      <4>4. W + B <= K + B
        BY <1>a, <4>2, <4>3, Zenon
      <4> QED
        BY <1>b, <1>e, <1>2, <4>4
    <3> QED
      BY <3>1
  <2>2. K < y /\ y < K + B /\ y - K = b
    BY <1>c, <1>e, <1>2
  <2>3. HighBits(Masked(v, z)[n + 1], B, y - K) = Masked(v, y)[n + 1]
    BY <1>a, <1>b, <1>d, <2>1, <2>2, ByteOfPrefix
  <2>4. HighBits(Masked(u, y)[n + 1], B, y - K) = Masked(u, y)[n + 1]
    <3>1. y <= y
      BY <1>b
    <3> QED
      BY <1>a, <1>b, <1>d, <2>1, <2>2, <3>1, ByteOfPrefix
  <2> QED
    BY <2>1, <2>2, <2>3, <2>4
<1>3. ASSUME NEW i \in 1 .. A, n < i, ~(i = n + 1 /\ b # 0) PROVE Masked(v, y)[i] = Masked(u, y)[i]
  <2>1. PICK k \in Nat : i = k + 1 /\ k < A
    <3>1. i - 1 \in Nat /\ i = (i - 1) + 1 /\ i - 1 < A
      OBVIOUS
    <3> QED
      BY <3>1
  <2>2. PICK J \in Nat : J = k * B
    <3>1. k * B \in Nat
      OBVIOUS
    <3> QED
      BY <3>1
  <2>3. y <= J
    <3>1. CASE k = n
      BY <1>d, <1>e, <1>3, <2>1, <2>2, <3>1
    <3>2. CASE n < k
      <4>1. (n * B) + B <= k * B
        BY <1>b, <3>2, TimesGrows
      <4>2. K + B <= J
        BY <1>d, <2>2, <4>1, Zenon
      <4> QED
        BY <1>c, <1>e, <4>2
    <3> QED
      BY <1>3, <2>1, <3>1, <3>2
  <2>4. y <= y
    BY <1>b
  <2>5. Masked(v, y)[k + 1] = 0 /\ Masked(u, y)[k + 1] = 0
    BY <1>a, <1>b, <2>1, <2>2, <2>3, <2>4, ByteOfPrefix
  <2> QED
    BY <2>1, <2>5
<1>4. SameSoFar(v, z, u, y) <=>
        /\ \A i \in 1 .. n : Masked(v, z)[i] = Masked(u, y)[i]
        /\ b # 0 => HighBits(Masked(v, z)[n + 1], B, b) = HighBits(Masked(u, y)[n + 1], B, b)
  BY <1>a, <1>c DEF SameSoFar
<1>5. ASSUME SameSoFar(v, z, u, y), NEW i \in 1 .. A PROVE Masked(v, y)[i] = Masked(u, y)[i]
  <2>1. CASE i <= n
    BY <1>1, <1>4, <1>5, <2>1
  <2>2. CASE i = n + 1 /\ b # 0
    BY <1>2, <1>4, <1>5, <2>2
  <2>3. CASE n < i /\ ~(i = n + 1 /\ b # 0)
    BY <1>3, <2>3
  <2> QED
    BY <2>1, <2>2, <2>3
<1>6. ASSUME \A i \in 1 .. A : Masked(v, y)[i] = Masked(u, y)[i] PROVE SameSoFar(v, z, u, y)
  <2>1. ASSUME NEW i \in 1 .. n PROVE Masked(v, z)[i] = Masked(u, y)[i]
    BY <1>1, <1>6
  <2>2. b # 0 => HighBits(Masked(v, z)[n + 1], B, b) = HighBits(Masked(u, y)[n + 1], B, b)
    BY <1>2, <1>6
  <2> QED
    BY <1>4, <2>1, <2>2
<1> QED
  BY <1>a, <1>5, <1>6 DEF SameBytes

LEMMA SubsetIs6 ==
  ASSUME NEW v \in Bytes, NEW z, IsSize(Width6, z), NEW u \in Bytes, NEW y, IsSize(Width6, y),
         NEW one, one = [address |-> Masked(v, z), prefixSize |-> z],
         NEW other, other = [address |-> Masked(u, y), prefixSize |-> y]
  PROVE  SubsetOf6(one, other) <=> y <= z /\ HighBits(Number6(v), Width6, y) = HighBits(Number6(u), Width6, y)
<1>1. y \in Nat /\ z \in Nat
  BY DEF IsSize
<1>2. SubsetOf6(one, other) <=> z >= y /\ SameSoFar(v, z, u, y)
  BY DEF SubsetOf6, SameSoFar
<1>3. HighBits(Number6(v), Width6, y) = HighBits(Number6(u), Width6, y) <=> SameBytes(v, u, y)
  <2>1. Number6(Masked(v, y)) = Number6(Masked(u, y)) <=> SameBytes(v, u, y)
    BY <1>1, MaskedIs, NumbersTell DEF SameBytes
  <2> QED
    BY <2>1, MaskedNumber
<1>4. y <= z => (SameSoFar(v, z, u, y) <=> SameBytes(v, u, y))
  BY <1>1, SameSoFarIs
<1> QED
  BY <1>1, <1>2, <1>3, <1>4

Size6(v) == IF v[2] = <<>> THEN Width6 ELSE v[2][1]

LEMMA Ipv6Is ==
  ASSUME NEW v, IsParsed("ipv6_address", v), IsIpv6Address(v)
  PROVE  /\ v[1] \in Bytes /\ IsSize(Width6, Size6(v)) /\ IsNumeric(Width6, Number6(v[1])) /\ Width6 \in Nat
         /\ Ipv6Address(v) = [address |-> Masked(v[1], Size6(v)), prefixSize |-> Size6(v)]
<1>a. PICK A \in Nat, B \in Nat, W \in Nat : A = AddressBytes /\ B = ByteBits /\ W = Width6
  BY Widths6
<1>b. PICK base \in Nat : base = TwoTo[B]
  BY PowerIs
<1>1. Len(v[1]) = A /\ v[1] \in Seq(0 .. base - 1) /\ v[2] \in Seq(Nat) /\ Len(v[2]) <= 1
  BY <1>a, <1>b DEF IsParsed, Unsigned
<1>2. \A i \in 1 .. A : v[1][i] \in 0 .. base - 1
  BY <1>1
<1>3. v[1] \in Seq(Nat)
  BY <1>1
<1>4. v[1] \in Bytes
  BY <1>1, <1>2, <1>3, <1>a, <1>b DEF Bytes, Below
<1>5. IsSize(Width6, Size6(v))
  BY <1>a DEF IsIpv6Address, IsSize, Size6, Width6
<1>6. Ipv6Address(v) = [address |-> Masked(v[1], Size6(v)), prefixSize |-> Size6(v)]
  BY DEF Ipv6Address, Masked, Size6, Width6
<1> QED
  BY <1>4, <1>5, <1>6, <1>a, NumberIsNumeric

LEMMA Ipv6Follows ==
  ASSUME NEW d, IsParsed("ipv6_address", d), IsIpv6Address(d),
         NEW s, IsParsed("ipv6_address", s), IsIpv6Address(s), NEW op
  PROVE  ByNumber(op, Width6, Size6(d), Number6(d[1]), Size6(s), Number6(s[1]),
                  Caught(CompareIpv6Address(op, d, s)))
<1> DEFINE W == Width6
           z == Size6(d)
           v == d[1]
           n == Number6(v)
           y == Size6(s)
           u == s[1]
           m == Number6(u)
           def == Ipv6Address(d)
           sc == Ipv6Address(s)
           c == CompareIpv6Address(op, d, s)
<1>1. /\ W \in Nat /\ v \in Bytes /\ IsSize(W, z) /\ IsNumeric(W, n)
      /\ def = [address |-> Masked(v, z), prefixSize |-> z]
  BY Ipv6Is
<1>2. /\ u \in Bytes /\ IsSize(W, y) /\ IsNumeric(W, m)
      /\ sc = [address |-> Masked(u, y), prefixSize |-> y]
  BY Ipv6Is
<1>3. c = CASE op = "subset of"   -> Verdict(SubsetOf6(sc, def))
            [] op = "superset of" -> Verdict(SubsetOf6(def, sc))
            [] OTHER -> CompareAddresses(op, def, sc, Lexicographic(def.address, sc.address))
  BY DEF CompareIpv6Address
<1>n. n = Number6(v) /\ m = Number6(u)
  OBVIOUS
<1> HIDE DEF z, v, n, y, u, m, def, sc, c
<1>4. def.address = Masked(v, z) /\ def.prefixSize = z /\ sc.address = Masked(u, y) /\ sc.prefixSize = y
  BY <1>1, <1>2
<1>5. z \in Nat /\ y \in Nat
  BY <1>1, <1>2 DEF IsSize
<1>6. CASE op = "subset of"
  <2>1. SubsetOf6(sc, def) <=> z <= y /\ HighBits(m, W, z) = HighBits(n, W, z)
    BY <1>1, <1>2, <1>n, SubsetIs6
  <2>2. c = Verdict(SubsetOf6(sc, def))
    BY <1>3, <1>6
  <2>3. Caught(c) = Verdict(z <= y /\ HighBits(m, W, z) = HighBits(n, W, z))
    BY <2>1, <2>2, VerdictStays
  <2>4. op \notin {"equals", "not equal"} /\ op \notin Inequalities /\ op \in Ordering \cup {"subset of", "superset of"}
    BY <1>6 DEF Inequalities, Ordering
  <2>5. ByNumber(op, W, z, n, y, m, Caught(c))
    BY <1>6, <2>3, <2>4 DEF ByNumber
  <2> QED
    BY <2>5 DEF z, v, n, y, u, m, c
<1>7. CASE op = "superset of"
  <2>1. SubsetOf6(def, sc) <=> y <= z /\ HighBits(n, W, y) = HighBits(m, W, y)
    BY <1>1, <1>2, <1>n, SubsetIs6
  <2>2. c = Verdict(SubsetOf6(def, sc))
    BY <1>3, <1>7
  <2>3. Caught(c) = Verdict(y <= z /\ HighBits(n, W, y) = HighBits(m, W, y))
    BY <2>1, <2>2, VerdictStays
  <2>4. op \notin {"equals", "not equal"} /\ op \notin Inequalities /\ op \in Ordering \cup {"subset of", "superset of"}
    BY <1>7 DEF Inequalities, Ordering
  <2>5. ByNumber(op, W, z, n, y, m, Caught(c))
    BY <1>7, <2>3, <2>4 DEF ByNumber
  <2> QED
    BY <2>5 DEF z, v, n, y, u, m, c
<1>8. CASE op \notin {"subset of", "superset of"}
  <2>1. c = CompareAddresses(op, def, sc, Lexicographic(def.address, sc.address))
    BY <1>3, <1>8
  <2>2. Masked(v, z) \in Bytes /\ Masked(u, y) \in Bytes
    BY <1>1, <1>2, <1>5, MaskedIs
  <2>3. Number6(Masked(v, z)) = HighBits(n, W, z) /\ Number6(Masked(u, y)) = HighBits(m, W, y)
    BY <1>1, <1>2, <1>n, MaskedNumber
  <2>4. HighBits(n, W, z) = HighBits(m, W, y) <=> Masked(v, z) = Masked(u, y)
    BY <2>2, <2>3, NumbersTell
  <2>5. def = sc <=> y = z /\ HighBits(m, W, y) = HighBits(n, W, z)
    BY <1>1, <1>2, <2>4
  <2>6. HighBits(m, W, y) \in Nat /\ HighBits(n, W, z) \in Nat
    BY <1>1, <1>2, HighBitsAre DEF IsNumeric
  <2>7. Lexicographic(def.address, sc.address) = Sense(HighBits(n, W, z), HighBits(m, W, y))
    BY <1>4, <2>2, <2>3, NumbersTell
  <2>8. Lexicographic(def.address, sc.address)
          = SenseOf(HighBits(m, W, y) < HighBits(n, W, z), HighBits(m, W, y) > HighBits(n, W, z))
    BY <2>6, <2>7, SenseIs
  <2>9. ByNumber(op, W, z, n, y, m, Caught(c))
    BY <1>1, <1>2, <1>4, <1>8, <2>1, <2>5, <2>8, PrefixesCompare
  <2> QED
    BY <2>9 DEF z, v, n, y, u, m, c
<1> QED
  BY <1>6, <1>7, <1>8

-----------------------------------------------------------------------------
\* What Analyze returned for a value is the comparison of values as they are parsed.
AnalyzedValues ==
  /\ \E k \in DOMAIN Requests : \E request \in Requests[k] :
       entity = request.entity /\ scElement = request.item
  /\ Compared /\ ~IsRecord /\ entity.part.variable = <<>> =>
       comparison = Caught(CompareIfKnown(Datatypes, entity.part, entity.part.value, scElement.value))

LEMMA ValuesAreAnalyzed == EntitySpec => []AnalyzedValues
<1>1. EntityInit => AnalyzedValues
  BY DEF EntityInit, AnalyzedValues, Compared
<1>2. AnalyzedValues /\ [EntityNext]_entityVars => AnalyzedValues'
  <2> SUFFICES ASSUME AnalyzedValues, [EntityNext]_entityVars PROVE AnalyzedValues'
    OBVIOUS
  <2>1. CASE StatusDecides
    BY <2>1 DEF StatusDecides, Return, AnalyzedValues, Compared, IsRecord
  <2>2. CASE AnalyzeValue
    BY <2>2, Zenon DEF AnalyzeValue, Return, AnalyzedValues, Compared, IsRecord
  <2>3. CASE AnalyzeVariable
    BY <2>3 DEF AnalyzeVariable, Return, AnalyzedValues, Compared, IsRecord
  <2>4. CASE CompareRecord
    BY <2>4 DEF CompareRecord, Return, AnalyzedValues, Compared, IsRecord
  <2>5. CASE UNCHANGED entityVars
    BY <2>5, Zenon DEF entityVars, AnalyzedValues, Compared, IsRecord
  <2> QED
    BY <2>1, <2>2, <2>3, <2>4, <2>5 DEF EntityNext
<1> QED
  BY <1>1, <1>2, PTL DEF EntitySpec

\* The two values of an entity that has one.
LEMMA ValuesAre ==
  ASSUME AnalyzedValues, NEW datatypes, Plain(datatypes)
  PROVE  LET part == entity.part
         IN  /\ part.value \in Value /\ scElement.value \in Value
             /\ part.datatype \in datatypes /\ part.datatype \in Datatypes
             /\ IsParsed(part.datatype, part.value) /\ IsParsed(part.datatype, scElement.value)
             /\ part.datatype # "string" => comparison =
                  Caught(Compare(part.datatype, part.operation, part.value, scElement.value))
<1> DEFINE part == entity.part
<1>1. PICK k \in DOMAIN Requests : \E request \in Requests[k] :
        entity = request.entity /\ scElement = request.item
  BY DEF AnalyzedValues
<1>2. PICK request \in Requests[k] : entity = request.entity /\ scElement = request.item
  BY <1>1
<1>3. entity \in EntityElement /\ scElement \in ItemElement
  <2>1. request \in Request
    BY RequestsAssumption
  <2> QED
    BY <1>2, <2>1 DEF Request
<1>4. part \in Part /\ part.value \in Value /\ scElement.value \in Value /\ part.datatype \in Datatypes
  BY <1>3 DEF EntityElement, ItemElement, Part
<1>5. part.value # <<>> /\ scElement.value # <<>> /\ part.variable = <<>> /\ part.datatype \in datatypes
      /\ Compared /\ ~IsRecord
  BY DEF Plain
<1>6. IsParsed(part.datatype, part.value) /\ IsParsed(part.datatype, scElement.value)
  BY <1>2, <1>5, ValuesAssumption
<1>7. comparison = Caught(CompareIfKnown(Datatypes, part, part.value, scElement.value))
  BY <1>5 DEF AnalyzedValues
<1>8. CompareIfKnown(Datatypes, part, part.value, scElement.value)
        = Compare(part.datatype, part.operation, part.value, scElement.value)
  BY <1>4 DEF CompareIfKnown
<1> QED
  BY <1>4, <1>5, <1>6, <1>7, <1>8

LEMMA FollowsByOrder ==
  ASSUME NEW less \in BOOLEAN, NEW more \in BOOLEAN, entity.part.operation \in Ordering,
         comparison = Caught(ByOrder(entity.part.operation, SenseOf(less, more)))
  PROVE  Follows(SenseOf(less, more))
<1>1. SenseOf(less, more) \in {-1, 0, 1}
  BY DEF SenseOf
<1> QED
  BY <1>1, ByOrderIs DEF Follows

LEMMA OneElement ==
  ASSUME NEW S, NEW s \in Seq(S), Len(s) = 1
  PROVE  s = <<s[1]>> /\ s[1] \in S
<1>1. 1 \in 1 .. 1
  OBVIOUS
<1>2. s[1] \in S
  BY <1>1, ElementIs
<1>3. DOMAIN s = 1 .. 1 /\ s \in [1 .. 1 -> S]
  BY LenProperties
<1>4. <<s[1]>> \in [1 .. 1 -> S] /\ <<s[1]>>[1] = s[1]
  BY <1>2
<1>5. \A i \in 1 .. 1 : s[i] = <<s[1]>>[i]
  BY <1>4
<1> QED
  BY <1>2, <1>3, <1>4, <1>5

LEMMA NoneOrOne ==
  ASSUME NEW S, NEW s \in Seq(S), s # <<>>, Len(s) <= 1
  PROVE  Len(s) = 1
<1>1. Len(s) \in Nat
  BY LenProperties
<1>2. Len(s) # 0
  BY EmptySeq
<1> QED
  BY <1>1, <1>2

LEMMA OlderIsSaid ==
  ASSUME NEW a, NEW b
  PROVE  OlderPackage(a, b) \in BOOLEAN
<1>1. (a[1][1] < b[1][1]) \in BOOLEAN
  OBVIOUS
<1>2. \A k \in {2, 3} : /\ Older(Segments(a[k]), Segments(b[k])) \in BOOLEAN
                        /\ Older(Segments(b[k]), Segments(a[k])) \in BOOLEAN
  BY Zenon DEF Older
<1>3. CASE a[1] # b[1]
  BY <1>1, <1>3, Zenon DEF OlderPackage
<1>4. CASE a[1] = b[1]
  BY <1>4, Zenon DEF OlderPackage
<1> QED
  BY <1>3, <1>4

LEMMA CompareIs ==
  ASSUME NEW op, NEW d, NEW s, d # <<>>, s # <<>>
  PROVE  /\ Compare("int", op, d, s) = CompareInteger(op, d, s)
         /\ Compare("version", op, d, s) = CompareVersion(op, d, s)
         /\ Compare("evr_string", op, d, s) = CompareEvrString(op, d, s)
         /\ Compare("ipv4_address", op, d, s) = CompareIpv4Address(op, d, s)
         /\ Compare("ipv6_address", op, d, s) = CompareIpv6Address(op, d, s)
BY DEF Compare

LEMMA Integers ==
  ASSUME AnalyzedValues
  PROVE  IntegersAreOrdered
<1> DEFINE def == entity.part.value
           sc == scElement.value
           op == entity.part.operation
           d == def[1][1]
           s == sc[1][1]
<1> SUFFICES ASSUME Plain({"int"}), op \in Ordering, Usable(d), Usable(s), ~Wraps(d, s)
    PROVE  Follows(SenseOf(s < d, s > d))
  BY DEF IntegersAreOrdered
<1>1. def \in Value /\ sc \in Value /\ entity.part.datatype = "int" /\ IsParsed("int", def) /\ IsParsed("int", sc)
      /\ comparison = Caught(Compare("int", op, def, sc)) /\ def # <<>> /\ sc # <<>>
  BY ValuesAre DEF Plain
<1>2. Len(def) = 1 /\ Len(def[1]) = 1 /\ Len(sc) = 1 /\ Len(sc[1]) = 1
  BY <1>1 DEF IsParsed
<1>3. def = <<def[1]>> /\ def[1] \in Seq(Int) /\ sc = <<sc[1]>> /\ sc[1] \in Seq(Int)
  BY <1>1, <1>2, OneElement DEF Value
<1>4. def[1] = <<d>> /\ d \in Int /\ sc[1] = <<s>> /\ s \in Int
  BY <1>2, <1>3, OneElement
<1> HIDE DEF d, s
<1>5. def = <<<<d>>>> /\ sc = <<<<s>>>>
  BY <1>3, <1>4, Zenon
<1>6. comparison = Caught(CompareInteger(op, <<<<d>>>>, <<<<s>>>>))
  BY <1>1, <1>5, CompareIs, SMTT(30)
<1>7. comparison = Caught(ByOrder(op, SenseOf(s < d, s > d)))
  BY <1>4, <1>6, IntegersFollow
<1>8. (s < d) \in BOOLEAN /\ (s > d) \in BOOLEAN
  OBVIOUS
<1> QED
  BY <1>7, <1>8, FollowsByOrder

LEMMA Versions ==
  ASSUME AnalyzedValues
  PROVE  VersionsAreOrdered
<1> DEFINE def == entity.part.value[1]
           sc == scElement.value[1]
           op == entity.part.operation
           base   == 1 + SetsExt!Max(Occurring(def) \cup Occurring(sc))
           length == Len(def) + Len(sc)
           d      == VersionNumber(def, base, length)
           s      == VersionNumber(sc, base, length)
<1> SUFFICES ASSUME Plain({"version"}), op \in Ordering, ComponentsFit(def), ComponentsFit(sc)
    PROVE  Follows(SenseOf(s < d, s > d))
  BY DEF VersionsAreOrdered, FollowsVersions
<1>1. /\ entity.part.value \in Value /\ scElement.value \in Value /\ entity.part.datatype = "version"
      /\ IsParsed("version", entity.part.value) /\ IsParsed("version", scElement.value)
      /\ comparison = Caught(Compare("version", op, entity.part.value, scElement.value))
      /\ entity.part.value # <<>> /\ scElement.value # <<>>
  BY ValuesAre DEF Plain
<1>2. Len(entity.part.value) = 1 /\ Len(scElement.value) = 1 /\ def \in Components /\ sc \in Components
  BY <1>1 DEF IsParsed
<1>3. entity.part.value = <<def>> /\ scElement.value = <<sc>>
  BY <1>1, <1>2, OneElement DEF Value
<1>4. comparison = Caught(CompareVersion(op, <<def>>, <<sc>>))
  BY <1>1, <1>3, CompareIs
<1> HIDE DEF def, sc, base, length, d, s
<1>5. comparison = Caught(ByOrder(op, SenseOf(s < d, s > d)))
  <2>1. base = 1 + SetsExt!Max(Occurring(def) \cup Occurring(sc)) /\ length = Len(def) + Len(sc)
        /\ d = VersionNumber(def, base, length) /\ s = VersionNumber(sc, base, length)
    BY DEF base, length, d, s
  <2> QED
    BY <1>2, <1>4, <2>1, VersionsFollow
<1>6. (s < d) \in BOOLEAN /\ (s > d) \in BOOLEAN
  OBVIOUS
<1> QED
  BY <1>5, <1>6, FollowsByOrder

LEMMA Packages ==
  ASSUME AnalyzedValues
  PROVE  PackagesAreOrdered
<1> DEFINE d == entity.part.value
           s == scElement.value
           op == entity.part.operation
<1> SUFFICES ASSUME Plain({"evr_string"}), op \in Ordering,
                    EpochFits(d[1][1]), EpochFits(s[1][1]),
                    \A k \in {2, 3} : EndsInSegment(d[k]) /\ EndsInSegment(s[k])
    PROVE  Follows(SenseOf(OlderPackage(s, d), OlderPackage(d, s)))
  BY DEF PackagesAreOrdered
<1>1. /\ d \in Value /\ s \in Value /\ entity.part.datatype = "evr_string"
      /\ IsParsed("evr_string", d) /\ IsParsed("evr_string", s)
      /\ comparison = Caught(Compare("evr_string", op, d, s)) /\ d # <<>> /\ s # <<>>
  BY ValuesAre DEF Plain
<1>2. comparison = Caught(ByOrder(op, SenseOf(OlderPackage(s, d), OlderPackage(d, s))))
  BY <1>1, CompareIs, PackagesFollow
<1>3. OlderPackage(s, d) \in BOOLEAN /\ OlderPackage(d, s) \in BOOLEAN
  BY OlderIsSaid
<1> QED
  BY <1>2, <1>3, FollowsByOrder

LEMMA Prefixes ==
  ASSUME AnalyzedValues
  PROVE  PrefixesAreSets
<1> DEFINE d == entity.part.value
           s == scElement.value
           op == entity.part.operation
           defined == AddressesOf(d)
           actual == AddressesOf(s)
<1> SUFFICES ASSUME Plain({"ipv4_address", "ipv6_address"})
    PROVE  IF ~(IsAddress(d) /\ IsAddress(s)) THEN comparison = "error"
           ELSE BySet(op, defined, actual, comparison)
  BY DEF PrefixesAreSets
<1>1. /\ IsParsed(entity.part.datatype, d) /\ IsParsed(entity.part.datatype, s)
      /\ entity.part.datatype \in {"ipv4_address", "ipv6_address"}
      /\ comparison = Caught(Compare(entity.part.datatype, op, d, s)) /\ d # <<>> /\ s # <<>>
  BY ValuesAre DEF Plain
<1>2. CASE entity.part.datatype = "ipv4_address"
  <2>1. /\ IsAddress(d) = IsIpv4Address(d) /\ IsAddress(s) = IsIpv4Address(s)
        /\ comparison = Caught(CompareIpv4Address(op, d, s))
        /\ IsParsed("ipv4_address", d) /\ IsParsed("ipv4_address", s)
    BY <1>1, <1>2, CompareIs DEF IsAddress
  <2>2. CASE ~(IsAddress(d) /\ IsAddress(s))
    BY <2>1, <2>2 DEF CompareIpv4Address, Caught
  <2>3. CASE IsAddress(d) /\ IsAddress(s)
    <3> DEFINE W == AddressBits
               z == Size4(d)
               n == d[1][1]
               y == Size4(s)
               m == s[1][1]
    <3>1. W \in Nat /\ IsSize(W, z) /\ IsNumeric(W, n) /\ IsSize(W, y) /\ IsNumeric(W, m)
      BY <2>1, <2>3, Ipv4Is
    <3>2. ByNumber(op, W, z, n, y, m, comparison)
      BY <2>1, <2>3, Ipv4Follows
    <3>3. BySet(op, Block(W, z, n), Block(W, y, m), comparison)
      BY <3>1, <3>2, NumberOrSet
    <3>4. ASSUME NEW v, IsParsed("ipv4_address", v), IsIpv4Address(v)
          PROVE  AddressesOf(v) = Block(W, Size4(v), v[1][1])
      <4>1. Width(v) = W /\ AsNumber(v) = v[1][1]
        BY <1>2 DEF Width, AsNumber
      <4>2. SizeOf(v) = Size4(v)
        <5>1. CASE v[2] = <<>>
          BY <4>1, <5>1 DEF SizeOf, Size4
        <5>2. CASE v[2] # <<>> /\ Len(v[2]) = 1
          BY <5>2 DEF SizeOf, Size4
        <5>3. CASE v[2] # <<>> /\ Len(v[2]) # 1
          <6>1. IsPrefixMask(v[2][2])
            BY <3>4, <5>3 DEF IsIpv4Address
          <6>2. Cardinality(Ones(v[2][2])) = MaskSize(v[2][2])
            BY <6>1, MaskSizeIs
          <6> QED
            BY <5>3, <6>2 DEF SizeOf, Size4, Ones
        <5> QED
          BY <5>1, <5>2, <5>3
      <4> QED
        BY <4>1, <4>2 DEF AddressesOf, Block
    <3>5. defined = Block(W, z, n) /\ actual = Block(W, y, m)
      BY <2>1, <2>3, <3>4
    <3> QED
      BY <2>3, <3>3, <3>5
  <2> QED
    BY <2>2, <2>3
<1>3. CASE entity.part.datatype = "ipv6_address"
  <2>1. /\ IsAddress(d) = IsIpv6Address(d) /\ IsAddress(s) = IsIpv6Address(s)
        /\ comparison = Caught(CompareIpv6Address(op, d, s))
        /\ IsParsed("ipv6_address", d) /\ IsParsed("ipv6_address", s)
    BY <1>1, <1>3, CompareIs DEF IsAddress
  <2>2. CASE ~(IsAddress(d) /\ IsAddress(s))
    BY <2>1, <2>2 DEF CompareIpv6Address, Caught
  <2>3. CASE IsAddress(d) /\ IsAddress(s)
    <3> DEFINE W == Width6
               z == Size6(d)
               n == Number6(d[1])
               y == Size6(s)
               m == Number6(s[1])
    <3>1. W \in Nat /\ IsSize(W, z) /\ IsNumeric(W, n) /\ IsSize(W, y) /\ IsNumeric(W, m)
      BY <2>1, <2>3, Ipv6Is
    <3>2. ByNumber(op, W, z, n, y, m, comparison)
      BY <2>1, <2>3, Ipv6Follows
    <3>3. BySet(op, Block(W, z, n), Block(W, y, m), comparison)
      BY <3>1, <3>2, NumberOrSet
    <3>4. ASSUME NEW v, IsParsed("ipv6_address", v), IsIpv6Address(v)
          PROVE  AddressesOf(v) = Block(W, Size6(v), Number6(v[1]))
      <4>1. Width(v) = W /\ AsNumber(v) = Number6(v[1])
        BY <1>3 DEF Width, AsNumber, Width6, Number6
      <4>2. SizeOf(v) = Size6(v)
        <5>1. CASE v[2] = <<>>
          BY <4>1, <5>1 DEF SizeOf, Size6
        <5>2. CASE v[2] # <<>>
          <6>1. v[2] \in Seq(Nat) /\ Len(v[2]) <= 1
            BY <3>4 DEF IsParsed
          <6>2. Len(v[2]) = 1
            BY <5>2, <6>1, NoneOrOne
          <6> QED
            BY <5>2, <6>2 DEF SizeOf, Size6
        <5> QED
          BY <5>1, <5>2
      <4> QED
        BY <4>1, <4>2 DEF AddressesOf, Block
    <3>5. defined = Block(W, z, n) /\ actual = Block(W, y, m)
      BY <2>1, <2>3, <3>4
    <3> QED
      BY <2>3, <3>3, <3>5
  <2> QED
    BY <2>2, <2>3
<1> QED
  BY <1>1, <1>2, <1>3

\* Integers, versions, packages and prefixes are compared as the numbers, lists and
\* sets they are, as long as integers fit one of the two types, components of versions
\* long long and epochs int (EntityComparator.cpp:631-1327).
THEOREM EntityValuesAreOrdered == EntitySpec => []ValuesAreOrdered
<1>1. AnalyzedValues => ValuesAreOrdered
  BY Integers, Versions, Packages, Prefixes DEF ValuesAreOrdered
<1> QED
  BY <1>1, ValuesAreAnalyzed, PTL
=============================================================================
