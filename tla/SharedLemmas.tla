---------------------------- MODULE SharedLemmas ----------------------------
(***************************************************************************)
(* What the proofs of several components use.  Call stacks are sequences    *)
(* whose last element is the call that runs: what returning, continuing and *)
(* calling do to such a sequence.  And the tables of OvalEnum are the charts *)
(* of the OVAL schema, for vectors of results of any length.                *)
(***************************************************************************)
EXTENDS OvalEnum, OvalTables, Integers, SequenceTheorems, FiniteSetTheorems,
  WellFoundedInduction, TLAPS

\* Of some numbers one is the least.
LEMMA LeastNumber ==
  ASSUME NEW T, T \subseteq Nat, T # {}
  PROVE  \E m \in T : \A n \in T : m <= n
<1>1. PICK m \in T : \A n \in T : ~ (<<n, m>> \in OpToRel(<, Nat))
  BY NatLessThanWellFounded, WFMin
<1>2. \A n \in T : ~ (n < m)
  BY <1>1 DEF OpToRel
<1> QED
  BY <1>2

\* Induction, for what can be said as a set of numbers.
LEMMA SetInduction ==
  ASSUME NEW T, 0 \in T, \A n \in Nat : n \in T => n + 1 \in T
  PROVE  Nat \subseteq T
<1> SUFFICES ASSUME NEW k \in Nat, k \notin T PROVE FALSE
  OBVIOUS
<1> DEFINE missing == {n \in Nat : n \notin T}
<1>1. PICK m \in missing : \A n \in missing : m <= n
  <2>1. missing \subseteq Nat /\ missing # {}
    OBVIOUS
  <2> HIDE DEF missing
  <2> QED
    BY <2>1, LeastNumber
<1>2. m # 0 /\ m - 1 \in Nat /\ m - 1 \notin missing
  BY <1>1
<1> QED
  BY <1>2

\* What is defined from one number to the next exists.
StepTables(S, N) == [(1 .. N) \X S -> S]
Unfolds(f, start, N, step) == f[0] = start /\ \A i \in 1 .. N : f[i] = step[<<i, f[i - 1]>>]

LEMMA StepByStep ==
  ASSUME NEW S, NEW start \in S, NEW N \in Nat, NEW step \in StepTables(S, N)
  PROVE  \E f \in [0 .. N -> S] : Unfolds(f, start, N, step)
<1>0. step \in [(1 .. N) \X S -> S]
  BY DEF StepTables
<1> DEFINE Is(f, n) == /\ f \in [0 .. n -> S] /\ f[0] = start
                       /\ \A i \in 1 .. n : f[i] = step[<<i, f[i - 1]>>]
           T == {n \in Nat : n > N \/ \E f \in [0 .. n -> S] : Is(f, n)}
<1>1. 0 \in T
  <2>1. Is([i \in 0 .. 0 |-> start], 0)
    OBVIOUS
  <2> QED
    BY <2>1
<1>2. ASSUME NEW n \in Nat, n \in T PROVE n + 1 \in T
  <2>1. CASE n + 1 > N
    BY <2>1
  <2>2. CASE n + 1 <= N
    <3>1. PICK f \in [0 .. n -> S] : Is(f, n)
      BY <1>2, <2>2
    <3> DEFINE g == [i \in 0 .. n + 1 |-> IF i <= n THEN f[i] ELSE step[<<i, f[n]>>]]
    <3>2. f[n] \in S /\ <<n + 1, f[n]>> \in (1 .. N) \X S
      BY <2>2
    <3>3. g \in [0 .. n + 1 -> S] /\ g[n + 1] = step[<<n + 1, f[n]>>]
      BY <1>0, <2>2, <3>2
    <3>4. \A i \in 0 .. n : g[i] = f[i]
      OBVIOUS
    <3> HIDE DEF g
    <3>5. \A i \in 1 .. n + 1 : g[i] = step[<<i, g[i - 1]>>]
      <4> TAKE i \in 1 .. n + 1
      <4>1. CASE i <= n
        BY <3>1, <3>4, <4>1
      <4>2. CASE i = n + 1
        BY <3>3, <3>4, <4>2
      <4> QED
        BY <4>1, <4>2
    <3> QED
      BY <3>1, <3>3, <3>4, <3>5
  <2> QED
    BY <2>1, <2>2
<1> HIDE DEF T
<1>3. N \in T
  BY <1>1, <1>2, SetInduction
<1> QED
  BY <1>3 DEF T, Unfolds

-----------------------------------------------------------------------------
\* The last element of a sequence goes, is replaced, or gets one above it.
LEMMA PopFacts ==
  ASSUME NEW S, NEW s \in Seq(S), s # <<>>
  PROVE  /\ SubSeq(s, 1, Len(s) - 1) \in Seq(S)
         /\ Len(SubSeq(s, 1, Len(s) - 1)) = Len(s) - 1
         /\ \A i \in 1..(Len(s) - 1) : SubSeq(s, 1, Len(s) - 1)[i] = s[i]
<1> DEFINE k == Len(s) - 1
<1>1. k \in Nat /\ k \in Int /\ 1 \in Int
  OBVIOUS
<1>2. \A i \in 1..k : s[i] \in S
  OBVIOUS
<1> HIDE DEF k
<1>3. /\ SubSeq(s, 1, k) \in Seq(S)
      /\ Len(SubSeq(s, 1, k)) = IF 1 <= k THEN k - 1 + 1 ELSE 0
      /\ \A i \in 1..(k - 1 + 1) : SubSeq(s, 1, k)[i] = s[1 + i - 1]
  BY <1>1, <1>2, SubSeqProperties, Z3
<1>4. /\ SubSeq(s, 1, k) \in Seq(S)
      /\ Len(SubSeq(s, 1, k)) = k
      /\ \A i \in 1..k : SubSeq(s, 1, k)[i] = s[i]
  BY <1>1, <1>3
<1> QED
  BY <1>4 DEF k

LEMMA ReplaceFacts ==
  ASSUME NEW S, NEW s \in Seq(S), s # <<>>, NEW x \in S,
         NEW t, t = [s EXCEPT ![Len(s)] = x]
  PROVE  /\ t \in Seq(S)
         /\ Len(t) = Len(s)
         /\ t[Len(s)] = x
         /\ \A i \in 1..(Len(s) - 1) : t[i] = s[i]
BY ONLY s \in Seq(S), s # <<>>, x \in S, t = [s EXCEPT ![Len(s)] = x]

LEMMA PushFacts ==
  ASSUME NEW S, NEW s \in Seq(S), s # <<>>, NEW x \in S, NEW y \in S,
         NEW t, t = Append([s EXCEPT ![Len(s)] = x], y)
  PROVE  /\ t \in Seq(S)
         /\ Len(t) = Len(s) + 1
         /\ t[Len(s)] = x
         /\ t[Len(s) + 1] = y
         /\ \A i \in 1..(Len(s) - 1) : t[i] = s[i]
<1> DEFINE r == [s EXCEPT ![Len(s)] = x]
<1>1. /\ r \in Seq(S)
      /\ Len(r) = Len(s)
      /\ r[Len(s)] = x
      /\ \A i \in 1..(Len(s) - 1) : r[i] = s[i]
  BY ReplaceFacts
<1>2. t = Append(r, y)
  OBVIOUS
<1> HIDE DEF r
<1> QED
  BY <1>1, <1>2

-----------------------------------------------------------------------------
\* The value of a chart is that of any row the vector falls under, if these agree.
LEMMA ChartValueIs ==
  ASSUME NEW chart, NEW columns, NEW vec, NEW row \in MatchingRows(chart, columns, vec),
         \A r \in MatchingRows(chart, columns, vec) :
           r[Len(columns) + 1] = row[Len(columns) + 1]
  PROVE  ChartValue(chart, columns, vec) = row[Len(columns) + 1]
BY DEF ChartValue

LEMMA ResultRows ==
  ASSUME NEW chart, NEW vec, NEW row
  PROVE  row \in MatchingRows(chart, ResultColumns, vec) <=>
           /\ row \in chart
           /\ MatchesPattern(Occurrences(vec, "true"), row[1])
           /\ MatchesPattern(Occurrences(vec, "false"), row[2])
           /\ MatchesPattern(Occurrences(vec, "error"), row[3])
           /\ MatchesPattern(Occurrences(vec, "unknown"), row[4])
           /\ MatchesPattern(Occurrences(vec, "not evaluated"), row[5])
           /\ MatchesPattern(Occurrences(vec, "not applicable"), row[6])
<1> DEFINE Fits(c) == MatchesPattern(Occurrences(vec, ResultColumns[c]), row[c])
<1>1. DOMAIN ResultColumns = {1, 2, 3, 4, 5, 6}
  BY DEF ResultColumns
<1>2. row \in MatchingRows(chart, ResultColumns, vec) <=>
        row \in chart /\ \A c \in {1, 2, 3, 4, 5, 6} : Fits(c)
  BY <1>1 DEF MatchingRows
<1>3. /\ ResultColumns[1] = "true" /\ ResultColumns[2] = "false"
      /\ ResultColumns[3] = "error" /\ ResultColumns[4] = "unknown"
      /\ ResultColumns[5] = "not evaluated" /\ ResultColumns[6] = "not applicable"
  BY DEF ResultColumns
<1>4. (\A c \in {1, 2, 3, 4, 5, 6} : Fits(c)) <=>
        Fits(1) /\ Fits(2) /\ Fits(3) /\ Fits(4) /\ Fits(5) /\ Fits(6)
  <2> HIDE DEF Fits
  <2> QED
    BY Zenon
<1> QED
  BY <1>2, <1>3, <1>4, Zenon

LEMMA ResultValueColumn == Len(ResultColumns) + 1 = 7
BY DEF ResultColumns

\* The result of a chart, when one row fits.
LEMMA ChartResultIs ==
  ASSUME NEW chart, NEW vec, NEW row \in MatchingRows(chart, ResultColumns, vec),
         NotApplicableRow \notin MatchingRows(chart, ResultColumns, vec),
         \A r \in MatchingRows(chart, ResultColumns, vec) : r = row
  PROVE  ChartResult(chart, vec) = row[7]
BY ResultValueColumn, ChartValueIs DEF ChartResult

LEMMA CountFacts ==
  ASSUME NEW S, NEW vec \in Seq(S), NEW x
  PROVE  /\ Count(vec, x) = Occurrences(vec, x)
         /\ Count(vec, x) \in Nat
         /\ x \in Occurring(vec) <=> Count(vec, x) >= 1
<1> DEFINE At == {i \in DOMAIN vec : vec[i] = x}
<1>1. Count(vec, x) = Cardinality(At) /\ Occurrences(vec, x) = Cardinality(At)
  BY DEF Count, Occurrences
<1>2. IsFiniteSet(At)
  <2>1. DOMAIN vec = 1 .. Len(vec) /\ Len(vec) \in Nat
    OBVIOUS
  <2>2. IsFiniteSet(DOMAIN vec)
    BY <2>1, FS_Interval
  <2> QED
    BY <2>2, FS_Subset
<1>3. x \in Occurring(vec) <=> At # {}
  BY DEF Occurring
<1> HIDE DEF At
<1>4. Cardinality(At) \in Nat /\ (Cardinality(At) = 0 <=> At = {})
  BY <1>2, FS_CardinalityType, FS_EmptySet
<1> QED
  BY <1>1, <1>3, <1>4

\* What the patterns say of a value: whether it occurs, and how often.
LEMMA PatternMeans ==
  ASSUME NEW S, NEW vec \in Seq(S), NEW x
  PROVE  /\ MatchesPattern(Occurrences(vec, x), "0") <=> x \notin Occurring(vec)
         /\ MatchesPattern(Occurrences(vec, x), "0+")
         /\ MatchesPattern(Occurrences(vec, x), "1+") <=> x \in Occurring(vec)
<1> DEFINE n == Count(vec, x)
<1>1. n \in Nat /\ Occurrences(vec, x) = n /\ (x \in Occurring(vec) <=> n >= 1)
  BY CountFacts
<1> HIDE DEF n
<1>2. /\ MatchesPattern(n, "0") <=> n = 0
      /\ MatchesPattern(n, "0+")
      /\ MatchesPattern(n, "1+") <=> n >= 1
  BY <1>1 DEF MatchesPattern
<1>3. n = 0 <=> x \notin Occurring(vec)
  BY <1>1
<1> QED
  BY <1>1, <1>2, <1>3

LEMMA CountPatternMeans ==
  ASSUME NEW S, NEW vec \in Seq(S), NEW x
  PROVE  /\ MatchesPattern(Occurrences(vec, x), "1") <=> Count(vec, x) = 1
         /\ MatchesPattern(Occurrences(vec, x), "0,1") <=> ~(Count(vec, x) > 1)
         /\ MatchesPattern(Occurrences(vec, x), "2+") <=> Count(vec, x) > 1
         /\ MatchesPattern(Occurrences(vec, x), "odd") <=> Count(vec, x) % 2 = 1
         /\ MatchesPattern(Occurrences(vec, x), "even") <=> Count(vec, x) % 2 = 0
         /\ Count(vec, x) = 0 <=> x \notin Occurring(vec)
         /\ x \in Occurring(vec) <=> Count(vec, x) = 1 \/ Count(vec, x) > 1
         /\ ~(Count(vec, x) = 1 /\ Count(vec, x) > 1)
         /\ Count(vec, x) % 2 = 1 => x \in Occurring(vec)
         /\ Count(vec, x) % 2 = 1 <=> Count(vec, x) % 2 # 0
<1> DEFINE n == Count(vec, x)
<1>1. n \in Nat /\ Occurrences(vec, x) = n /\ (x \in Occurring(vec) <=> n >= 1)
  BY CountFacts
<1> HIDE DEF n
<1>2. /\ MatchesPattern(n, "1") <=> n = 1
      /\ MatchesPattern(n, "0,1") <=> ~(n > 1)
      /\ MatchesPattern(n, "2+") <=> n > 1
      /\ MatchesPattern(n, "odd") <=> n % 2 = 1
      /\ MatchesPattern(n, "even") <=> n % 2 = 0
  BY <1>1 DEF MatchesPattern
<1>3. /\ n = 0 <=> x \notin Occurring(vec)
      /\ x \in Occurring(vec) <=> n = 1 \/ n > 1
      /\ ~(n = 1 /\ n > 1)
      /\ n % 2 = 1 => x \in Occurring(vec)
      /\ n % 2 = 1 <=> n % 2 # 0
  BY <1>1
<1> QED
  BY <1>1, <1>2, <1>3 DEF n

LEMMA TrivialFacts ==
  ASSUME NEW vec \in Seq(Results), vec # <<>>
  PROVE  /\ Occurring(vec) \subseteq Results /\ Occurring(vec) # {}
         /\ Trivial(Occurring(vec)) <=>
              Occurring(vec) \cap {"true", "false", "error", "unknown", "not evaluated"} = {}
         /\ Trivial(Occurring(vec)) => "not applicable" \in Occurring(vec)
         /\ Trivial(Occurring(vec)) => TrivialResult(Occurring(vec)) = "not applicable"
<1>1. Occurring(vec) \subseteq Results /\ Occurring(vec) # {}
  <2>1. 1 \in DOMAIN vec /\ \A i \in DOMAIN vec : vec[i] \in Results
    OBVIOUS
  <2> QED
    BY <2>1, Zenon DEF Occurring
<1> QED
  BY <1>1 DEF Trivial, TrivialResult, Results

\* Each chart is the condition that makes the combination true, the one that makes it
\* false, and the precedence of the rest.
LEMMA AllAgrees ==
  ASSUME NEW vec \in Seq(Results), vec # <<>>
  PROVE  (IF Trivial(Occurring(vec)) THEN TrivialResult(Occurring(vec))
          ELSE Decide(Occurring(vec) \cap Undecided = {} /\ "false" \notin Occurring(vec),
                      "false" \in Occurring(vec), Occurring(vec)))
         = ChartResult(AllChart, vec)
<1> DEFINE occ == Occurring(vec)
           M == MatchingRows(AllChart, ResultColumns, vec)
           R1 == <<"1+", "0", "0", "0", "0", "0+", "true">>
           R2 == <<"0+", "1+", "0+", "0+", "0+", "0+", "false">>
           R3 == <<"0+", "0", "1+", "0+", "0+", "0+", "error">>
           R4 == <<"0+", "0", "0", "1+", "0+", "0+", "unknown">>
           R5 == <<"0+", "0", "0", "0", "1+", "0+", "not evaluated">>
           NA == NotApplicableRow
<1>1. AllChart = {R1, R2, R3, R4, R5, NA} /\ M \subseteq AllChart
  BY DEF AllChart, NotApplicableRow, MatchingRows
<1>2. \A row \in AllChart : row \in M <=>
        /\ MatchesPattern(Occurrences(vec, "true"), row[1])
        /\ MatchesPattern(Occurrences(vec, "false"), row[2])
        /\ MatchesPattern(Occurrences(vec, "error"), row[3])
        /\ MatchesPattern(Occurrences(vec, "unknown"), row[4])
        /\ MatchesPattern(Occurrences(vec, "not evaluated"), row[5])
        /\ MatchesPattern(Occurrences(vec, "not applicable"), row[6])
  BY ResultRows, Zenon
<1> HIDE DEF M
<1>3. /\ R1 \in M <=> /\ "true" \in occ /\ "false" \notin occ /\ "error" \notin occ
                      /\ "unknown" \notin occ /\ "not evaluated" \notin occ
      /\ R2 \in M <=> "false" \in occ
      /\ R3 \in M <=> "false" \notin occ /\ "error" \in occ
      /\ R4 \in M <=> /\ "false" \notin occ /\ "error" \notin occ /\ "unknown" \in occ
      /\ R5 \in M <=> /\ "false" \notin occ /\ "error" \notin occ /\ "unknown" \notin occ
                      /\ "not evaluated" \in occ
      /\ NA \in M <=> /\ "true" \notin occ /\ "false" \notin occ /\ "error" \notin occ
                      /\ "unknown" \notin occ /\ "not evaluated" \notin occ /\ "not applicable" \in occ
  BY <1>1, <1>2, PatternMeans DEF NotApplicableRow
<1>4. /\ R1[7] = "true" /\ R2[7] = "false" /\ R3[7] = "error" /\ R4[7] = "unknown"
      /\ R5[7] = "not evaluated"
      /\ NA \notin {R1, R2, R3, R4, R5}
  BY DEF NotApplicableRow
<1> HIDE DEF R1, R2, R3, R4, R5, NA, occ
<1>5. \A r1, r2 \in M : r1 = r2
  BY <1>1, <1>3
<1>6. /\ R1 \in M => ChartResult(AllChart, vec) = "true"
      /\ R2 \in M => ChartResult(AllChart, vec) = "false"
      /\ R3 \in M => ChartResult(AllChart, vec) = "error"
      /\ R4 \in M => ChartResult(AllChart, vec) = "unknown"
      /\ R5 \in M => ChartResult(AllChart, vec) = "not evaluated"
      /\ NA \in M => ChartResult(AllChart, vec) = "not applicable"
  BY <1>4, <1>5, ChartResultIs, Zenon DEF M, ChartResult, NA
<1>7. /\ Trivial(occ) <=> occ \cap {"true", "false", "error", "unknown", "not evaluated"} = {}
      /\ Trivial(occ) => "not applicable" \in occ /\ TrivialResult(occ) = "not applicable"
  BY TrivialFacts DEF occ
<1> QED
  BY <1>3, <1>6, <1>7 DEF Decide, Precedence, Undecided, occ

LEMMA AtLeastOneAgrees ==
  ASSUME NEW vec \in Seq(Results), vec # <<>>
  PROVE  (IF Trivial(Occurring(vec)) THEN TrivialResult(Occurring(vec))
          ELSE Decide("true" \in Occurring(vec),
                      Occurring(vec) \cap Undecided = {} /\ "true" \notin Occurring(vec), Occurring(vec)))
         = ChartResult(AtLeastOneChart, vec)
<1> DEFINE occ == Occurring(vec)
           M == MatchingRows(AtLeastOneChart, ResultColumns, vec)
           R1 == <<"1+", "0+", "0+", "0+", "0+", "0+", "true">>
           R2 == <<"0", "1+", "0", "0", "0", "0+", "false">>
           R3 == <<"0", "0+", "1+", "0+", "0+", "0+", "error">>
           R4 == <<"0", "0+", "0", "1+", "0+", "0+", "unknown">>
           R5 == <<"0", "0+", "0", "0", "1+", "0+", "not evaluated">>
           NA == NotApplicableRow
<1>1. AtLeastOneChart = {R1, R2, R3, R4, R5, NA} /\ M \subseteq AtLeastOneChart
  BY DEF AtLeastOneChart, NotApplicableRow, MatchingRows
<1>2. \A row \in AtLeastOneChart : row \in M <=>
        /\ MatchesPattern(Occurrences(vec, "true"), row[1])
        /\ MatchesPattern(Occurrences(vec, "false"), row[2])
        /\ MatchesPattern(Occurrences(vec, "error"), row[3])
        /\ MatchesPattern(Occurrences(vec, "unknown"), row[4])
        /\ MatchesPattern(Occurrences(vec, "not evaluated"), row[5])
        /\ MatchesPattern(Occurrences(vec, "not applicable"), row[6])
  BY ResultRows, Zenon
<1> HIDE DEF M
<1>3. /\ R1 \in M <=> "true" \in occ
      /\ R2 \in M <=> /\ "true" \notin occ /\ "false" \in occ /\ "error" \notin occ
                      /\ "unknown" \notin occ /\ "not evaluated" \notin occ
      /\ R3 \in M <=> "true" \notin occ /\ "error" \in occ
      /\ R4 \in M <=> /\ "true" \notin occ /\ "error" \notin occ /\ "unknown" \in occ
      /\ R5 \in M <=> /\ "true" \notin occ /\ "error" \notin occ /\ "unknown" \notin occ
                      /\ "not evaluated" \in occ
      /\ NA \in M <=> /\ "true" \notin occ /\ "false" \notin occ /\ "error" \notin occ
                      /\ "unknown" \notin occ /\ "not evaluated" \notin occ /\ "not applicable" \in occ
  BY <1>1, <1>2, PatternMeans DEF NotApplicableRow
<1>4. /\ R1[7] = "true" /\ R2[7] = "false" /\ R3[7] = "error" /\ R4[7] = "unknown"
      /\ R5[7] = "not evaluated"
      /\ NA \notin {R1, R2, R3, R4, R5}
  BY DEF NotApplicableRow
<1> HIDE DEF R1, R2, R3, R4, R5, NA, occ
<1>5. \A r1, r2 \in M : r1 = r2
  BY <1>1, <1>3
<1>6. /\ R1 \in M => ChartResult(AtLeastOneChart, vec) = "true"
      /\ R2 \in M => ChartResult(AtLeastOneChart, vec) = "false"
      /\ R3 \in M => ChartResult(AtLeastOneChart, vec) = "error"
      /\ R4 \in M => ChartResult(AtLeastOneChart, vec) = "unknown"
      /\ R5 \in M => ChartResult(AtLeastOneChart, vec) = "not evaluated"
      /\ NA \in M => ChartResult(AtLeastOneChart, vec) = "not applicable"
  BY <1>4, <1>5, ChartResultIs, Zenon DEF M, ChartResult, NA
<1>7. /\ Trivial(occ) <=> occ \cap {"true", "false", "error", "unknown", "not evaluated"} = {}
      /\ Trivial(occ) => "not applicable" \in occ /\ TrivialResult(occ) = "not applicable"
  BY TrivialFacts DEF occ
<1> QED
  BY <1>3, <1>6, <1>7 DEF Decide, Precedence, Undecided, occ

LEMMA NoneSatisfyAgrees ==
  ASSUME NEW vec \in Seq(Results), vec # <<>>
  PROVE  (IF Trivial(Occurring(vec)) THEN TrivialResult(Occurring(vec))
          ELSE Decide(Occurring(vec) \cap Undecided = {} /\ "true" \notin Occurring(vec),
                      "true" \in Occurring(vec), Occurring(vec)))
         = ChartResult(NoneSatisfyChart, vec)
<1> DEFINE occ == Occurring(vec)
           M == MatchingRows(NoneSatisfyChart, ResultColumns, vec)
           R1 == <<"0", "1+", "0", "0", "0", "0+", "true">>
           R2 == <<"1+", "0+", "0+", "0+", "0+", "0+", "false">>
           R3 == <<"0", "0+", "1+", "0+", "0+", "0+", "error">>
           R4 == <<"0", "0+", "0", "1+", "0+", "0+", "unknown">>
           R5 == <<"0", "0+", "0", "0", "1+", "0+", "not evaluated">>
           NA == NotApplicableRow
<1>1. NoneSatisfyChart = {R1, R2, R3, R4, R5, NA} /\ M \subseteq NoneSatisfyChart
  BY DEF NoneSatisfyChart, NotApplicableRow, MatchingRows
<1>2. \A row \in NoneSatisfyChart : row \in M <=>
        /\ MatchesPattern(Occurrences(vec, "true"), row[1])
        /\ MatchesPattern(Occurrences(vec, "false"), row[2])
        /\ MatchesPattern(Occurrences(vec, "error"), row[3])
        /\ MatchesPattern(Occurrences(vec, "unknown"), row[4])
        /\ MatchesPattern(Occurrences(vec, "not evaluated"), row[5])
        /\ MatchesPattern(Occurrences(vec, "not applicable"), row[6])
  BY ResultRows, Zenon
<1> HIDE DEF M
<1>3. /\ R1 \in M <=> /\ "true" \notin occ /\ "false" \in occ /\ "error" \notin occ
                      /\ "unknown" \notin occ /\ "not evaluated" \notin occ
      /\ R2 \in M <=> "true" \in occ
      /\ R3 \in M <=> "true" \notin occ /\ "error" \in occ
      /\ R4 \in M <=> /\ "true" \notin occ /\ "error" \notin occ /\ "unknown" \in occ
      /\ R5 \in M <=> /\ "true" \notin occ /\ "error" \notin occ /\ "unknown" \notin occ
                      /\ "not evaluated" \in occ
      /\ NA \in M <=> /\ "true" \notin occ /\ "false" \notin occ /\ "error" \notin occ
                      /\ "unknown" \notin occ /\ "not evaluated" \notin occ /\ "not applicable" \in occ
  BY <1>1, <1>2, PatternMeans DEF NotApplicableRow
<1>4. /\ R1[7] = "true" /\ R2[7] = "false" /\ R3[7] = "error" /\ R4[7] = "unknown"
      /\ R5[7] = "not evaluated"
      /\ NA \notin {R1, R2, R3, R4, R5}
  BY DEF NotApplicableRow
<1> HIDE DEF R1, R2, R3, R4, R5, NA, occ
<1>5. \A r1, r2 \in M : r1 = r2
  BY <1>1, <1>3
<1>6. /\ R1 \in M => ChartResult(NoneSatisfyChart, vec) = "true"
      /\ R2 \in M => ChartResult(NoneSatisfyChart, vec) = "false"
      /\ R3 \in M => ChartResult(NoneSatisfyChart, vec) = "error"
      /\ R4 \in M => ChartResult(NoneSatisfyChart, vec) = "unknown"
      /\ R5 \in M => ChartResult(NoneSatisfyChart, vec) = "not evaluated"
      /\ NA \in M => ChartResult(NoneSatisfyChart, vec) = "not applicable"
  BY <1>4, <1>5, ChartResultIs, Zenon DEF M, ChartResult, NA
<1>7. /\ Trivial(occ) <=> occ \cap {"true", "false", "error", "unknown", "not evaluated"} = {}
      /\ Trivial(occ) => "not applicable" \in occ /\ TrivialResult(occ) = "not applicable"
  BY TrivialFacts DEF occ
<1> QED
  BY <1>3, <1>6, <1>7 DEF Decide, Precedence, Undecided, occ

LEMMA OnlyOneAgrees ==
  ASSUME NEW vec \in Seq(Results), vec # <<>>
  PROVE  (IF Trivial(Occurring(vec)) THEN TrivialResult(Occurring(vec))
          ELSE Decide(Occurring(vec) \cap Undecided = {} /\ Count(vec, "true") = 1,
                      Count(vec, "true") > 1
                        \/ (Occurring(vec) \cap Undecided = {} /\ Count(vec, "true") = 0), Occurring(vec)))
         = ChartResult(OnlyOneChart, vec)
<1> DEFINE occ == Occurring(vec)
           M == MatchingRows(OnlyOneChart, ResultColumns, vec)
           One == Count(vec, "true") = 1
           Many == Count(vec, "true") > 1
           None == Count(vec, "true") = 0
           R1 == <<"1", "0+", "0", "0", "0", "0+", "true">>
           R2 == <<"2+", "0+", "0+", "0+", "0+", "0+", "false">>
           R3 == <<"0", "1+", "0", "0", "0", "0+", "false">>
           R4 == <<"0,1", "0+", "1+", "0+", "0+", "0+", "error">>
           R5 == <<"0,1", "0+", "0", "1+", "0+", "0+", "unknown">>
           R6 == <<"0,1", "0+", "0", "0", "1+", "0+", "not evaluated">>
           NA == NotApplicableRow
<1>1. OnlyOneChart = {R1, R2, R3, R4, R5, R6, NA} /\ M \subseteq OnlyOneChart
  BY DEF OnlyOneChart, NotApplicableRow, MatchingRows
<1>2. \A row \in OnlyOneChart : row \in M <=>
        /\ MatchesPattern(Occurrences(vec, "true"), row[1])
        /\ MatchesPattern(Occurrences(vec, "false"), row[2])
        /\ MatchesPattern(Occurrences(vec, "error"), row[3])
        /\ MatchesPattern(Occurrences(vec, "unknown"), row[4])
        /\ MatchesPattern(Occurrences(vec, "not evaluated"), row[5])
        /\ MatchesPattern(Occurrences(vec, "not applicable"), row[6])
  BY ResultRows, Zenon
<1>3. /\ MatchesPattern(Occurrences(vec, "true"), "1") <=> One
      /\ MatchesPattern(Occurrences(vec, "true"), "0,1") <=> ~Many
      /\ MatchesPattern(Occurrences(vec, "true"), "2+") <=> Many
      /\ "true" \in occ <=> One \/ Many
      /\ ~(One /\ Many)
      /\ "true" \notin occ <=> None
  BY CountPatternMeans, Zenon
<1> HIDE DEF M, One, Many, None
<1>4. /\ R1 \in M <=> /\ One /\ "error" \notin occ /\ "unknown" \notin occ
                      /\ "not evaluated" \notin occ
      /\ R2 \in M <=> Many
      /\ R3 \in M <=> /\ "true" \notin occ /\ "false" \in occ /\ "error" \notin occ
                      /\ "unknown" \notin occ /\ "not evaluated" \notin occ
      /\ R4 \in M <=> ~Many /\ "error" \in occ
      /\ R5 \in M <=> /\ ~Many /\ "error" \notin occ /\ "unknown" \in occ
      /\ R6 \in M <=> /\ ~Many /\ "error" \notin occ /\ "unknown" \notin occ
                      /\ "not evaluated" \in occ
      /\ NA \in M <=> /\ "true" \notin occ /\ "false" \notin occ /\ "error" \notin occ
                      /\ "unknown" \notin occ /\ "not evaluated" \notin occ /\ "not applicable" \in occ
  BY <1>1, <1>2, <1>3, PatternMeans DEF NotApplicableRow
<1>5. /\ R1[7] = "true" /\ R2[7] = "false" /\ R3[7] = "false" /\ R4[7] = "error"
      /\ R5[7] = "unknown" /\ R6[7] = "not evaluated"
      /\ NA \notin {R1, R2, R3, R4, R5, R6}
  BY DEF NotApplicableRow
<1> HIDE DEF R1, R2, R3, R4, R5, R6, NA, occ
<1>6. \A r1, r2 \in M : r1 = r2
  BY <1>1, <1>3, <1>4
<1>7. /\ R1 \in M => ChartResult(OnlyOneChart, vec) = "true"
      /\ R2 \in M => ChartResult(OnlyOneChart, vec) = "false"
      /\ R3 \in M => ChartResult(OnlyOneChart, vec) = "false"
      /\ R4 \in M => ChartResult(OnlyOneChart, vec) = "error"
      /\ R5 \in M => ChartResult(OnlyOneChart, vec) = "unknown"
      /\ R6 \in M => ChartResult(OnlyOneChart, vec) = "not evaluated"
      /\ NA \in M => ChartResult(OnlyOneChart, vec) = "not applicable"
  BY <1>5, <1>6, ChartResultIs, Zenon DEF M, ChartResult, NA
<1>8. /\ Trivial(occ) <=> occ \cap {"true", "false", "error", "unknown", "not evaluated"} = {}
      /\ Trivial(occ) => "not applicable" \in occ /\ TrivialResult(occ) = "not applicable"
  BY TrivialFacts DEF occ
<1> QED
  BY <1>3, <1>4, <1>7, <1>8 DEF Decide, Precedence, Undecided, occ, One, Many, None

LEMMA XorAgrees ==
  ASSUME NEW vec \in Seq(Results), vec # <<>>
  PROVE  (IF Trivial(Occurring(vec)) THEN TrivialResult(Occurring(vec))
          ELSE Decide(Occurring(vec) \cap Undecided = {} /\ Count(vec, "true") % 2 = 1,
                      Occurring(vec) \cap Undecided = {} /\ Count(vec, "true") % 2 = 0, Occurring(vec)))
         = ChartResult(XorChart, vec)
<1> DEFINE occ == Occurring(vec)
           M == MatchingRows(XorChart, ResultColumns, vec)
           Odd == Count(vec, "true") % 2 = 1
           Even == Count(vec, "true") % 2 = 0
           R1 == <<"odd", "0+", "0", "0", "0", "0+", "true">>
           R2 == <<"even", "0+", "0", "0", "0", "0+", "false">>
           R3 == <<"0+", "0+", "1+", "0+", "0+", "0+", "error">>
           R4 == <<"0+", "0+", "0", "1+", "0+", "0+", "unknown">>
           R5 == <<"0+", "0+", "0", "0", "1+", "0+", "not evaluated">>
           NA == NotApplicableRow
<1>1. XorChart = {R1, R2, R3, R4, R5, NA} /\ M \subseteq XorChart
  BY DEF XorChart, NotApplicableRow, MatchingRows
<1>2. \A row \in XorChart : row \in M <=>
        /\ MatchesPattern(Occurrences(vec, "true"), row[1])
        /\ MatchesPattern(Occurrences(vec, "false"), row[2])
        /\ MatchesPattern(Occurrences(vec, "error"), row[3])
        /\ MatchesPattern(Occurrences(vec, "unknown"), row[4])
        /\ MatchesPattern(Occurrences(vec, "not evaluated"), row[5])
        /\ MatchesPattern(Occurrences(vec, "not applicable"), row[6])
  BY ResultRows, Zenon
<1>3. /\ MatchesPattern(Occurrences(vec, "true"), "odd") <=> Odd
      /\ MatchesPattern(Occurrences(vec, "true"), "even") <=> Even
      /\ Odd => "true" \in occ
      /\ Odd <=> ~Even
  BY CountPatternMeans, Zenon
<1> HIDE DEF M, Odd, Even
<1>4. /\ R1 \in M <=> /\ Odd /\ "error" \notin occ /\ "unknown" \notin occ
                      /\ "not evaluated" \notin occ
      /\ R2 \in M <=> /\ Even /\ "error" \notin occ /\ "unknown" \notin occ
                      /\ "not evaluated" \notin occ
      /\ R3 \in M <=> "error" \in occ
      /\ R4 \in M <=> "error" \notin occ /\ "unknown" \in occ
      /\ R5 \in M <=> /\ "error" \notin occ /\ "unknown" \notin occ /\ "not evaluated" \in occ
      /\ NA \in M <=> /\ "true" \notin occ /\ "false" \notin occ /\ "error" \notin occ
                      /\ "unknown" \notin occ /\ "not evaluated" \notin occ /\ "not applicable" \in occ
  BY <1>1, <1>2, <1>3, PatternMeans DEF NotApplicableRow
<1>5. /\ R1[7] = "true" /\ R2[7] = "false" /\ R3[7] = "error" /\ R4[7] = "unknown"
      /\ R5[7] = "not evaluated"
      /\ NA \notin {R1, R2, R3, R4, R5}
  BY DEF NotApplicableRow
<1> HIDE DEF R1, R2, R3, R4, R5, NA, occ
<1>6. NA \notin M => \A r1, r2 \in M : r1 = r2
  BY <1>1, <1>3, <1>4
<1>7. ASSUME NA \notin M
      PROVE  /\ R1 \in M => ChartResult(XorChart, vec) = "true"
             /\ R2 \in M => ChartResult(XorChart, vec) = "false"
             /\ R3 \in M => ChartResult(XorChart, vec) = "error"
             /\ R4 \in M => ChartResult(XorChart, vec) = "unknown"
             /\ R5 \in M => ChartResult(XorChart, vec) = "not evaluated"
  BY <1>5, <1>6, <1>7, ChartResultIs, Zenon DEF M, NA
<1>8. NA \in M => ChartResult(XorChart, vec) = "not applicable"
  BY Zenon DEF M, ChartResult, NA
<1>9. /\ Trivial(occ) <=> occ \cap {"true", "false", "error", "unknown", "not evaluated"} = {}
      /\ Trivial(occ) => "not applicable" \in occ /\ TrivialResult(occ) = "not applicable"
  BY TrivialFacts DEF occ
<1> QED
  BY <1>3, <1>4, <1>7, <1>8, <1>9 DEF Decide, Precedence, Undecided, occ, Odd, Even

\* What the code combines is what the charts say, for vectors of any length.
LEMMA CheckMatchesChart ==
  ASSUME NEW vec \in Seq(Results), vec # <<>>, NEW check \in Checks, check # "none exist"
  PROVE  CombineResultsByCheck(vec, check) = ChartResult(CheckChart[check], vec)
<1>1. CASE check = "all"
  BY <1>1, AllAgrees DEF CombineResultsByCheck, CheckChart
<1>2. CASE check = "at least one"
  BY <1>2, AtLeastOneAgrees DEF CombineResultsByCheck, CheckChart
<1>3. CASE check = "none satisfy"
  BY <1>3, NoneSatisfyAgrees DEF CombineResultsByCheck, CheckChart
<1>4. CASE check = "only one"
  BY <1>4, OnlyOneAgrees DEF CombineResultsByCheck, CheckChart
<1> QED
  BY <1>1, <1>2, <1>3, <1>4 DEF Checks

LEMMA OperatorMatchesChart ==
  ASSUME NEW vec \in Seq(Results), vec # <<>>, NEW operator \in Operators
  PROVE  CombineResultsByOperator(vec, operator) = ChartResult(OperatorChart[operator], vec)
<1>1. CASE operator = "AND"
  BY <1>1, AllAgrees DEF CombineResultsByOperator, OperatorChart
<1>2. CASE operator = "OR"
  BY <1>2, AtLeastOneAgrees DEF CombineResultsByOperator, OperatorChart
<1>3. CASE operator = "ONE"
  BY <1>3, OnlyOneAgrees DEF CombineResultsByOperator, OperatorChart
<1>4. CASE operator = "XOR"
  BY <1>4, XorAgrees DEF CombineResultsByOperator, OperatorChart
<1> QED
  BY <1>1, <1>2, <1>3, <1>4 DEF Operators
=============================================================================
