------------------------ MODULE SetAndFunctionProofs ------------------------
(***************************************************************************)
(* The flag of a set object is sound for every universe of items and every  *)
(* tree of operators and filters, and the one of the charts of the schema   *)
(* but for five cells.  The flag of a function of a variable is the one of  *)
(* its chart for any number of components, and its values are those of the  *)
(* schema: one for every selection of the values of the components, at its  *)
(* place, the pieces of a value that make it up again, a text that is put   *)
(* before or after, a slice at every boundary.                              *)
(***************************************************************************)
EXTENDS CollectedSets, FunctionComponents, SharedLemmas

\* A prefix of a sequence.
LEMMA Prefix ==
  ASSUME NEW S, NEW s \in Seq(S), NEW k \in 0..Len(s)
  PROVE  /\ SubSeq(s, 1, k) \in Seq(S)
         /\ Len(SubSeq(s, 1, k)) = k
         /\ \A i \in 1..k : SubSeq(s, 1, k)[i] = s[i]
<1>1. \A i \in 1..k : s[i] \in S
  OBVIOUS
<1>2. k \in Int /\ 1 \in Int
  OBVIOUS
<1>3. /\ SubSeq(s, 1, k) \in Seq(S)
      /\ Len(SubSeq(s, 1, k)) = IF 1 <= k THEN k - 1 + 1 ELSE 0
      /\ \A i \in 1..(k - 1 + 1) : SubSeq(s, 1, k)[i] = s[1 + i - 1]
  BY <1>1, <1>2, SubSeqProperties, Z3
<1> QED
  BY <1>3

\* The tables map flags to flags.
LEMMA CombinedFlagIsAFlag ==
  ASSUME NEW op \in SetOperators, NEW f1 \in Flags, NEW f2 \in Flags
  PROVE  CombineFlagBySetOperator(op, f1, f2) \in Flags
BY DEF CombineFlagBySetOperator, UnionFlag, IntersectionFlag, ComplementFlag,
       SetOperators, Flags

\* An operator applied to two sound sets yields a sound set: the step at which
\* the flag table and the item operator have to fit together.
LEMMA CombiningIsSound ==
  ASSUME NEW op \in SetOperators,
         NEW set1 \in CollectedSet, NEW set2 \in CollectedSet,
         Sound(set1), Sound(set2)
  PROVE  LET combined == CombineSets(op, set1, set2)
             result   == [flag     |-> combined.flag,
                          items    |-> combined.items,
                          matching |-> CombineItems(op, set1.matching,
                                                    set2.matching)]
         IN  result \in CollectedSet /\ Sound(result)
<1> DEFINE items == CombineItems(op, set1.items, set2.items)
           matching == CombineItems(op, set1.matching, set2.matching)
           flag  == CombineFlagBySetOperator(op, set1.flag, set2.flag)
           result == [flag |-> SettleFlag(flag, items), items |-> items,
                      matching |-> matching]
<1>1. /\ set1.flag \in Flags /\ set1.items \in SUBSET Items
      /\ set1.matching \in SUBSET Existing
      /\ set2.flag \in Flags /\ set2.items \in SUBSET Items
      /\ set2.matching \in SUBSET Existing
  BY DEF CollectedSet
<1>2. flag \in Flags
  BY <1>1, CombinedFlagIsAFlag
<1>3. items \in SUBSET Items /\ matching \in SUBSET Existing
  BY <1>1 DEF CombineItems, UnionItems, IntersectionItems, CompelementItems,
              SetOperators
<1>4. result \in CollectedSet
  BY <1>2, <1>3 DEF CollectedSet, SettleFlag, Flags
<1>5. Sound(result)
  <2>1. CASE op = "UNION"
    BY <2>1, <1>1 DEF Sound, Found, SettleFlag, CombineFlagBySetOperator, UnionFlag,
                      CombineItems, UnionItems, Flags
  <2>2. CASE op = "INTERSECTION"
    BY <2>2, <1>1 DEF Sound, Found, SettleFlag, CombineFlagBySetOperator,
                      IntersectionFlag, CombineItems, IntersectionItems, Flags
  <2>3. CASE op = "COMPLEMENT"
    BY <2>3, <1>1 DEF Sound, Found, SettleFlag, CombineFlagBySetOperator,
                      ComplementFlag, CombineItems, CompelementItems, Flags
  <2> QED
    BY <2>1, <2>2, <2>3 DEF SetOperators
<1> QED
  BY <1>4, <1>5 DEF CombineSets
-----------------------------------------------------------------------------
\* The inductive invariant: the pending sets are well typed and sound.
IInv == TypeOK /\ FlagsAreSound

\* Every pending set is a collected set whose flag is sound, in every reachable
\* state (AbsObjectCollector.cpp:270-569).
LEMMA InitIsSound == Init => IInv
BY MaxDepthAssumption DEF Init, IInv, TypeOK, FlagsAreSound

LEMMA NextIsSound == IInv /\ [Next]_sets => IInv'
<1> SUFFICES ASSUME IInv, [Next]_sets PROVE IInv'
  OBVIOUS
<1> USE MaxDepthAssumption DEF IInv, TypeOK
<1>1. ASSUME NEW object \in CollectedObjects, NEW passes \in SUBSET Items,
             CollectReference(object, passes)
      PROVE  IInv'
  <2> DEFINE new == ApplyFilters(object, passes)
  <2>1. object \in CollectedSet /\ Sound(object)
    BY DEF CollectedObjects
  <2>2. new \in CollectedSet
    BY <2>1 DEF ApplyFilters, CollectedSet
  <2>3. Sound(new)
    BY <2>1 DEF ApplyFilters, CollectedSet, Sound, Found
  <2> QED
    BY <1>1, <2>2, <2>3 DEF CollectReference, FlagsAreSound
<1>2. ASSUME NEW op \in SetOperators, CombineBySetOperator(op) PROVE IInv'
  <2> DEFINE n     == Len(sets)
             set1  == sets[n - 1]
             set2  == sets[n]
             combined == CombineSets(op, set1, set2)
             new   == [flag |-> combined.flag, items |-> combined.items,
                       matching |-> CombineItems(op, set1.matching,
                                                 set2.matching)]
             rest  == SubSeq(sets, 1, n - 2)
  <2>1. n \in Nat /\ n >= 2
    BY <1>2 DEF CombineBySetOperator
  <2>2. set1 \in CollectedSet /\ set2 \in CollectedSet
    BY <2>1
  <2>3. Sound(set1) /\ Sound(set2)
    BY <2>1 DEF FlagsAreSound
  <2>4. new \in CollectedSet /\ Sound(new)
    BY <2>2, <2>3, CombiningIsSound
  <2>5. rest \in Seq(CollectedSet) /\ Len(rest) = n - 2
        /\ \A i \in 1..(n - 2) : rest[i] = sets[i]
    <3>1. n - 2 \in 0..Len(sets)
      BY <2>1
    <3> QED
      BY <3>1, Prefix
  <2>6. sets' = Append(rest, new)
    BY <1>2 DEF CombineBySetOperator
  <2> HIDE DEF new, rest
  <2>7. sets' \in Seq(CollectedSet) /\ Len(sets') = n - 1
    BY <2>1, <2>4, <2>5, <2>6
  <2>8. \A i \in DOMAIN sets' : Sound(sets'[i])
    BY <2>1, <2>3, <2>4, <2>5, <2>6 DEF FlagsAreSound
  <2> QED
    BY <2>1, <2>7, <2>8 DEF FlagsAreSound
<1>3. ASSUME PassOn PROVE IInv'
  <2> DEFINE n == Len(sets)
             new == Settled(sets[n])
  <2>1. n \in Nat /\ n >= 1 /\ n \in DOMAIN sets
    BY <1>3 DEF PassOn
  <2>2. sets[n] \in CollectedSet /\ Sound(sets[n])
    BY <2>1 DEF FlagsAreSound
  <2>3. new \in CollectedSet /\ Sound(new)
    BY <2>2 DEF Settled, SettleFlag, CollectedSet, Sound, Found, Flags
  <2>4. sets' = [sets EXCEPT ![n] = new]
    BY <1>3 DEF PassOn
  <2> HIDE DEF new
  <2> QED
    BY <2>1, <2>3, <2>4 DEF FlagsAreSound
<1>4. CASE UNCHANGED sets
  BY <1>4 DEF FlagsAreSound
<1> QED
  BY <1>1, <1>2, <1>3, <1>4 DEF Next

\* Whatever references, filters and operators a set object nests, the flag it
\* is collected with tells the truth about the items of the system.
THEOREM SetFlagsAreSound == Spec => [](TypeOK /\ FlagsAreSound)
<1>1. IInv => TypeOK /\ FlagsAreSound
  BY DEF IInv
<1> QED
  BY <1>1, InitIsSound, NextIsSound, PTL DEF Spec

-----------------------------------------------------------------------------
\* The flag tables and the charts of the schema, cell by cell.

\* The abbreviations of the schema.
LEMMA Abbreviations ==
  /\ FlagAbbreviation["error"] = "E"
  /\ FlagAbbreviation["complete"] = "C"
  /\ FlagAbbreviation["incomplete"] = "I"
  /\ FlagAbbreviation["does not exist"] = "DNE"
  /\ FlagAbbreviation["not collected"] = "NC"
  /\ FlagAbbreviation["not applicable"] = "NA"
BY DEF FlagAbbreviation

\* What the chart of an operator says in each column of a row.
LEMMA ChartColumns ==
  ASSUME NEW op, NEW f
  PROVE  LET row == SetOperatorChart[op][FlagAbbreviation[f]]
         IN  /\ ChartFlag(op, "error", f) = row[1]
             /\ ChartFlag(op, "complete", f) = row[2]
             /\ ChartFlag(op, "incomplete", f) = row[3]
             /\ ChartFlag(op, "does not exist", f) = row[4]
             /\ ChartFlag(op, "not collected", f) = row[5]
             /\ ChartFlag(op, "not applicable", f) = row[6]
<1> DEFINE column(x) == CHOOSE j \in DOMAIN FlagColumns : FlagColumns[j] = x
<1>1. /\ column("E") = 1 /\ column("C") = 2 /\ column("I") = 3
      /\ column("DNE") = 4 /\ column("NC") = 5 /\ column("NA") = 6
  BY DEF FlagColumns
<1>2. \A g : ChartFlag(op, g, f)
              = SetOperatorChart[op][FlagAbbreviation[f]][column(FlagAbbreviation[g])]
  BY DEF ChartFlag
<1> HIDE DEF column
<1> QED
  BY <1>1, <1>2, Abbreviations, Zenon

\* The chart of each operator.
LEMMA Charts ==
  /\ SetOperatorChart["UNION"] = UnionChart
  /\ SetOperatorChart["INTERSECTION"] = IntersectionChart
  /\ SetOperatorChart["COMPLEMENT"] = ComplementChart
BY DEF SetOperatorChart

\* The table for UNION, row by row: no departure (AbsObjectCollector.cpp:502-566).
LEMMA UnionFollows ==
  ASSUME NEW f1 \in Flags, NEW f2 \in Flags
  PROVE  <<"UNION", f1, f2>> \in Departures
           <=> FlagAbbreviation[UnionFlag(f1, f2)] # ChartFlag("UNION", f1, f2)
<1> DEFINE row == UnionChart[FlagAbbreviation[f2]]
<1>1. /\ ChartFlag("UNION", "error", f2) = row[1]
      /\ ChartFlag("UNION", "complete", f2) = row[2]
      /\ ChartFlag("UNION", "incomplete", f2) = row[3]
      /\ ChartFlag("UNION", "does not exist", f2) = row[4]
      /\ ChartFlag("UNION", "not collected", f2) = row[5]
      /\ ChartFlag("UNION", "not applicable", f2) = row[6]
  BY ChartColumns, Charts
<1>2. CASE f2 = "error"
  <2>0. UnionChart["E"] = <<"E", "E", "E", "E", "E", "E">>
    BY DEF UnionChart
  <2>1. row = <<"E", "E", "E", "E", "E", "E">>
    BY <1>2, <2>0, Abbreviations, Zenon
  <2>2. /\ UnionFlag("error", f2) = "error"
        /\ UnionFlag("complete", f2) = "error"
        /\ UnionFlag("incomplete", f2) = "error"
        /\ UnionFlag("does not exist", f2) = "error"
        /\ UnionFlag("not collected", f2) = "error"
        /\ UnionFlag("not applicable", f2) = "error"
    BY <1>2 DEF UnionFlag
  <2> HIDE DEF row
  <2>3. /\ ChartFlag("UNION", "error", f2) = "E"
        /\ ChartFlag("UNION", "complete", f2) = "E"
        /\ ChartFlag("UNION", "incomplete", f2) = "E"
        /\ ChartFlag("UNION", "does not exist", f2) = "E"
        /\ ChartFlag("UNION", "not collected", f2) = "E"
        /\ ChartFlag("UNION", "not applicable", f2) = "E"
    BY <1>1, <2>1
  <2>4. \A f \in Flags : <<"UNION", f, f2>> \in Departures <=> FALSE
    BY <1>2 DEF Departures
  <2> QED
    BY <2>2, <2>3, <2>4, Abbreviations DEF Flags
<1>3. CASE f2 = "complete"
  <2>0. UnionChart["C"] = <<"E", "C", "I", "C", "I", "C">>
    BY DEF UnionChart
  <2>1. row = <<"E", "C", "I", "C", "I", "C">>
    BY <1>3, <2>0, Abbreviations, Zenon
  <2>2. /\ UnionFlag("error", f2) = "error"
        /\ UnionFlag("complete", f2) = "complete"
        /\ UnionFlag("incomplete", f2) = "incomplete"
        /\ UnionFlag("does not exist", f2) = "complete"
        /\ UnionFlag("not collected", f2) = "incomplete"
        /\ UnionFlag("not applicable", f2) = "complete"
    BY <1>3 DEF UnionFlag
  <2> HIDE DEF row
  <2>3. /\ ChartFlag("UNION", "error", f2) = "E"
        /\ ChartFlag("UNION", "complete", f2) = "C"
        /\ ChartFlag("UNION", "incomplete", f2) = "I"
        /\ ChartFlag("UNION", "does not exist", f2) = "C"
        /\ ChartFlag("UNION", "not collected", f2) = "I"
        /\ ChartFlag("UNION", "not applicable", f2) = "C"
    BY <1>1, <2>1
  <2>4. \A f \in Flags : <<"UNION", f, f2>> \in Departures <=> FALSE
    BY <1>3 DEF Departures
  <2> QED
    BY <2>2, <2>3, <2>4, Abbreviations DEF Flags
<1>4. CASE f2 = "incomplete"
  <2>0. UnionChart["I"] = <<"E", "I", "I", "I", "I", "I">>
    BY DEF UnionChart
  <2>1. row = <<"E", "I", "I", "I", "I", "I">>
    BY <1>4, <2>0, Abbreviations, Zenon
  <2>2. /\ UnionFlag("error", f2) = "error"
        /\ UnionFlag("complete", f2) = "incomplete"
        /\ UnionFlag("incomplete", f2) = "incomplete"
        /\ UnionFlag("does not exist", f2) = "incomplete"
        /\ UnionFlag("not collected", f2) = "incomplete"
        /\ UnionFlag("not applicable", f2) = "incomplete"
    BY <1>4 DEF UnionFlag
  <2> HIDE DEF row
  <2>3. /\ ChartFlag("UNION", "error", f2) = "E"
        /\ ChartFlag("UNION", "complete", f2) = "I"
        /\ ChartFlag("UNION", "incomplete", f2) = "I"
        /\ ChartFlag("UNION", "does not exist", f2) = "I"
        /\ ChartFlag("UNION", "not collected", f2) = "I"
        /\ ChartFlag("UNION", "not applicable", f2) = "I"
    BY <1>1, <2>1
  <2>4. \A f \in Flags : <<"UNION", f, f2>> \in Departures <=> FALSE
    BY <1>4 DEF Departures
  <2> QED
    BY <2>2, <2>3, <2>4, Abbreviations DEF Flags
<1>5. CASE f2 = "does not exist"
  <2>0. UnionChart["DNE"] = <<"E", "C", "I", "DNE", "I", "DNE">>
    BY DEF UnionChart
  <2>1. row = <<"E", "C", "I", "DNE", "I", "DNE">>
    BY <1>5, <2>0, Abbreviations, Zenon
  <2>2. /\ UnionFlag("error", f2) = "error"
        /\ UnionFlag("complete", f2) = "complete"
        /\ UnionFlag("incomplete", f2) = "incomplete"
        /\ UnionFlag("does not exist", f2) = "does not exist"
        /\ UnionFlag("not collected", f2) = "incomplete"
        /\ UnionFlag("not applicable", f2) = "does not exist"
    BY <1>5 DEF UnionFlag
  <2> HIDE DEF row
  <2>3. /\ ChartFlag("UNION", "error", f2) = "E"
        /\ ChartFlag("UNION", "complete", f2) = "C"
        /\ ChartFlag("UNION", "incomplete", f2) = "I"
        /\ ChartFlag("UNION", "does not exist", f2) = "DNE"
        /\ ChartFlag("UNION", "not collected", f2) = "I"
        /\ ChartFlag("UNION", "not applicable", f2) = "DNE"
    BY <1>1, <2>1
  <2>4. \A f \in Flags : <<"UNION", f, f2>> \in Departures <=> FALSE
    BY <1>5 DEF Departures
  <2> QED
    BY <2>2, <2>3, <2>4, Abbreviations DEF Flags
<1>6. CASE f2 = "not collected"
  <2>0. UnionChart["NC"] = <<"E", "I", "I", "I", "NC", "NC">>
    BY DEF UnionChart
  <2>1. row = <<"E", "I", "I", "I", "NC", "NC">>
    BY <1>6, <2>0, Abbreviations, Zenon
  <2>2. /\ UnionFlag("error", f2) = "error"
        /\ UnionFlag("complete", f2) = "incomplete"
        /\ UnionFlag("incomplete", f2) = "incomplete"
        /\ UnionFlag("does not exist", f2) = "incomplete"
        /\ UnionFlag("not collected", f2) = "not collected"
        /\ UnionFlag("not applicable", f2) = "not collected"
    BY <1>6 DEF UnionFlag
  <2> HIDE DEF row
  <2>3. /\ ChartFlag("UNION", "error", f2) = "E"
        /\ ChartFlag("UNION", "complete", f2) = "I"
        /\ ChartFlag("UNION", "incomplete", f2) = "I"
        /\ ChartFlag("UNION", "does not exist", f2) = "I"
        /\ ChartFlag("UNION", "not collected", f2) = "NC"
        /\ ChartFlag("UNION", "not applicable", f2) = "NC"
    BY <1>1, <2>1
  <2>4. \A f \in Flags : <<"UNION", f, f2>> \in Departures <=> FALSE
    BY <1>6 DEF Departures
  <2> QED
    BY <2>2, <2>3, <2>4, Abbreviations DEF Flags
<1>7. CASE f2 = "not applicable"
  <2>0. UnionChart["NA"] = <<"E", "C", "I", "DNE", "NC", "NA">>
    BY DEF UnionChart
  <2>1. row = <<"E", "C", "I", "DNE", "NC", "NA">>
    BY <1>7, <2>0, Abbreviations, Zenon
  <2>2. /\ UnionFlag("error", f2) = "error"
        /\ UnionFlag("complete", f2) = "complete"
        /\ UnionFlag("incomplete", f2) = "incomplete"
        /\ UnionFlag("does not exist", f2) = "does not exist"
        /\ UnionFlag("not collected", f2) = "not collected"
        /\ UnionFlag("not applicable", f2) = "not applicable"
    BY <1>7 DEF UnionFlag
  <2> HIDE DEF row
  <2>3. /\ ChartFlag("UNION", "error", f2) = "E"
        /\ ChartFlag("UNION", "complete", f2) = "C"
        /\ ChartFlag("UNION", "incomplete", f2) = "I"
        /\ ChartFlag("UNION", "does not exist", f2) = "DNE"
        /\ ChartFlag("UNION", "not collected", f2) = "NC"
        /\ ChartFlag("UNION", "not applicable", f2) = "NA"
    BY <1>1, <2>1
  <2>4. \A f \in Flags : <<"UNION", f, f2>> \in Departures <=> FALSE
    BY <1>7 DEF Departures
  <2> QED
    BY <2>2, <2>3, <2>4, Abbreviations DEF Flags
<1> QED
  BY <1>2, <1>3, <1>4, <1>5, <1>6, <1>7 DEF Flags

\* The table for INTERSECTION: three departures (AbsObjectCollector.cpp:443-501).
LEMMA IntersectionFollows ==
  ASSUME NEW f1 \in Flags, NEW f2 \in Flags
  PROVE  <<"INTERSECTION", f1, f2>> \in Departures
           <=> FlagAbbreviation[IntersectionFlag(f1, f2)]
                 # ChartFlag("INTERSECTION", f1, f2)
<1> DEFINE row == IntersectionChart[FlagAbbreviation[f2]]
<1>1. /\ ChartFlag("INTERSECTION", "error", f2) = row[1]
      /\ ChartFlag("INTERSECTION", "complete", f2) = row[2]
      /\ ChartFlag("INTERSECTION", "incomplete", f2) = row[3]
      /\ ChartFlag("INTERSECTION", "does not exist", f2) = row[4]
      /\ ChartFlag("INTERSECTION", "not collected", f2) = row[5]
      /\ ChartFlag("INTERSECTION", "not applicable", f2) = row[6]
  BY ChartColumns, Charts
<1>2. CASE f2 = "error"
  <2>0. IntersectionChart["E"] = <<"E", "E", "E", "DNE", "E", "E">>
    BY DEF IntersectionChart
  <2>1. row = <<"E", "E", "E", "DNE", "E", "E">>
    BY <1>2, <2>0, Abbreviations, Zenon
  <2>2. /\ IntersectionFlag("error", f2) = "error"
        /\ IntersectionFlag("complete", f2) = "error"
        /\ IntersectionFlag("incomplete", f2) = "error"
        /\ IntersectionFlag("does not exist", f2) = "does not exist"
        /\ IntersectionFlag("not collected", f2) = "error"
        /\ IntersectionFlag("not applicable", f2) = "error"
    BY <1>2 DEF IntersectionFlag
  <2> HIDE DEF row
  <2>3. /\ ChartFlag("INTERSECTION", "error", f2) = "E"
        /\ ChartFlag("INTERSECTION", "complete", f2) = "E"
        /\ ChartFlag("INTERSECTION", "incomplete", f2) = "E"
        /\ ChartFlag("INTERSECTION", "does not exist", f2) = "DNE"
        /\ ChartFlag("INTERSECTION", "not collected", f2) = "E"
        /\ ChartFlag("INTERSECTION", "not applicable", f2) = "E"
    BY <1>1, <2>1
  <2>4. \A f \in Flags : <<"INTERSECTION", f, f2>> \in Departures <=> FALSE
    BY <1>2 DEF Departures
  <2> QED
    BY <2>2, <2>3, <2>4, Abbreviations DEF Flags
<1>3. CASE f2 = "complete"
  <2>0. IntersectionChart["C"] = <<"E", "C", "I", "DNE", "NC", "C">>
    BY DEF IntersectionChart
  <2>1. row = <<"E", "C", "I", "DNE", "NC", "C">>
    BY <1>3, <2>0, Abbreviations, Zenon
  <2>2. /\ IntersectionFlag("error", f2) = "error"
        /\ IntersectionFlag("complete", f2) = "complete"
        /\ IntersectionFlag("incomplete", f2) = "incomplete"
        /\ IntersectionFlag("does not exist", f2) = "does not exist"
        /\ IntersectionFlag("not collected", f2) = "not collected"
        /\ IntersectionFlag("not applicable", f2) = "complete"
    BY <1>3 DEF IntersectionFlag
  <2> HIDE DEF row
  <2>3. /\ ChartFlag("INTERSECTION", "error", f2) = "E"
        /\ ChartFlag("INTERSECTION", "complete", f2) = "C"
        /\ ChartFlag("INTERSECTION", "incomplete", f2) = "I"
        /\ ChartFlag("INTERSECTION", "does not exist", f2) = "DNE"
        /\ ChartFlag("INTERSECTION", "not collected", f2) = "NC"
        /\ ChartFlag("INTERSECTION", "not applicable", f2) = "C"
    BY <1>1, <2>1
  <2>4. \A f \in Flags : <<"INTERSECTION", f, f2>> \in Departures <=> FALSE
    BY <1>3 DEF Departures
  <2> QED
    BY <2>2, <2>3, <2>4, Abbreviations DEF Flags
<1>4. CASE f2 = "incomplete"
  <2>0. IntersectionChart["I"] = <<"E", "I", "I", "DNE", "NC", "I">>
    BY DEF IntersectionChart
  <2>1. row = <<"E", "I", "I", "DNE", "NC", "I">>
    BY <1>4, <2>0, Abbreviations, Zenon
  <2>2. /\ IntersectionFlag("error", f2) = "error"
        /\ IntersectionFlag("complete", f2) = "incomplete"
        /\ IntersectionFlag("incomplete", f2) = "incomplete"
        /\ IntersectionFlag("does not exist", f2) = "does not exist"
        /\ IntersectionFlag("not collected", f2) = "not collected"
        /\ IntersectionFlag("not applicable", f2) = "incomplete"
    BY <1>4 DEF IntersectionFlag
  <2> HIDE DEF row
  <2>3. /\ ChartFlag("INTERSECTION", "error", f2) = "E"
        /\ ChartFlag("INTERSECTION", "complete", f2) = "I"
        /\ ChartFlag("INTERSECTION", "incomplete", f2) = "I"
        /\ ChartFlag("INTERSECTION", "does not exist", f2) = "DNE"
        /\ ChartFlag("INTERSECTION", "not collected", f2) = "NC"
        /\ ChartFlag("INTERSECTION", "not applicable", f2) = "I"
    BY <1>1, <2>1
  <2>4. \A f \in Flags : <<"INTERSECTION", f, f2>> \in Departures <=> FALSE
    BY <1>4 DEF Departures
  <2> QED
    BY <2>2, <2>3, <2>4, Abbreviations DEF Flags
<1>5. CASE f2 = "does not exist"
  <2>0. IntersectionChart["DNE"] = <<"DNE", "DNE", "DNE", "DNE", "DNE", "DNE">>
    BY DEF IntersectionChart
  <2>1. row = <<"DNE", "DNE", "DNE", "DNE", "DNE", "DNE">>
    BY <1>5, <2>0, Abbreviations, Zenon
  <2>2. /\ IntersectionFlag("error", f2) = "error"
        /\ IntersectionFlag("complete", f2) = "does not exist"
        /\ IntersectionFlag("incomplete", f2) = "does not exist"
        /\ IntersectionFlag("does not exist", f2) = "does not exist"
        /\ IntersectionFlag("not collected", f2) = "does not exist"
        /\ IntersectionFlag("not applicable", f2) = "does not exist"
    BY <1>5 DEF IntersectionFlag
  <2> HIDE DEF row
  <2>3. /\ ChartFlag("INTERSECTION", "error", f2) = "DNE"
        /\ ChartFlag("INTERSECTION", "complete", f2) = "DNE"
        /\ ChartFlag("INTERSECTION", "incomplete", f2) = "DNE"
        /\ ChartFlag("INTERSECTION", "does not exist", f2) = "DNE"
        /\ ChartFlag("INTERSECTION", "not collected", f2) = "DNE"
        /\ ChartFlag("INTERSECTION", "not applicable", f2) = "DNE"
    BY <1>1, <2>1
  <2>4. \A f \in Flags : <<"INTERSECTION", f, f2>> \in Departures <=> f = "error"
    BY <1>5 DEF Departures
  <2> QED
    BY <2>2, <2>3, <2>4, Abbreviations DEF Flags
<1>6. CASE f2 = "not collected"
  <2>0. IntersectionChart["NC"] = <<"E", "NC", "NC", "DNE", "NC", "NC">>
    BY DEF IntersectionChart
  <2>1. row = <<"E", "NC", "NC", "DNE", "NC", "NC">>
    BY <1>6, <2>0, Abbreviations, Zenon
  <2>2. /\ IntersectionFlag("error", f2) = "error"
        /\ IntersectionFlag("complete", f2) = "not collected"
        /\ IntersectionFlag("incomplete", f2) = "incomplete"
        /\ IntersectionFlag("does not exist", f2) = "does not exist"
        /\ IntersectionFlag("not collected", f2) = "not collected"
        /\ IntersectionFlag("not applicable", f2) = "not collected"
    BY <1>6 DEF IntersectionFlag
  <2> HIDE DEF row
  <2>3. /\ ChartFlag("INTERSECTION", "error", f2) = "E"
        /\ ChartFlag("INTERSECTION", "complete", f2) = "NC"
        /\ ChartFlag("INTERSECTION", "incomplete", f2) = "NC"
        /\ ChartFlag("INTERSECTION", "does not exist", f2) = "DNE"
        /\ ChartFlag("INTERSECTION", "not collected", f2) = "NC"
        /\ ChartFlag("INTERSECTION", "not applicable", f2) = "NC"
    BY <1>1, <2>1
  <2>4. \A f \in Flags : <<"INTERSECTION", f, f2>> \in Departures <=> f = "incomplete"
    BY <1>6 DEF Departures
  <2> QED
    BY <2>2, <2>3, <2>4, Abbreviations DEF Flags
<1>7. CASE f2 = "not applicable"
  <2>0. IntersectionChart["NA"] = <<"E", "C", "I", "DNE", "NC", "NA">>
    BY DEF IntersectionChart
  <2>1. row = <<"E", "C", "I", "DNE", "NC", "NA">>
    BY <1>7, <2>0, Abbreviations, Zenon
  <2>2. /\ IntersectionFlag("error", f2) = "error"
        /\ IntersectionFlag("complete", f2) = "complete"
        /\ IntersectionFlag("incomplete", f2) = "not applicable"
        /\ IntersectionFlag("does not exist", f2) = "does not exist"
        /\ IntersectionFlag("not collected", f2) = "not collected"
        /\ IntersectionFlag("not applicable", f2) = "not applicable"
    BY <1>7 DEF IntersectionFlag
  <2> HIDE DEF row
  <2>3. /\ ChartFlag("INTERSECTION", "error", f2) = "E"
        /\ ChartFlag("INTERSECTION", "complete", f2) = "C"
        /\ ChartFlag("INTERSECTION", "incomplete", f2) = "I"
        /\ ChartFlag("INTERSECTION", "does not exist", f2) = "DNE"
        /\ ChartFlag("INTERSECTION", "not collected", f2) = "NC"
        /\ ChartFlag("INTERSECTION", "not applicable", f2) = "NA"
    BY <1>1, <2>1
  <2>4. \A f \in Flags : <<"INTERSECTION", f, f2>> \in Departures <=> f = "incomplete"
    BY <1>7 DEF Departures
  <2> QED
    BY <2>2, <2>3, <2>4, Abbreviations DEF Flags
<1> QED
  BY <1>2, <1>3, <1>4, <1>5, <1>6, <1>7 DEF Flags

\* The table for COMPLEMENT: two departures (AbsObjectCollector.cpp:387-442).
LEMMA ComplementFollows ==
  ASSUME NEW f1 \in Flags, NEW f2 \in Flags
  PROVE  <<"COMPLEMENT", f1, f2>> \in Departures
           <=> FlagAbbreviation[ComplementFlag(f1, f2)] # ChartFlag("COMPLEMENT", f1, f2)
<1> DEFINE row == ComplementChart[FlagAbbreviation[f2]]
<1>1. /\ ChartFlag("COMPLEMENT", "error", f2) = row[1]
      /\ ChartFlag("COMPLEMENT", "complete", f2) = row[2]
      /\ ChartFlag("COMPLEMENT", "incomplete", f2) = row[3]
      /\ ChartFlag("COMPLEMENT", "does not exist", f2) = row[4]
      /\ ChartFlag("COMPLEMENT", "not collected", f2) = row[5]
      /\ ChartFlag("COMPLEMENT", "not applicable", f2) = row[6]
  BY ChartColumns, Charts
<1>2. CASE f2 = "error"
  <2>0. ComplementChart["E"] = <<"E", "E", "E", "DNE", "E", "E">>
    BY DEF ComplementChart
  <2>1. row = <<"E", "E", "E", "DNE", "E", "E">>
    BY <1>2, <2>0, Abbreviations, Zenon
  <2>2. /\ ComplementFlag("error", f2) = "error"
        /\ ComplementFlag("complete", f2) = "error"
        /\ ComplementFlag("incomplete", f2) = "error"
        /\ ComplementFlag("does not exist", f2) = "does not exist"
        /\ ComplementFlag("not collected", f2) = "error"
        /\ ComplementFlag("not applicable", f2) = "error"
    BY <1>2 DEF ComplementFlag
  <2> HIDE DEF row
  <2>3. /\ ChartFlag("COMPLEMENT", "error", f2) = "E"
        /\ ChartFlag("COMPLEMENT", "complete", f2) = "E"
        /\ ChartFlag("COMPLEMENT", "incomplete", f2) = "E"
        /\ ChartFlag("COMPLEMENT", "does not exist", f2) = "DNE"
        /\ ChartFlag("COMPLEMENT", "not collected", f2) = "E"
        /\ ChartFlag("COMPLEMENT", "not applicable", f2) = "E"
    BY <1>1, <2>1
  <2>4. \A f \in Flags : <<"COMPLEMENT", f, f2>> \in Departures <=> FALSE
    BY <1>2 DEF Departures
  <2> QED
    BY <2>2, <2>3, <2>4, Abbreviations DEF Flags
<1>3. CASE f2 = "complete"
  <2>0. ComplementChart["C"] = <<"E", "C", "I", "DNE", "NC", "E">>
    BY DEF ComplementChart
  <2>1. row = <<"E", "C", "I", "DNE", "NC", "E">>
    BY <1>3, <2>0, Abbreviations, Zenon
  <2>2. /\ ComplementFlag("error", f2) = "error"
        /\ ComplementFlag("complete", f2) = "complete"
        /\ ComplementFlag("incomplete", f2) = "incomplete"
        /\ ComplementFlag("does not exist", f2) = "does not exist"
        /\ ComplementFlag("not collected", f2) = "not collected"
        /\ ComplementFlag("not applicable", f2) = "error"
    BY <1>3 DEF ComplementFlag
  <2> HIDE DEF row
  <2>3. /\ ChartFlag("COMPLEMENT", "error", f2) = "E"
        /\ ChartFlag("COMPLEMENT", "complete", f2) = "C"
        /\ ChartFlag("COMPLEMENT", "incomplete", f2) = "I"
        /\ ChartFlag("COMPLEMENT", "does not exist", f2) = "DNE"
        /\ ChartFlag("COMPLEMENT", "not collected", f2) = "NC"
        /\ ChartFlag("COMPLEMENT", "not applicable", f2) = "E"
    BY <1>1, <2>1
  <2>4. \A f \in Flags : <<"COMPLEMENT", f, f2>> \in Departures <=> FALSE
    BY <1>3 DEF Departures
  <2> QED
    BY <2>2, <2>3, <2>4, Abbreviations DEF Flags
<1>4. CASE f2 = "incomplete"
  <2>0. ComplementChart["I"] = <<"E", "E", "E", "DNE", "NC", "E">>
    BY DEF ComplementChart
  <2>1. row = <<"E", "E", "E", "DNE", "NC", "E">>
    BY <1>4, <2>0, Abbreviations, Zenon
  <2>2. /\ ComplementFlag("error", f2) = "error"
        /\ ComplementFlag("complete", f2) = "error"
        /\ ComplementFlag("incomplete", f2) = "error"
        /\ ComplementFlag("does not exist", f2) = "does not exist"
        /\ ComplementFlag("not collected", f2) = "not collected"
        /\ ComplementFlag("not applicable", f2) = "error"
    BY <1>4 DEF ComplementFlag
  <2> HIDE DEF row
  <2>3. /\ ChartFlag("COMPLEMENT", "error", f2) = "E"
        /\ ChartFlag("COMPLEMENT", "complete", f2) = "E"
        /\ ChartFlag("COMPLEMENT", "incomplete", f2) = "E"
        /\ ChartFlag("COMPLEMENT", "does not exist", f2) = "DNE"
        /\ ChartFlag("COMPLEMENT", "not collected", f2) = "NC"
        /\ ChartFlag("COMPLEMENT", "not applicable", f2) = "E"
    BY <1>1, <2>1
  <2>4. \A f \in Flags : <<"COMPLEMENT", f, f2>> \in Departures <=> FALSE
    BY <1>4 DEF Departures
  <2> QED
    BY <2>2, <2>3, <2>4, Abbreviations DEF Flags
<1>5. CASE f2 = "does not exist"
  <2>0. ComplementChart["DNE"] = <<"E", "C", "I", "DNE", "NC", "E">>
    BY DEF ComplementChart
  <2>1. row = <<"E", "C", "I", "DNE", "NC", "E">>
    BY <1>5, <2>0, Abbreviations, Zenon
  <2>2. /\ ComplementFlag("error", f2) = "error"
        /\ ComplementFlag("complete", f2) = "complete"
        /\ ComplementFlag("incomplete", f2) = "incomplete"
        /\ ComplementFlag("does not exist", f2) = "does not exist"
        /\ ComplementFlag("not collected", f2) = "not collected"
        /\ ComplementFlag("not applicable", f2) = "error"
    BY <1>5 DEF ComplementFlag
  <2> HIDE DEF row
  <2>3. /\ ChartFlag("COMPLEMENT", "error", f2) = "E"
        /\ ChartFlag("COMPLEMENT", "complete", f2) = "C"
        /\ ChartFlag("COMPLEMENT", "incomplete", f2) = "I"
        /\ ChartFlag("COMPLEMENT", "does not exist", f2) = "DNE"
        /\ ChartFlag("COMPLEMENT", "not collected", f2) = "NC"
        /\ ChartFlag("COMPLEMENT", "not applicable", f2) = "E"
    BY <1>1, <2>1
  <2>4. \A f \in Flags : <<"COMPLEMENT", f, f2>> \in Departures <=> FALSE
    BY <1>5 DEF Departures
  <2> QED
    BY <2>2, <2>3, <2>4, Abbreviations DEF Flags
<1>6. CASE f2 = "not collected"
  <2>0. ComplementChart["NC"] = <<"E", "NC", "NC", "DNE", "NC", "E">>
    BY DEF ComplementChart
  <2>1. row = <<"E", "NC", "NC", "DNE", "NC", "E">>
    BY <1>6, <2>0, Abbreviations, Zenon
  <2>2. /\ ComplementFlag("error", f2) = "error"
        /\ ComplementFlag("complete", f2) = "error"
        /\ ComplementFlag("incomplete", f2) = "error"
        /\ ComplementFlag("does not exist", f2) = "does not exist"
        /\ ComplementFlag("not collected", f2) = "not collected"
        /\ ComplementFlag("not applicable", f2) = "error"
    BY <1>6 DEF ComplementFlag
  <2> HIDE DEF row
  <2>3. /\ ChartFlag("COMPLEMENT", "error", f2) = "E"
        /\ ChartFlag("COMPLEMENT", "complete", f2) = "NC"
        /\ ChartFlag("COMPLEMENT", "incomplete", f2) = "NC"
        /\ ChartFlag("COMPLEMENT", "does not exist", f2) = "DNE"
        /\ ChartFlag("COMPLEMENT", "not collected", f2) = "NC"
        /\ ChartFlag("COMPLEMENT", "not applicable", f2) = "E"
    BY <1>1, <2>1
  <2>4. \A f \in Flags : <<"COMPLEMENT", f, f2>> \in Departures
                         <=> f = "complete" \/ f = "incomplete"
    BY <1>6 DEF Departures
  <2> QED
    BY <2>2, <2>3, <2>4, Abbreviations DEF Flags
<1>7. CASE f2 = "not applicable"
  <2>0. ComplementChart["NA"] = <<"E", "E", "E", "E", "E", "E">>
    BY DEF ComplementChart
  <2>1. row = <<"E", "E", "E", "E", "E", "E">>
    BY <1>7, <2>0, Abbreviations, Zenon
  <2>2. /\ ComplementFlag("error", f2) = "error"
        /\ ComplementFlag("complete", f2) = "error"
        /\ ComplementFlag("incomplete", f2) = "error"
        /\ ComplementFlag("does not exist", f2) = "error"
        /\ ComplementFlag("not collected", f2) = "error"
        /\ ComplementFlag("not applicable", f2) = "error"
    BY <1>7 DEF ComplementFlag
  <2> HIDE DEF row
  <2>3. /\ ChartFlag("COMPLEMENT", "error", f2) = "E"
        /\ ChartFlag("COMPLEMENT", "complete", f2) = "E"
        /\ ChartFlag("COMPLEMENT", "incomplete", f2) = "E"
        /\ ChartFlag("COMPLEMENT", "does not exist", f2) = "E"
        /\ ChartFlag("COMPLEMENT", "not collected", f2) = "E"
        /\ ChartFlag("COMPLEMENT", "not applicable", f2) = "E"
    BY <1>1, <2>1
  <2>4. \A f \in Flags : <<"COMPLEMENT", f, f2>> \in Departures <=> FALSE
    BY <1>7 DEF Departures
  <2> QED
    BY <2>2, <2>3, <2>4, Abbreviations DEF Flags
<1> QED
  BY <1>2, <1>3, <1>4, <1>5, <1>6, <1>7 DEF Flags

\* Every cell that is not named as a departure is the one of the chart.
LEMMA TablesFollow ==
  ASSUME NEW op \in SetOperators, NEW f1 \in Flags, NEW f2 \in Flags
  PROVE  <<op, f1, f2>> \in Departures
           <=> FlagAbbreviation[CombineFlagBySetOperator(op, f1, f2)]
                 # ChartFlag(op, f1, f2)
<1>1. /\ CombineFlagBySetOperator("UNION", f1, f2) = UnionFlag(f1, f2)
      /\ CombineFlagBySetOperator("INTERSECTION", f1, f2) = IntersectionFlag(f1, f2)
      /\ CombineFlagBySetOperator("COMPLEMENT", f1, f2) = ComplementFlag(f1, f2)
  BY DEF CombineFlagBySetOperator
<1>2. CASE op = "UNION"
  BY <1>1, <1>2, UnionFollows
<1>3. CASE op = "INTERSECTION"
  BY <1>1, <1>3, IntersectionFollows
<1>4. CASE op = "COMPLEMENT"
  BY <1>1, <1>4, ComplementFollows
<1> QED
  BY <1>2, <1>3, <1>4 DEF SetOperators
\* Whenever two sets are combined, however they came to be, the flag is the one
\* the chart of the operator gives, but for the five departures
\* (AbsObjectCollector.cpp:383-569).
THEOREM FlagsFollowTheCharts == Spec => FlagFollowsChart
<1> DEFINE A ==
      \A op \in SetOperators :
        CombineBySetOperator(op) =>
          LET f1 == sets[Len(sets) - 1].flag
              f2 == sets[Len(sets)].flag
          IN  <<op, f1, f2>> \in Departures
                <=> FlagAbbreviation[CombineFlagBySetOperator(op, f1, f2)]
                      # ChartFlag(op, f1, f2)
<1>1. IInv /\ [Next]_sets => [A]_sets
  <2> SUFFICES ASSUME IInv, NEW op \in SetOperators, CombineBySetOperator(op)
               PROVE  LET f1 == sets[Len(sets) - 1].flag
                          f2 == sets[Len(sets)].flag
                      IN  <<op, f1, f2>> \in Departures
                            <=> FlagAbbreviation[CombineFlagBySetOperator(op, f1, f2)]
                                  # ChartFlag(op, f1, f2)
    OBVIOUS
  <2>1. sets[Len(sets) - 1] \in CollectedSet /\ sets[Len(sets)] \in CollectedSet
    BY DEF CombineBySetOperator, IInv, TypeOK
  <2>2. sets[Len(sets) - 1].flag \in Flags /\ sets[Len(sets)].flag \in Flags
    BY <2>1 DEF CollectedSet
  <2> QED
    BY <2>2, TablesFollow
<1> QED
  BY <1>1, InitIsSound, NextIsSound, PTL DEF Spec, FlagFollowsChart

-----------------------------------------------------------------------------
\* CombineFlags is the chart of the schema, for any number of flags.
FlagOf(occ) ==
  IF occ = {} \/ "error" \in occ     THEN "error"
  ELSE IF occ = {"complete"}          THEN "complete"
  ELSE IF "not applicable" \in occ    THEN "not applicable"
  ELSE IF "not collected" \in occ     THEN "not collected"
  ELSE IF "does not exist" \in occ    THEN "does not exist"
  ELSE "incomplete"

LEMMA CombinedIsFlagOf == \A flags : CombineFlags(flags) = FlagOf(Occurring(flags))
BY DEF CombineFlags, FlagOf

\* A row of the chart of functions fits if its six cells do.
LEMMA ComponentFlagRows ==
  ASSUME NEW chart, NEW vec, NEW row
  PROVE  row \in MatchingRows(chart, ComponentFlagColumns, vec) <=>
           /\ row \in chart
           /\ MatchesPattern(Occurrences(vec, "error"), row[1])
           /\ MatchesPattern(Occurrences(vec, "complete"), row[2])
           /\ MatchesPattern(Occurrences(vec, "incomplete"), row[3])
           /\ MatchesPattern(Occurrences(vec, "does not exist"), row[4])
           /\ MatchesPattern(Occurrences(vec, "not collected"), row[5])
           /\ MatchesPattern(Occurrences(vec, "not applicable"), row[6])
<1> DEFINE Fits(c) == MatchesPattern(Occurrences(vec, ComponentFlagColumns[c]), row[c])
<1>1. DOMAIN ComponentFlagColumns = {1, 2, 3, 4, 5, 6}
  BY DEF ComponentFlagColumns
<1>2. row \in MatchingRows(chart, ComponentFlagColumns, vec) <=>
        row \in chart /\ \A c \in {1, 2, 3, 4, 5, 6} : Fits(c)
  BY <1>1 DEF MatchingRows
<1>3. /\ ComponentFlagColumns[1] = "error" /\ ComponentFlagColumns[2] = "complete"
      /\ ComponentFlagColumns[3] = "incomplete" /\ ComponentFlagColumns[4] = "does not exist"
      /\ ComponentFlagColumns[5] = "not collected" /\ ComponentFlagColumns[6] = "not applicable"
  BY DEF ComponentFlagColumns
<1>4. (\A c \in {1, 2, 3, 4, 5, 6} : Fits(c)) <=>
        Fits(1) /\ Fits(2) /\ Fits(3) /\ Fits(4) /\ Fits(5) /\ Fits(6)
  <2> HIDE DEF Fits
  <2> QED
    BY Zenon
<1> QED
  BY <1>2, <1>3, <1>4, Zenon

\* At most one row fits, and its result is the combined flag.
LEMMA FlagsMatchChart ==
  ASSUME NEW vec \in Seq(Flags), vec # <<>>
  PROVE  ChartFunctionFlag(vec) = FlagOf(Occurring(vec))
<1> DEFINE occ == Occurring(vec)
           M == MatchingRows(FunctionFlagChart, ComponentFlagColumns, vec)
           E  == <<"1+", "0+", "0+", "0+", "0+", "0+", "error">>
           C  == <<"0", "1+", "0", "0", "0", "0", "complete">>
           I  == <<"0", "0+", "1+", "0", "0", "0", "incomplete">>
           DE == <<"0", "0+", "0+", "1+", "0", "0", "does not exist">>
           NC == <<"0", "0+", "0+", "0+", "1+", "0", "not collected">>
           NA == <<"0", "0+", "0+", "0+", "0+", "1+", "not applicable">>
<1>1. FunctionFlagChart = {E, C, I, DE, NC, NA} /\ M \subseteq FunctionFlagChart
  BY DEF FunctionFlagChart, MatchingRows
<1>2. \A row \in FunctionFlagChart : row \in M <=>
        /\ MatchesPattern(Occurrences(vec, "error"), row[1])
        /\ MatchesPattern(Occurrences(vec, "complete"), row[2])
        /\ MatchesPattern(Occurrences(vec, "incomplete"), row[3])
        /\ MatchesPattern(Occurrences(vec, "does not exist"), row[4])
        /\ MatchesPattern(Occurrences(vec, "not collected"), row[5])
        /\ MatchesPattern(Occurrences(vec, "not applicable"), row[6])
  BY ComponentFlagRows, Zenon
<1> HIDE DEF M
<1>3. /\ E \in M <=> "error" \in occ
      /\ C \in M <=> /\ "error" \notin occ /\ "complete" \in occ /\ "incomplete" \notin occ
                     /\ "does not exist" \notin occ /\ "not collected" \notin occ
                     /\ "not applicable" \notin occ
      /\ I \in M <=> /\ "error" \notin occ /\ "incomplete" \in occ
                     /\ "does not exist" \notin occ /\ "not collected" \notin occ
                     /\ "not applicable" \notin occ
      /\ DE \in M <=> /\ "error" \notin occ /\ "does not exist" \in occ
                      /\ "not collected" \notin occ /\ "not applicable" \notin occ
      /\ NC \in M <=> /\ "error" \notin occ /\ "not collected" \in occ
                      /\ "not applicable" \notin occ
      /\ NA \in M <=> "error" \notin occ /\ "not applicable" \in occ
  BY <1>1, <1>2, PatternMeans
<1>4. /\ E[7] = "error" /\ C[7] = "complete" /\ I[7] = "incomplete"
      /\ DE[7] = "does not exist" /\ NC[7] = "not collected" /\ NA[7] = "not applicable"
  OBVIOUS
<1>5. occ \subseteq Flags /\ occ # {}
  <2>1. 1 \in DOMAIN vec /\ \A i \in DOMAIN vec : vec[i] \in Flags
    OBVIOUS
  <2> QED
    BY <2>1, Zenon DEF Occurring
<1> HIDE DEF E, C, I, DE, NC, NA, occ
<1>6. \A r1, r2 \in M : r1 = r2
  BY <1>1, <1>3
<1>7. Len(ComponentFlagColumns) + 1 = 7
  BY DEF ComponentFlagColumns
<1>8. \A row \in M : ChartFunctionFlag(vec) = row[7]
  BY <1>6, <1>7, ChartValueIs DEF M, ChartFunctionFlag
<1> QED
  BY <1>3, <1>4, <1>5, <1>8 DEF FlagOf, Flags, occ

\* Flags may be combined two at a time.
LEMMA FlagsAssociate ==
  ASSUME NEW S, S \subseteq Flags, S # {}, NEW f \in Flags
  PROVE  /\ FlagOf(S) \in Flags
         /\ FlagOf({FlagOf(S), f}) = FlagOf(S \cup {f})
         /\ FlagOf({f, FlagOf(S)}) = FlagOf(S \cup {f})
BY DEF FlagOf, Flags

LEMMA FlagOfOne == \A f \in Flags : FlagOf({f}) = f
BY DEF FlagOf, Flags

LEMMA TwoOccur == \A a, b : Occurring(<<a, b>>) = {a, b}
BY DEF Occurring


-----------------------------------------------------------------------------
\* The components that concat and arithmetic have combined so far.
TakenOf == IF function.name = "concat" THEN Len(components) - taken + 1 .. Len(components)
           ELSE 1 .. taken
TakenFlags == {components[i].flag : i \in TakenOf}

\* There are as many components as the function takes, each with a flag.
ComponentsAreFlagged ==
  /\ Len(components) \in Nat /\ DOMAIN components = 1 .. Len(components)
  /\ \A i \in DOMAIN components : components[i].flag \in Flags
  /\ function.name \in Names /\ HasArity(function.name, Len(components))

\* What is combined so far has the flag of the components it was combined from.
FlagInv ==
  /\ ComponentsAreFlagged
  /\ function.name \in {"concat", "arithmetic"} /\ outcome = "running" =>
       /\ taken \in Nat /\ taken <= Len(components)
       /\ taken > 0 => acc.flag = FlagOf(TakenFlags)
  /\ FunctionFlagFollowsChart

\* A function starts with components that have flags and with nothing combined.
LEMMA InitFlags == FunctionInit => FlagInv
<1> SUFFICES ASSUME FunctionInit PROVE FlagInv
  OBVIOUS
<1>1. PICK in \in Inputs : function = in.function /\ components = in.components
  BY DEF FunctionInit
<1>2. in \in Input /\ HasArity(in.function.name, Len(in.components))
  BY InputsAssumption
<1>3. components \in Seq(ComponentValue) /\ function \in FunctionElement
  BY <1>1, <1>2 DEF Input
<1>4. Len(components) \in Nat /\ DOMAIN components = 1 .. Len(components)
      /\ \A i \in DOMAIN components : components[i] \in ComponentValue
  BY <1>3
<1>5. \A i \in DOMAIN components : components[i].flag \in Flags
  BY <1>4 DEF ComponentValue
<1>6. function.name \in Names
  BY <1>3 DEF FunctionElement
<1> QED
  BY <1>1, <1>2, <1>4, <1>5, <1>6
  DEF FunctionInit, FlagInv, ComponentsAreFlagged, FunctionFlagFollowsChart

\* What all components have is what the chart looks at.
LEMMA ChartOfComponents ==
  ASSUME ComponentsAreFlagged
  PROVE  /\ ChartFunctionFlag(ComponentFlags) = FlagOf({components[i].flag : i \in DOMAIN components})
         /\ CombineFlags(ComponentFlags) = FlagOf({components[i].flag : i \in DOMAIN components})
<1>1. Len(components) \in Nat /\ Len(components) >= 1
  BY DEF ComponentsAreFlagged, HasArity, Names, Combining, Mapping
<1>2. ComponentFlags \in Seq(Flags) /\ ComponentFlags # <<>>
  BY <1>1 DEF ComponentsAreFlagged, ComponentFlags
<1>3. Occurring(ComponentFlags) = {components[i].flag : i \in DOMAIN components}
  BY DEF Occurring, ComponentFlags
<1> QED
  BY <1>2, <1>3, FlagsMatchChart, CombinedIsFlagOf

\* One more component is combined.
LEMMA CombiningKeepsFlags ==
  ASSUME FlagInv, Concat \/ Arithmetic
  PROVE  FlagInv'
<1>1. /\ outcome = "running" /\ function.name \in {"concat", "arithmetic"}
      /\ taken < Len(components) /\ taken' = taken + 1
      /\ UNCHANGED <<function, components, from, outcome>>
  BY DEF Concat, Arithmetic, Running, TakeComponent
<1>2. ComponentsAreFlagged /\ taken \in Nat /\ (taken > 0 => acc.flag = FlagOf(TakenFlags))
  BY <1>1 DEF FlagInv
<1>3. PICK i \in DOMAIN components :
        /\ taken = 0 => acc'.flag = components[i].flag
        /\ taken # 0 => acc'.flag = FlagOf({acc.flag, components[i].flag})
        /\ TakenFlags' = TakenFlags \cup {components[i].flag}
        /\ taken = 0 => TakenFlags = {}
        /\ taken # 0 => TakenFlags # {}
        /\ TakenFlags \subseteq Flags
  <2>1. CASE Concat
    <3> DEFINE n == Len(components) - taken
    <3>1. n \in DOMAIN components /\ n \in Nat
      BY <1>1, <1>2 DEF ComponentsAreFlagged
    <3>2. /\ taken = 0 => acc'.flag = components[n].flag
          /\ taken # 0 => acc'.flag = FlagOf({acc.flag, components[n].flag})
      BY <2>1, CombinedIsFlagOf, TwoOccur DEF Concat, TakeComponent, ProcessComponents
    <3>3. function.name = "concat"
      BY <2>1 DEF Concat, Running
    <3>4. TakenOf' = TakenOf \cup {n} /\ TakenOf \subseteq DOMAIN components
          /\ (taken = 0 => TakenOf = {}) /\ (taken # 0 => Len(components) \in TakenOf)
      BY <1>1, <1>2, <3>1, <3>3 DEF TakenOf, ComponentsAreFlagged
    <3>5. TakenFlags' = TakenFlags \cup {components[n].flag} /\ TakenFlags \subseteq Flags
          /\ (taken = 0 => TakenFlags = {}) /\ (taken # 0 => TakenFlags # {})
      BY <1>1, <1>2, <3>4 DEF TakenFlags, ComponentsAreFlagged
    <3> QED
      BY <3>1, <3>2, <3>5
  <2>2. CASE Arithmetic
    <3> DEFINE n == taken + 1
    <3>1. n \in DOMAIN components /\ n \in Nat
      BY <1>1, <1>2 DEF ComponentsAreFlagged
    <3>2. /\ taken = 0 => acc'.flag = components[n].flag
          /\ taken # 0 => acc'.flag = FlagOf({acc.flag, components[n].flag})
      BY <2>2, CombinedIsFlagOf, TwoOccur
      DEF Arithmetic, TakeComponent, CombineTwoComponentValues
    <3>3. function.name # "concat"
      BY <2>2 DEF Arithmetic, Running
    <3>4. TakenOf' = TakenOf \cup {n} /\ TakenOf \subseteq DOMAIN components
          /\ (taken = 0 => TakenOf = {}) /\ (taken # 0 => 1 \in TakenOf)
      BY <1>1, <1>2, <3>1, <3>3 DEF TakenOf, ComponentsAreFlagged
    <3>5. TakenFlags' = TakenFlags \cup {components[n].flag} /\ TakenFlags \subseteq Flags
          /\ (taken = 0 => TakenFlags = {}) /\ (taken # 0 => TakenFlags # {})
      BY <1>1, <1>2, <3>4 DEF TakenFlags, ComponentsAreFlagged
    <3> QED
      BY <3>1, <3>2, <3>5
  <2> QED
    BY <2>1, <2>2
<1>4. components[i].flag \in Flags
  BY <1>2 DEF ComponentsAreFlagged
<1>5. acc'.flag = FlagOf(TakenFlags')
  <2>1. CASE taken = 0
    BY <1>3, <1>4, <2>1, FlagOfOne
  <2>2. CASE taken # 0
    <3>1. acc.flag = FlagOf(TakenFlags)
      BY <1>2, <2>2
    <3>2. FlagOf({FlagOf(TakenFlags), components[i].flag})
            = FlagOf(TakenFlags \cup {components[i].flag})
      BY <1>3, <1>4, <2>2, FlagsAssociate
    <3> QED
      BY <1>3, <2>2, <3>1, <3>2
  <2> QED
    BY <2>1, <2>2
<1>6. taken' \in Nat /\ taken' <= Len(components)
  BY <1>1, <1>2 DEF ComponentsAreFlagged
<1>7. ComponentsAreFlagged' /\ FunctionFlagFollowsChart'
  BY <1>1, <1>2 DEF ComponentsAreFlagged, FunctionFlagFollowsChart, HasArity
<1> QED
  BY <1>1, <1>5, <1>6, <1>7 DEF FlagInv

\* The flag that is returned.
LEMMA ReturningKeepsFlags ==
  ASSUME FlagInv, UNCHANGED <<function, components>>, outcome' # "running",
         outcome' = "returned" => acc'.flag = FlagOf({components[i].flag : i \in DOMAIN components})
  PROVE  FlagInv'
<1>1. ComponentsAreFlagged
  BY DEF FlagInv
<1>2. ComponentsAreFlagged' /\ ComponentFlags' = ComponentFlags
  BY <1>1 DEF ComponentsAreFlagged, HasArity, ComponentFlags
<1>3. FunctionFlagFollowsChart'
  BY <1>1, <1>2, ChartOfComponents DEF FunctionFlagFollowsChart
<1> QED
  BY <1>2, <1>3 DEF FlagInv

\* Every action of a function keeps what is known of its flag.
LEMMA NextKeepsFlags == FlagInv /\ [FunctionNext]_functionVars => FlagInv'
<1> SUFFICES ASSUME FlagInv, [FunctionNext]_functionVars PROVE FlagInv'
  OBVIOUS
<1> DEFINE All == {components[i].flag : i \in DOMAIN components}
<1>1. ComponentsAreFlagged
  BY DEF FlagInv
<1>2. Len(components) = 1 => All = {components[1].flag} /\ FlagOf(All) = components[1].flag
  <2> SUFFICES ASSUME Len(components) = 1
               PROVE  All = {components[1].flag} /\ FlagOf(All) = components[1].flag
    OBVIOUS
  <2>1. DOMAIN components = {1} /\ components[1].flag \in Flags
    BY <1>1 DEF ComponentsAreFlagged
  <2>2. All = {components[1].flag}
    BY <2>1
  <2> QED
    BY <2>1, <2>2, FlagOfOne
<1>3. CASE Concat \/ Arithmetic
  BY <1>3, CombiningKeepsFlags
<1>4. CASE CombinationReturns
  <2>1. outcome = "running" /\ function.name \in {"concat", "arithmetic"}
        /\ taken = Len(components) /\ acc' = acc /\ outcome' = "returned"
        /\ UNCHANGED <<function, components>>
    BY <1>4 DEF CombinationReturns, Running, Return
  <2>2. taken >= 2
    BY <1>1, <2>1 DEF ComponentsAreFlagged, HasArity
  <2>3. acc.flag = FlagOf(TakenFlags)
    BY <1>1, <2>1, <2>2 DEF FlagInv
  <2>4. TakenOf = DOMAIN components
    BY <1>1, <2>1 DEF TakenOf, ComponentsAreFlagged
  <2> QED
    BY <2>1, <2>3, <2>4, ReturningKeepsFlags DEF TakenFlags
<1>5. CASE CountValues \/ Unique
  BY <1>1, <1>5, ChartOfComponents, ReturningKeepsFlags DEF CountValues, Unique, Return
<1>6. CASE MapValues
  <2>1. Len(components) = 1
    BY <1>1, <1>6 DEF ComponentsAreFlagged, MapValues, Running, Mapping, HasArity
  <2> QED
    BY <1>2, <1>6, <2>1, ReturningKeepsFlags DEF MapValues, Return
<1>7. CASE SubstringRaises \/ TimeDifferenceRaises
  BY <1>7, ReturningKeepsFlags DEF SubstringRaises, TimeDifferenceRaises, Raise
<1>8. CASE SplitAtDelimiter \/ SplitRest
  <2>1. function.name = "split" /\ outcome = "running" /\ UNCHANGED <<function, components, outcome>>
    BY <1>8 DEF SplitAtDelimiter, SplitRest, Running
  <2> QED
    BY <1>1, <2>1 DEF FlagInv, ComponentsAreFlagged, HasArity, FunctionFlagFollowsChart
<1>9. CASE SplitReturns
  <2>1. Len(components) = 1
    BY <1>1, <1>9 DEF ComponentsAreFlagged, SplitReturns, Running, HasArity
  <2> QED
    BY <1>2, <1>9, <2>1, ReturningKeepsFlags DEF SplitReturns, Return
<1>10. CASE TimeDifference
  <2>1. Len(components) \in {1, 2}
    BY <1>1, <1>10 DEF ComponentsAreFlagged, TimeDifference, Running, HasArity
  <2>2. acc'.flag = FlagOf({First.flag, Second.flag}) /\ outcome' = "returned"
        /\ UNCHANGED <<function, components>>
    BY <1>10, CombinedIsFlagOf, TwoOccur DEF TimeDifference, Return
  <2>3. FlagOf({First.flag, Second.flag}) = FlagOf(All)
    <3>1. CASE Len(components) = 1
      <4>1. First.flag = "complete" /\ Second.flag = components[1].flag
            /\ components[1].flag \in Flags
        BY <1>1, <3>1 DEF First, Second, ComponentsAreFlagged
      <4> QED
        BY <1>2, <3>1, <4>1 DEF FlagOf, Flags
    <3>2. CASE Len(components) = 2
      <4>1. First.flag = components[1].flag /\ Second.flag = components[2].flag
        BY <3>2 DEF First, Second
      <4>2. All = {components[1].flag, components[2].flag}
        BY <1>1, <3>2 DEF ComponentsAreFlagged
      <4> QED
        BY <4>1, <4>2
    <3> QED
      BY <2>1, <3>1, <3>2
  <2> QED
    BY <2>2, <2>3, ReturningKeepsFlags
<1>11. CASE UNCHANGED functionVars
  BY <1>11 DEF functionVars, FlagInv, ComponentsAreFlagged, HasArity, FunctionFlagFollowsChart, TakenFlags,
     TakenOf, ComponentFlags
<1> QED
  BY <1>3, <1>4, <1>5, <1>6, <1>7, <1>8, <1>9, <1>10, <1>11 DEF FunctionNext

\* The flag of a function that returns is the one of the chart for the flags of all
\* its components, though concat and arithmetic combine them two at a time and from
\* opposite ends (ConcatFunction.cpp:59-103, ArithmeticFunction.cpp:51-80).
THEOREM FunctionFlagsFollow == FunctionSpec => []FunctionFlagFollowsChart
<1>1. FlagInv => FunctionFlagFollowsChart
  BY DEF FlagInv
<1> QED
  BY <1>1, InitFlags, NextKeepsFlags, PTL DEF FunctionSpec

-----------------------------------------------------------------------------
\* The texts that functions make.

Text == Seq(Int)

\* A piece of a text, character by character.
LEMMA PieceOf ==
  ASSUME NEW v \in Text, NEW m \in Nat \ {0}, NEW n \in Nat, n <= Len(v)
  PROVE  /\ SubSeq(v, m, n) \in Text
         /\ Len(SubSeq(v, m, n)) = IF m <= n THEN n - m + 1 ELSE 0
         /\ \A i \in 1 .. n - m + 1 : SubSeq(v, m, n)[i] = v[m + i - 1]
<1>1. \A i \in m .. n : v[i] \in Int
  BY DEF Text
<1>2. m \in Int /\ n \in Int
  OBVIOUS
<1> QED
  BY <1>1, <1>2, SubSeqProperties, Z3 DEF Text

\* Texts with the same characters are the same.
LEMMA SameTexts ==
  ASSUME NEW a \in Text, NEW b \in Text, Len(a) = Len(b), \A i \in 1 .. Len(a) : a[i] = b[i]
  PROVE  a = b
BY DEF Text

\* To begin or end with a text, character by character.
LEMMA BeginsMeans ==
  ASSUME NEW text \in Text, NEW v \in Text
  PROVE  BeginsWith(text, v) <=>
           Len(v) >= Len(text) /\ \A i \in 1 .. Len(text) : v[i] = text[i]
<1>1. Len(text) \in Nat /\ Len(v) \in Nat
  BY DEF Text
<1>2. CASE Len(v) >= Len(text)
  <2> DEFINE s == SubSeq(v, 1, Len(text))
  <2>1. s \in Text /\ Len(s) = Len(text) /\ \A i \in 1 .. Len(text) : s[i] = v[i]
    BY <1>1, <1>2, PieceOf
  <2>2. (\A i \in 1 .. Len(text) : v[i] = text[i]) => s = text
    <3> HIDE DEF s
    <3> QED
      BY <1>1, <2>1, SameTexts
  <2> QED
    BY <1>2, <2>1, <2>2 DEF BeginsWith
<1>3. CASE ~(Len(v) >= Len(text))
  BY <1>3 DEF BeginsWith
<1> QED
  BY <1>2, <1>3

LEMMA EndsMeans ==
  ASSUME NEW text \in Text, NEW v \in Text
  PROVE  EndsWith(text, v) <=>
           /\ Len(v) >= Len(text)
           /\ \A i \in 1 .. Len(text) : v[Len(v) - Len(text) + i] = text[i]
<1>1. Len(text) \in Nat /\ Len(v) \in Nat
  BY DEF Text
<1>2. CASE Len(v) >= Len(text)
  <2> DEFINE m == Len(v) - Len(text) + 1
             s == SubSeq(v, m, Len(v))
  <2>1. /\ m \in Nat \ {0} /\ Len(v) - m + 1 = Len(text) /\ (m <= Len(v) <=> Len(text) > 0)
        /\ \A i \in 1 .. Len(text) : m + i - 1 = Len(v) - Len(text) + i
    BY <1>1, <1>2
  <2>5. EndsWith(text, v) <=> s = text
    BY <1>2 DEF EndsWith
  <2> HIDE DEF m, s
  <2>2. s \in Text /\ Len(s) = (IF m <= Len(v) THEN Len(v) - m + 1 ELSE 0)
        /\ \A i \in 1 .. Len(v) - m + 1 : s[i] = v[m + i - 1]
    BY <1>1, <2>1, PieceOf DEF s
  <2>3. Len(s) = Len(text) /\ \A i \in 1 .. Len(text) : s[i] = v[Len(v) - Len(text) + i]
    BY <1>1, <1>2, <2>1, <2>2
  <2>4. (\A i \in 1 .. Len(text) : v[Len(v) - Len(text) + i] = text[i]) => s = text
    BY <1>1, <2>2, <2>3, SameTexts
  <2> QED
    BY <1>2, <2>3, <2>4, <2>5
<1>3. CASE ~(Len(v) >= Len(text))
  BY <1>3 DEF EndsWith
<1> QED
  BY <1>2, <1>3

\* A delimiter occurs at a place of a text if its characters are there.
LEMMA OccursMeans ==
  ASSUME function.text \in Text, NEW v \in Text, NEW p \in Nat \ {0}
  PROVE  OccursAt(v, p) <=>
           /\ p <= Len(v) /\ p + Len(function.text) <= Len(v) + 1
           /\ \A i \in 1 .. Len(function.text) : v[p + i - 1] = function.text[i]
<1>1. Len(v) \in Nat /\ Len(function.text) \in Nat
  BY DEF Text
<1>2. CASE p <= Len(v)
  <2> DEFINE rest == SubSeq(v, p, Len(v))
  <2>1. rest \in Text /\ Len(rest) = Len(v) - p + 1
        /\ \A i \in 1 .. Len(v) - p + 1 : rest[i] = v[p + i - 1]
    BY <1>1, <1>2, PieceOf
  <2> HIDE DEF rest
  <2>2. BeginsWith(function.text, rest) <=>
          Len(rest) >= Len(function.text)
          /\ \A i \in 1 .. Len(function.text) : rest[i] = function.text[i]
    BY <2>1, BeginsMeans
  <2>3. BeginsWith(function.text, rest) <=>
          /\ p + Len(function.text) <= Len(v) + 1
          /\ \A i \in 1 .. Len(function.text) : v[p + i - 1] = function.text[i]
    BY <1>1, <2>1, <2>2
  <2> QED
    BY <1>2, <2>3 DEF OccursAt, rest
<1>3. CASE ~(p <= Len(v))
  BY <1>3 DEF OccursAt
<1> QED
  BY <1>2, <1>3

-----------------------------------------------------------------------------
\* What begin, end and substring make of a value.

LEMMA BeginAdds ==
  ASSUME function.text \in Text, NEW v \in Text
  PROVE  Begin(v) = IF BeginsWith(function.text, v) /\ v # function.text THEN v
                    ELSE function.text \o v
<1> DEFINE text == function.text
<1>1. Len(text) \in Nat /\ Len(v) \in Nat
  BY DEF Text
<1>2. ASSUME BeginsWith(text, v), ~(Len(v) > Len(text))
      PROVE  v = text
  <2>1. Len(v) = Len(text) /\ SubSeq(v, 1, Len(v)) = text
    BY <1>1, <1>2 DEF BeginsWith
  <2> QED
    BY <2>1 DEF Text
<1>3. v = text => ~(Len(v) > Len(text))
  BY <1>1
<1> QED
  BY <1>2, <1>3 DEF Begin

LEMMA EndAdds ==
  ASSUME function.text \in Text, NEW v \in Text
  PROVE  End(v) = IF EndsWith(function.text, v) /\ v # function.text THEN v
                  ELSE v \o function.text
<1> DEFINE text == function.text
<1>1. Len(text) \in Nat /\ Len(v) \in Nat
  BY DEF Text
<1>2. ASSUME EndsWith(text, v), ~(Len(v) > Len(text))
      PROVE  v = text
  <2>1. Len(v) = Len(text) /\ SubSeq(v, 1, Len(v)) = text
    BY <1>1, <1>2 DEF EndsWith
  <2> QED
    BY <2>1 DEF Text
<1>3. v = text => ~(Len(v) > Len(text))
  BY <1>1
<1> QED
  BY <1>2, <1>3 DEF End

FirstChar == IF function.start < 1 THEN 1 ELSE function.start
Slice(v) ==
  {p \in DOMAIN v : p >= FirstChar /\ (function.length < 0 \/ p < FirstChar + function.length)}

LEMMA SubstringSlices ==
  ASSUME NEW v \in Text, function.start \in Int, function.length \in Int,
         ~(function.start > Len(v))
  PROVE  /\ Len(Substring(v)) = Cardinality(Slice(v))
         /\ \A p \in Slice(v) : Substring(v)[p - FirstChar + 1] = v[p]
<1> DEFINE n      == Len(v)
           start  == IF function.start > 1 THEN function.start - 1 ELSE 0
           length == IF function.length \in 0 .. (n - 1) THEN function.length ELSE n
           last   == IF start + length < n THEN start + length ELSE n
           s      == SubSeq(v, start + 1, last)
<1>1. n \in Nat /\ DOMAIN v = 1 .. n
  BY DEF Text
<1>2. Substring(v) = s
  BY DEF Substring
<1>3. start \in Nat /\ start + 1 = FirstChar /\ length \in Nat /\ last \in Nat /\ last <= n
      /\ last + 1 >= start + 1
  BY <1>1 DEF FirstChar
<1>4. Slice(v) = start + 1 .. last
  <2>1. \A p \in 1 .. n :
          (p >= FirstChar /\ (function.length < 0 \/ p < FirstChar + function.length))
            <=> (start + 1 <= p /\ p <= last)
    <3>1. CASE function.length < 0
      BY <1>1, <1>3, <3>1 DEF FirstChar
    <3>2. CASE function.length \in 0 .. (n - 1)
      BY <1>1, <1>3, <3>2 DEF FirstChar
    <3>3. CASE function.length >= n
      BY <1>1, <1>3, <3>3 DEF FirstChar
    <3> QED
      BY <1>1, <3>1, <3>2, <3>3
  <2> HIDE DEF start, last
  <2>2. start + 1 .. last \subseteq 1 .. n
    BY <1>1, <1>3
  <2> QED
    BY <1>1, <2>1, <2>2, <1>3 DEF Slice
<1>5. Cardinality(Slice(v)) = IF start + 1 > last THEN 0 ELSE last - (start + 1) + 1
  <2>1. start + 1 \in Int /\ last \in Int
    BY <1>3
  <2> HIDE DEF start, last
  <2> QED
    BY <1>4, <2>1, FS_Interval
<1>6. Len(s) = (IF start + 1 <= last THEN last - (start + 1) + 1 ELSE 0)
      /\ \A i \in 1 .. last - (start + 1) + 1 : s[i] = v[(start + 1) + i - 1]
  <2>1. start + 1 \in Nat \ {0} /\ last \in Nat /\ last <= Len(v)
    BY <1>3
  <2> HIDE DEF start, last
  <2> QED
    BY <2>1, PieceOf
<1> HIDE DEF start, last, s
<1>7. Len(s) = Cardinality(Slice(v))
  BY <1>3, <1>5, <1>6
<1>8. \A p \in Slice(v) : s[p - FirstChar + 1] = v[p]
  <2> SUFFICES ASSUME NEW p \in start + 1 .. last PROVE s[p - (start + 1) + 1] = v[p]
    BY <1>3, <1>4
  <2> DEFINE i == p - (start + 1) + 1
  <2>1. i \in 1 .. last - (start + 1) + 1 /\ (start + 1) + i - 1 = p
    BY <1>3
  <2> HIDE DEF i
  <2>2. s[i] = v[p]
    BY <1>6, <2>1
  <2> QED
    BY <2>2 DEF i
<1> QED
  BY <1>2, <1>7, <1>8

-----------------------------------------------------------------------------
\* Split.

IsClean(piece) == \A p \in DOMAIN piece : ~OccursAt(piece, p)

\* What lies before the first delimiter has none in it.
LEMMA PieceIsClean ==
  ASSUME function.text \in Text, NEW v \in Text, NEW m \in Nat \ {0}, NEW n \in Nat, n <= Len(v),
         \A q \in m .. n : ~OccursAt(v, q)
  PROVE  SubSeq(v, m, n) \in Text /\ IsClean(SubSeq(v, m, n))
<1> DEFINE piece == SubSeq(v, m, n)
           text  == function.text
<1>1. Len(v) \in Nat /\ Len(text) \in Nat
  BY DEF Text
<1>2. piece \in Text /\ Len(piece) = (IF m <= n THEN n - m + 1 ELSE 0)
      /\ \A i \in 1 .. n - m + 1 : piece[i] = v[m + i - 1]
  BY PieceOf
<1> HIDE DEF piece
<1>3. \A p \in DOMAIN piece : ~OccursAt(piece, p)
  <2> SUFFICES ASSUME NEW p \in DOMAIN piece, OccursAt(piece, p) PROVE FALSE
    OBVIOUS
  <2>0. piece \in Seq(Int)
    BY <1>2 DEF Text
  <2>1. p \in 1 .. Len(piece) /\ p \in Nat \ {0}
    BY <2>0
  <2>2. p + Len(text) <= Len(piece) + 1 /\ \A i \in 1 .. Len(text) : piece[p + i - 1] = text[i]
    BY <1>2, <2>1, OccursMeans
  <2>3. m <= n /\ Len(piece) = n - m + 1
    BY <1>2, <2>1
  <2> DEFINE q == m + p - 1
  <2>4. q \in m .. n /\ q \in Nat \ {0} /\ q <= Len(v) /\ q + Len(text) <= Len(v) + 1
    BY <1>1, <2>1, <2>2, <2>3
  <2>5. \A i \in 1 .. Len(text) : v[q + i - 1] = text[i]
    <3> SUFFICES ASSUME NEW i \in 1 .. Len(text) PROVE v[q + i - 1] = text[i]
      OBVIOUS
    <3> DEFINE j == p + i - 1
    <3>1. j \in 1 .. n - m + 1 /\ m + j - 1 = q + i - 1
      <4>1. p + Len(text) <= (n - m + 1) + 1
        BY <2>2, <2>3
      <4>2. i \in Nat /\ 1 <= i /\ i <= Len(text)
        BY <1>1
      <4> HIDE DEF text
      <4> QED
        BY <1>1, <2>1, <4>1, <4>2
    <3>2. piece[j] = text[i]
      BY <2>2
    <3> HIDE DEF j, q
    <3> QED
      BY <1>2, <3>1, <3>2
  <2> HIDE DEF q
  <2>6. OccursAt(v, q)
    BY <2>4, <2>5, OccursMeans
  <2> QED
    BY <2>4, <2>6
<1> QED
  BY <1>2, <1>3 DEF IsClean, piece

\* The first delimiter is the one that CHOOSE names.
LEMMA FirstMatch ==
  ASSUME from \in Nat, Value \in Text, Matches # {}
  PROVE  \E match \in Matches :
           /\ match = CHOOSE p \in Matches : \A q \in Matches : p <= q
           /\ \A q \in Matches : match <= q
<1>1. Matches \subseteq Nat
  BY DEF Matches, Text
<1>2. PICK match \in Matches : \A q \in Matches : match <= q
  BY <1>1, LeastNumber
<1> QED
  BY <1>2

-----------------------------------------------------------------------------
\* The functions and their inputs, and the pieces that split has made so far.

FunctionIsTyped ==
  /\ function.name \in Names /\ function.text \in Text
  /\ function.start \in Int /\ function.length \in Int
  /\ components \in Seq(ComponentValue) /\ HasArity(function.name, Len(components))

BoundsAreRight == PiecesAreClean /\ AffixIsAdded /\ SubstringIsTheSlice

TextsInv ==
  /\ FunctionIsTyped
  /\ outcome = "running" /\ function.name = "split" =>
       /\ taken \in Nat /\ from \in Nat \ {0} /\ acc \in ComponentValue
       /\ \A k \in DOMAIN acc.values : IsClean(acc.values[k])
  /\ BoundsAreRight

\* Nothing has been split at first.
LEMMA InitTextsInv == FunctionInit => TextsInv
<1> SUFFICES ASSUME FunctionInit PROVE TextsInv
  OBVIOUS
<1>1. PICK in \in Inputs : function = in.function /\ components = in.components
  BY DEF FunctionInit
<1>2. in \in Input /\ HasArity(in.function.name, Len(in.components))
  BY InputsAssumption
<1>3. components \in Seq(ComponentValue) /\ function \in FunctionElement
  BY <1>1, <1>2 DEF Input
<1>4. FunctionIsTyped
  BY <1>1, <1>2, <1>3 DEF FunctionIsTyped, FunctionElement, Text
<1>5. taken = 0 /\ from = 1 /\ acc = [flag |-> "error", values |-> <<>>] /\ outcome = "running"
  BY DEF FunctionInit
<1>6. acc \in ComponentValue /\ DOMAIN acc.values = {}
  BY <1>5 DEF ComponentValue, Flags
<1>7. BoundsAreRight
  BY <1>5 DEF BoundsAreRight, PiecesAreClean, AffixIsAdded, SubstringIsTheSlice, Returned
<1> QED
  BY <1>4, <1>5, <1>6, <1>7 DEF TextsInv

\* A function of another kind, or that fails, has no text to be right.
LEMMA OtherKeepsTexts ==
  ASSUME TextsInv, UNCHANGED <<function, components>>,
         function.name \notin Mapping \cup {"split"}
         \/ outcome' = "raised"
  PROVE  TextsInv'
<1>1. FunctionIsTyped'
  BY DEF TextsInv, FunctionIsTyped, HasArity
<1>2. BoundsAreRight'
  BY DEF BoundsAreRight, PiecesAreClean, AffixIsAdded, SubstringIsTheSlice, Returned, Mapping
<1> QED
  BY <1>1, <1>2 DEF TextsInv

\* Such a function has one component, whose values are texts.
LEMMA ValuesAreTexts ==
  ASSUME FunctionIsTyped, function.name \in Mapping \cup {"split"}
  PROVE  /\ components[1] \in ComponentValue
         /\ components[1].values \in Seq(Text)
<1>1. Len(components) = 1
  BY DEF FunctionIsTyped, HasArity, Mapping
<1>2. components[1] \in ComponentValue
  <2>1. components \in Seq(ComponentValue)
    BY DEF FunctionIsTyped
  <2> QED
    BY <1>1, <2>1
<1> QED
  BY <1>2 DEF ComponentValue, Text

\* A function of one component makes something of each of its values.
LEMMA MappingKeepsTexts ==
  ASSUME TextsInv, MapValues
  PROVE  TextsInv'
<1> DEFINE values == components[1].values
<1>1. /\ UNCHANGED <<function, components>> /\ outcome' = "returned"
      /\ function.name \in Mapping /\ ~(HasInput /\ StartTooLarge)
      /\ acc'.values = IF ~HasInput THEN <<>> ELSE [k \in DOMAIN values |-> Mapped(values[k])]
  BY DEF MapValues, Running, Return
<1>2. FunctionIsTyped
  BY DEF TextsInv
<1>3. FunctionIsTyped'
  BY <1>1, <1>2 DEF FunctionIsTyped, HasArity
<1>4. values \in Seq(Text)
  BY <1>1, <1>2, ValuesAreTexts
<1>5. \A k \in DOMAIN values : values[k] \in Text
  BY <1>4
<1>6. function.text \in Text /\ function.start \in Int /\ function.length \in Int
  BY <1>2 DEF FunctionIsTyped
<1>7. CASE function.name \in {"begin", "end"}
  <2>1. \A k \in DOMAIN values : Mapped(values[k]) =
          IF function.name = "begin" THEN Begin(values[k]) ELSE End(values[k])
    BY <1>7 DEF Mapped
  <2>2. components[1].flag = "complete" => \A k \in DOMAIN values : acc'.values[k] = Mapped(values[k])
    BY <1>1, <1>7 DEF HasInput
  <2>3. components[1].flag = "complete" => \A k \in DOMAIN values :
          acc'.values[k] = IF HasAffix(values[k]) /\ values[k] # function.text THEN values[k]
                           ELSE WithAffix(values[k])
    BY <1>5, <1>6, <1>7, <2>1, <2>2, BeginAdds, EndAdds DEF HasAffix, WithAffix
  <2>4. AffixIsAdded'
    BY <1>1, <2>3 DEF AffixIsAdded, HasAffix, WithAffix, BeginsWith, EndsWith
  <2> QED
    BY <1>1, <1>3, <1>7, <2>4 DEF TextsInv, BoundsAreRight, PiecesAreClean, SubstringIsTheSlice,
       Returned
<1>8. CASE function.name = "substring"
  <2>1. \A k \in DOMAIN values : Mapped(values[k]) = Substring(values[k])
    BY <1>8 DEF Mapped
  <2>2. components[1].flag = "complete" =>
          \A k \in DOMAIN values : /\ acc'.values[k] = Substring(values[k])
                                   /\ ~(function.start > Len(values[k]))
    BY <1>1, <1>8, <2>1 DEF HasInput, StartTooLarge, Occurring
  <2>3. components[1].flag = "complete" => \A k \in DOMAIN values :
          /\ Len(acc'.values[k]) = Cardinality(Slice(values[k]))
          /\ \A p \in Slice(values[k]) : acc'.values[k][p - FirstChar + 1] = values[k][p]
    BY <1>5, <1>6, <2>2, SubstringSlices
  <2>4. SubstringIsTheSlice'
    BY <1>1, <2>3 DEF SubstringIsTheSlice, Slice, FirstChar
  <2> QED
    BY <1>1, <1>3, <1>8, <2>4 DEF TextsInv, BoundsAreRight, PiecesAreClean, AffixIsAdded, Returned
<1>9. CASE function.name \notin {"begin", "end", "substring"}
  <2>1. function.name # "split"
    BY <1>1 DEF Mapping
  <2> QED
    BY <1>1, <1>3, <1>9, <2>1 DEF TextsInv, BoundsAreRight, PiecesAreClean, AffixIsAdded,
       SubstringIsTheSlice, Returned
<1> QED
  BY <1>7, <1>8, <1>9

\* One more piece.
LEMMA SplittingKeepsTexts ==
  ASSUME TextsInv, SplitAtDelimiter \/ SplitRest
  PROVE  TextsInv'
<1>1. /\ UNCHANGED <<function, components, outcome>> /\ outcome = "running"
      /\ function.name = "split" /\ HasMoreValues
  BY DEF SplitAtDelimiter, SplitRest, Running
<1>2. /\ FunctionIsTyped /\ taken \in Nat /\ from \in Nat \ {0} /\ acc \in ComponentValue
      /\ \A k \in DOMAIN acc.values : IsClean(acc.values[k])
  BY <1>1 DEF TextsInv
<1>3. function.text \in Text /\ components[1].values \in Seq(Text)
  BY <1>1, <1>2, ValuesAreTexts DEF FunctionIsTyped
<1>4. Value \in Text /\ Len(Value) \in Nat
  <2>1. taken + 1 \in DOMAIN components[1].values
    BY <1>1, <1>2, <1>3 DEF HasMoreValues
  <2> QED
    BY <1>3, <2>1 DEF Value, Text
<1>5. \E last \in Nat :
        /\ last <= Len(Value) /\ AppendPiece(last)
        /\ \A q \in from .. last : ~OccursAt(Value, q)
        /\ from' \in Nat \ {0} /\ taken' \in Nat
  <2>1. CASE SplitAtDelimiter
    <3>1. PICK match \in Matches :
            /\ match = CHOOSE p \in Matches : \A q \in Matches : p <= q
            /\ \A q \in Matches : match <= q
      BY <1>2, <1>4, <2>1, FirstMatch DEF SplitAtDelimiter
    <3>2. AppendPiece(match - 1) /\ from' = match + Len(function.text) /\ taken' = taken
      BY <2>1, <3>1 DEF SplitAtDelimiter
    <3>3. match \in Nat \ {0} /\ match >= from /\ match <= Len(Value) /\ Len(function.text) \in Nat
      BY <1>2, <1>3, <1>4, <3>1 DEF Matches, Text
    <3>4. \A q \in from .. match - 1 : ~OccursAt(Value, q)
      BY <1>2, <1>4, <3>1, <3>3 DEF Matches
    <3>5. match - 1 \in Nat /\ match - 1 <= Len(Value) /\ from' \in Nat \ {0}
      BY <1>4, <3>2, <3>3
    <3> QED
      BY <1>2, <3>2, <3>4, <3>5
  <2>2. CASE SplitRest
    BY <1>2, <1>4, <2>2 DEF SplitRest, Matches
  <2> QED
    BY <2>1, <2>2
<1>6. PICK last \in Nat :
        /\ last <= Len(Value) /\ AppendPiece(last)
        /\ \A q \in from .. last : ~OccursAt(Value, q)
        /\ from' \in Nat \ {0} /\ taken' \in Nat
  BY <1>5
<1> DEFINE piece == SubSeq(Value, from, last)
<1>7. piece \in Text /\ IsClean(piece)
  BY <1>2, <1>3, <1>4, <1>6, PieceIsClean
<1>8. acc' = [acc EXCEPT !.values = Append(acc.values, piece)]
  BY <1>6 DEF AppendPiece
<1> HIDE DEF piece
<1>9. acc' \in ComponentValue /\ acc'.values = Append(acc.values, piece)
      /\ acc.values \in Seq(Text)
  <2>1. acc.flag \in Flags /\ acc.values \in Seq(Text)
    BY <1>2 DEF ComponentValue, Text
  <2>2. Append(acc.values, piece) \in Seq(Text)
    BY <1>7, <2>1
  <2> DEFINE more == Append(acc.values, piece)
  <2> HIDE DEF more
  <2>3. acc' = [acc EXCEPT !.values = more] /\ more \in Seq(Text)
    BY <1>8, <2>2 DEF more
  <2>4. acc' \in ComponentValue /\ acc'.values = more
    BY <1>2, <2>1, <2>3 DEF ComponentValue, Text
  <2> QED
    BY <2>1, <2>4 DEF more
<1>10. \A k \in DOMAIN acc'.values : acc'.values[k] = piece
         \/ (k \in DOMAIN acc.values /\ acc'.values[k] = acc.values[k])
  BY <1>9
<1>11. \A k \in DOMAIN acc'.values : IsClean(acc'.values[k])
  BY <1>2, <1>7, <1>10
<1>12. (\A k \in DOMAIN acc.values : IsClean(acc.values[k]))'
  BY <1>1, <1>11 DEF IsClean, OccursAt, BeginsWith
<1>13. FunctionIsTyped' /\ BoundsAreRight'
  BY <1>1, <1>2 DEF FunctionIsTyped, HasArity, BoundsAreRight, PiecesAreClean, AffixIsAdded,
     SubstringIsTheSlice, Returned
<1> QED
  BY <1>6, <1>9, <1>12, <1>13 DEF TextsInv

\* The pieces are returned.
LEMMA SplitReturnsTexts ==
  ASSUME TextsInv, SplitReturns
  PROVE  TextsInv'
<1>1. /\ UNCHANGED <<function, components>> /\ outcome = "running" /\ outcome' = "returned"
      /\ function.name = "split" /\ acc'.values = acc.values
  BY DEF SplitReturns, Running, Return
<1>2. \A k \in DOMAIN acc.values : IsClean(acc.values[k])
  BY <1>1 DEF TextsInv
<1>3. PiecesAreClean'
  BY <1>1, <1>2 DEF PiecesAreClean, IsClean, OccursAt, BeginsWith
<1>4. FunctionIsTyped'
  BY <1>1 DEF TextsInv, FunctionIsTyped, HasArity
<1> QED
  BY <1>1, <1>3, <1>4 DEF TextsInv, BoundsAreRight, AffixIsAdded, SubstringIsTheSlice, Returned

\* Every action keeps the texts right.
LEMMA NextTextsInv == TextsInv /\ [FunctionNext]_functionVars => TextsInv'
<1> SUFFICES ASSUME TextsInv, [FunctionNext]_functionVars PROVE TextsInv'
  OBVIOUS
<1>1. CASE Concat \/ Arithmetic \/ CombinationReturns \/ CountValues \/ Unique
           \/ TimeDifference \/ TimeDifferenceRaises
  <2>1. /\ UNCHANGED <<function, components>>
        /\ function.name \in {"concat", "arithmetic", "count", "unique", "time_difference"}
    BY <1>1 DEF Concat, Arithmetic, CombinationReturns, CountValues, Unique, TimeDifference,
       TimeDifferenceRaises, Running, Return, Raise, TakeComponent
  <2>2. function.name \notin Mapping \cup {"split"}
    BY <2>1 DEF Mapping
  <2> QED
    BY <2>1, <2>2, OtherKeepsTexts
<1>2. CASE SubstringRaises
  BY <1>2, OtherKeepsTexts DEF SubstringRaises, Raise
<1>3. CASE MapValues
  BY <1>3, MappingKeepsTexts
<1>4. CASE SplitAtDelimiter \/ SplitRest
  BY <1>4, SplittingKeepsTexts
<1>5. CASE SplitReturns
  BY <1>5, SplitReturnsTexts
<1>6. CASE UNCHANGED functionVars
  <2>1. UNCHANGED <<function, components, taken, from, acc, outcome>>
    BY <1>6 DEF functionVars
  <2>2. FunctionIsTyped'
    BY <2>1 DEF TextsInv, FunctionIsTyped, HasArity
  <2>3. PiecesAreClean' /\ SubstringIsTheSlice'
    BY <2>1 DEF TextsInv, BoundsAreRight, PiecesAreClean, SubstringIsTheSlice, Returned, OccursAt,
       BeginsWith
  <2>4. AffixIsAdded'
    BY <2>1, Zenon DEF TextsInv, BoundsAreRight, AffixIsAdded, HasAffix, WithAffix, Returned,
       BeginsWith, EndsWith
  <2> QED
    BY <2>1, <2>2, <2>3, <2>4 DEF TextsInv, BoundsAreRight, IsClean, OccursAt, BeginsWith
<1> QED
  BY <1>1, <1>2, <1>3, <1>4, <1>5, <1>6 DEF FunctionNext

-----------------------------------------------------------------------------
\* What the recursive functions of the properties are, step by step.

IsNumbers(s) == s \in Seq(Int)

LEMMA SumsAre ==
  ASSUME NEW s, IsNumbers(s)
  PROVE  /\ Sums(s) \in [0 .. Len(s) -> Int] /\ Sums(s)[0] = 0
         /\ \A i \in 1 .. Len(s) : Sums(s)[i] = Sums(s)[i - 1] + s[i]
<1>a. PICK N \in Nat : N = Len(s)
  BY DEF IsNumbers
<1>1. \A i \in 1 .. N : s[i] \in Int
  BY <1>a DEF IsNumbers
<1> DEFINE step == [x \in (1 .. N) \X Int |-> x[2] + s[x[1]]]
<1>2. step \in StepTables(Int, N) /\ 0 \in Int /\ 1 \in Int
  BY <1>1 DEF StepTables
<1>3. \A i \in 1 .. N, n \in Int : step[<<i, n>>] = n + s[i]
  BY <1>1
<1> HIDE DEF step
<1>4. \E f \in [0 .. N -> Int] : Unfolds(f, 0, N, step)
  BY <1>2, StepByStep, Zenon
<1>5. PICK f \in [0 .. N -> Int] : f[0] = 0 /\ \A i \in 1 .. N : f[i] = step[<<i, f[i - 1]>>]
  BY <1>4 DEF Unfolds
<1> DEFINE Follows(g) == g = [i \in 0 .. N |-> IF i = 0 THEN 0 ELSE g[i - 1] + s[i]]
           sums == CHOOSE g : Follows(g)
<1>6. Follows(f)
  <2>1. \A i \in 0 .. N : f[i] = IF i = 0 THEN 0 ELSE f[i - 1] + s[i]
    <3> TAKE i \in 0 .. N
    <3>1. CASE i # 0
      <4>1. i \in 1 .. N /\ i - 1 \in 0 .. N
        BY <1>2, <3>1
      <4>2. f[i] = step[<<i, f[i - 1]>>] /\ f[i - 1] \in Int
        BY <1>5, <4>1
      <4> QED
        BY <1>3, <3>1, <4>1, <4>2
    <3> QED
      BY <1>5, <3>1
  <2> QED
    BY <2>1
<1>7. Sums(s) = sums
  BY <1>a DEF Sums
<1>8. Follows(sums)
  <2> HIDE DEF Follows
  <2> QED
    BY <1>6
<1> HIDE DEF sums
<1>9. DOMAIN sums = 0 .. N /\ \A i \in 0 .. N : sums[i] = IF i = 0 THEN 0 ELSE sums[i - 1] + s[i]
  BY <1>8
<1>10. \A i \in 0 .. N : sums[i] \in Int
  <2> DEFINE T == {n \in Nat : n <= N => sums[n] \in Int}
  <2>1. 0 \in T
    BY <1>1, <1>9
  <2>2. \A n \in Nat : n \in T => n + 1 \in T
    BY <1>1, <1>9
  <2> HIDE DEF T
  <2>3. Nat \subseteq T
    BY <2>1, <2>2, SetInduction
  <2> QED
    BY <1>1, <2>3 DEF T
<1>11. sums \in [0 .. N -> Int]
  BY <1>8, <1>9, <1>10
<1> QED
  BY <1>a, <1>1, <1>7, <1>9, <1>11

LEMMA ProductsAre ==
  ASSUME NEW s, IsNumbers(s)
  PROVE  /\ Products(s) \in [0 .. Len(s) -> Int] /\ Products(s)[0] = 1
         /\ \A i \in 1 .. Len(s) : Products(s)[i] = Products(s)[i - 1] * s[i]
<1>a. PICK N \in Nat : N = Len(s)
  BY DEF IsNumbers
<1>1. \A i \in 1 .. N : s[i] \in Int
  BY <1>a DEF IsNumbers
<1> DEFINE step == [x \in (1 .. N) \X Int |-> x[2] * s[x[1]]]
<1>2. step \in StepTables(Int, N) /\ 0 \in Int /\ 1 \in Int
  BY <1>1 DEF StepTables
<1>3. \A i \in 1 .. N, n \in Int : step[<<i, n>>] = n * s[i]
  BY <1>1
<1> HIDE DEF step
<1>4. \E f \in [0 .. N -> Int] : Unfolds(f, 1, N, step)
  BY <1>2, StepByStep, Zenon
<1>5. PICK f \in [0 .. N -> Int] : f[0] = 1 /\ \A i \in 1 .. N : f[i] = step[<<i, f[i - 1]>>]
  BY <1>4 DEF Unfolds
<1> DEFINE Follows(g) == g = [i \in 0 .. N |-> IF i = 0 THEN 1 ELSE g[i - 1] * s[i]]
           products == CHOOSE g : Follows(g)
<1>6. Follows(f)
  <2>1. \A i \in 0 .. N : f[i] = IF i = 0 THEN 1 ELSE f[i - 1] * s[i]
    <3> TAKE i \in 0 .. N
    <3>1. CASE i # 0
      <4>1. i \in 1 .. N /\ i - 1 \in 0 .. N
        BY <1>2, <3>1
      <4>2. f[i] = step[<<i, f[i - 1]>>] /\ f[i - 1] \in Int
        BY <1>5, <4>1
      <4> QED
        BY <1>3, <3>1, <4>1, <4>2
    <3> QED
      BY <1>5, <3>1
  <2> QED
    BY <2>1
<1>7. Products(s) = products
  BY <1>a DEF Products
<1>8. Follows(products)
  <2> HIDE DEF Follows
  <2> QED
    BY <1>6
<1> HIDE DEF products
<1>9. DOMAIN products = 0 .. N
      /\ \A i \in 0 .. N : products[i] = IF i = 0 THEN 1 ELSE products[i - 1] * s[i]
  BY <1>8
<1>10. \A i \in 0 .. N : products[i] \in Int
  <2> DEFINE T == {n \in Nat : n <= N => products[n] \in Int}
  <2>1. 0 \in T
    BY <1>1, <1>9
  <2>2. \A n \in Nat : n \in T => n + 1 \in T
    BY <1>1, <1>9
  <2> HIDE DEF T
  <2>3. Nat \subseteq T
    BY <2>1, <2>2, SetInduction
  <2> QED
    BY <1>1, <2>3 DEF T
<1>11. products \in [0 .. N -> Int]
  BY <1>8, <1>9, <1>10
<1> QED
  BY <1>a, <1>1, <1>7, <1>9, <1>11

IsTexts(s) == s \in Seq(Text)

LEMMA EndsAre ==
  ASSUME NEW s, IsTexts(s)
  PROVE  /\ Ends(s) \in [0 .. Len(s) -> Text] /\ Ends(s)[0] = <<>>
         /\ \A n \in 1 .. Len(s) : Ends(s)[n] = s[Len(s) - n + 1] \o Ends(s)[n - 1]
<1>a. PICK N \in Nat : N = Len(s)
  BY DEF IsTexts
<1>1. \A i \in 1 .. N : s[N - i + 1] \in Text
  BY <1>a DEF IsTexts
<1> DEFINE step == [x \in (1 .. N) \X Text |-> s[N - x[1] + 1] \o x[2]]
<1>0. <<>> \in Text /\ \A a, b \in Text : a \o b \in Text
  BY DEF Text
<1>2. step \in StepTables(Text, N)
  BY <1>0, <1>1 DEF StepTables
<1>3. \A i \in 1 .. N, n \in Text : step[<<i, n>>] = s[N - i + 1] \o n
  BY <1>1
<1> HIDE DEF step
<1>4. \E f \in [0 .. N -> Text] : Unfolds(f, <<>>, N, step)
  BY <1>0, <1>1, <1>2, StepByStep
<1>5. PICK f \in [0 .. N -> Text] : f[0] = <<>> /\ \A i \in 1 .. N : f[i] = step[<<i, f[i - 1]>>]
  BY <1>4 DEF Unfolds
<1> DEFINE Follows(g) == g = [n \in 0 .. N |-> IF n = 0 THEN <<>> ELSE s[N - n + 1] \o g[n - 1]]
           ends == CHOOSE g : Follows(g)
<1>6. Follows(f)
  <2>1. \A i \in 0 .. N : f[i] = IF i = 0 THEN <<>> ELSE s[N - i + 1] \o f[i - 1]
    <3> TAKE i \in 0 .. N
    <3>1. CASE i # 0
      <4>1. i \in 1 .. N /\ i - 1 \in 0 .. N
        BY <1>2, <3>1
      <4>2. f[i] = step[<<i, f[i - 1]>>] /\ f[i - 1] \in Text
        BY <1>5, <4>1
      <4> QED
        BY <1>3, <3>1, <4>1, <4>2
    <3> QED
      BY <1>5, <3>1
  <2> QED
    BY <2>1
<1>7. Ends(s) = ends
  BY <1>a DEF Ends
<1>8. Follows(ends)
  <2> HIDE DEF Follows
  <2> QED
    BY <1>6
<1> HIDE DEF ends
<1>9. DOMAIN ends = 0 .. N
      /\ \A i \in 0 .. N : ends[i] = IF i = 0 THEN <<>> ELSE s[N - i + 1] \o ends[i - 1]
  BY <1>8
<1>10. \A i \in 0 .. N : ends[i] \in Text
  <2> DEFINE T == {n \in Nat : n <= N => ends[n] \in Text}
  <2>1. 0 \in T
    <3>1. ends[0] = <<>>
      <4>1. 0 \in 0 .. N
        BY <1>1
      <4> QED
        BY <4>1, <1>9
    <3> QED
      BY <1>0, <3>1
  <2>2. ASSUME NEW n \in Nat, n \in T PROVE n + 1 \in T
    <3> SUFFICES ASSUME n + 1 <= N PROVE ends[n + 1] \in Text
      OBVIOUS
    <3>1. ends[n] \in Text
      BY <1>1, <2>2
    <3>2. ends[n + 1] = s[N - (n + 1) + 1] \o ends[n]
      <4>1. n + 1 \in 0 .. N /\ n + 1 # 0 /\ (n + 1) - 1 = n
        BY <1>2
      <4> QED
        BY <1>9, <4>1
    <3>3. n + 1 \in 1 .. N
      BY <1>1
    <3>4. s[N - (n + 1) + 1] \in Text
      BY <1>1, <3>3
    <3> QED
      BY <1>0, <3>1, <3>2, <3>4
  <2> HIDE DEF T
  <2>3. Nat \subseteq T
    BY <2>1, <2>2, SetInduction
  <2> QED
    BY <1>1, <2>3 DEF T
<1>11. ends \in [0 .. N -> Text]
  BY <1>8, <1>9, <1>10
<1>12. \A i \in 1 .. N : i \in 0 .. N /\ i # 0
  BY <1>1
<1>13. 0 \in 0 .. N
  BY <1>1
<1> QED
  BY <1>a, <1>7, <1>9, <1>11, <1>12, <1>13

\* The numbers that a stream writes digit by digit stay as they are.
LEMMA UnitExists ==
  \E f \in [Nat -> Nat \ {0}] : \A n \in Nat : f[n] = IF n < Precision THEN 1 ELSE 10 * f[n \div 10]
<1>0. Precision \in Nat \ {0}
  BY PrecisionAssumption
<1> DEFINE Good(f, n) == /\ f \in [0 .. n -> Nat \ {0}]
                         /\ \A k \in 0 .. n : f[k] = IF k < Precision THEN 1 ELSE 10 * f[k \div 10]
           T == {n \in Nat : \E f \in [0 .. n -> Nat \ {0}] : Good(f, n)}
           U == {n \in Nat : \A m \in 0 .. n : \A f, g : Good(f, n) /\ Good(g, m) => f[m] = g[m]}
<1>00. \A n \in Nat : n \div 10 \in Nat /\ n \div 10 <= n /\ (n > 0 => n \div 10 < n)
  OBVIOUS
<1>1. 0 \in T
  <2>1. Good([k \in 0 .. 0 |-> 1], 0)
    BY <1>0
  <2> QED
    BY <2>1
<1>2. ASSUME NEW n \in Nat, n \in T PROVE n + 1 \in T
  <2>1. PICK f \in [0 .. n -> Nat \ {0}] : Good(f, n)
    BY <1>2
  <2> DEFINE d == (n + 1) \div 10
             g == [k \in 0 .. n + 1 |-> IF k <= n THEN f[k] ELSE IF n + 1 < Precision THEN 1 ELSE 10 * f[d]]
  <2>2. d \in 0 .. n
    BY <1>00
  <2>3. g \in [0 .. n + 1 -> Nat \ {0}]
    <3>1. f[d] \in Nat \ {0}
      BY <2>2
    <3> HIDE DEF d
    <3> QED
      BY <3>1
  <2>4. \A k \in 0 .. n + 1 : g[k] = IF k < Precision THEN 1 ELSE 10 * g[k \div 10]
    <3> TAKE k \in 0 .. n + 1
    <3>1. CASE k <= n
      <4>1. k \in 0 .. n /\ k \div 10 \in 0 .. n
        BY <1>00, <3>1
      <4>2. g[k] = f[k] /\ g[k \div 10] = f[k \div 10]
        BY <4>1
      <4> QED
        BY <2>1, <4>1, <4>2
    <3>2. CASE k = n + 1
      <4>1. g[k] = IF n + 1 < Precision THEN 1 ELSE 10 * f[d]
        BY <3>2
      <4>2. g[d] = f[d] /\ k \div 10 = d
        BY <2>2, <3>2
      <4> QED
        BY <3>2, <4>1, <4>2
    <3> QED
      BY <3>1, <3>2
  <2> HIDE DEF g
  <2>5. Good(g, n + 1)
    BY <2>3, <2>4
  <2> QED
    <3>1. \E h \in [0 .. n + 1 -> Nat \ {0}] : Good(h, n + 1)
      BY <2>3, <2>5, Zenon
    <3> HIDE DEF Good
    <3> QED
      BY <3>1
<1> HIDE DEF T
<1>3. Nat \subseteq T
  BY <1>1, <1>2, SetInduction
<1> DEFINE part == [n \in Nat |-> CHOOSE f \in [0 .. n -> Nat \ {0}] : Good(f, n)]
<1>4. \A n \in Nat : Good(part[n], n)
  BY <1>3 DEF T
<1> HIDE DEF part
\* Two such functions agree wherever both are defined.
<1>5. ASSUME NEW a \in Nat, NEW b \in Nat
      PROVE  \A k \in Nat : k <= a /\ k <= b => part[a][k] = part[b][k]
  <2> SUFFICES ASSUME NEW k0 \in Nat, k0 <= a, k0 <= b, part[a][k0] # part[b][k0] PROVE FALSE
    OBVIOUS
  <2> DEFINE bad == {k \in Nat : k <= a /\ k <= b /\ part[a][k] # part[b][k]}
  <2>1. PICK k \in bad : \A m \in bad : k <= m
    <3>1. bad \subseteq Nat /\ bad # {}
      OBVIOUS
    <3> HIDE DEF bad
    <3> QED
      BY <3>1, LeastNumber
  <2>2. k \in 0 .. a /\ k \in 0 .. b
    BY <2>1
  <2>3. part[a][k] = (IF k < Precision THEN 1 ELSE 10 * part[a][k \div 10])
        /\ part[b][k] = IF k < Precision THEN 1 ELSE 10 * part[b][k \div 10]
    BY <1>4, <2>2
  <2>4. k >= Precision
    BY <2>1, <2>3, <1>0
  <2>5. k \div 10 \in Nat /\ k \div 10 < k
    BY <1>0, <1>00, <2>1, <2>4
  <2>6. k \div 10 \notin bad
    <3> DEFINE h == k \div 10
    <3>1. h \in Nat /\ h < k
      BY <2>5
    <3> HIDE DEF h, bad
    <3>2. h \notin bad
      BY <2>1, <2>2, <3>1
    <3> QED
      BY <3>2 DEF h
  <2>7. part[a][k \div 10] = part[b][k \div 10]
    BY <2>1, <2>5, <2>6
  <2> QED
    BY <2>1, <2>3, <2>7
<1> DEFINE whole == [n \in Nat |-> part[n][n]]
<1>6. whole \in [Nat -> Nat \ {0}]
  BY <1>4
<1>7. \A n \in Nat : whole[n] = IF n < Precision THEN 1 ELSE 10 * whole[n \div 10]
  <2> TAKE n \in Nat
  <2>1. part[n][n] = IF n < Precision THEN 1 ELSE 10 * part[n][n \div 10]
    BY <1>4
  <2>2. n \div 10 \in Nat /\ n \div 10 <= n
    BY <1>00
  <2>3. part[n][n \div 10] = part[n \div 10][n \div 10]
    BY <1>5, <2>2
  <2>4. whole[n] = part[n][n] /\ whole[n \div 10] = part[n \div 10][n \div 10]
    BY <2>2
  <2> QED
    BY <2>1, <2>3, <2>4
<1> HIDE DEF whole
<1> QED
  BY <1>6, <1>7

LEMMA UnitIs ==
  /\ \A n \in Nat : Unit[n] = IF n < Precision THEN 1 ELSE 10 * Unit[n \div 10]
  /\ \A n \in Nat : Unit[n] \in Nat \ {0}
<1>1. PICK f \in [Nat -> Nat \ {0}] : \A n \in Nat : f[n] = IF n < Precision THEN 1 ELSE 10 * f[n \div 10]
  BY UnitExists
<1> DEFINE Follows(g) == g = [n \in Nat |-> IF n < Precision THEN 1 ELSE 10 * g[n \div 10]]
           unit == CHOOSE g : Follows(g)
<1>2. Follows(f)
  BY <1>1
<1>3. Unit = unit
  BY DEF Unit
<1>4. Follows(unit)
  <2> HIDE DEF Follows
  <2> QED
    BY <1>2
<1> HIDE DEF unit
<1>5. \A n \in Nat : unit[n] = IF n < Precision THEN 1 ELSE 10 * unit[n \div 10]
  BY <1>4
<1>6. \A n \in Nat : unit[n] \in Nat \ {0}
  <2> SUFFICES ASSUME NEW n0 \in Nat, unit[n0] \notin Nat \ {0} PROVE FALSE
    OBVIOUS
  <2> DEFINE bad == {n \in Nat : unit[n] \notin Nat \ {0}}
  <2>1. PICK k \in bad : \A m \in bad : k <= m
    <3>1. bad \subseteq Nat /\ bad # {}
      OBVIOUS
    <3> HIDE DEF bad
    <3> QED
      BY <3>1, LeastNumber
  <2>2. k \in Nat /\ unit[k] \notin Nat \ {0}
    BY <2>1
  <2>3. k >= Precision
    BY <1>5, <2>2, PrecisionAssumption
  <2> DEFINE h == k \div 10
  <2>4. h \in Nat /\ h < k
    BY <2>2, <2>3, PrecisionAssumption
  <2>5. unit[k] = 10 * unit[h]
    BY <1>5, <2>2, <2>3, PrecisionAssumption
  <2> HIDE DEF h
  <2>6. h \notin bad
    <3> HIDE DEF bad
    <3> QED
      BY <2>1, <2>2, <2>4
  <2>7. unit[h] \in Nat \ {0}
    BY <2>4, <2>6
  <2> QED
    BY <2>2, <2>5, <2>7
<1> QED
  BY <1>3, <1>5, <1>6

LEMMA RoundedIs ==
  ASSUME NEW n \in Int
  PROVE  /\ Rounded(n) \in Int
         /\ -Precision < n /\ n < Precision => Rounded(n) = n
<1>1. ASSUME NEW m \in Nat PROVE RoundedNatural(m) \in Int /\ (m < Precision => RoundedNatural(m) = m)
  <2> DEFINE u == Unit[m]
  <2>1. u \in Nat \ {0} /\ (m < Precision => u = 1)
    BY UnitIs
  <2> HIDE DEF u
  <2>2. m \div u \in Int /\ m % u \in Int
    BY <2>1
  <2> DEFINE down == m \div u
             rest == m % u
  <2>3. RoundedNatural(m) = IF 2 * rest > u \/ (2 * rest = u /\ down % 2 = 1) THEN u * (down + 1) ELSE u * down
    BY DEF RoundedNatural, u
  <2>4. u = 1 => down = m /\ rest = 0
    OBVIOUS
  <2>5. down \in Int /\ rest \in Int
    BY <2>2
  <2> HIDE DEF down, rest
  <2>6. RoundedNatural(m) \in Int
    BY <2>1, <2>3, <2>5
  <2>7. u = 1 => RoundedNatural(m) = m
    BY <2>3, <2>4
  <2> QED
    BY <2>1, <2>6, <2>7
<1>2. CASE n < 0
  <2>1. -n \in Nat
    BY <1>2
  <2>2. Rounded(n) = -RoundedNatural(-n)
    BY <1>2 DEF Rounded
  <2> DEFINE m == -n
             r == RoundedNatural(m)
  <2>3. m \in Nat /\ r \in Int /\ (m < Precision => r = m) /\ Rounded(n) = -r
    BY <1>1, <2>1, <2>2
  <2>4. -Precision < n => m < Precision
    BY PrecisionAssumption
  <2>5. -m = n
    OBVIOUS
  <2> HIDE DEF r
  <2> QED
    BY <2>3, <2>4, <2>5
<1>3. CASE ~(n < 0)
  BY <1>1, <1>3 DEF Rounded
<1> QED
  BY <1>2, <1>3

-----------------------------------------------------------------------------
\* What has been split so far, joined again, is what was there to split.

JoinedWith(text, texts) ==
  LET joined[n \in 0 .. Len(texts)] ==
        IF n = 0 THEN <<>>
        ELSE IF n = 1 THEN texts[1] ELSE joined[n - 1] \o text \o texts[n]
  IN  joined[Len(texts)]

Joins(f, text, s) ==
  \A n \in 0 .. Len(s) :
    f[n] = IF n = 0 THEN <<>> ELSE IF n = 1 THEN s[1] ELSE f[n - 1] \o text \o s[n]

LEMMA JoinedIs == \A s : Joined(s) = JoinedWith(function.text, s)
BY DEF Joined, JoinedWith

LEMMA JoiningExists ==
  ASSUME NEW text \in Text, NEW s, IsTexts(s)
  PROVE  \E f \in [0 .. Len(s) -> Text] : Joins(f, text, s) /\ JoinedWith(text, s) = f[Len(s)]
<1>a. PICK N \in Nat : N = Len(s)
  BY DEF IsTexts
<1>1. \A i \in 1 .. N : s[i] \in Text
  BY <1>a DEF IsTexts
<1>0. <<>> \in Text /\ \A a, b \in Text : a \o b \in Text
  BY DEF Text
<1> DEFINE step == [x \in (1 .. N) \X Text |-> IF x[1] = 1 THEN s[1] ELSE x[2] \o text \o s[x[1]]]
<1>2. step \in StepTables(Text, N)
  BY <1>0, <1>1 DEF StepTables
<1>3. \A i \in 1 .. N, n \in Text : step[<<i, n>>] = IF i = 1 THEN s[1] ELSE n \o text \o s[i]
  BY <1>1
<1> HIDE DEF step
<1>4. \E f \in [0 .. N -> Text] : Unfolds(f, <<>>, N, step)
  BY <1>0, <1>2, StepByStep, Zenon
<1>5. PICK f \in [0 .. N -> Text] : f[0] = <<>> /\ \A i \in 1 .. N : f[i] = step[<<i, f[i - 1]>>]
  BY <1>4 DEF Unfolds
<1> DEFINE Follows(g) == g = [n \in 0 .. N |-> IF n = 0 THEN <<>> ELSE IF n = 1 THEN s[1]
                                               ELSE g[n - 1] \o text \o s[n]]
           joined == CHOOSE g : Follows(g)
<1>6. Follows(f)
  <2>1. \A i \in 0 .. N : f[i] = IF i = 0 THEN <<>> ELSE IF i = 1 THEN s[1]
                                 ELSE f[i - 1] \o text \o s[i]
    <3> TAKE i \in 0 .. N
    <3>1. CASE i # 0
      <4>1. i \in 1 .. N /\ i - 1 \in 0 .. N
        BY <3>1
      <4>2. f[i] = step[<<i, f[i - 1]>>] /\ f[i - 1] \in Text
        BY <1>5, <4>1
      <4> QED
        BY <1>3, <3>1, <4>1, <4>2
    <3> QED
      BY <1>5, <3>1
  <2> QED
    BY <2>1
<1>7. JoinedWith(text, s) = joined[N]
  BY <1>a DEF JoinedWith
<1>8. Follows(joined)
  <2> HIDE DEF Follows
  <2> QED
    BY <1>6
<1> HIDE DEF joined
<1>9. DOMAIN joined = 0 .. N
      /\ \A i \in 0 .. N : joined[i] = IF i = 0 THEN <<>> ELSE IF i = 1 THEN s[1]
                                       ELSE joined[i - 1] \o text \o s[i]
  BY <1>8
<1>10. \A i \in 0 .. N : joined[i] \in Text
  <2> DEFINE T == {n \in Nat : n <= N => joined[n] \in Text}
  <2>1. 0 \in T
    BY <1>0, <1>9
  <2>2. ASSUME NEW n \in Nat, n \in T PROVE n + 1 \in T
    <3> SUFFICES ASSUME n + 1 <= N PROVE joined[n + 1] \in Text
      OBVIOUS
    <3>1. joined[n] \in Text /\ s[n + 1] \in Text
      BY <1>1, <2>2
    <3>2. n + 1 \in 0 .. N /\ n + 1 # 0 /\ (n + 1) - 1 = n /\ (n + 1 = 1 => s[1] = s[n + 1])
      OBVIOUS
    <3>3. joined[n + 1] = IF n + 1 = 1 THEN s[1] ELSE joined[n] \o text \o s[n + 1]
      BY <1>9, <3>2
    <3> QED
      BY <1>0, <3>1, <3>2, <3>3
  <2> HIDE DEF T
  <2>3. Nat \subseteq T
    BY <2>1, <2>2, SetInduction
  <2> QED
    BY <2>3 DEF T
<1>11. joined \in [0 .. N -> Text]
  BY <1>8, <1>9, <1>10
<1> QED
  BY <1>a, <1>7, <1>9, <1>11 DEF Joins

LEMMA JoinedType ==
  ASSUME NEW text \in Text, NEW s, IsTexts(s)
  PROVE  JoinedWith(text, s) \in Text
<1>1. PICK f \in [0 .. Len(s) -> Text] : JoinedWith(text, s) = f[Len(s)]
  BY JoiningExists
<1>2. Len(s) \in 0 .. Len(s)
  BY DEF IsTexts
<1> QED
  BY <1>1, <1>2

\* One more text.
LEMMA JoinedAppend ==
  ASSUME NEW text \in Text, NEW s, IsTexts(s), NEW t \in Text
  PROVE  /\ IsTexts(Append(s, t))
         /\ JoinedWith(text, Append(s, t)) = IF s = <<>> THEN t ELSE JoinedWith(text, s) \o text \o t
<1>a. PICK N \in Nat : N = Len(s)
  BY DEF IsTexts
<1> DEFINE r == Append(s, t)
<1>1. IsTexts(r) /\ Len(r) = N + 1 /\ r[N + 1] = t /\ \A i \in 1 .. N : r[i] = s[i]
  BY <1>a DEF IsTexts
<1>2. s = <<>> <=> N = 0
  BY <1>a DEF IsTexts
<1> HIDE DEF r
<1>3. PICK f \in [0 .. Len(s) -> Text] : Joins(f, text, s) /\ JoinedWith(text, s) = f[Len(s)]
  BY JoiningExists
<1>4. PICK g \in [0 .. Len(r) -> Text] : Joins(g, text, r) /\ JoinedWith(text, r) = g[Len(r)]
  BY <1>1, JoiningExists
<1>5. \A n \in 0 .. N :
        f[n] = IF n = 0 THEN <<>> ELSE IF n = 1 THEN s[1] ELSE f[n - 1] \o text \o s[n]
  BY <1>a, <1>3 DEF Joins
<1>6. \A n \in 0 .. N + 1 :
        g[n] = IF n = 0 THEN <<>> ELSE IF n = 1 THEN r[1] ELSE g[n - 1] \o text \o r[n]
  BY <1>1, <1>4 DEF Joins
<1>7. f[N] = g[N]
  <2> DEFINE T == {n \in Nat : n <= N => f[n] = g[n]}
  <2>1. 0 \in T
    BY <1>5, <1>6
  <2>2. ASSUME NEW n \in Nat, n \in T PROVE n + 1 \in T
    <3> SUFFICES ASSUME n + 1 <= N PROVE f[n + 1] = g[n + 1]
      OBVIOUS
    <3>1. f[n] = g[n] /\ s[n + 1] = r[n + 1] /\ s[1] = r[1]
      BY <1>1, <2>2
    <3>2. n + 1 \in 0 .. N /\ n + 1 \in 0 .. N + 1 /\ n + 1 # 0 /\ (n + 1) - 1 = n
      OBVIOUS
    <3>3. f[n + 1] = IF n + 1 = 1 THEN s[1] ELSE f[n] \o text \o s[n + 1]
      BY <1>5, <3>2
    <3>4. g[n + 1] = IF n + 1 = 1 THEN r[1] ELSE g[n] \o text \o r[n + 1]
      BY <1>6, <3>2
    <3> QED
      BY <3>1, <3>3, <3>4
  <2> HIDE DEF T
  <2>3. Nat \subseteq T
    BY <2>1, <2>2, SetInduction
  <2> QED
    BY <2>3 DEF T
<1>8. g[N + 1] = IF N + 1 = 1 THEN r[1] ELSE g[N] \o text \o r[N + 1]
  <2>1. N + 1 \in 0 .. N + 1 /\ N + 1 # 0 /\ (N + 1) - 1 = N
    OBVIOUS
  <2> QED
    BY <1>6, <2>1
<1>9. JoinedWith(text, r) = IF s = <<>> THEN t ELSE JoinedWith(text, s) \o text \o t
  <2>1. CASE N = 0
    <3>1. g[N + 1] = r[1] /\ r[1] = t
      BY <1>1, <1>8, <2>1
    <3> QED
      BY <1>1, <1>2, <1>4, <2>1, <3>1
  <2>2. CASE N # 0
    <3>1. N + 1 # 1
      BY <2>2
    <3>2. g[N + 1] = g[N] \o text \o t
      BY <1>1, <1>8, <3>1
    <3> QED
      BY <1>a, <1>1, <1>2, <1>3, <1>4, <1>7, <2>2, <3>2
  <2> QED
    BY <2>1, <2>2
<1> QED
  BY <1>1, <1>9 DEF r

\* A delimiter between two texts may as well be in one of them.
LEMMA JoinedApart ==
  ASSUME NEW text \in Text, NEW s, IsTexts(s), NEW a \in Text, NEW b \in Text
  PROVE  JoinedWith(text, Append(s, a \o text \o b)) = JoinedWith(text, Append(Append(s, a), b))
<1> DEFINE r == Append(s, a)
           t == a \o text \o b
<1>1. t \in Text
  BY DEF Text
<1>2. IsTexts(r) /\ JoinedWith(text, r) = IF s = <<>> THEN a ELSE JoinedWith(text, s) \o text \o a
  BY JoinedAppend
<1>3. r # <<>>
  <2>1. Len(r) = Len(s) + 1 /\ Len(s) \in Nat
    BY DEF IsTexts
  <2> HIDE DEF r
  <2> QED
    BY <2>1
<1> HIDE DEF r, t
<1>4. JoinedWith(text, Append(r, b)) = JoinedWith(text, r) \o text \o b
  BY <1>2, <1>3, JoinedAppend
<1>5. JoinedWith(text, Append(s, t)) = IF s = <<>> THEN t ELSE JoinedWith(text, s) \o text \o t
  BY <1>1, JoinedAppend
<1>6. CASE s = <<>>
  BY <1>2, <1>4, <1>5, <1>6 DEF r, t
<1>7. CASE s # <<>>
  <2> DEFINE j == JoinedWith(text, s)
  <2>1. j \in Text
    BY JoinedType
  <2>2. JoinedWith(text, Append(s, t)) = (j \o text) \o ((a \o text) \o b)
    BY <1>5, <1>7 DEF t
  <2>3. JoinedWith(text, Append(r, b)) = (((j \o text) \o a) \o text) \o b
    BY <1>2, <1>4, <1>7
  <2> HIDE DEF j
  <2> DEFINE jt == j \o text
  <2>4. jt \in Text /\ a \o text \in Text
    BY <2>1 DEF Text
  <2> HIDE DEF jt
  <2>5. (jt \o a) \o text = jt \o (a \o text)
    BY <2>4, ConcatAssociative DEF Text
  <2>6. (jt \o (a \o text)) \o b = jt \o ((a \o text) \o b)
    <3> DEFINE at == a \o text
    <3>1. jt \in Seq(Int) /\ at \in Seq(Int) /\ b \in Seq(Int)
      BY <2>4 DEF Text
    <3> HIDE DEF at
    <3>2. (jt \o at) \o b = jt \o (at \o b)
      BY <3>1, ConcatAssociative
    <3> QED
      BY <3>2 DEF at
  <2> QED
    BY <2>2, <2>3, <2>5, <2>6 DEF jt, r, t
<1> QED
  BY <1>6, <1>7 DEF r, t

IsConcatenation(u, a, b, x, y) ==
  /\ u \in Text /\ Len(u) = x + y
  /\ \A i \in 1 .. x + y : u[i] = IF i <= x THEN a[i] ELSE b[i - x]

LEMMA TextsConcatenated ==
  ASSUME NEW a \in Text, NEW b \in Text
  PROVE  IsConcatenation(a \o b, a, b, Len(a), Len(b))
BY ConcatProperties DEF Text, IsConcatenation

LEMMA EmptyTexts ==
  ASSUME NEW s, IsTexts(s)
  PROVE  s = <<>> <=> Len(s) = 0
BY DEF IsTexts

\* A text with a delimiter in it is what lies before it, the delimiter and the rest.
LEMMA CutAtDelimiter ==
  ASSUME NEW text \in Text, NEW v \in Text, NEW p \in Nat \ {0}, NEW m \in Nat, p <= m,
         m + Len(text) <= Len(v) + 1, \A i \in 1 .. Len(text) : v[m + i - 1] = text[i]
  PROVE  /\ SubSeq(v, p, m - 1) \in Text /\ SubSeq(v, m + Len(text), Len(v)) \in Text
         /\ SubSeq(v, p, Len(v)) = SubSeq(v, p, m - 1) \o text \o SubSeq(v, m + Len(text), Len(v))
<1>a. PICK L \in Nat : L = Len(text)
  BY DEF Text
<1>b. PICK N \in Nat : N = Len(v)
  BY DEF Text
<1> DEFINE a == SubSeq(v, p, m - 1)
           b == SubSeq(v, m + L, N)
           w == SubSeq(v, p, N)
<1>0. m - 1 \in Nat /\ m + L \in Nat \ {0} /\ m - 1 <= N /\ m + L <= N + 1 /\ p <= N + 1
  BY <1>a, <1>b
<1>1. a \in Text /\ Len(a) = m - p /\ \A i \in 1 .. m - p : a[i] = v[p + i - 1]
  <2>1. a \in Text /\ Len(a) = (IF p <= m - 1 THEN m - 1 - p + 1 ELSE 0)
        /\ \A i \in 1 .. m - 1 - p + 1 : a[i] = v[p + i - 1]
    <3> DEFINE k == m - 1
    <3>1. k \in Nat /\ k <= Len(v)
      BY <1>0, <1>b
    <3> HIDE DEF k
    <3>2. SubSeq(v, p, k) \in Text /\ Len(SubSeq(v, p, k)) = (IF p <= k THEN k - p + 1 ELSE 0)
          /\ \A i \in 1 .. k - p + 1 : SubSeq(v, p, k)[i] = v[p + i - 1]
      BY <3>1, PieceOf
    <3> QED
      BY <3>2 DEF k
  <2>2. m - 1 - p + 1 = m - p
    OBVIOUS
  <2> QED
    BY <2>1, <2>2
<1>2. b \in Text /\ Len(b) = N - m - L + 1 /\ \A i \in 1 .. N - m - L + 1 : b[i] = v[m + L + i - 1]
  <2> DEFINE k == m + L
  <2>1. k \in Nat \ {0} /\ N \in Nat /\ N <= Len(v)
    BY <1>0, <1>b
  <2>2. N - k + 1 = N - m - L + 1 /\ (IF k <= N THEN N - k + 1 ELSE 0) = N - m - L + 1
    BY <1>0
  <2> HIDE DEF k
  <2>3. SubSeq(v, k, N) \in Text /\ Len(SubSeq(v, k, N)) = (IF k <= N THEN N - k + 1 ELSE 0)
        /\ \A i \in 1 .. N - k + 1 : SubSeq(v, k, N)[i] = v[k + i - 1]
    BY <2>1, PieceOf
  <2> QED
    BY <2>2, <2>3 DEF k
<1>3. w \in Text /\ Len(w) = N - p + 1 /\ \A i \in 1 .. N - p + 1 : w[i] = v[p + i - 1]
  <2>1. w \in Text /\ Len(w) = (IF p <= N THEN N - p + 1 ELSE 0)
        /\ \A i \in 1 .. N - p + 1 : w[i] = v[p + i - 1]
    BY <1>b, PieceOf
  <2> QED
    BY <1>0, <2>1
<1> HIDE DEF a, b, w
<1> DEFINE at == a \o text
<1>4. at \in Text /\ Len(at) = m - p + L
      /\ \A i \in 1 .. m - p + L : at[i] = IF i <= m - p THEN a[i] ELSE text[i - (m - p)]
  <2>1. PICK x \in Nat : x = m - p
    OBVIOUS
  <2>2. a \in Text /\ Len(a) = x /\ text \in Text /\ Len(text) = L
    BY <1>a, <1>1, <2>1
  <2>3. at \in Text /\ Len(at) = x + L
        /\ \A i \in 1 .. x + L : at[i] = IF i <= x THEN a[i] ELSE text[i - x]
    <3>1. IsConcatenation(a \o text, a, text, Len(a), Len(text))
      BY <2>2, TextsConcatenated
    <3>2. IsConcatenation(at, a, text, x, L)
      BY <2>2, <3>1
    <3> QED
      BY <3>2 DEF IsConcatenation
  <2> HIDE DEF at
  <2> QED
    BY <2>1, <2>3
<1> HIDE DEF at
<1> DEFINE u == at \o b
<1>5. u \in Text /\ Len(u) = (m - p + L) + (N - m - L + 1)
      /\ \A i \in 1 .. (m - p + L) + (N - m - L + 1) :
           u[i] = IF i <= m - p + L THEN at[i] ELSE b[i - (m - p + L)]
  <2>1. PICK x \in Nat : x = m - p + L
    OBVIOUS
  <2>2. PICK y \in Nat : y = N - m - L + 1
    BY <1>0
  <2>3. at \in Text /\ Len(at) = x /\ b \in Text /\ Len(b) = y
    BY <1>2, <1>4, <2>1, <2>2
  <2>4. u \in Text /\ Len(u) = x + y
        /\ \A i \in 1 .. x + y : u[i] = IF i <= x THEN at[i] ELSE b[i - x]
    <3>1. IsConcatenation(at \o b, at, b, Len(at), Len(b))
      BY <2>3, TextsConcatenated
    <3>2. IsConcatenation(u, at, b, x, y)
      BY <2>3, <3>1
    <3> QED
      BY <3>2 DEF IsConcatenation
  <2> HIDE DEF u
  <2> QED
    BY <2>1, <2>2, <2>4
<1> HIDE DEF u
<1>6. (m - p + L) + (N - m - L + 1) = N - p + 1
  OBVIOUS
<1>7. \A i \in 1 .. N - p + 1 : u[i] = w[i]
  <2> TAKE i \in 1 .. N - p + 1
  <2>0. u[i] = (IF i <= m - p + L THEN at[i] ELSE b[i - (m - p + L)]) /\ w[i] = v[p + i - 1]
    BY <1>3, <1>5, <1>6
  <2>1. CASE i <= m - p
    <3>1. i \in 1 .. m - p + L /\ i \in 1 .. m - p /\ i <= m - p + L
      BY <2>1
    <3>2. at[i] = a[i] /\ a[i] = v[p + i - 1]
      BY <1>1, <1>4, <2>1, <3>1
    <3> QED
      BY <2>0, <3>1, <3>2
  <2>2. CASE i > m - p /\ i <= m - p + L
    <3> DEFINE j == i - (m - p)
    <3>1. i \in 1 .. m - p + L /\ ~(i <= m - p) /\ j \in 1 .. L /\ m + j - 1 = p + i - 1
      BY <2>2
    <3>2. at[i] = text[j]
      BY <1>4, <3>1
    <3> HIDE DEF j
    <3>3. v[m + j - 1] = text[j]
      BY <1>a, <3>1
    <3> QED
      BY <2>0, <2>2, <3>1, <3>2, <3>3
  <2>3. CASE i > m - p + L
    <3> DEFINE j == i - (m - p + L)
    <3>1. j \in 1 .. N - m - L + 1 /\ m + L + j - 1 = p + i - 1 /\ ~(i <= m - p + L)
      BY <2>3
    <3>2. u[i] = b[j]
      BY <2>0, <3>1
    <3> HIDE DEF j
    <3>3. b[j] = v[m + L + j - 1]
      BY <1>2, <3>1
    <3> QED
      BY <2>0, <3>1, <3>2, <3>3
  <2> QED
    BY <1>0, <2>1, <2>2, <2>3
<1>8. u = w
  BY <1>3, <1>5, <1>6, <1>7, SameTexts
<1> QED
  BY <1>a, <1>b, <1>1, <1>2, <1>8 DEF a, b, w, u, at

\* What split has made of the first n values and of the next one up to its p-th
\* character, with the rest of that value, is these values when it is joined again.
SplitSoFar(text, made, values, n, p) ==
  IF n < Len(values)
  THEN /\ p <= Len(values[n + 1]) + 1
       /\ JoinedWith(text, Append(made, SubSeq(values[n + 1], p, Len(values[n + 1]))))
            = JoinedWith(text, SubSeq(values, 1, n + 1))
  ELSE JoinedWith(text, made) = JoinedWith(text, values)

WholeText(v) == SubSeq(v, 1, Len(v))
LEMMA WholeTextIs == \A v \in Text : WholeText(v) = v
<1> TAKE v \in Text
<1>1. Len(v) \in Nat /\ 1 \in Nat \ {0} /\ (IF 1 <= Len(v) THEN Len(v) - 1 + 1 ELSE 0) = Len(v)
      /\ Len(v) - 1 + 1 = Len(v)
  BY DEF Text
<1>2. WholeText(v) \in Text /\ Len(WholeText(v)) = Len(v)
      /\ \A i \in 1 .. Len(v) : WholeText(v)[i] = v[1 + i - 1]
  BY <1>1, PieceOf DEF WholeText
<1>3. \A i \in 1 .. Len(v) : 1 + i - 1 = i
  BY <1>1
<1> QED
  BY <1>2, <1>3, SameTexts

LEMMA PrefixesGrow ==
  ASSUME NEW values, IsTexts(values), NEW n \in Nat, n < Len(values)
  PROVE  /\ IsTexts(SubSeq(values, 1, n)) /\ Len(SubSeq(values, 1, n)) = n
         /\ SubSeq(values, 1, n + 1) = Append(SubSeq(values, 1, n), values[n + 1])
         /\ values[n + 1] \in Text
<1>a. PICK N \in Nat : N = Len(values) /\ n < N
  BY DEF IsTexts
<1>0. n \in 0 .. Len(values) /\ n + 1 \in 0 .. Len(values) /\ values \in Seq(Text)
      /\ values[n + 1] \in Text
  BY <1>a DEF IsTexts
<1> DEFINE s == SubSeq(values, 1, n)
           k == n + 1
           r == SubSeq(values, 1, k)
<1>1. s \in Seq(Text) /\ Len(s) = n /\ \A i \in 1 .. n : s[i] = values[i]
  BY <1>0, Prefix
<1>2. r \in Seq(Text) /\ Len(r) = n + 1 /\ \A i \in 1 .. n + 1 : r[i] = values[i]
  <2>1. k \in 0 .. Len(values)
    BY <1>0
  <2> HIDE DEF k
  <2>2. SubSeq(values, 1, k) \in Seq(Text) /\ Len(SubSeq(values, 1, k)) = k
        /\ \A i \in 1 .. k : SubSeq(values, 1, k)[i] = values[i]
    BY <1>0, <2>1, Prefix
  <2> QED
    BY <2>2 DEF k
<1> HIDE DEF s, r
<1>3. r = Append(s, values[n + 1])
  <2> DEFINE t == Append(s, values[n + 1])
  <2>1. t \in Seq(Text) /\ Len(t) = n + 1 /\ t[n + 1] = values[n + 1] /\ \A i \in 1 .. n : t[i] = s[i]
    BY <1>0, <1>1
  <2>2. \A i \in 1 .. n + 1 : t[i] = r[i]
    <3> TAKE i \in 1 .. n + 1
    <3>1. i \in 1 .. n \/ i = n + 1
      OBVIOUS
    <3> HIDE DEF t
    <3> QED
      BY <1>1, <1>2, <2>1, <3>1
  <2> HIDE DEF t
  <2>3. t = r
    BY <1>2, <2>1, <2>2
  <2> QED
    BY <2>3 DEF t
<1> QED
  BY <1>0, <1>1, <1>3 DEF s, r, IsTexts

LEMMA SplitStarts ==
  ASSUME NEW text \in Text, NEW values, IsTexts(values)
  PROVE  SplitSoFar(text, <<>>, values, 0, 1)
<1>a. PICK N \in Nat : N = Len(values)
  BY DEF IsTexts
<1>1. CASE N = 0
  <2>1. values = <<>>
    BY <1>a, <1>1, EmptyTexts
  <2> QED
    BY <1>a, <1>1, <2>1 DEF SplitSoFar
<1>2. CASE N # 0
  <2> DEFINE v == values[1]
  <2>1. v \in Text /\ SubSeq(values, 1, 0 + 1) = Append(SubSeq(values, 1, 0), v)
        /\ Len(SubSeq(values, 1, 0)) = 0 /\ IsTexts(SubSeq(values, 1, 0))
    <3>1. 0 \in Nat /\ 0 < Len(values) /\ 0 + 1 = 1
      BY <1>a, <1>2
    <3> QED
      BY <3>1, PrefixesGrow
  <2>2. SubSeq(values, 1, 0) = <<>>
    BY <2>1 DEF IsTexts
  <2> HIDE DEF v
  <2>3. SubSeq(v, 1, Len(v)) = v /\ Len(v) \in Nat
    BY <2>1, WholeTextIs DEF WholeText, Text
  <2>4. 0 < Len(values) /\ 0 + 1 = 1 /\ 1 <= Len(v) + 1
    BY <1>a, <1>2, <2>3
  <2>5. JoinedWith(text, Append(<<>>, SubSeq(v, 1, Len(v)))) = JoinedWith(text, SubSeq(values, 1, 0 + 1))
    BY <2>1, <2>2, <2>3
  <2>6. values[0 + 1] = v
    BY DEF v
  <2> QED
    BY <2>4, <2>5, <2>6 DEF SplitSoFar
<1> QED
  BY <1>1, <1>2

\* A piece before a delimiter.
LEMMA SplitGoesOn ==
  ASSUME NEW text \in Text, NEW values, IsTexts(values), NEW made, IsTexts(made),
         NEW n \in Nat, NEW p \in Nat \ {0}, n < Len(values), SplitSoFar(text, made, values, n, p),
         NEW v, v = values[n + 1],
         NEW m \in Nat, p <= m, m + Len(text) <= Len(v) + 1,
         \A i \in 1 .. Len(text) : v[m + i - 1] = text[i]
  PROVE  SplitSoFar(text, Append(made, SubSeq(v, p, m - 1)), values, n, m + Len(text))
<1>1. v \in Text
  BY PrefixesGrow
<1> DEFINE a == SubSeq(v, p, m - 1)
           b == SubSeq(v, m + Len(text), Len(v))
<1>2. a \in Text /\ b \in Text /\ SubSeq(v, p, Len(v)) = a \o text \o b
  BY <1>1, CutAtDelimiter
<1> HIDE DEF a, b
<1>3. JoinedWith(text, Append(made, a \o text \o b)) = JoinedWith(text, Append(Append(made, a), b))
  BY <1>2, JoinedApart
<1>4. JoinedWith(text, Append(made, SubSeq(v, p, Len(v)))) = JoinedWith(text, SubSeq(values, 1, n + 1))
  BY DEF SplitSoFar
<1>5. JoinedWith(text, Append(Append(made, a), b)) = JoinedWith(text, SubSeq(values, 1, n + 1))
  BY <1>2, <1>3, <1>4
<1> QED
  BY <1>5 DEF SplitSoFar, a, b

\* The last piece of a value.
LEMMA SplitTakesTheNext ==
  ASSUME NEW text \in Text, NEW values, IsTexts(values), NEW made, IsTexts(made),
         NEW n \in Nat, NEW p \in Nat \ {0}, n < Len(values), SplitSoFar(text, made, values, n, p),
         NEW v, v = values[n + 1]
  PROVE  SplitSoFar(text, Append(made, SubSeq(v, p, Len(v))), values, n + 1, 1)
<1>a. PICK N \in Nat : N = Len(values) /\ n < N
  BY DEF IsTexts
<1>1. v \in Text /\ Len(v) \in Nat
  BY PrefixesGrow DEF Text
<1> DEFINE a == SubSeq(v, p, Len(v))
           r == Append(made, a)
<1>2. a \in Text
  BY <1>1, PieceOf
<1>3. JoinedWith(text, r) = JoinedWith(text, SubSeq(values, 1, n + 1))
  BY DEF SplitSoFar
<1>4. IsTexts(r) /\ r # <<>>
  <2>1. IsTexts(r)
    BY <1>2, JoinedAppend
  <2>2. Len(r) = Len(made) + 1 /\ Len(made) \in Nat
    BY DEF IsTexts
  <2> HIDE DEF r
  <2> QED
    BY <2>1, <2>2
<1> HIDE DEF a, r
<1>5. CASE n + 1 < N
  <2> DEFINE k == n + 1
             s == SubSeq(values, 1, k)
             w == values[k + 1]
  <2>1. k \in Nat /\ k < Len(values) /\ k # 0
    BY <1>a, <1>5
  <2> HIDE DEF k
  <2>2. IsTexts(s) /\ Len(s) = k /\ SubSeq(values, 1, k + 1) = Append(s, w) /\ w \in Text
    BY <2>1, PrefixesGrow
  <2> HIDE DEF s, w
  <2>3. s # <<>>
    BY <2>1, <2>2
  <2>4. JoinedWith(text, Append(s, w)) = JoinedWith(text, s) \o text \o w
    BY <2>2, <2>3, JoinedAppend
  <2>5. JoinedWith(text, Append(r, w)) = JoinedWith(text, r) \o text \o w
    BY <1>4, <2>2, JoinedAppend
  <2>6. JoinedWith(text, r) = JoinedWith(text, s)
    BY <1>3 DEF s, k
  <2>7. SubSeq(w, 1, Len(w)) = w /\ Len(w) \in Nat
    BY <2>2, WholeTextIs DEF WholeText, Text
  <2>8. JoinedWith(text, Append(r, SubSeq(w, 1, Len(w)))) = JoinedWith(text, SubSeq(values, 1, k + 1))
    BY <2>2, <2>4, <2>5, <2>6, <2>7
  <2>9. values[k + 1] = w /\ 1 <= Len(w) + 1
    BY <2>7 DEF w
  <2>10. SplitSoFar(text, r, values, k, 1)
    BY <2>1, <2>8, <2>9 DEF SplitSoFar
  <2> QED
    BY <2>10 DEF k, r, a
<1>6. CASE n + 1 = N
  <2>1. SubSeq(values, 1, n + 1) = values
    <3> DEFINE s == SubSeq(values, 1, N)
    <3>1. N \in 0 .. Len(values) /\ values \in Seq(Text)
      BY <1>a DEF IsTexts
    <3>2. s \in Seq(Text) /\ Len(s) = N /\ \A i \in 1 .. N : s[i] = values[i]
      BY <3>1, Prefix
    <3> HIDE DEF s
    <3>3. s = values
      BY <1>a, <3>1, <3>2
    <3> QED
      BY <1>6, <3>3 DEF s
  <2>2. ~(n + 1 < Len(values))
    BY <1>a, <1>6
  <2> QED
    BY <1>3, <2>1, <2>2 DEF SplitSoFar, r, a
<1> QED
  BY <1>a, <1>5, <1>6

\* Nothing of the values is lost while they are split.
SplitInv ==
  /\ outcome = "running" /\ function.name = "split" /\ components[1].flag # "error" =>
       SplitSoFar(function.text, acc.values, components[1].values, taken, from)
  /\ SplitIsReversible

LEMMA SplitReversibleIs ==
  SplitIsReversible <=>
    (Returned({"split"}) /\ components[1].flag # "error" =>
       JoinedWith(function.text, acc.values) = JoinedWith(function.text, components[1].values))
BY JoinedIs DEF SplitIsReversible

LEMMA InitSplitInv == FunctionInit /\ TextsInv => SplitInv
<1> SUFFICES ASSUME FunctionInit, TextsInv PROVE SplitInv
  OBVIOUS
<1>1. acc.values = <<>> /\ taken = 0 /\ from = 1 /\ outcome = "running"
  BY DEF FunctionInit
<1>2. function.name = "split" => SplitSoFar(function.text, <<>>, components[1].values, 0, 1)
  <2> SUFFICES ASSUME function.name = "split"
               PROVE  SplitSoFar(function.text, <<>>, components[1].values, 0, 1)
    OBVIOUS
  <2>1. FunctionIsTyped
    BY DEF TextsInv
  <2>2. function.text \in Text /\ IsTexts(components[1].values)
    BY <2>1, ValuesAreTexts DEF FunctionIsTyped, IsTexts
  <2> QED
    BY <2>2, SplitStarts
<1> QED
  BY <1>1, <1>2 DEF SplitInv, SplitIsReversible, Returned

\* One more piece.
LEMMA SplittingIsReversible ==
  ASSUME TextsInv, SplitInv, SplitAtDelimiter \/ SplitRest
  PROVE  SplitInv'
<1>1. /\ UNCHANGED <<function, components, outcome>> /\ outcome = "running"
      /\ function.name = "split" /\ components[1].flag # "error"
      /\ taken < Len(components[1].values)
  BY DEF SplitAtDelimiter, SplitRest, Running, HasMoreValues
<1>2. /\ FunctionIsTyped /\ taken \in Nat /\ from \in Nat \ {0} /\ acc \in ComponentValue
  BY <1>1 DEF TextsInv
<1> DEFINE text == function.text
           values == components[1].values
           v == values[taken + 1]
<1>3. text \in Text /\ values \in Seq(Text) /\ IsTexts(values) /\ IsTexts(acc.values)
  BY <1>1, <1>2, ValuesAreTexts DEF FunctionIsTyped, IsTexts, ComponentValue, Text
<1>4. v = Value /\ v \in Text /\ Len(v) \in Nat
  <2>1. taken + 1 \in DOMAIN values
    BY <1>1, <1>2, <1>3
  <2> QED
    BY <1>3, <2>1 DEF Value, Text
<1>5. SplitSoFar(text, acc.values, values, taken, from)
  BY <1>1 DEF SplitInv
<1>6. SplitSoFar(text, acc'.values, values, taken', from')
  <2>1. CASE SplitAtDelimiter
    <3>1. PICK match \in Matches :
            /\ match = CHOOSE p \in Matches : \A q \in Matches : p <= q
            /\ \A q \in Matches : match <= q
      BY <1>2, <1>4, <2>1, FirstMatch DEF SplitAtDelimiter
    <3>2. AppendPiece(match - 1) /\ from' = match + Len(text) /\ taken' = taken
      BY <2>1, <3>1 DEF SplitAtDelimiter
    <3>3. match \in Nat \ {0} /\ from <= match /\ OccursAt(v, match)
      BY <1>2, <1>4, <3>1 DEF Matches
    <3>4. match + Len(text) <= Len(v) + 1 /\ \A i \in 1 .. Len(text) : v[match + i - 1] = text[i]
      BY <1>3, <1>4, <3>3, OccursMeans
    <3>5. acc'.values = Append(acc.values, SubSeq(v, from, match - 1))
      BY <1>2, <1>4, <3>2 DEF AppendPiece, ComponentValue
    <3> HIDE DEF text, values, v
    <3>6. SplitSoFar(text, Append(acc.values, SubSeq(v, from, match - 1)), values, taken, match + Len(text))
      BY <1>1, <1>2, <1>3, <1>5, <3>3, <3>4, SplitGoesOn DEF values, v
    <3> QED
      BY <3>2, <3>5, <3>6
  <2>2. CASE SplitRest
    <3>1. AppendPiece(Len(v)) /\ from' = 1 /\ taken' = taken + 1
      BY <1>4, <2>2 DEF SplitRest
    <3>2. acc'.values = Append(acc.values, SubSeq(v, from, Len(v)))
      BY <1>2, <1>4, <3>1 DEF AppendPiece, ComponentValue
    <3>3. SplitSoFar(text, Append(acc.values, SubSeq(v, from, Len(v))), values, taken + 1, 1)
      BY <1>1, <1>2, <1>3, <1>5, SplitTakesTheNext
    <3> QED
      BY <3>1, <3>2, <3>3
  <2> QED
    BY <2>1, <2>2
<1>7. SplitIsReversible'
  BY <1>1 DEF SplitIsReversible, Returned
<1> QED
  BY <1>1, <1>6, <1>7 DEF SplitInv

LEMMA SplitReturnsReversible ==
  ASSUME TextsInv, SplitInv, SplitReturns
  PROVE  SplitInv'
<1>1. /\ UNCHANGED <<function, components>> /\ outcome = "running" /\ outcome' = "returned"
      /\ function.name = "split" /\ acc'.values = acc.values /\ ~HasMoreValues
  BY DEF SplitReturns, Running, Return
<1>2. components[1].flag # "error" =>
        JoinedWith(function.text, acc.values) = JoinedWith(function.text, components[1].values)
  BY <1>1 DEF SplitInv, SplitSoFar, HasMoreValues
<1>3. SplitIsReversible' <=>
        (Returned({"split"}) /\ components[1].flag # "error" =>
          JoinedWith(function.text, acc.values) = JoinedWith(function.text, components[1].values))'
  BY DEF SplitIsReversible, Joined, JoinedWith
<1>4. SplitIsReversible'
  BY <1>1, <1>2, <1>3
<1> QED
  BY <1>1, <1>4 DEF SplitInv

LEMMA OtherKeepsSplit ==
  ASSUME SplitInv, UNCHANGED <<function, components>>, function.name # "split" \/ outcome' = "raised"
  PROVE  SplitInv'
BY DEF SplitInv, SplitIsReversible, Returned

LEMMA NextSplitInv == TextsInv /\ SplitInv /\ [FunctionNext]_functionVars => SplitInv'
<1> SUFFICES ASSUME TextsInv, SplitInv, [FunctionNext]_functionVars PROVE SplitInv'
  OBVIOUS
<1>1. CASE SplitAtDelimiter \/ SplitRest
  BY <1>1, SplittingIsReversible
<1>2. CASE SplitReturns
  BY <1>2, SplitReturnsReversible
<1>3. CASE Concat \/ Arithmetic \/ CombinationReturns \/ CountValues \/ Unique
           \/ TimeDifference \/ TimeDifferenceRaises \/ SubstringRaises \/ MapValues
  <2>1. UNCHANGED <<function, components>> /\ function.name # "split"
    BY <1>3 DEF Concat, Arithmetic, CombinationReturns, CountValues, Unique, TimeDifference,
       TimeDifferenceRaises, SubstringRaises, MapValues, Running, Return, Raise, TakeComponent, Mapping
  <2> QED
    BY <2>1, OtherKeepsSplit
<1>4. CASE UNCHANGED functionVars
  <2>1. UNCHANGED <<function, components, taken, from, acc, outcome>>
    BY <1>4 DEF functionVars
  <2>2. SplitIsReversible' <=>
          (Returned({"split"}) /\ components[1].flag # "error" =>
            JoinedWith(function.text, acc.values) = JoinedWith(function.text, components[1].values))'
    BY DEF SplitIsReversible, Joined, JoinedWith
  <2> QED
    BY <2>1, <2>2, SplitReversibleIs DEF SplitInv, Returned
<1> QED
  BY <1>1, <1>2, <1>3, <1>4 DEF FunctionNext

-----------------------------------------------------------------------------
\* The properties of combinations, of any components.

IsComponents(comps) == comps \in Seq(ComponentValue)

SelectionsOf(comps) ==
  {c \in [DOMAIN comps -> UNION {DOMAIN comps[i].values : i \in DOMAIN comps}] :
     \A i \in DOMAIN comps : c[i] \in DOMAIN comps[i].values}
ChosenOf(comps, c)  == [i \in DOMAIN comps |-> comps[i].values[c[i]]]
NumbersIn(comps, c) == [i \in DOMAIN comps |-> Number(ChosenOf(comps, c)[i])]
PlacesIn(comps, c) ==
  LET places[i \in 0 .. Len(comps)] ==
        IF i = 0 THEN 0 ELSE places[i - 1] * Len(comps[i].values) + (c[i] - 1)
  IN  places

LEMMA ComponentsAre ==
  ASSUME NEW comps, IsComponents(comps)
  PROVE  /\ Len(comps) \in Nat /\ DOMAIN comps = 1 .. Len(comps)
         /\ \A i \in 1 .. Len(comps) :
              /\ comps[i].values \in Seq(Text) /\ comps[i].flag \in Flags
              /\ Len(comps[i].values) \in Nat /\ DOMAIN comps[i].values = 1 .. Len(comps[i].values)
<1>1. Len(comps) \in Nat /\ DOMAIN comps = 1 .. Len(comps)
      /\ \A i \in 1 .. Len(comps) : comps[i] \in ComponentValue
  BY DEF IsComponents
<1>2. \A i \in 1 .. Len(comps) : comps[i].values \in Seq(Text) /\ comps[i].flag \in Flags
  BY <1>1 DEF ComponentValue, Text
<1> QED
  BY <1>1, <1>2

IsSelection(comps, c) ==
  /\ DOMAIN c = 1 .. Len(comps)
  /\ \A i \in 1 .. Len(comps) : c[i] \in 1 .. Len(comps[i].values)

LEMMA SelectionIs ==
  ASSUME NEW comps, IsComponents(comps), NEW c \in SelectionsOf(comps)
  PROVE  IsSelection(comps, c)
BY ComponentsAre DEF SelectionsOf, IsSelection

LEMMA ChosenIs ==
  ASSUME NEW comps, IsComponents(comps), NEW c, IsSelection(comps, c)
  PROVE  /\ IsTexts(ChosenOf(comps, c)) /\ Len(ChosenOf(comps, c)) = Len(comps)
         /\ \A i \in 1 .. Len(comps) : ChosenOf(comps, c)[i] = comps[i].values[c[i]]
         /\ IsNumbers(NumbersIn(comps, c)) /\ Len(NumbersIn(comps, c)) = Len(comps)
         /\ \A i \in 1 .. Len(comps) : NumbersIn(comps, c)[i] = Number(comps[i].values[c[i]])
<1>a. PICK N \in Nat : N = Len(comps) /\ DOMAIN comps = 1 .. N
  BY ComponentsAre
<1>1. \A i \in 1 .. N : comps[i].values[c[i]] \in Text
  BY <1>a, ComponentsAre DEF IsSelection
<1> DEFINE s == ChosenOf(comps, c)
           t == NumbersIn(comps, c)
<1>2. s = [i \in 1 .. N |-> comps[i].values[c[i]]]
  BY <1>a DEF ChosenOf
<1>3. s \in Seq(Text) /\ Len(s) = N /\ \A i \in 1 .. N : s[i] = comps[i].values[c[i]]
  BY <1>1, <1>2
<1>4. t = [i \in 1 .. N |-> Number(s[i])]
  BY <1>a DEF NumbersIn
<1>5. \A v \in Text : Number(v) \in Int
  BY DEF Number, Text
<1> HIDE DEF s, t
<1>6. t \in Seq(Int) /\ Len(t) = N /\ \A i \in 1 .. N : t[i] = Number(s[i])
  <2>1. \A i \in 1 .. N : Number(s[i]) \in Int
    BY <1>3, <1>5
  <2> QED
    BY <1>4, <2>1
<1> QED
  BY <1>a, <1>3, <1>6 DEF s, t, IsTexts, IsNumbers

LEMMA PlacesAre ==
  ASSUME NEW comps, IsComponents(comps), NEW c, IsSelection(comps, c)
  PROVE  /\ \A i \in 0 .. Len(comps) : PlacesIn(comps, c)[i] \in Nat
         /\ PlacesIn(comps, c)[0] = 0
         /\ \A i \in 1 .. Len(comps) :
              PlacesIn(comps, c)[i] = PlacesIn(comps, c)[i - 1] * Len(comps[i].values) + (c[i] - 1)
<1>a. PICK N \in Nat : N = Len(comps) /\ DOMAIN comps = 1 .. N
  BY ComponentsAre
<1>1. \A i \in 1 .. N : Len(comps[i].values) \in Nat /\ c[i] \in Nat /\ c[i] - 1 \in Nat
  BY <1>a, ComponentsAre DEF IsSelection
<1>0. \A a, b, d \in Nat : a * b + d \in Nat
  OBVIOUS
<1> DEFINE step == [x \in (1 .. N) \X Nat |-> x[2] * Len(comps[x[1]].values) + (c[x[1]] - 1)]
<1>2. step \in StepTables(Nat, N) /\ 0 \in Nat
  <2>1. \A x \in (1 .. N) \X Nat : x[2] * Len(comps[x[1]].values) + (c[x[1]] - 1) \in Nat
    BY <1>0, <1>1
  <2> QED
    BY <2>1 DEF StepTables
<1>3. \A i \in 1 .. N, n \in Nat : step[<<i, n>>] = n * Len(comps[i].values) + (c[i] - 1)
  OBVIOUS
<1> HIDE DEF step
<1>4. \E f \in [0 .. N -> Nat] : Unfolds(f, 0, N, step)
  BY <1>2, StepByStep, Zenon
<1>5. PICK f \in [0 .. N -> Nat] : f[0] = 0 /\ \A i \in 1 .. N : f[i] = step[<<i, f[i - 1]>>]
  BY <1>4 DEF Unfolds
<1> DEFINE Follows(g) == g = [i \in 0 .. N |-> IF i = 0 THEN 0
                                               ELSE g[i - 1] * Len(comps[i].values) + (c[i] - 1)]
           places == CHOOSE g : Follows(g)
<1>6. Follows(f)
  <2>1. \A i \in 0 .. N : f[i] = IF i = 0 THEN 0 ELSE f[i - 1] * Len(comps[i].values) + (c[i] - 1)
    <3> TAKE i \in 0 .. N
    <3>1. CASE i # 0
      <4>1. i \in 1 .. N /\ i - 1 \in 0 .. N
        BY <3>1
      <4>2. f[i] = step[<<i, f[i - 1]>>] /\ f[i - 1] \in Nat
        BY <1>5, <4>1
      <4> QED
        BY <1>3, <3>1, <4>1, <4>2
    <3> QED
      BY <1>5, <3>1
  <2> QED
    BY <2>1
<1>7. PlacesIn(comps, c) = places
  BY <1>a DEF PlacesIn
<1>8. Follows(places)
  <2> HIDE DEF Follows
  <2> QED
    BY <1>6
<1> HIDE DEF places
<1>9. \A i \in 0 .. N : places[i] = IF i = 0 THEN 0 ELSE places[i - 1] * Len(comps[i].values) + (c[i] - 1)
  BY <1>8
<1>10. \A i \in 0 .. N : places[i] \in Nat
  <2> DEFINE T == {n \in Nat : n <= N => places[n] \in Nat}
  <2>1. 0 \in T
    BY <1>9
  <2>2. ASSUME NEW n \in Nat, n \in T PROVE n + 1 \in T
    <3> SUFFICES ASSUME n + 1 <= N PROVE places[n + 1] \in Nat
      OBVIOUS
    <3>1. n + 1 \in 0 .. N /\ n + 1 \in 1 .. N /\ n + 1 # 0 /\ (n + 1) - 1 = n /\ places[n] \in Nat
      BY <2>2
    <3>2. places[n + 1] = places[n] * Len(comps[n + 1].values) + (c[n + 1] - 1)
      BY <1>9, <3>1
    <3>3. PICK x \in Nat : x = places[n]
      BY <3>1
    <3>4. PICK y \in Nat : y = Len(comps[n + 1].values)
      BY <1>1, <3>1
    <3>5. PICK z \in Nat : z = c[n + 1] - 1
      BY <1>1, <3>1
    <3>6. x * y + z \in Nat
      BY <1>0
    <3> QED
      BY <3>2, <3>3, <3>4, <3>5, <3>6
  <2> HIDE DEF T
  <2>3. Nat \subseteq T
    BY <2>1, <2>2, SetInduction
  <2> QED
    BY <2>3 DEF T
<1>11. 0 \in 0 .. N /\ \A i \in 1 .. N : i \in 0 .. N /\ i # 0
  OBVIOUS
<1> QED
  BY <1>a, <1>7, <1>9, <1>10, <1>11

-----------------------------------------------------------------------------
\* How many selections there are of the first m components.

FirstSelections(comps, m) ==
  {c \in [1 .. m -> UNION {DOMAIN comps[i].values : i \in DOMAIN comps}] :
     \A i \in 1 .. m : c[i] \in 1 .. Len(comps[i].values)}
HowMany(comps, m) == Cardinality(FirstSelections(comps, m))

LEMMA SelectionsGrow ==
  ASSUME NEW comps, IsComponents(comps), NEW m \in Nat, m < Len(comps),
         IsFiniteSet(FirstSelections(comps, m))
  PROVE  /\ IsFiniteSet(FirstSelections(comps, m + 1))
         /\ HowMany(comps, m + 1) = HowMany(comps, m) * Len(comps[m + 1].values)
<1>a. PICK N \in Nat : N = Len(comps) /\ DOMAIN comps = 1 .. N
  BY ComponentsAre
<1>b. m + 1 \in 1 .. N
  BY <1>a
<1>c. PICK L \in Nat : L = Len(comps[m + 1].values)
  BY <1>a, <1>b, ComponentsAre
<1> DEFINE U == UNION {DOMAIN comps[i].values : i \in DOMAIN comps}
           A == FirstSelections(comps, m)
           B == FirstSelections(comps, m + 1)
           P == A \X (1 .. L)
           h == [x \in P |-> [i \in 1 .. m + 1 |-> IF i <= m THEN x[1][i] ELSE x[2]]]
<1>1. IsFiniteSet(P) /\ Cardinality(P) = Cardinality(A) * L
  <2>1. IsFiniteSet(1 .. L) /\ Cardinality(1 .. L) = L
    <3>1. 1 \in Int /\ L \in Int
      OBVIOUS
    <3>2. IsFiniteSet(1 .. L) /\ Cardinality(1 .. L) = IF 1 > L THEN 0 ELSE L - 1 + 1
      BY <3>1, FS_Interval, Zenon
    <3>3. (IF 1 > L THEN 0 ELSE L - 1 + 1) = L
      OBVIOUS
    <3> QED
      BY <3>2, <3>3
  <2> HIDE DEF A
  <2>2. IsFiniteSet(A \X (1 .. L)) /\ Cardinality(A \X (1 .. L)) = Cardinality(A) * Cardinality(1 .. L)
    <3>1. IsFiniteSet(A)
      BY DEF A
    <3> QED
      BY <2>1, <3>1, FS_Product
  <2> QED
    BY <2>1, <2>2
<1>2. \A a \in A, k \in 1 .. L : h[<<a, k>>] \in B
  <2> TAKE a \in A, k \in 1 .. L
  <2> DEFINE c == [i \in 1 .. m + 1 |-> IF i <= m THEN a[i] ELSE k]
  <2>1. h[<<a, k>>] = c
    OBVIOUS
  <2>2. \A i \in 1 .. m + 1 : c[i] \in 1 .. Len(comps[i].values)
    <3> TAKE i \in 1 .. m + 1
    <3>1. CASE i <= m
      BY <3>1 DEF FirstSelections
    <3>2. CASE ~(i <= m)
      <4>1. i = m + 1
        BY <3>2
      <4> QED
        BY <1>c, <4>1
    <3> QED
      BY <3>1, <3>2
  <2>3. \A i \in 1 .. m + 1 : c[i] \in U
    <3>1. \A i \in 1 .. m + 1 : i \in DOMAIN comps /\ 1 .. Len(comps[i].values) = DOMAIN comps[i].values
      BY <1>a, <1>b, ComponentsAre
    <3> HIDE DEF c
    <3> QED
      BY <2>2, <3>1
  <2>4. c \in [1 .. m + 1 -> U]
    <3> HIDE DEF U
    <3> QED
      BY <2>3
  <2>5. c \in B
    <3> HIDE DEF c
    <3> QED
      BY <2>2, <2>4 DEF FirstSelections
  <2> QED
    BY <2>1, <2>5
<1>3. \A a \in A : DOMAIN a = 1 .. m
  BY DEF FirstSelections
<1>4. \A a1, a2 \in A, k1, k2 \in 1 .. L : h[<<a1, k1>>] = h[<<a2, k2>>] => a1 = a2 /\ k1 = k2
  <2> SUFFICES ASSUME NEW a1 \in A, NEW a2 \in A, NEW k1 \in 1 .. L, NEW k2 \in 1 .. L,
                      h[<<a1, k1>>] = h[<<a2, k2>>]
               PROVE  a1 = a2 /\ k1 = k2
    OBVIOUS
  <2> DEFINE c1 == [i \in 1 .. m + 1 |-> IF i <= m THEN a1[i] ELSE k1]
             c2 == [i \in 1 .. m + 1 |-> IF i <= m THEN a2[i] ELSE k2]
  <2>1. c1 = c2
    OBVIOUS
  <2>2. c1[m + 1] = k1 /\ c2[m + 1] = k2
    BY <1>b
  <2>3. \A i \in 1 .. m : c1[i] = a1[i] /\ c2[i] = a2[i]
    OBVIOUS
  <2> HIDE DEF c1, c2
  <2>4. \A i \in 1 .. m : a1[i] = a2[i]
    BY <2>1, <2>3
  <2>5. DOMAIN a1 = 1 .. m /\ DOMAIN a2 = 1 .. m
    BY <1>3
  <2>6. a1 \in [1 .. m -> U] /\ a2 \in [1 .. m -> U]
    BY DEF FirstSelections
  <2>7. a1 = a2
    <3> HIDE DEF U, A, B, P, h
    <3>1. a1 = [i \in 1 .. m |-> a1[i]] /\ a2 = [i \in 1 .. m |-> a2[i]]
      BY <2>6
    <3> QED
      BY <2>4, <3>1
  <2> QED
    BY <2>1, <2>2, <2>7
<1>5. \A c \in B : \E a \in A, k \in 1 .. L : h[<<a, k>>] = c
  <2> TAKE c \in B
  <2> DEFINE a == [i \in 1 .. m |-> c[i]]
  <2>1. c \in [1 .. m + 1 -> U] /\ \A i \in 1 .. m + 1 : c[i] \in 1 .. Len(comps[i].values)
    BY DEF FirstSelections
  <2>2. c[m + 1] \in 1 .. L
    BY <1>b, <1>c, <2>1
  <2>3. a \in [1 .. m -> U]
    <3> HIDE DEF U
    <3> QED
      BY <2>1
  <2>4. a \in A
    <3>1. \A i \in 1 .. m : a[i] = c[i]
      OBVIOUS
    <3> HIDE DEF a
    <3>2. \A i \in 1 .. m : a[i] \in 1 .. Len(comps[i].values)
      BY <2>1, <3>1
    <3> QED
      BY <2>3, <3>2 DEF FirstSelections
  <2>5. h[<<a, c[m + 1]>>] = [i \in 1 .. m + 1 |-> IF i <= m THEN a[i] ELSE c[m + 1]]
    <3> DEFINE k == c[m + 1]
    <3>1. k \in 1 .. L
      BY <2>2
    <3> HIDE DEF a, A, k
    <3>2. <<a, k>> \in P
      BY <2>4, <3>1
    <3>3. h[<<a, k>>] = [i \in 1 .. m + 1 |-> IF i <= m THEN a[i] ELSE k]
      BY <3>2
    <3> QED
      BY <3>3 DEF k
  <2>6. [i \in 1 .. m + 1 |-> IF i <= m THEN a[i] ELSE c[m + 1]] = c
    <3> DEFINE d == [i \in 1 .. m + 1 |-> IF i <= m THEN a[i] ELSE c[m + 1]]
    <3>1. \A i \in 1 .. m + 1 : d[i] = c[i]
      <4> TAKE i \in 1 .. m + 1
      <4>1. i <= m \/ i = m + 1
        OBVIOUS
      <4> QED
        BY <4>1
    <3>2. DOMAIN d = 1 .. m + 1
      OBVIOUS
    <3>3. d = [i \in 1 .. m + 1 |-> d[i]]
      OBVIOUS
    <3> HIDE DEF d, U
    <3>4. c = [i \in 1 .. m + 1 |-> c[i]]
      BY <2>1
    <3>5. d = c
      BY <3>1, <3>3, <3>4
    <3> QED
      BY <3>5 DEF d
  <2> QED
    BY <2>2, <2>4, <2>5, <2>6
<1> HIDE DEF h, A, B
<1>6. h \in Bijection(P, B)
  <2>0. DOMAIN h = P /\ h = [x \in P |-> h[x]]
    BY DEF h
  <2>1. h \in [P -> B]
    <3>1. \A x \in P : h[x] \in B
      BY <1>2
    <3> HIDE DEF P
    <3> QED
      BY <2>0, <3>1
  <2>2. \A x, y \in P : h[x] = h[y] => x = y
    BY <1>4
  <2>3. \A c \in B : \E x \in P : h[x] = c
    BY <1>5
  <2> HIDE DEF P
  <2> QED
    BY <2>1, <2>2, <2>3 DEF Bijection, Injection, Surjection, IsInjective
<1>7. ExistsBijection(P, B)
  BY <1>6 DEF ExistsBijection
<1>8. IsFiniteSet(B) /\ Cardinality(B) = Cardinality(P)
  <2> HIDE DEF P
  <2> QED
    BY <1>1, <1>7, FS_Bijection
<1> QED
  BY <1>1, <1>8, <1>c DEF HowMany, A, B

LEMMA HowManyAre ==
  ASSUME NEW comps, IsComponents(comps)
  PROVE  /\ \A m \in 0 .. Len(comps) : HowMany(comps, m) \in Nat
         /\ HowMany(comps, 0) = 1
         /\ \A m \in 0 .. Len(comps) - 1 :
              HowMany(comps, m + 1) = HowMany(comps, m) * Len(comps[m + 1].values)
         /\ HowMany(comps, Len(comps)) = Cardinality(SelectionsOf(comps))
<1>a. PICK N \in Nat : N = Len(comps) /\ DOMAIN comps = 1 .. N
  BY ComponentsAre
<1>1. IsFiniteSet(FirstSelections(comps, 0)) /\ HowMany(comps, 0) = 1
  <2> DEFINE U == UNION {DOMAIN comps[i].values : i \in DOMAIN comps}
             none == [i \in 1 .. 0 |-> 0]
  <2>1. FirstSelections(comps, 0) = {none}
    <3>1. none \in [1 .. 0 -> U]
      <4> HIDE DEF U
      <4> QED
        OBVIOUS
    <3>2. \A c \in [1 .. 0 -> U] : c = none
      <4> HIDE DEF U
      <4> QED
        OBVIOUS
    <3>3. FirstSelections(comps, 0) = {c \in [1 .. 0 -> U] : \A i \in 1 .. 0 : c[i] \in 1 .. Len(comps[i].values)}
      BY DEF FirstSelections
    <3> DEFINE D == [1 .. 0 -> U]
               Fits(c) == \A i \in 1 .. 0 : c[i] \in 1 .. Len(comps[i].values)
    <3>4. \A c \in D : Fits(c)
      OBVIOUS
    <3>5. none \in D /\ \A c \in D : c = none
      BY <3>1, <3>2
    <3>6. FirstSelections(comps, 0) = {c \in D : Fits(c)}
      BY <3>3
    <3> HIDE DEF U, none, D, Fits
    <3> QED
      BY <3>4, <3>5, <3>6
  <2> HIDE DEF none
  <2> QED
    BY <2>1, FS_Singleton DEF HowMany
<1> DEFINE T == {m \in Nat : m <= N => IsFiniteSet(FirstSelections(comps, m))}
<1>2. 0 \in T
  BY <1>1
<1>3. \A m \in Nat : m \in T => m + 1 \in T
  <2> SUFFICES ASSUME NEW m \in Nat, m \in T, m + 1 <= N PROVE IsFiniteSet(FirstSelections(comps, m + 1))
    OBVIOUS
  <2>1. m < Len(comps) /\ IsFiniteSet(FirstSelections(comps, m))
    BY <1>a
  <2> QED
    BY <2>1, SelectionsGrow
<1>4. \A m \in 0 .. N : IsFiniteSet(FirstSelections(comps, m))
  <2> HIDE DEF T
  <2>1. Nat \subseteq T
    BY <1>2, <1>3, SetInduction
  <2> QED
    BY <2>1 DEF T
<1>5. \A m \in 0 .. N : HowMany(comps, m) \in Nat
  BY <1>4, FS_CardinalityType DEF HowMany
<1>6. \A m \in 0 .. N - 1 : HowMany(comps, m + 1) = HowMany(comps, m) * Len(comps[m + 1].values)
  <2> TAKE m \in 0 .. N - 1
  <2>1. m \in Nat /\ m < Len(comps) /\ IsFiniteSet(FirstSelections(comps, m))
    BY <1>a, <1>4
  <2> QED
    BY <2>1, SelectionsGrow
<1>7. FirstSelections(comps, N) = SelectionsOf(comps)
  <2>1. \A i \in 1 .. N : DOMAIN comps[i].values = 1 .. Len(comps[i].values)
    BY <1>a, ComponentsAre
  <2> QED
    BY <1>a, <2>1 DEF FirstSelections, SelectionsOf
<1> QED
  BY <1>a, <1>1, <1>5, <1>6, <1>7 DEF HowMany

-----------------------------------------------------------------------------
\* The place of a pair.

LEMMA PairPlaces ==
  ASSUME NEW x \in Nat, NEW y \in Nat, NEW a \in 1 .. x, NEW b \in 1 .. y
  PROVE  /\ (a - 1) * y + b \in 1 .. x * y
         /\ ((a - 1) * y + b - 1) \div y + 1 = a
         /\ (((a - 1) * y + b - 1) % y) + 1 = b
<1> DEFINE q == a - 1
           r == b - 1
           k == q * y + r
<1>1. q \in Nat /\ r \in Nat /\ r < y /\ q + 1 <= x /\ y > 0
  OBVIOUS
<1>2. k \div y = q /\ k % y = r
  <2> HIDE DEF q, r
  <2> QED
    BY <1>1
<1>3. k + 1 <= x * y
  <2>1. (q + 1) * y <= x * y
    <3> HIDE DEF q, r, k
    <3> QED
      BY <1>1
  <2>2. (q + 1) * y = q * y + y /\ q * y \in Nat
    <3> HIDE DEF q, r, k
    <3> QED
      BY <1>1
  <2> HIDE DEF q, r
  <2> QED
    BY <1>1, <2>1, <2>2
<1>4. k \in Nat
  <2> HIDE DEF q, r
  <2> QED
    BY <1>1
<1>5. (a - 1) * y + b = k + 1 /\ (a - 1) * y + b - 1 = k
  BY <1>1
<1>6. x * y \in Nat
  OBVIOUS
<1> HIDE DEF k
<1> QED
  BY <1>1, <1>2, <1>3, <1>4, <1>5, <1>6

LEMMA PlacesOfPairs ==
  ASSUME NEW x \in Nat, NEW y \in Nat, NEW k \in 1 .. x * y
  PROVE  (k - 1) \div y + 1 \in 1 .. x /\ ((k - 1) % y) + 1 \in 1 .. y
<1>1. y > 0
  OBVIOUS
<1> DEFINE n == k - 1
           q == n \div y
           r == n % y
<1>2. n \in Nat /\ n < x * y
  BY <1>1
<1> HIDE DEF n
<1>3. q \in Nat /\ r \in Nat /\ r < y /\ n = y * q + r
  BY <1>1, <1>2
<1> HIDE DEF q, r
<1>4. q < x
  <2> SUFFICES ASSUME q >= x PROVE FALSE
    BY <1>3
  <2>1. y * q >= y * x
    BY <1>1, <1>3
  <2>2. y * x = x * y
    OBVIOUS
  <2> QED
    BY <1>2, <1>3, <2>1, <2>2
<1> QED
  BY <1>3, <1>4 DEF n, q, r

\* What Pairs makes of two vectors, where f is what it makes of two values.
IsPaired(values, outer, inner, table) ==
  /\ values \in Seq(Text) /\ Len(values) = Len(outer) * Len(inner)
  /\ \A a \in 1 .. Len(outer), b \in 1 .. Len(inner) :
       /\ (a - 1) * Len(inner) + b \in 1 .. Len(values)
       /\ values[(a - 1) * Len(inner) + b] = table[<<outer[a], inner[b]>>]

PairsBy(table, outer, inner) ==
  [k \in 1 .. Len(outer) * Len(inner) |->
     table[<<outer[((k - 1) \div Len(inner)) + 1], inner[((k - 1) % Len(inner)) + 1]>>]]

LEMMA PairedValues ==
  ASSUME NEW outer, IsTexts(outer), NEW inner, IsTexts(inner), NEW table \in [Text \X Text -> Text]
  PROVE  IsPaired(PairsBy(table, outer, inner), outer, inner, table)
<1>a. PICK x \in Nat : x = Len(outer)
  BY DEF IsTexts
<1>b. PICK y \in Nat : y = Len(inner)
  BY DEF IsTexts
<1>1. PICK z \in Nat : z = x * y
  OBVIOUS
<1> DEFINE values == PairsBy(table, outer, inner)
           At(k) == table[<<outer[((k - 1) \div y) + 1], inner[((k - 1) % y) + 1]>>]
<1>2. values = [k \in 1 .. z |-> At(k)]
  BY <1>a, <1>b, <1>1 DEF PairsBy
<1>3. \A a \in 1 .. x : outer[a] \in Text
  BY <1>a DEF IsTexts
<1>4. \A b \in 1 .. y : inner[b] \in Text
  BY <1>b DEF IsTexts
<1>5. \A k \in 1 .. z : At(k) \in Text
  <2> TAKE k \in 1 .. z
  <2>1. (k - 1) \div y + 1 \in 1 .. x /\ ((k - 1) % y) + 1 \in 1 .. y
    BY <1>1, PlacesOfPairs
  <2>2. outer[((k - 1) \div y) + 1] \in Text /\ inner[((k - 1) % y) + 1] \in Text
    BY <1>3, <1>4, <2>1
  <2> QED
    BY <2>2
<1> HIDE DEF At, values
<1>6. values \in Seq(Text) /\ Len(values) = z /\ \A k \in 1 .. z : values[k] = At(k)
  BY <1>2, <1>5
<1>7. \A a \in 1 .. x, b \in 1 .. y :
        (a - 1) * y + b \in 1 .. z /\ values[(a - 1) * y + b] = table[<<outer[a], inner[b]>>]
  <2> TAKE a \in 1 .. x, b \in 1 .. y
  <2> DEFINE k == (a - 1) * y + b
  <2>1. k \in 1 .. z /\ (k - 1) \div y + 1 = a /\ ((k - 1) % y) + 1 = b
    BY <1>1, PairPlaces
  <2> HIDE DEF k
  <2>2. values[k] = At(k)
    BY <1>6, <2>1
  <2>3. At(k) = table[<<outer[a], inner[b]>>]
    BY <2>1 DEF At
  <2> QED
    BY <2>1, <2>2, <2>3 DEF k
<1> QED
  BY <1>a, <1>b, <1>1, <1>6, <1>7 DEF IsPaired, values

-----------------------------------------------------------------------------
\* concat, from the last component to the first.

ConcatTable == [x \in Text \X Text |-> x[1] \o x[2]]

LEMMA ConcatTableIs ==
  /\ ConcatTable \in [Text \X Text -> Text]
  /\ \A a, b \in Text : ConcatTable[<<a, b>>] = a \o b
<1>1. \A a, b \in Text : a \o b \in Text
  BY DEF Text
<1> QED
  BY <1>1 DEF ConcatTable

\* Where the values of the last n components are found, and what they are.
ConcatAt(comps, n, values, c) ==
  LET p == PlacesIn(comps, c)[Len(comps)] - PlacesIn(comps, c)[Len(comps) - n] * Len(values)
  IN  /\ p \in 0 .. Len(values) - 1
      /\ values[p + 1] = Ends(ChosenOf(comps, c))[n]

\* What the last n components are combined to: a value for every selection.
ConcatSoFar(comps, n, values) ==
  /\ IsTexts(values)
  /\ HowMany(comps, Len(comps) - n) * Len(values) = HowMany(comps, Len(comps))
  /\ \A c \in SelectionsOf(comps) : ConcatAt(comps, n, values, c)

LEMMA ConcatStarts ==
  ASSUME NEW comps, IsComponents(comps), Len(comps) >= 1
  PROVE  ConcatSoFar(comps, 1, comps[Len(comps)].values)
<1>a. PICK N \in Nat : N = Len(comps) /\ N >= 1
  BY ComponentsAre
<1>b. N \in 1 .. Len(comps) /\ N - 1 \in 0 .. Len(comps) - 1 /\ N - 1 + 1 = N
  BY <1>a
<1> DEFINE values == comps[N].values
<1>1. values \in Seq(Text) /\ Len(values) \in Nat
  BY <1>b, ComponentsAre
<1>2. HowMany(comps, N - 1) * Len(values) = HowMany(comps, N)
  <2> DEFINE m == N - 1
  <2>1. m \in 0 .. Len(comps) - 1 /\ m + 1 = N
    BY <1>b
  <2> HIDE DEF m
  <2>2. HowMany(comps, m + 1) = HowMany(comps, m) * Len(comps[m + 1].values)
    BY <2>1, HowManyAre
  <2>3. HowMany(comps, N) = HowMany(comps, m) * Len(comps[N].values)
    BY <2>1, <2>2
  <2> QED
    BY <2>3 DEF m
<1>3. ASSUME NEW c \in SelectionsOf(comps) PROVE ConcatAt(comps, 1, values, c)
  <2>1. IsSelection(comps, c)
    BY SelectionIs
  <2> DEFINE pl == PlacesIn(comps, c)
             q == pl[N - 1] * Len(values)
  <2>2. pl[N] = q + (c[N] - 1) /\ pl[N - 1] \in Nat
    <3>1. N - 1 \in 0 .. Len(comps)
      BY <1>a
    <3> QED
      BY <1>b, <2>1, <3>1, PlacesAre
  <2>3. c[N] \in 1 .. Len(values)
    BY <1>b, <2>1 DEF IsSelection
  <2>4. q \in Nat
    BY <1>1, <2>2
  <2> DEFINE s == ChosenOf(comps, c)
  <2>5. IsTexts(s) /\ Len(s) = N /\ s[N] = values[c[N]]
    BY <1>a, <1>b, <2>1, ChosenIs
  <2> HIDE DEF s
  <2>6. Ends(s)[1] = values[c[N]]
    <3>1. Ends(s)[0] = <<>> /\ \A n \in 1 .. N : Ends(s)[n] = s[N - n + 1] \o Ends(s)[n - 1]
      BY <2>5, EndsAre
    <3>2. 1 \in 1 .. N /\ N - 1 + 1 = N /\ 1 - 1 = 0
      BY <1>a
    <3>3. Ends(s)[1] = s[N] \o <<>>
      BY <3>1, <3>2
    <3>4. s[N] \in Text
      BY <1>b, <1>a, <2>5 DEF IsTexts
    <3>5. s[N] \o <<>> = s[N]
      BY <3>4 DEF Text
    <3> QED
      BY <2>5, <3>3, <3>5
  <2> HIDE DEF q
  <2>7. pl[N] - q = c[N] - 1
    BY <1>1, <2>2, <2>3, <2>4
  <2>8. c[N] - 1 \in 0 .. Len(values) - 1 /\ c[N] - 1 + 1 = c[N]
    BY <1>1, <2>3
  <2> HIDE DEF values, pl
  <2>9. /\ pl[N] - q \in 0 .. Len(values) - 1
        /\ values[pl[N] - q + 1] = Ends(s)[1]
    BY <2>6, <2>7, <2>8
  <2> QED
    BY <1>a, <2>9 DEF ConcatAt, pl, q, s
<1> QED
  BY <1>a, <1>1, <1>2, <1>3 DEF ConcatSoFar, IsTexts

LEMMA ConcatGoesOn ==
  ASSUME NEW comps, IsComponents(comps), NEW n \in Nat, 1 <= n, n < Len(comps),
         NEW values, ConcatSoFar(comps, n, values),
         NEW more, IsPaired(more, comps[Len(comps) - n].values, values, ConcatTable)
  PROVE  ConcatSoFar(comps, n + 1, more)
<1>a. PICK N \in Nat : N = Len(comps) /\ n < N
  BY ComponentsAre
<1>b. PICK j \in Nat : j = N - n /\ j \in 1 .. N /\ j - 1 \in 0 .. N - 1 /\ j - 1 = N - (n + 1)
  BY <1>a
<1> DEFINE first == comps[j].values
<1>1. first \in Seq(Text) /\ \A i \in 1 .. Len(first) : first[i] \in Text
  BY <1>a, <1>b, ComponentsAre
<1>c. PICK F \in Nat : F = Len(first)
  BY <1>1
<1>d. PICK L \in Nat : L = Len(values)
  BY DEF ConcatSoFar, IsTexts
<1>2. IsTexts(more) /\ Len(more) = F * L
      /\ \A a \in 1 .. F, b \in 1 .. L :
           /\ (a - 1) * L + b \in 1 .. Len(more)
           /\ more[(a - 1) * L + b] = ConcatTable[<<first[a], values[b]>>]
  <2>1. IsPaired(more, first, values, ConcatTable)
    BY <1>a, <1>b
  <2> HIDE DEF first
  <2> QED
    BY <1>c, <1>d, <2>1 DEF IsPaired, IsTexts
<1>3. HowMany(comps, j - 1) * (F * L) = HowMany(comps, N)
  <2> DEFINE m == j - 1
  <2>1. m \in 0 .. Len(comps) - 1 /\ m + 1 = j /\ m \in 0 .. Len(comps)
    BY <1>a, <1>b
  <2> HIDE DEF m
  <2>2. HowMany(comps, m + 1) = HowMany(comps, m) * Len(comps[m + 1].values) /\ HowMany(comps, m) \in Nat
    BY <2>1, HowManyAre
  <2>3. PICK h \in Nat : h = HowMany(comps, m)
    BY <2>2
  <2>4. HowMany(comps, j) = h * F
    BY <1>c, <2>1, <2>2, <2>3
  <2>5. HowMany(comps, j) * L = HowMany(comps, N)
    BY <1>a, <1>b, <1>d DEF ConcatSoFar
  <2>6. (h * F) * L = h * (F * L)
    OBVIOUS
  <2> QED
    BY <2>3, <2>4, <2>5, <2>6 DEF m
<1>4. ASSUME NEW c \in SelectionsOf(comps) PROVE ConcatAt(comps, n + 1, more, c)
  <2>1. IsSelection(comps, c)
    BY SelectionIs
  <2> DEFINE pl == PlacesIn(comps, c)
             s == ChosenOf(comps, c)
  <2>2. PICK a \in Nat : a = pl[j - 1]
    <3>1. j - 1 \in 0 .. Len(comps)
      BY <1>a, <1>b
    <3> QED
      BY <2>1, <3>1, PlacesAre
  <2>3. PICK e \in Int : e = pl[N]
    <3>1. N \in 0 .. Len(comps)
      BY <1>a
    <3>2. pl[N] \in Nat
      BY <2>1, <3>1, PlacesAre
    <3> QED
      BY <3>2
  <2>4. PICK k \in 1 .. F : k = c[j]
    BY <1>a, <1>b, <1>c, <2>1 DEF IsSelection
  <2>5. pl[j] = a * F + (k - 1)
    <3>1. j \in 1 .. Len(comps)
      BY <1>a, <1>b
    <3>2. pl[j] = pl[j - 1] * Len(first) + (c[j] - 1)
      BY <2>1, <3>1, PlacesAre
    <3> HIDE DEF pl, first
    <3> QED
      BY <1>c, <2>2, <2>4, <3>2
  <2>6. IsTexts(s) /\ Len(s) = N /\ s[j] = first[k]
    BY <1>a, <1>b, <2>1, <2>4, ChosenIs
  <2> HIDE DEF pl, s
  <2>7. ConcatAt(comps, n, values, c)
    BY DEF ConcatSoFar
  <2> DEFINE p == e - (a * F + (k - 1)) * L
             pp == e - a * (F * L)
  <2>8. p \in 0 .. L - 1 /\ values[p + 1] = Ends(s)[n]
    BY <1>a, <1>b, <1>d, <2>3, <2>5, <2>7 DEF ConcatAt, pl, s
  <2>9. pp = (k - 1) * L + p
    <3>1. (a * F + (k - 1)) * L = a * F * L + (k - 1) * L
      OBVIOUS
    <3>2. a * F * L = a * (F * L)
      OBVIOUS
    <3>3. a * F * L \in Int /\ (k - 1) * L \in Int
      OBVIOUS
    <3> QED
      BY <3>1, <3>2, <3>3
  <2> HIDE DEF p, pp
  <2>10. p + 1 \in 1 .. L /\ p \in Int
    BY <2>8
  <2>11. /\ (k - 1) * L + (p + 1) \in 1 .. Len(more)
         /\ more[(k - 1) * L + (p + 1)] = ConcatTable[<<first[k], values[p + 1]>>]
    BY <1>2, <2>10
  <2>12. pp + 1 = (k - 1) * L + (p + 1)
    BY <2>9, <2>10
  <2>13. pp \in 0 .. Len(more) - 1
    <3>1. PICK z \in Int : z = (k - 1) * L + p
      BY <2>10
    <3>2. F * L \in Int
      OBVIOUS
    <3>3. pp = z /\ z + 1 = (k - 1) * L + (p + 1)
      BY <2>9, <2>10, <3>1
    <3>4. z + 1 \in 1 .. F * L
      BY <1>2, <2>11, <3>3
    <3> QED
      BY <1>2, <3>2, <3>3, <3>4
  <2>14. more[pp + 1] = first[k] \o Ends(s)[n]
    <3>1. first[k] \in Text /\ values[p + 1] \in Text
      <4>1. \A i \in 1 .. L : values[i] \in Text
        BY <1>d DEF ConcatSoFar, IsTexts
      <4> QED
        BY <1>1, <1>c, <2>10, <4>1
    <3> HIDE DEF first
    <3>2. ConcatTable[<<first[k], values[p + 1]>>] = first[k] \o values[p + 1]
      BY <3>1, ConcatTableIs
    <3> QED
      BY <2>8, <2>11, <2>12, <3>2
  <2>15. Ends(s)[n + 1] = first[k] \o Ends(s)[n]
    <3>1. n + 1 \in 1 .. N /\ N - (n + 1) + 1 = j /\ (n + 1) - 1 = n
      BY <1>a, <1>b
    <3>2. \A i \in 1 .. N : Ends(s)[i] = s[N - i + 1] \o Ends(s)[i - 1]
      BY <2>6, EndsAre
    <3>3. Ends(s)[n + 1] = s[j] \o Ends(s)[n]
      BY <3>1, <3>2
    <3> QED
      BY <2>6, <3>3
  <2> HIDE DEF first
  <2>16. pl[N] - pl[N - (n + 1)] * Len(more) = pp
    BY <1>b, <1>2, <2>2, <2>3 DEF pp
  <2>17. pl[N] - pl[N - (n + 1)] * Len(more) \in 0 .. Len(more) - 1
         /\ more[pl[N] - pl[N - (n + 1)] * Len(more) + 1] = Ends(s)[n + 1]
    BY <2>13, <2>14, <2>15, <2>16
  <2> QED
    BY <1>a, <2>17 DEF ConcatAt, pl, s
<1>5. HowMany(comps, N - (n + 1)) * Len(more) = HowMany(comps, N)
  BY <1>b, <1>2, <1>3
<1> QED
  BY <1>a, <1>2, <1>4, <1>5 DEF ConcatSoFar

-----------------------------------------------------------------------------
\* arithmetic, from the first component to the last.

Partials(op, numbers) == IF op = "add" THEN Sums(numbers) ELSE Products(numbers)
Computed(op, x, y) == IF op = "add" THEN x + y ELSE x * y
Start(op) == IF op = "add" THEN 0 ELSE 1

LEMMA PartialsAre ==
  ASSUME NEW op, NEW s, IsNumbers(s)
  PROVE  /\ \A i \in 0 .. Len(s) : Partials(op, s)[i] \in Int
         /\ Partials(op, s)[0] = Start(op)
         /\ \A i \in 1 .. Len(s) : Partials(op, s)[i] = Computed(op, Partials(op, s)[i - 1], s[i])
<1>1. CASE op = "add"
  BY <1>1, SumsAre DEF Partials, Computed, Start
<1>2. CASE op # "add"
  BY <1>2, ProductsAre DEF Partials, Computed, Start
<1> QED
  BY <1>1, <1>2

LEMMA MagnitudesAre ==
  ASSUME NEW s, IsNumbers(s)
  PROVE  /\ IsNumbers(Magnitudes(s)) /\ Len(Magnitudes(s)) = Len(s)
         /\ \A i \in 1 .. Len(s) : /\ Magnitudes(s)[i] \in Nat
                                   /\ Magnitudes(s)[i] = s[i] \/ Magnitudes(s)[i] = -s[i]
<1>a. PICK N \in Nat : N = Len(s) /\ DOMAIN s = 1 .. N /\ \A i \in 1 .. N : s[i] \in Int
  BY DEF IsNumbers
<1> DEFINE m == Magnitudes(s)
<1>1. m = [i \in 1 .. N |-> IF s[i] < 0 THEN -s[i] ELSE s[i]]
  BY <1>a DEF Magnitudes
<1>2. \A i \in 1 .. N : m[i] \in Nat /\ m[i] \in Int /\ (m[i] = s[i] \/ m[i] = -s[i])
  BY <1>a, <1>1
<1>3. m \in Seq(Int) /\ Len(m) = N
  BY <1>1, <1>2
<1> QED
  BY <1>a, <1>2, <1>3 DEF IsNumbers

\* No partial result is larger than the one of the magnitudes.
LEMMA PartialsAreBounded ==
  ASSUME NEW op, NEW s, IsNumbers(s), NEW i \in 0 .. Len(s)
  PROVE  /\ Partials(op, Magnitudes(s))[i] \in Nat
         /\ Partials(op, s)[i] <= Partials(op, Magnitudes(s))[i]
         /\ -Partials(op, Magnitudes(s))[i] <= Partials(op, s)[i]
<1>a. PICK N \in Nat : N = Len(s)
  BY DEF IsNumbers
<1> DEFINE P == Partials(op, s)
           Q == Partials(op, Magnitudes(s))
           mag == Magnitudes(s)
           T == {n \in Nat : n <= N => Q[n] \in Nat /\ P[n] <= Q[n] /\ -Q[n] <= P[n]}
<1>1. IsNumbers(mag) /\ Len(mag) = N
      /\ \A k \in 1 .. N : mag[k] \in Nat /\ s[k] \in Int /\ (mag[k] = s[k] \/ mag[k] = -s[k])
  BY <1>a, MagnitudesAre DEF IsNumbers
<1> HIDE DEF mag
<1>2. /\ \A k \in 0 .. N : P[k] \in Int /\ Q[k] \in Int
      /\ P[0] = Start(op) /\ Q[0] = Start(op)
      /\ \A k \in 1 .. N : P[k] = Computed(op, P[k - 1], s[k]) /\ Q[k] = Computed(op, Q[k - 1], mag[k])
  <2>1. /\ \A k \in 0 .. N : P[k] \in Int
        /\ P[0] = Start(op)
        /\ \A k \in 1 .. N : P[k] = Computed(op, P[k - 1], s[k])
    BY <1>a, PartialsAre
  <2>2. /\ \A k \in 0 .. N : Partials(op, mag)[k] \in Int
        /\ Partials(op, mag)[0] = Start(op)
        /\ \A k \in 1 .. N : Partials(op, mag)[k] = Computed(op, Partials(op, mag)[k - 1], mag[k])
    BY <1>1, PartialsAre
  <2> QED
    BY <2>1, <2>2 DEF mag
<1> HIDE DEF P, Q
<1>3. 0 \in T
  BY <1>2 DEF Start
<1>4. ASSUME NEW n \in Nat, n \in T PROVE n + 1 \in T
  <2> SUFFICES ASSUME n + 1 <= N
               PROVE  Q[n + 1] \in Nat /\ P[n + 1] <= Q[n + 1] /\ -Q[n + 1] <= P[n + 1]
    OBVIOUS
  <2>1. n \in 0 .. N /\ n + 1 \in 1 .. N /\ (n + 1) - 1 = n
    OBVIOUS
  <2>2. PICK x \in Int : x = P[n]
    BY <1>2, <2>1
  <2>3. PICK y \in Nat : y = Q[n] /\ x <= y /\ -y <= x
    BY <1>4, <2>1, <2>2
  <2>4. PICK z \in Nat : z = mag[n + 1] /\ (s[n + 1] = z \/ s[n + 1] = -z)
    BY <1>1, <2>1
  <2>5. P[n + 1] = Computed(op, x, s[n + 1]) /\ Q[n + 1] = Computed(op, y, z)
    BY <1>2, <2>1, <2>2, <2>3, <2>4
  <2>6. CASE op = "add"
    <3>1. P[n + 1] = x + s[n + 1] /\ Q[n + 1] = y + z
      BY <2>5, <2>6 DEF Computed
    <3>2. P[n + 1] = x + z \/ P[n + 1] = x + (-z)
      BY <2>4, <3>1
    <3>3. /\ y + z \in Nat /\ x + z <= y + z /\ -(y + z) <= x + z
          /\ x + (-z) <= y + z /\ -(y + z) <= x + (-z)
      BY <2>3
    <3> QED
      BY <3>1, <3>2, <3>3
  <2>7. CASE op # "add"
    <3>1. P[n + 1] = x * s[n + 1] /\ Q[n + 1] = y * z
      BY <2>5, <2>7 DEF Computed
    <3>2. y * z \in Nat /\ x * z <= y * z /\ -(y * z) <= x * z
      <4>1. PICK d \in Nat : d = y - x
        BY <2>3
      <4>2. PICK f \in Nat : f = y + x
        BY <2>3
      <4>3. d * z \in Nat /\ f * z \in Nat /\ y * z \in Nat /\ x * z \in Int
        OBVIOUS
      <4>4. d * z = y * z - x * z
        BY <4>1
      <4>5. f * z = y * z + x * z
        BY <4>2
      <4> QED
        BY <4>3, <4>4, <4>5
    <3>3. x * (-z) = -(x * z)
      OBVIOUS
    <3>4. x * z \in Int
      OBVIOUS
    <3>5. P[n + 1] = x * z \/ P[n + 1] = -(x * z)
      BY <2>4, <3>1, <3>3
    <3> QED
      BY <3>1, <3>2, <3>4, <3>5
  <2> QED
    BY <2>6, <2>7
<1> HIDE DEF T
<1>5. Nat \subseteq T
  BY <1>3, <1>4, SetInduction
<1>6. i \in 0 .. N /\ i \in Nat /\ i <= N
  BY <1>a
<1> QED
  BY <1>5, <1>6 DEF T, P, Q

\* A partial result was as small before, or there is a factor zero.
LEMMA PartialsGrow ==
  ASSUME NEW op, NEW s, IsNumbers(s), NEW i \in 1 .. Len(s)
  PROVE  \/ Partials(op, Magnitudes(s))[i - 1] <= Partials(op, Magnitudes(s))[i]
         \/ (op # "add" /\ s[i] = 0)
<1>a. PICK N \in Nat : N = Len(s) /\ i \in 1 .. N /\ i - 1 \in 0 .. N
  BY DEF IsNumbers
<1> DEFINE mag == Magnitudes(s)
           Q == Partials(op, mag)
<1>1. IsNumbers(mag) /\ Len(mag) = N /\ mag[i] \in Nat /\ (mag[i] = s[i] \/ mag[i] = -s[i]) /\ s[i] \in Int
  BY <1>a, MagnitudesAre DEF IsNumbers
<1>2. Q[i - 1] \in Nat
  BY <1>a, PartialsAreBounded
<1> HIDE DEF mag
<1>3. Q[i] = Computed(op, Q[i - 1], mag[i])
  BY <1>a, <1>1, PartialsAre
<1> HIDE DEF Q
<1>4. PICK y \in Nat : y = Q[i - 1]
  BY <1>2
<1>5. PICK z \in Nat : z = mag[i]
  BY <1>1
<1>6. CASE op = "add"
  BY <1>3, <1>4, <1>5, <1>6 DEF Computed, Q, mag
<1>7. CASE op # "add"
  <2>1. Q[i] = y * z
    BY <1>3, <1>4, <1>5, <1>7 DEF Computed
  <2>2. CASE z = 0
    BY <1>1, <1>5, <1>7, <2>2
  <2>3. CASE z # 0
    <3>1. PICK w \in Nat : w = z - 1
      BY <2>3
    <3>2. y * w \in Nat /\ y * z = y * w + y
      BY <3>1
    <3> QED
      BY <1>4, <2>1, <3>2 DEF Q, mag
  <2> QED
    BY <2>2, <2>3
<1> QED
  BY <1>6, <1>7

-----------------------------------------------------------------------------
CalculateTable(op) == [x \in Text \X Text |-> <<Rounded(Computed(op, Number(x[1]), Number(x[2])))>>]

LEMMA NumberIs == \A v \in Text : Number(v) \in Int
BY DEF Number, Text

LEMMA CalculateTableIs ==
  ASSUME NEW op
  PROVE  /\ CalculateTable(op) \in [Text \X Text -> Text]
         /\ \A a, b \in Text :
              CalculateTable(op)[<<a, b>>] = <<Rounded(Computed(op, Number(a), Number(b)))>>
<1>1. \A a, b \in Text : Computed(op, Number(a), Number(b)) \in Int
  BY NumberIs DEF Computed
<1>2. \A a, b \in Text : Rounded(Computed(op, Number(a), Number(b))) \in Int
  BY <1>1, RoundedIs
<1>3. \A n \in Int : <<n>> \in Text
  BY DEF Text
<1>4. \A a, b \in Text : <<Rounded(Computed(op, Number(a), Number(b)))>> \in Text
  BY <1>2, <1>3
<1> QED
  BY <1>4 DEF CalculateTable

\* Where the values of the first n components are found, and what they are.
ArithmeticAt(op, comps, n, values, c) ==
  LET p == PlacesIn(comps, c)[n]
      s == NumbersIn(comps, c)
  IN  /\ p \in 0 .. Len(values) - 1
      /\ n >= 2 => Len(values[p + 1]) = 1
      /\ Partials(op, Magnitudes(s))[n] < Precision => Number(values[p + 1]) = Partials(op, s)[n]

\* What the first n components are combined to: a value for every selection.
ArithmeticSoFar(op, comps, n, values) ==
  /\ IsTexts(values)
  /\ Len(values) = HowMany(comps, n)
  /\ \A c \in SelectionsOf(comps) : ArithmeticAt(op, comps, n, values, c)

LEMMA ArithmeticStarts ==
  ASSUME NEW op, NEW comps, IsComponents(comps), Len(comps) >= 1
  PROVE  ArithmeticSoFar(op, comps, 1, comps[1].values)
<1>a. PICK N \in Nat : N = Len(comps) /\ N >= 1
  BY ComponentsAre
<1>b. 1 \in 1 .. Len(comps) /\ 0 \in 0 .. Len(comps) - 1 /\ 0 + 1 = 1 /\ 1 - 1 = 0 /\ 0 \in 0 .. Len(comps)
  BY <1>a
<1> DEFINE values == comps[1].values
<1>1. values \in Seq(Text) /\ Len(values) \in Nat
  BY <1>b, ComponentsAre
<1>2. HowMany(comps, 1) = Len(values)
  <2>1. HowMany(comps, 0 + 1) = HowMany(comps, 0) * Len(comps[0 + 1].values) /\ HowMany(comps, 0) = 1
    BY <1>b, HowManyAre
  <2> QED
    BY <1>1, <2>1
<1>3. ASSUME NEW c \in SelectionsOf(comps) PROVE ArithmeticAt(op, comps, 1, values, c)
  <2>1. IsSelection(comps, c)
    BY SelectionIs
  <2> DEFINE pl == PlacesIn(comps, c)
             s == NumbersIn(comps, c)
  <2>2. c[1] \in 1 .. Len(values)
    BY <1>b, <2>1 DEF IsSelection
  <2>3. pl[1] = c[1] - 1
    <3>1. pl[0] = 0 /\ \A i \in 1 .. Len(comps) : pl[i] = pl[i - 1] * Len(comps[i].values) + (c[i] - 1)
      BY <2>1, PlacesAre
    <3>2. pl[1] = 0 * Len(values) + (c[1] - 1)
      BY <1>b, <3>1
    <3> QED
      BY <1>1, <2>2, <3>2
  <2>4. IsNumbers(s) /\ Len(s) = N /\ s[1] = Number(values[c[1]])
    BY <1>a, <1>b, <2>1, ChosenIs
  <2> HIDE DEF s, pl
  <2>5. Partials(op, s)[1] = s[1]
    <3>1. Partials(op, s)[0] = Start(op)
          /\ \A i \in 1 .. N : Partials(op, s)[i] = Computed(op, Partials(op, s)[i - 1], s[i])
      BY <2>4, PartialsAre
    <3>2. Partials(op, s)[1] = Computed(op, Start(op), s[1])
      BY <1>a, <1>b, <3>1
    <3>3. s[1] \in Int
      BY <1>a, <2>4 DEF IsNumbers
    <3> QED
      BY <3>2, <3>3 DEF Computed, Start
  <2>6. pl[1] \in 0 .. Len(values) - 1 /\ values[pl[1] + 1] = values[c[1]]
    <3>1. c[1] - 1 \in 0 .. Len(values) - 1 /\ c[1] - 1 + 1 = c[1]
      BY <1>1, <2>2
    <3> QED
      BY <2>3, <3>1
  <2> HIDE DEF values
  <2> QED
    BY <2>4, <2>5, <2>6 DEF ArithmeticAt, s, pl
<1> QED
  BY <1>1, <1>2, <1>3 DEF ArithmeticSoFar, IsTexts

LEMMA ArithmeticGoesOn ==
  ASSUME NEW op, NEW comps, IsComponents(comps), NEW n \in Nat, 1 <= n, n < Len(comps),
         NEW values, ArithmeticSoFar(op, comps, n, values),
         NEW more, IsPaired(more, values, comps[n + 1].values, CalculateTable(op))
  PROVE  ArithmeticSoFar(op, comps, n + 1, more)
<1>a. PICK N \in Nat : N = Len(comps) /\ n < N
  BY ComponentsAre
<1>b. PICK j \in Nat : j = n + 1 /\ j \in 1 .. N /\ j - 1 = n /\ n \in 0 .. N
  BY <1>a
<1> DEFINE last == comps[j].values
<1>1. last \in Seq(Text) /\ \A i \in 1 .. Len(last) : last[i] \in Text
  BY <1>a, <1>b, ComponentsAre
<1>c. PICK F \in Nat : F = Len(last)
  BY <1>1
<1>d. PICK L \in Nat : L = Len(values)
  BY DEF ArithmeticSoFar, IsTexts
<1>2. IsTexts(more) /\ Len(more) = L * F
      /\ \A a \in 1 .. L, b \in 1 .. F :
           /\ (a - 1) * F + b \in 1 .. Len(more)
           /\ more[(a - 1) * F + b] = CalculateTable(op)[<<values[a], last[b]>>]
  <2>1. IsPaired(more, values, last, CalculateTable(op))
    BY <1>a, <1>b
  <2> HIDE DEF last
  <2> QED
    BY <1>c, <1>d, <2>1 DEF IsPaired, IsTexts
<1>3. Len(more) = HowMany(comps, n + 1)
  <2>1. n \in 0 .. Len(comps) - 1
    BY <1>a
  <2>2. HowMany(comps, n + 1) = HowMany(comps, n) * Len(comps[n + 1].values)
    BY <2>1, HowManyAre
  <2>3. HowMany(comps, n) = L /\ Len(comps[n + 1].values) = F
    BY <1>b, <1>c, <1>d DEF ArithmeticSoFar
  <2> QED
    BY <1>2, <2>2, <2>3
<1>4. ASSUME NEW c \in SelectionsOf(comps) PROVE ArithmeticAt(op, comps, n + 1, more, c)
  <2>1. IsSelection(comps, c)
    BY SelectionIs
  <2> DEFINE pl == PlacesIn(comps, c)
             s == NumbersIn(comps, c)
             P == Partials(op, s)
             Q == Partials(op, Magnitudes(s))
  <2>2. PICK p \in 0 .. L - 1 : p = pl[n]
    BY <1>d DEF ArithmeticSoFar, ArithmeticAt
  <2>3. PICK k \in 1 .. F : k = c[j]
    BY <1>a, <1>b, <1>c, <2>1 DEF IsSelection
  <2>4. pl[j] = p * F + (k - 1)
    <3>1. j \in 1 .. Len(comps)
      BY <1>a, <1>b
    <3>2. pl[j] = pl[j - 1] * Len(last) + (c[j] - 1)
      BY <2>1, <3>1, PlacesAre
    <3> HIDE DEF pl, last
    <3> QED
      BY <1>b, <1>c, <2>2, <2>3, <3>2
  <2>5. IsNumbers(s) /\ Len(s) = N /\ s[j] = Number(last[k])
    BY <1>a, <1>b, <2>1, <2>3, ChosenIs
  <2>6. Q[n] < Precision => Number(values[p + 1]) = P[n]
    BY <2>2 DEF ArithmeticSoFar, ArithmeticAt
  <2> HIDE DEF pl, s, P, Q
  <2>7. p + 1 \in 1 .. L /\ (p + 1) - 1 = p /\ k \in 1 .. F
    OBVIOUS
  <2>8. /\ (p + 1 - 1) * F + k \in 1 .. Len(more)
        /\ more[(p + 1 - 1) * F + k] = CalculateTable(op)[<<values[p + 1], last[k]>>]
    BY <1>2, <2>7
  <2>9. p * F + k \in 1 .. Len(more)
        /\ more[p * F + k] = CalculateTable(op)[<<values[p + 1], last[k]>>]
    BY <2>7, <2>8
  <2>10. pl[j] \in 0 .. Len(more) - 1 /\ pl[j] + 1 = p * F + k
    <3>1. PICK z \in Int : z = p * F
      OBVIOUS
    <3>2. Len(more) \in Nat /\ pl[j] = z + (k - 1) /\ z + k \in 1 .. Len(more) /\ z \in Int
      BY <1>2, <2>4, <2>9, <3>1
    <3> QED
      BY <3>1, <3>2
  <2>11. values[p + 1] \in Text /\ last[k] \in Text
    <3>1. \A i \in 1 .. L : values[i] \in Text
      BY <1>d DEF ArithmeticSoFar, IsTexts
    <3> QED
      BY <1>1, <1>c, <2>7, <3>1
  <2> DEFINE result == Computed(op, Number(values[p + 1]), Number(last[k]))
  <2>12. more[pl[j] + 1] = <<Rounded(result)>>
    <3> HIDE DEF last
    <3> QED
      BY <2>9, <2>10, <2>11, CalculateTableIs
  <2>13. Number(values[p + 1]) \in Int /\ Number(last[k]) \in Int /\ result \in Int
    <3>1. Number(values[p + 1]) \in Int /\ Number(last[k]) \in Int
      BY <2>11, NumberIs
    <3> QED
      BY <3>1 DEF Computed
  <2>14. Rounded(result) \in Int /\ (-Precision < result /\ result < Precision => Rounded(result) = result)
    BY <2>13, RoundedIs
  <2>15. ASSUME Q[j] < Precision PROVE Rounded(result) = P[j]
    <3>1. Q[j] \in Nat /\ P[j] <= Q[j] /\ -Q[j] <= P[j] /\ P[j] \in Int
      <4>1. j \in 0 .. Len(s)
        BY <1>b, <2>5
      <4>2. Q[j] \in Nat /\ P[j] <= Q[j] /\ -Q[j] <= P[j]
        BY <2>5, <4>1, PartialsAreBounded DEF P, Q
      <4>3. P[j] \in Int
        BY <2>5, <4>1, PartialsAre DEF P
      <4> QED
        BY <4>2, <4>3
    <3>2. P[j] = Computed(op, P[n], s[j]) /\ P[n] \in Int
      <4>1. j \in 1 .. Len(s) /\ j - 1 = n /\ n \in 0 .. Len(s)
        BY <1>b, <2>5
      <4>2. P[j] = Computed(op, P[j - 1], s[j])
        BY <2>5, <4>1, PartialsAre DEF P
      <4>3. P[n] \in Int
        BY <2>5, <4>1, PartialsAre DEF P
      <4> QED
        BY <4>1, <4>2, <4>3
    <3>3. Q[n] <= Q[j] \/ (op # "add" /\ s[j] = 0)
      <4>1. j \in 1 .. Len(s) /\ j - 1 = n
        BY <1>b, <2>5
      <4>2. Q[j - 1] <= Q[j] \/ (op # "add" /\ s[j] = 0)
        BY <2>5, <4>1, PartialsGrow DEF Q
      <4> QED
        BY <4>1, <4>2
    <3>4. Q[n] \in Nat
      <4>1. n \in 0 .. Len(s)
        BY <1>b, <2>5
      <4> QED
        BY <2>5, <4>1, PartialsAreBounded DEF Q
    <3>5. result = P[j]
      <4>1. CASE Q[n] <= Q[j]
        <5>1. Q[n] < Precision
          BY <2>15, <3>1, <3>4, <4>1, PrecisionAssumption
        <5> QED
          BY <2>5, <2>6, <3>2, <5>1
      <4>2. CASE op # "add" /\ s[j] = 0
        <5>1. result = 0 /\ P[j] = 0
          BY <2>5, <2>13, <3>2, <4>2 DEF Computed
        <5> QED
          BY <5>1
      <4> QED
        BY <3>3, <4>1, <4>2
    <3>6. -Precision < result /\ result < Precision
      BY <2>15, <3>1, <3>5, PrecisionAssumption
    <3> QED
      BY <2>14, <3>5, <3>6
  <2>16. Len(more[pl[j] + 1]) = 1 /\ Number(more[pl[j] + 1]) = Rounded(result)
    <3> HIDE DEF result
    <3>1. \A r : Len(<<r>>) = 1 /\ <<r>>[1] = r
      OBVIOUS
    <3> QED
      BY <2>12, <3>1 DEF Number
  <2> HIDE DEF result
  <2>17. Q[j] < Precision => Number(more[pl[j] + 1]) = P[j]
    BY <2>15, <2>16
  <2>18. ArithmeticAt(op, comps, j, more, c)
    BY <2>10, <2>16, <2>17 DEF ArithmeticAt, pl, P, Q, s
  <2> QED
    BY <1>b, <2>18
<1> QED
  BY <1>2, <1>3, <1>4 DEF ArithmeticSoFar

-----------------------------------------------------------------------------
\* What the actions make of pairs.

LEMMA PairsAreBy ==
  ASSUME NEW outer, IsTexts(outer), NEW inner, IsTexts(inner), NEW k \in 1 .. Len(outer) * Len(inner)
  PROVE  outer[((k - 1) \div Len(inner)) + 1] \in Text /\ inner[((k - 1) % Len(inner)) + 1] \in Text
<1>a. PICK x \in Nat : x = Len(outer)
  BY DEF IsTexts
<1>b. PICK y \in Nat : y = Len(inner)
  BY DEF IsTexts
<1>1. (k - 1) \div y + 1 \in 1 .. x /\ ((k - 1) % y) + 1 \in 1 .. y
  BY <1>a, <1>b, PlacesOfPairs
<1>2. (\A a \in 1 .. x : outer[a] \in Text) /\ (\A b \in 1 .. y : inner[b] \in Text)
  BY <1>a, <1>b DEF IsTexts
<1> QED
  BY <1>a, <1>b, <1>1, <1>2

LEMMA ConcatPairs ==
  ASSUME NEW outer, IsTexts(outer), NEW inner, IsTexts(inner)
  PROVE  IsPaired(Pairs(Concatenate, outer, inner), outer, inner, ConcatTable)
<1>1. Pairs(Concatenate, outer, inner) = PairsBy(ConcatTable, outer, inner)
  <2>1. \A k \in 1 .. Len(outer) * Len(inner) :
          Concatenate(outer[((k - 1) \div Len(inner)) + 1], inner[((k - 1) % Len(inner)) + 1])
            = ConcatTable[<<outer[((k - 1) \div Len(inner)) + 1], inner[((k - 1) % Len(inner)) + 1]>>]
    <3> TAKE k \in 1 .. Len(outer) * Len(inner)
    <3> DEFINE a == outer[((k - 1) \div Len(inner)) + 1]
               b == inner[((k - 1) % Len(inner)) + 1]
    <3>1. a \in Text /\ b \in Text
      BY PairsAreBy
    <3> HIDE DEF a, b
    <3>2. Concatenate(a, b) = ConcatTable[<<a, b>>]
      BY <3>1, ConcatTableIs DEF Concatenate
    <3> QED
      BY <3>2 DEF a, b
  <2> QED
    BY <2>1 DEF Pairs, PairsBy
<1> QED
  BY <1>1, PairedValues, ConcatTableIs

LEMMA CalculatePairs ==
  ASSUME NEW outer, IsTexts(outer), NEW inner, IsTexts(inner)
  PROVE  IsPaired(Pairs(Calculate, outer, inner), outer, inner, CalculateTable(function.operation))
<1> DEFINE table == CalculateTable(function.operation)
<1>0. table \in [Text \X Text -> Text]
      /\ \A a, b \in Text : table[<<a, b>>] = <<Rounded(Computed(function.operation, Number(a), Number(b)))>>
  BY CalculateTableIs
<1> HIDE DEF table
<1>1. Pairs(Calculate, outer, inner) = PairsBy(table, outer, inner)
  <2>1. \A k \in 1 .. Len(outer) * Len(inner) :
          Calculate(outer[((k - 1) \div Len(inner)) + 1], inner[((k - 1) % Len(inner)) + 1])
            = table[<<outer[((k - 1) \div Len(inner)) + 1], inner[((k - 1) % Len(inner)) + 1]>>]
    <3> TAKE k \in 1 .. Len(outer) * Len(inner)
    <3> DEFINE a == outer[((k - 1) \div Len(inner)) + 1]
               b == inner[((k - 1) % Len(inner)) + 1]
    <3>1. a \in Text /\ b \in Text
      BY PairsAreBy
    <3> HIDE DEF a, b
    <3>2. Calculate(a, b) = table[<<a, b>>]
      BY <1>0, <3>1 DEF Calculate, Computed
    <3> QED
      BY <3>2 DEF a, b
  <2> QED
    BY <2>1 DEF Pairs, PairsBy
<1> QED
  BY <1>0, <1>1, PairedValues DEF table

SubtractTable == [x \in Text \X Text |-> <<Number(x[1]) - Number(x[2])>>]

LEMMA SubtractPairs ==
  ASSUME NEW outer, IsTexts(outer), NEW inner, IsTexts(inner)
  PROVE  /\ IsPaired(Pairs(Subtract, outer, inner), outer, inner, SubtractTable)
         /\ \A a, b \in Text : SubtractTable[<<a, b>>] = <<Number(a) - Number(b)>>
<1>0. SubtractTable \in [Text \X Text -> Text]
      /\ \A a, b \in Text : SubtractTable[<<a, b>>] = <<Number(a) - Number(b)>>
  <2>1. \A a, b \in Text : Number(a) - Number(b) \in Int
    BY NumberIs
  <2>2. \A n \in Int : <<n>> \in Text
    BY DEF Text
  <2>3. \A a, b \in Text : <<Number(a) - Number(b)>> \in Text
    BY <2>1, <2>2
  <2> QED
    BY <2>3 DEF SubtractTable
<1>1. Pairs(Subtract, outer, inner) = PairsBy(SubtractTable, outer, inner)
  <2>1. \A k \in 1 .. Len(outer) * Len(inner) :
          Subtract(outer[((k - 1) \div Len(inner)) + 1], inner[((k - 1) % Len(inner)) + 1])
            = SubtractTable[<<outer[((k - 1) \div Len(inner)) + 1], inner[((k - 1) % Len(inner)) + 1]>>]
    <3> TAKE k \in 1 .. Len(outer) * Len(inner)
    <3> DEFINE a == outer[((k - 1) \div Len(inner)) + 1]
               b == inner[((k - 1) % Len(inner)) + 1]
    <3>1. a \in Text /\ b \in Text
      BY PairsAreBy
    <3> HIDE DEF a, b
    <3>2. Subtract(a, b) = SubtractTable[<<a, b>>]
      BY <1>0, <3>1 DEF Subtract
    <3> QED
      BY <3>2 DEF a, b
  <2> QED
    BY <2>1 DEF Pairs, PairsBy
<1> QED
  BY <1>0, <1>1, PairedValues

-----------------------------------------------------------------------------
\* The property, of any function and components.

CalculatedOf(op, numbers) == Partials(op, numbers)[Len(numbers)]
ExpectedOf(f, comps, c) ==
  CASE f.name = "concat"     -> Ends(ChosenOf(comps, c))[Len(comps)]
    [] f.name = "arithmetic" -> <<CalculatedOf(f.operation, NumbersIn(comps, c))>>
    [] f.name = "time_difference" -> <<NumbersIn(comps, c)[1] - NumbersIn(comps, c)[2]>>
EveryOf(f, comps, values) ==
  /\ Len(values) = Cardinality(SelectionsOf(comps))
  /\ \A c \in SelectionsOf(comps) :
       f.name # "arithmetic" \/ CalculatedOf(f.operation, Magnitudes(NumbersIn(comps, c))) < Precision =>
         values[PlacesIn(comps, c)[Len(comps)] + 1] = ExpectedOf(f, comps, c)

LEMMA EveryCombinationIs ==
  EveryCombination <=> (Combines => EveryOf(function, components, acc.values))
BY DEF EveryCombination, EveryOf, Selections, SelectionsOf, Calculated, CalculatedOf, Partials, NumbersOf,
   NumbersIn, Chosen, ChosenOf, Place, Places, PlacesIn, Expected, ExpectedOf

LEMMA EveryCombinationWillBe ==
  EveryCombination' <=> (Combines' => EveryOf(function', components', acc'.values))
BY DEF EveryCombination, EveryOf, Selections, SelectionsOf, Calculated, CalculatedOf, Partials, NumbersOf,
   NumbersIn, Chosen, ChosenOf, Place, Places, PlacesIn, Expected, ExpectedOf

LEMMA ConcatIsDone ==
  ASSUME NEW comps, IsComponents(comps), NEW values, ConcatSoFar(comps, Len(comps), values),
         NEW f, f.name = "concat"
  PROVE  EveryOf(f, comps, values)
<1>a. PICK N \in Nat : N = Len(comps)
  BY ComponentsAre
<1>b. PICK L \in Nat : L = Len(values)
  BY DEF ConcatSoFar, IsTexts
<1>1. N - N = 0 /\ HowMany(comps, 0) = 1 /\ HowMany(comps, N) = Cardinality(SelectionsOf(comps))
  BY <1>a, HowManyAre
<1>2. L = Cardinality(SelectionsOf(comps))
  <2>1. HowMany(comps, N - N) * L = HowMany(comps, N)
    BY <1>a, <1>b DEF ConcatSoFar
  <2>2. 1 * L = L
    OBVIOUS
  <2> QED
    BY <1>1, <2>1, <2>2
<1>3. ASSUME NEW c \in SelectionsOf(comps)
      PROVE  values[PlacesIn(comps, c)[N] + 1] = Ends(ChosenOf(comps, c))[N]
  <2> DEFINE pl == PlacesIn(comps, c)
  <2>1. IsSelection(comps, c)
    BY SelectionIs
  <2>2. pl[0] = 0 /\ pl[N] \in Nat
    <3>1. N \in 0 .. Len(comps)
      BY <1>a
    <3> QED
      BY <2>1, <3>1, PlacesAre
  <2>3. values[pl[N] - pl[N - N] * L + 1] = Ends(ChosenOf(comps, c))[N]
    BY <1>a, <1>b DEF ConcatSoFar, ConcatAt
  <2> HIDE DEF pl
  <2>4. pl[N] - pl[N - N] * L = pl[N]
    BY <1>1, <2>2
  <2> QED
    BY <2>3, <2>4 DEF pl
<1> QED
  BY <1>a, <1>b, <1>2, <1>3 DEF EveryOf, ExpectedOf

LEMMA ArithmeticIsDone ==
  ASSUME NEW f, f.name = "arithmetic", NEW comps, IsComponents(comps), Len(comps) >= 2,
         NEW values, ArithmeticSoFar(f.operation, comps, Len(comps), values)
  PROVE  EveryOf(f, comps, values)
<1>a. PICK N \in Nat : N = Len(comps) /\ N >= 2
  BY ComponentsAre
<1>1. Len(values) = Cardinality(SelectionsOf(comps))
  BY HowManyAre DEF ArithmeticSoFar
<1>2. ASSUME NEW c \in SelectionsOf(comps),
             CalculatedOf(f.operation, Magnitudes(NumbersIn(comps, c))) < Precision
      PROVE  values[PlacesIn(comps, c)[N] + 1] = <<CalculatedOf(f.operation, NumbersIn(comps, c))>>
  <2> DEFINE p == PlacesIn(comps, c)[N]
             s == NumbersIn(comps, c)
  <2>1. IsSelection(comps, c)
    BY SelectionIs
  <2>2. IsNumbers(s) /\ Len(s) = N
    BY <1>a, <2>1, ChosenIs
  <2>3. Len(Magnitudes(s)) = N
    <3> HIDE DEF s
    <3> QED
      BY <2>2, MagnitudesAre
  <2>4. p \in 0 .. Len(values) - 1 /\ Len(values[p + 1]) = 1
        /\ (Partials(f.operation, Magnitudes(s))[N] < Precision =>
              Number(values[p + 1]) = Partials(f.operation, s)[N])
    BY <1>a DEF ArithmeticSoFar, ArithmeticAt
  <2>5. Partials(f.operation, Magnitudes(s))[N] < Precision
    BY <1>2, <2>3 DEF CalculatedOf
  <2>6. Number(values[p + 1]) = CalculatedOf(f.operation, s)
    BY <2>2, <2>4, <2>5 DEF CalculatedOf
  <2>7. values[p + 1] \in Text
    <3>1. IsTexts(values)
      BY DEF ArithmeticSoFar
    <3> HIDE DEF p
    <3>2. Len(values) \in Nat /\ \A i \in 1 .. Len(values) : values[i] \in Text
      BY <3>1 DEF IsTexts
    <3>3. p + 1 \in 1 .. Len(values)
      BY <2>4, <3>2
    <3> QED
      BY <3>2, <3>3
  <2> HIDE DEF p, s
  <2> DEFINE v == values[p + 1]
  <2>8. v = <<v[1]>>
    <3>1. v \in Text /\ Len(v) = 1
      BY <2>4, <2>7
    <3> HIDE DEF v
    <3> QED
      BY <3>1 DEF Text
  <2>9. Number(v) = v[1]
    BY <2>4 DEF Number
  <2> QED
    BY <2>6, <2>8, <2>9 DEF p, s
<1> QED
  BY <1>a, <1>1, <1>2 DEF EveryOf, ExpectedOf

LEMMA DifferencesAre ==
  ASSUME NEW f, f.name = "time_difference", NEW comps, IsComponents(comps), Len(comps) = 2,
         NEW values, IsPaired(values, comps[1].values, comps[2].values, SubtractTable)
  PROVE  EveryOf(f, comps, values)
<1>0. 1 \in 1 .. Len(comps) /\ 2 \in 1 .. Len(comps) /\ 0 \in 0 .. Len(comps) - 1
      /\ 1 \in 0 .. Len(comps) - 1
  OBVIOUS
<1>1. IsTexts(comps[1].values) /\ IsTexts(comps[2].values)
      /\ Len(comps[1].values) \in Nat /\ Len(comps[2].values) \in Nat
  BY <1>0, ComponentsAre DEF IsTexts
<1>a. PICK x \in Nat : x = Len(comps[1].values)
  BY <1>1
<1>b. PICK y \in Nat : y = Len(comps[2].values)
  BY <1>1
<1>2. Len(values) = Cardinality(SelectionsOf(comps))
  <2>1. /\ HowMany(comps, 0 + 1) = HowMany(comps, 0) * Len(comps[0 + 1].values)
        /\ HowMany(comps, 1 + 1) = HowMany(comps, 1) * Len(comps[1 + 1].values)
        /\ HowMany(comps, 0) = 1
        /\ HowMany(comps, Len(comps)) = Cardinality(SelectionsOf(comps))
    BY <1>0, HowManyAre
  <2>2. 0 + 1 = 1 /\ 1 + 1 = 2 /\ 1 * x = x
    OBVIOUS
  <2>3. HowMany(comps, 2) = x * y
    BY <1>a, <1>b, <2>1, <2>2
  <2> QED
    BY <1>a, <1>b, <2>1, <2>3 DEF IsPaired
<1>3. ASSUME NEW c \in SelectionsOf(comps)
      PROVE  values[PlacesIn(comps, c)[2] + 1] = <<NumbersIn(comps, c)[1] - NumbersIn(comps, c)[2]>>
  <2>1. IsSelection(comps, c)
    BY SelectionIs
  <2>2. PICK a \in 1 .. x : a = c[1]
    BY <1>0, <1>a, <2>1 DEF IsSelection
  <2>3. PICK b \in 1 .. y : b = c[2]
    BY <1>0, <1>b, <2>1 DEF IsSelection
  <2> DEFINE pl == PlacesIn(comps, c)
  <2>4. pl[2] = (a - 1) * y + (b - 1)
    <3>1. pl[0] = 0 /\ pl[1] = pl[1 - 1] * Len(comps[1].values) + (c[1] - 1)
          /\ pl[2] = pl[2 - 1] * Len(comps[2].values) + (c[2] - 1)
      <4>1. pl[0] = 0 /\ \A i \in 1 .. Len(comps) : pl[i] = pl[i - 1] * Len(comps[i].values) + (c[i] - 1)
        BY <2>1, PlacesAre
      <4> HIDE DEF pl
      <4> QED
        BY <1>0, <4>1
    <3>2. 1 - 1 = 0 /\ 2 - 1 = 1 /\ 0 * x + (a - 1) = a - 1
      OBVIOUS
    <3> HIDE DEF pl
    <3>3. pl[1] = a - 1
      BY <1>a, <2>2, <3>1, <3>2
    <3> QED
      BY <1>b, <2>3, <3>1, <3>2, <3>3
  <2>5. pl[2] + 1 = (a - 1) * y + b
    <3> HIDE DEF pl
    <3> QED
      BY <2>4
  <2>6. NumbersIn(comps, c)[1] = Number(comps[1].values[a]) /\ NumbersIn(comps, c)[2] = Number(comps[2].values[b])
    BY <1>0, <2>1, <2>2, <2>3, ChosenIs
  <2>7. comps[1].values[a] \in Text /\ comps[2].values[b] \in Text
    BY <1>1, <1>a, <1>b DEF IsTexts
  <2>8. values[(a - 1) * y + b] = SubtractTable[<<comps[1].values[a], comps[2].values[b]>>]
    BY <1>a, <1>b DEF IsPaired
  <2>9. SubtractTable[<<comps[1].values[a], comps[2].values[b]>>]
          = <<Number(comps[1].values[a]) - Number(comps[2].values[b])>>
    BY <1>1, <2>7, SubtractPairs
  <2> QED
    BY <2>5, <2>6, <2>8, <2>9
<1> QED
  BY <1>2, <1>3 DEF EveryOf, ExpectedOf

\* What is combined so far has a value for every selection of the values that it is
\* combined from, in the order of their places.
CombiningInv ==
  /\ outcome = "running" /\ function.name = "concat" /\ taken > 0 =>
       ConcatSoFar(components, taken, acc.values)
  /\ outcome = "running" /\ function.name = "arithmetic" /\ taken > 0 /\ acc.flag # "error" =>
       ArithmeticSoFar(function.operation, components, taken, acc.values)
  /\ EveryCombination

LEMMA InitCombining == FunctionInit => CombiningInv
BY DEF FunctionInit, CombiningInv, EveryCombination, Combines, Returned

\* One more component.
LEMMA ConcatCombines ==
  ASSUME FlagInv, TextsInv, CombiningInv, Concat
  PROVE  CombiningInv'
<1>1. /\ UNCHANGED <<function, components, outcome>> /\ outcome = "running"
      /\ function.name = "concat" /\ taken < Len(components) /\ taken' = taken + 1
      /\ acc' = IF taken = 0 THEN components[Len(components) - taken]
                ELSE ProcessComponents(components[Len(components) - taken])
  BY DEF Concat, Running, TakeComponent
<1>2. IsComponents(components) /\ taken \in Nat /\ Len(components) >= 1
  BY <1>1 DEF TextsInv, FunctionIsTyped, IsComponents, FlagInv, HasArity
<1>a. PICK N \in Nat : N = Len(components) /\ N - taken \in 1 .. N
  BY <1>1, <1>2, ComponentsAre
<1>3. ConcatSoFar(components, taken + 1, acc'.values)
  <2>1. CASE taken = 0
    <3>1. acc'.values = components[Len(components)].values /\ taken + 1 = 1
      BY <1>1, <1>a, <2>1
    <3> QED
      BY <1>2, <3>1, ConcatStarts
  <2>2. CASE taken # 0
    <3> DEFINE first == components[N - taken].values
    <3>1. acc'.values = Pairs(Concatenate, first, acc.values)
      BY <1>1, <1>a, <2>2 DEF ProcessComponents
    <3>2. ConcatSoFar(components, taken, acc.values)
      BY <1>1, <1>2, <2>2 DEF CombiningInv
    <3>3. IsTexts(first) /\ IsTexts(acc.values)
      BY <1>2, <1>a, <3>2, ComponentsAre DEF IsTexts, ConcatSoFar
    <3> HIDE DEF first
    <3>4. IsPaired(acc'.values, first, acc.values, ConcatTable)
      BY <3>1, <3>3, ConcatPairs
    <3>5. IsPaired(acc'.values, components[Len(components) - taken].values, acc.values, ConcatTable)
      BY <1>a, <3>4 DEF first
    <3>6. 1 <= taken /\ taken < Len(components)
      BY <1>1, <1>2, <2>2
    <3> QED
      BY <1>2, <3>2, <3>5, <3>6, ConcatGoesOn
  <2> QED
    BY <2>1, <2>2
<1>4. EveryCombination'
  BY <1>1, EveryCombinationWillBe DEF Combines, Returned
<1> QED
  BY <1>1, <1>3, <1>4 DEF CombiningInv

LEMMA ErrorsRemain ==
  ASSUME NEW f, NEW g, CombineFlags(<<f, g>>) # "error"
  PROVE  f # "error"
<1>1. CombineFlags(<<f, g>>) = FlagOf({f, g})
  BY CombinedIsFlagOf, TwoOccur
<1> QED
  BY <1>1 DEF FlagOf

LEMMA ArithmeticCombines ==
  ASSUME FlagInv, TextsInv, CombiningInv, Arithmetic
  PROVE  CombiningInv'
<1>1. /\ UNCHANGED <<function, components, outcome>> /\ outcome = "running"
      /\ function.name = "arithmetic" /\ taken < Len(components) /\ taken' = taken + 1
      /\ acc' = IF taken = 0 THEN components[taken + 1]
                ELSE CombineTwoComponentValues(components[taken + 1])
  BY DEF Arithmetic, Running, TakeComponent
<1>2. IsComponents(components) /\ taken \in Nat /\ Len(components) >= 1
  BY <1>1 DEF TextsInv, FunctionIsTyped, IsComponents, FlagInv, HasArity
<1> DEFINE op == function.operation
<1>a. PICK N \in Nat : N = Len(components) /\ taken + 1 \in 1 .. N
  BY <1>1, <1>2, ComponentsAre
<1>3. ASSUME acc'.flag # "error" PROVE ArithmeticSoFar(op, components, taken + 1, acc'.values)
  <2>1. CASE taken = 0
    <3>1. acc'.values = components[1].values /\ taken + 1 = 1
      BY <1>1, <2>1
    <3> QED
      BY <1>2, <3>1, ArithmeticStarts
  <2>2. CASE taken # 0
    <3> DEFINE last == components[taken + 1].values
               current == components[taken + 1]
    <3>0. acc' = CombineTwoComponentValues(current)
      BY <1>1, <2>2
    <3>1. acc'.flag = CombineFlags(<<acc.flag, current.flag>>)
          /\ acc'.values = Pairs(Calculate, acc.values, last)
      BY <1>3, <3>0 DEF CombineTwoComponentValues
    <3>2. acc.flag # "error"
      BY <1>3, <3>1, ErrorsRemain
    <3>3. ArithmeticSoFar(op, components, taken, acc.values)
      BY <1>1, <1>2, <2>2, <3>2 DEF CombiningInv
    <3>4. IsTexts(last) /\ IsTexts(acc.values)
      BY <1>2, <1>a, <3>3, ComponentsAre DEF IsTexts, ArithmeticSoFar
    <3> HIDE DEF last
    <3>5. IsPaired(acc'.values, acc.values, last, CalculateTable(op))
      BY <3>1, <3>4, CalculatePairs
    <3> HIDE DEF op
    <3>6. IsPaired(acc'.values, acc.values, components[taken + 1].values, CalculateTable(op))
      BY <3>5 DEF last
    <3>7. 1 <= taken /\ taken < Len(components)
      BY <1>1, <1>2, <2>2
    <3> QED
      BY <1>2, <3>3, <3>6, <3>7, ArithmeticGoesOn
  <2> QED
    BY <2>1, <2>2
<1>4. EveryCombination'
  BY <1>1, EveryCombinationWillBe DEF Combines, Returned
<1> QED
  BY <1>1, <1>3, <1>4 DEF CombiningInv

LEMMA CombinationIsReturned ==
  ASSUME FlagInv, TextsInv, CombiningInv, CombinationReturns
  PROVE  CombiningInv'
<1>1. /\ UNCHANGED <<function, components, acc>> /\ outcome = "running" /\ outcome' = "returned"
      /\ function.name \in {"concat", "arithmetic"} /\ taken = Len(components)
  BY DEF CombinationReturns, Running, Return
<1>2. IsComponents(components) /\ Len(components) >= 2 /\ Len(components) \in Nat
  BY <1>1, ComponentsAre DEF TextsInv, FunctionIsTyped, IsComponents, HasArity
<1>3. Combines' => EveryOf(function, components, acc.values)
  <2>1. CASE function.name = "concat"
    <3>1. ConcatSoFar(components, Len(components), acc.values)
      BY <1>1, <1>2, <2>1 DEF CombiningInv
    <3> QED
      BY <1>2, <2>1, <3>1, ConcatIsDone
  <2>2. CASE function.name = "arithmetic" /\ acc.flag # "error"
    <3>1. ArithmeticSoFar(function.operation, components, Len(components), acc.values)
      BY <1>1, <1>2, <2>2 DEF CombiningInv
    <3> QED
      BY <1>2, <2>2, <3>1, ArithmeticIsDone
  <2>3. CASE function.name = "arithmetic" /\ acc.flag = "error"
    BY <1>1, <2>3 DEF Combines, Returned
  <2> QED
    BY <1>1, <2>1, <2>2, <2>3
<1>4. EveryCombination'
  BY <1>1, <1>3, EveryCombinationWillBe
<1> QED
  BY <1>1, <1>4 DEF CombiningInv

LEMMA TimeDifferenceCombines ==
  ASSUME FlagInv, TextsInv, TimeDifference
  PROVE  CombiningInv'
<1>1. /\ UNCHANGED <<function, components>> /\ outcome = "running" /\ outcome' = "returned"
      /\ function.name = "time_difference"
      /\ acc'.values = IF Second.flag # "complete" THEN <<>>
                       ELSE Pairs(Subtract, First.values, Second.values)
  BY DEF TimeDifference, Running, Return
<1>2. IsComponents(components)
  BY DEF TextsInv, FunctionIsTyped, IsComponents
<1>3. ASSUME Combines' PROVE EveryOf(function, components, acc'.values)
  <2>1. Second.flag = "complete" /\ Len(components) = 2
    BY <1>1, <1>3 DEF Combines, Returned, Second
  <2>2. acc'.values = Pairs(Subtract, components[1].values, components[2].values)
    BY <1>1, <2>1 DEF First, Second
  <2>3. IsTexts(components[1].values) /\ IsTexts(components[2].values)
    <3>1. 1 \in 1 .. Len(components) /\ 2 \in 1 .. Len(components)
      BY <2>1
    <3> QED
      BY <1>2, <3>1, ComponentsAre DEF IsTexts
  <2>4. IsPaired(acc'.values, components[1].values, components[2].values, SubtractTable)
    BY <2>2, <2>3, SubtractPairs
  <2> QED
    BY <1>1, <1>2, <2>1, <2>4, DifferencesAre
<1>4. EveryCombination'
  BY <1>1, <1>3, EveryCombinationWillBe
<1> QED
  BY <1>1, <1>4 DEF CombiningInv

LEMMA NextCombining ==
  FlagInv /\ TextsInv /\ CombiningInv /\ [FunctionNext]_functionVars => CombiningInv'
<1> SUFFICES ASSUME FlagInv, TextsInv, CombiningInv, [FunctionNext]_functionVars PROVE CombiningInv'
  OBVIOUS
<1>1. CASE Concat
  BY <1>1, ConcatCombines
<1>2. CASE Arithmetic
  BY <1>2, ArithmeticCombines
<1>3. CASE CombinationReturns
  BY <1>3, CombinationIsReturned
<1>4. CASE TimeDifference
  BY <1>4, TimeDifferenceCombines
<1>5. CASE CountValues \/ Unique \/ MapValues \/ SubstringRaises \/ SplitAtDelimiter \/ SplitRest
           \/ SplitReturns \/ TimeDifferenceRaises
  <2>1. /\ UNCHANGED <<function, components>>
        /\ function.name \notin {"concat", "arithmetic"}
        /\ function.name # "time_difference" \/ outcome' = "raised"
    BY <1>5 DEF CountValues, Unique, MapValues, SubstringRaises, SplitAtDelimiter, SplitRest,
       SplitReturns, TimeDifferenceRaises, Running, Return, Raise, Mapping
  <2>2. ~Combines'
    BY <2>1 DEF Combines, Returned
  <2> QED
    BY <2>1, <2>2, EveryCombinationWillBe DEF CombiningInv
<1>6. CASE UNCHANGED functionVars
  <2>1. UNCHANGED <<function, components, taken, from, acc, outcome>>
    BY <1>6 DEF functionVars
  <2>2. Combines' <=> Combines
    BY <2>1 DEF Combines, Returned, Second
  <2>3. EveryCombination'
    BY <2>1, <2>2, EveryCombinationIs, EveryCombinationWillBe DEF CombiningInv
  <2> QED
    BY <2>1, <2>3 DEF CombiningInv
<1> QED
  BY <1>1, <1>2, <1>3, <1>4, <1>5, <1>6 DEF FunctionNext

\* What seven functions make of the values of their components, for any number of
\* components and of values, any numbers, delimiters and bounds: concat, arithmetic and
\* time_difference have one value for every selection of values, at its place, and it is the
\* one of the definition, of arithmetic as long as numbers have few digits; the pieces of
\* split are free of delimiters and joined again are the value; substring is the slice of its
\* bounds; begin and end change all values but those that have the text and more, so that
\* the value that equals the text gets it a second time (ConcatFunction.cpp:81-92,
\* ArithmeticFunction.cpp:143-167, TimeDifferenceFunction.cpp:119-176,
\* SplitFunction.cpp:70-84, BeginFunction.cpp:67-84, EndFunction.cpp:67-84,
\* SubstringFunction.cpp:65-97).
THEOREM FunctionValuesAreRight == FunctionSpec => []ValuesAreRight
<1> DEFINE Inv == FlagInv /\ TextsInv /\ SplitInv /\ CombiningInv
<1>1. FunctionInit => Inv
  BY InitFlags, InitTextsInv, InitSplitInv, InitCombining
<1>2. Inv /\ [FunctionNext]_functionVars => Inv'
  BY NextKeepsFlags, NextTextsInv, NextSplitInv, NextCombining
<1>3. Inv => ValuesAreRight
  BY DEF ValuesAreRight, TextsAreRight, TextsInv, BoundsAreRight, SplitInv, CombiningInv
<1> HIDE DEF Inv
<1> QED
  BY <1>1, <1>2, <1>3, PTL DEF FunctionSpec
=============================================================================
