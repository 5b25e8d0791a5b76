------------------------------- MODULE Entity -------------------------------
(***************************************************************************)
(* AbsEntity::Analyze: an entity of a state or an object against an entity  *)
(* of an item, by the status of the latter, with the value of the entity or *)
(* each value of its variable, and field by field if it is a record.        *)
(***************************************************************************)
EXTENDS EntityComparator, OvalTables

CONSTANT Requests  \* a list of sets of pairs of an entity and an item entity

Value    == Seq(Seq(Int))
Variable == [flag : Flags, values : Seq(Value)]

\* A part is an entity, or a field of a record; `variable' is an empty sequence if
\* it has a value of its own.
Part ==
  [name : STRING, datatype : Datatypes, operation : Operations, value : Value,
   variable : Seq(Variable), varCheck : Checks \ {"none exist"},
   entityCheck : Checks \ {"none exist"}]
EntityElement == [part : Part, fields : Seq(Part)]
ItemField     == [name : STRING, status : Statuses, value : Value]
ItemElement   == [status : Statuses, value : Value, fields : Seq(ItemField)]
Request       == [entity : EntityElement, item : ItemElement]

ASSUME RequestsAssumption ==
  \A k \in DOMAIN Requests : \A request \in Requests[k] : request \in Request

\* The values of a datatype that its regular expression admits, as they are parsed
\* (EntityComparator.cpp:370, 832, 1181-1327).
Unsigned(n) == 0 .. TwoTo[n] - 1
Components == Seq(Nat) \ {<<>>}
IsParsed(datatype, value) ==
  CASE datatype = "int"     -> Len(value) = 1 /\ Len(value[1]) = 1
    [] datatype = "version" -> Len(value) = 1 /\ value[1] \in Components
    [] datatype = "evr_string" ->
         /\ Len(value) = 3 /\ Len(value[1]) = 1 /\ value[1][1] \in Nat
         /\ value[2] \in Components /\ value[3] \in Components
    [] datatype = "ipv4_address" ->
         /\ Len(value) = 2 /\ Len(value[1]) = 1 /\ value[1][1] \in Unsigned(AddressBits)
         /\ value[2] \in Seq(Nat) /\ Len(value[2]) <= 2
    [] datatype = "ipv6_address" ->
         /\ Len(value) = 2 /\ Len(value[1]) = AddressBytes
         /\ value[1] \in Seq(Unsigned(ByteBits))
         /\ value[2] \in Seq(Nat) /\ Len(value[2]) <= 1
    [] OTHER -> TRUE
ASSUME ValuesAssumption ==
  \A k \in DOMAIN Requests : \A request \in Requests[k] :
    LET part == request.entity.part
    IN  \A value \in {part.value, request.item.value} \ {<<>>} :
          part.variable = <<>> => IsParsed(part.datatype, value)

VARIABLES
  entity,      \* the entity of a state or an object
  scElement,   \* the entity of an item it is compared with
  comparison   \* what Analyze returns, or "none"

entityVars == <<entity, scElement, comparison>>

EntityInit ==
  /\ \E k \in DOMAIN Requests : \E request \in Requests[k] :
       entity = request.entity /\ scElement = request.item
  /\ comparison = "none"

Return(value) == comparison' = value /\ UNCHANGED <<entity, scElement>>

\* What the catch clauses make of an exception.
Caught(value) == IF value = "exception" THEN "error" ELSE value

IsRecord == entity.part.datatype = "record"

\* The status of an item entity that is not compared.
StatusResult(status) == IF status = "does not exist" THEN "false" ELSE "error"

\* A datatype without a branch leaves the result at its initial value; there is
\* none for ipv6_address where the entity has a variable or is a field.
CompareIfKnown(datatypes, part, def, sc) ==
  IF part.datatype \in datatypes THEN Compare(part.datatype, part.operation, def, sc)
  ELSE "error"

WithoutIpv6 == Datatypes \ {"ipv6_address"}

\* Every value of a complete variable is compared; an exception ends the loop.
AnyValueCompareVariable(part, sc) ==
  LET variable == part.variable[1]
      results == [k \in DOMAIN variable.values |->
                    CompareIfKnown(WithoutIpv6, part, variable.values[k], sc)]
  IN  IF variable.flag # "complete" \/ "exception" \in Occurring(results) THEN "error"
      ELSE CombineResultsByCheck(results, "at least one")
CompareVariable(part, sc) ==
  LET variable == part.variable[1]
      results == [k \in DOMAIN variable.values |->
                    CompareIfKnown(WithoutIpv6, part, variable.values[k], sc)]
  IN  IF variable.flag # "complete" \/ "exception" \in Occurring(results) THEN "error"
      ELSE CombineResultsByCheck(results, part.varCheck)

\* StateOrObjectFieldEntityValue::Analyze
AnalyzeField(field, itemField) ==
  IF itemField.status # "exists" THEN StatusResult(itemField.status)
  ELSE IF field.variable = <<>>
    THEN Caught(CompareIfKnown(WithoutIpv6, field, field.value, itemField.value))
  ELSE CompareVariable(field, itemField.value)

\* The fields of the item with the name of a field; if there is none the field is
\* an error.
CompareField(field) ==
  LET same    == {k \in DOMAIN scElement.fields : scElement.fields[k].name = field.name}
      results == [k \in same |-> AnalyzeField(field, scElement.fields[k])]
  IN  CombineResultsByCheck(IF same = {} THEN <<"error">> ELSE results, field.entityCheck)

StatusDecides ==
  /\ comparison = "none"
  /\ scElement.status # "exists"
  /\ Return(StatusResult(scElement.status))

AnalyzeValue ==
  /\ comparison = "none" /\ scElement.status = "exists"
  /\ ~IsRecord /\ entity.part.variable = <<>>
  /\ Return(Caught(CompareIfKnown(Datatypes, entity.part, entity.part.value, scElement.value)))

AnalyzeVariable ==
  /\ comparison = "none" /\ scElement.status = "exists"
  /\ entity.part.variable # <<>>
  /\ Return(CompareVariable(entity.part, scElement.value))

CompareRecord ==
  /\ comparison = "none" /\ scElement.status = "exists"
  /\ IsRecord /\ entity.part.variable = <<>>
  /\ Return(IF entity.part.operation # "equals" THEN "error"
            ELSE CombineResultsByCheck([k \in DOMAIN entity.fields |-> CompareField(entity.fields[k])],
                                       "all"))

EntityNext == StatusDecides \/ AnalyzeValue \/ AnalyzeVariable \/ CompareRecord
EntitySpec == EntityInit /\ [][EntityNext]_entityVars

-----------------------------------------------------------------------------
Compared == comparison # "none" /\ scElement.status = "exists"
Plain(datatypes) ==
  /\ Compared /\ ~IsRecord /\ entity.part.variable = <<>>
  /\ entity.part.datatype \in datatypes
  /\ entity.part.value # <<>> /\ scElement.value # <<>>

\* The senses for which the result of an operation is true.
Wanted == [operation \in Ordering |->
  CASE operation = "equals"                -> {0}
    [] operation = "not equal"             -> {-1, 1}
    [] operation = "less than"             -> {-1}
    [] operation = "less than or equal"    -> {-1, 0}
    [] operation = "greater than"          -> {1}
    [] operation = "greater than or equal" -> {0, 1}]
Follows(sense) == comparison = Verdict(sense \in Wanted[entity.part.operation])
SenseOf(less, more) == IF less THEN -1 ELSE IF more THEN 1 ELSE 0

\* Integers are compared as numbers as long as each fits one of the two types; on
\* UNIX a negative number is wrapped when the other one only fits the unsigned
\* type (EntityComparator.cpp:631-740, Common.h:146-253).
Usable(n)  == n \in -(TwoTo[IntBits - 1]) .. TwoTo[IntBits] - 1
Wraps(a, b) == ~Windows /\ ~(Signed(a) /\ Signed(b)) /\ (a < 0 \/ b < 0)
IntegersAreOrdered ==
  Plain({"int"}) /\ entity.part.operation \in Ordering =>
    LET d == entity.part.value[1][1]
        s == scElement.value[1][1]
    IN  Usable(d) /\ Usable(s) /\ ~Wraps(d, s) => Follows(SenseOf(s < d, s > d))

\* The number that a sequence of digits is to a base.
Numerals(digits, base) ==
  LET numeral[n \in 0 .. Len(digits)] ==
        IF n = 0 THEN 0 ELSE numeral[n - 1] * base + digits[n]
  IN  numeral
Numeral(digits, base) == Numerals(digits, base)[Len(digits)]

\* Versions are compared like the numbers they are to a base that is larger than
\* all components, with a fraction that may be of any length.  The exception: a
\* component that is no long long is not converted, and the failure is ignored
\* (EntityComparator.cpp:828-967), as it "should always succeed since the string
\* matched regex \d+" (961).  Nothing is claimed of such versions.
VersionNumber(version, base, length) ==
  Numeral([i \in 1 .. length |-> IF i <= Len(version) THEN version[i] ELSE 0], base)
FollowsVersions(def, sc) ==
  LET base   == 1 + SetsExt!Max(Occurring(def) \cup Occurring(sc))
      length == Len(def) + Len(sc)
      d      == VersionNumber(def, base, length)
      s      == VersionNumber(sc, base, length)
  IN  Follows(SenseOf(s < d, s > d))
ComponentsFit(version) == \A i \in DOMAIN version : Signed(version[i])
VersionsAreOrdered ==
  Plain({"version"}) /\ entity.part.operation \in Ordering =>
    LET def == entity.part.value[1]
        sc  == scElement.value[1]
    IN  ComponentsFit(def) /\ ComponentsFit(sc) => FollowsVersions(def, sc)

\* The version and release of a package are lists of numbers and words, whatever
\* separates them: a number is newer than a word, a longer list is newer than its
\* beginning (the schema refers to rpmvercmp of librpm, oval-common-schema.xsd:304).
\* This is claimed of texts that do not end with a separator and of epochs that are
\* ints (EntityComparator.cpp:389-390).
Starts(text) ==
  {i \in DOMAIN text :
     \E kind \in {Digit, Letter} : text[i] \in kind /\ (i = 1 \/ text[i - 1] \notin kind)}
Segment(text, i) ==
  SubSeq(text, i, FirstNotIn(text, i, IF text[i] \in Digit THEN Digit ELSE Letter) - 1)
Segments(text) ==
  [k \in 1 .. Cardinality(Starts(text)) |->
     Segment(text, CHOOSE i \in Starts(text) : Cardinality({j \in Starts(text) : j <= i}) = k)]
IsNumber(segment)  == segment[1] \in Digit
NumberOf(segment)  == Numeral([i \in DOMAIN segment |-> segment[i] - 48], 10)
OlderWord(a, b) ==
  \E k \in 0 .. Len(a) :
    /\ k < Len(b)
    /\ \A i \in 1 .. k : a[i] = b[i]
    /\ k = Len(a) \/ a[k + 1] < b[k + 1]
OlderSegment(a, b) ==
  IF IsNumber(a) /\ IsNumber(b) THEN NumberOf(a) < NumberOf(b)
  ELSE IF IsNumber(a) \/ IsNumber(b) THEN IsNumber(b)
  ELSE OlderWord(a, b)
Older(a, b) ==
  \E k \in 0 .. Len(a) :
    /\ k < Len(b)
    /\ \A i \in 1 .. k : ~OlderSegment(a[i], b[i]) /\ ~OlderSegment(b[i], a[i])
    /\ k = Len(a) \/ OlderSegment(a[k + 1], b[k + 1])
OlderPackage(a, b) ==
  LET OlderPart(k) == Older(Segments(a[k]), Segments(b[k]))
  IN  IF a[1] # b[1] THEN a[1][1] < b[1][1]
      ELSE OlderPart(2) \/ (~Older(Segments(b[2]), Segments(a[2])) /\ OlderPart(3))
EpochFits(n)        == Signed(n) /\ n < TwoTo[EpochBits - 1]
EndsInSegment(text) == text[Len(text)] \in Digit \cup Letter
PackagesAreOrdered ==
  Plain({"evr_string"}) /\ entity.part.operation \in Ordering =>
    LET d == entity.part.value
        s == scElement.value
    IN  /\ EpochFits(d[1][1]) /\ EpochFits(s[1][1])
        /\ \A k \in {2, 3} : EndsInSegment(d[k]) /\ EndsInSegment(s[k])
        =>
          Follows(SenseOf(OlderPackage(s, d), OlderPackage(d, s)))

\* A prefix is the set of the addresses that begin with it.  equals, subset of and
\* superset of are the relations of these sets; the order is the one of the first
\* addresses of prefixes of the same size, and an error for others
\* (EntityComparator.cpp:988-1108, 1172-1327; oval-common-schema.xsd:330-331).
Width(value) == IF entity.part.datatype = "ipv4_address" THEN AddressBits
                ELSE ByteBits * AddressBytes
AsNumber(value) ==
  IF entity.part.datatype = "ipv4_address" THEN value[1][1]
  ELSE Numeral(value[1], TwoTo[ByteBits])
SizeOf(value) ==
  CASE value[2] = <<>>     -> Width(value)
    [] Len(value[2]) = 1   -> value[2][1]
    [] OTHER               -> Cardinality({i \in 0 .. AddressBits - 1 : Bit(value[2][2], i) = 1})
AddressesOf(value) ==
  {a \in 0 .. TwoTo[Width(value)] - 1 :
     LET rest == TwoTo[Width(value) - SizeOf(value)] IN a \div rest = AsNumber(value) \div rest}
IsAddress(value) ==
  IF entity.part.datatype = "ipv4_address" THEN IsIpv4Address(value) ELSE IsIpv6Address(value)
Inequalities == Ordering \ {"equals", "not equal"}
BySet(op, defined, actual, result) ==
  /\ op = "subset of"   => result = Verdict(actual \subseteq defined)
  /\ op = "superset of" => result = Verdict(defined \subseteq actual)
  /\ op = "equals"      => result = Verdict(actual = defined)
  /\ op = "not equal"   => result = Verdict(actual # defined)
  /\ op \notin Ordering \cup {"subset of", "superset of"} => result = "error"
  /\ op \in Inequalities /\ Cardinality(actual) # Cardinality(defined) => result = "error"
  /\ op \in Inequalities /\ Cardinality(actual) = Cardinality(defined) =>
       result = Verdict(SenseOf(SetsExt!Min(actual) < SetsExt!Min(defined),
                                SetsExt!Min(actual) > SetsExt!Min(defined)) \in Wanted[op])
PrefixesAreSets ==
  Plain({"ipv4_address", "ipv6_address"}) =>
    LET d == entity.part.value
        s == scElement.value
    IN  IF ~(IsAddress(d) /\ IsAddress(s)) THEN comparison = "error"
        ELSE BySet(entity.part.operation, AddressesOf(d), AddressesOf(s), comparison)

\* With a complete variable the result is the one that the chart of var_check has
\* for the comparisons with its values, unless one of them is impossible, which is
\* an error; for ipv6_address it always is (AbsEntity.cpp:139-176).
VariableFollowsCheck ==
  Compared /\ entity.part.variable # <<>> /\ comparison # "error" =>
    LET values == entity.part.variable[1].values
        each   == [k \in DOMAIN values |->
                     Caught(Compare(entity.part.datatype, entity.part.operation, values[k],
                                    scElement.value))]
    IN  /\ entity.part.variable[1].flag = "complete"
        /\ IF values = <<>> THEN comparison = "unknown"
           ELSE comparison = ChartResult(CheckChart[entity.part.varCheck], each)

\* An item matches a record only if it has every field of it, and each of them
\* matches in one of the item's fields of that name, in all of them or in none,
\* as its entity_check says (EntityComparator.cpp:742-775).
RecordNeedsEveryField ==
  Compared /\ IsRecord /\ comparison = "true" =>
    \A field \in Occurring(entity.fields) :
      LET same    == {k \in DOMAIN scElement.fields : scElement.fields[k].name = field.name}
          matches == {k \in same : AnalyzeField(field, scElement.fields[k]) = "true"}
      IN  /\ same # {}
          /\ field.entityCheck = "all"          => matches = same
          /\ field.entityCheck = "at least one" => matches # {}
          /\ field.entityCheck = "only one"     => Cardinality(matches) = 1
          /\ field.entityCheck = "none satisfy" => matches = {}

\* Integers, versions, packages and prefixes are ordered sets, and a comparison says
\* how the two values stand to each other in them, as long as the numbers in them are
\* ones of the types they are converted to (EntityComparator.cpp:631-1327).
ValuesAreOrdered ==
  IntegersAreOrdered /\ VersionsAreOrdered /\ PackagesAreOrdered /\ PrefixesAreSets

\* Several values, or several fields, are combined by the check that the entity asks
\* for, and none is skipped (AbsEntity.cpp:138-232, EntityComparator.cpp:742-826).
ChecksAreFollowed == VariableFollowsCheck /\ RecordNeedsEveryField
=============================================================================
