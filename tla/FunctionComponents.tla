------------------------- MODULE FunctionComponents -------------------------
(***************************************************************************)
(* The function components of local variables: ComputeValue of concat,      *)
(* arithmetic, count, unique, begin, end, escape_regex, split, substring,   *)
(* regex_capture and time_difference.  A function combines the values and   *)
(* the flags its components returned: concat pairwise from the last         *)
(* component to the first, arithmetic pairwise from the first to the last,  *)
(* count and unique all of them at once.                                   *)
(*                                                                         *)
(* A text is the sequence of its characters, which are numbers; the decimal *)
(* text of the number n is abstracted to the one character n.               *)
(***************************************************************************)
EXTENDS OvalEnum, OvalTables, Integers
SeqExt == INSTANCE SequencesExt

CONSTANTS
  Precision,   \* numbers below it are written by a stream digit by digit (10^6)
  RegexChars,  \* REGEX_CHARS, the characters that are escaped
  Backslash,   \* the character that escapes them
  Now,         \* the time, which does not advance during a computation
  Inputs       \* the functions and component values that are considered

Combining == {"concat", "arithmetic", "count", "unique"}
Mapping   == {"begin", "end", "escape_regex", "substring", "regex_capture"}
Names     == Combining \cup Mapping \cup {"split", "time_difference"}

\* The attributes of a function element; `matching' are the texts that the
\* pattern of regex_capture matches (with a capture of the whole text).
FunctionElement ==
  [name : Names, operation : {"add", "multiply"}, text : Seq(Int),
   start : Int, length : Int, matching : SUBSET Seq(Int)]

ComponentValue == [flag : Flags, values : Seq(Seq(Int))]

\* The number of components that the schema demands.
HasArity(name, n) ==
  CASE name \in {"concat", "arithmetic"} -> n >= 2
    [] name \in {"count", "unique"}      -> n >= 1
    [] name = "time_difference"          -> n \in {1, 2}
    [] OTHER                             -> n = 1

Input == [function : FunctionElement, components : Seq(ComponentValue)]

\* With an empty delimiter the loop of split would not advance; the schema lets
\* it pass (oval-definitions-schema.xsd, SplitFunctionType).
ASSUME InputsAssumption ==
  \A in \in Inputs :
    /\ in \in Input
    /\ HasArity(in.function.name, Len(in.components))
    /\ in.function.name = "split" => in.function.text # <<>>
ASSUME PrecisionAssumption == Precision \in Nat \ {0}
\* The backslash is itself one of the characters (Common.cpp:100).
ASSUME CharsAssumption  == RegexChars \subseteq Int /\ Backslash \in RegexChars /\ Now \in Nat

VARIABLES
  function,    \* the element
  components,  \* what ComputeValue of each component returns
  taken,       \* how many of them have been combined, or split
  from,        \* split: where the piece that is looked for begins
  acc,         \* the component value that is built
  outcome      \* "running", "returned" or "raised" (an exception)

functionVars == <<function, components, taken, from, acc, outcome>>

FunctionInit ==
  /\ \E in \in Inputs : function = in.function /\ components = in.components
  /\ taken = 0
  /\ from = 1
  /\ acc = [flag |-> "error", values |-> <<>>]
  /\ outcome = "running"

Running(names) == outcome = "running" /\ function.name \in names
Return(value) ==
  /\ acc' = value
  /\ outcome' = "returned"
  /\ UNCHANGED <<function, components, taken, from>>
Raise ==
  /\ outcome' = "raised"
  /\ UNCHANGED <<function, components, taken, from, acc>>

-----------------------------------------------------------------------------
\* The pairs of two vectors, the first one in the outer loop.
Pairs(Op(_, _), outer, inner) ==
  [k \in 1 .. Len(outer) * Len(inner) |->
     Op(outer[((k - 1) \div Len(inner)) + 1], inner[((k - 1) % Len(inner)) + 1])]

\* A number as the stream of Common::ToString writes it: to the nearest multiple of
\* a unit with which it has no more digits than the precision (and of two, the even
\* one).
Unit[n \in Nat] == IF n < Precision THEN 1 ELSE 10 * Unit[n \div 10]
RoundedNatural(n) ==
  LET u == Unit[n]
      down == n \div u
      rest == n % u
  IN  IF 2 * rest > u \/ (2 * rest = u /\ down % 2 = 1) THEN u * (down + 1) ELSE u * down
Rounded(n) == IF n < 0 THEN - RoundedNatural(-n) ELSE RoundedNatural(n)

\* What Common::FromString leaves in a number: 0 if the text is none.
Number(text) == IF Len(text) = 1 THEN text[1] ELSE 0

Concatenate(a, b) == a \o b
Calculate(a, b) ==
  IF function.operation = "add" THEN <<Rounded(Number(a) + Number(b))>>
  ELSE <<Rounded(Number(a) * Number(b))>>

TakeComponent(value) ==
  /\ acc' = value
  /\ taken' = taken + 1
  /\ UNCHANGED <<function, components, from, outcome>>

SwappedProcessComponents(current) ==
  [flag   |-> CombineFlags(<<acc.flag, current.flag>>),
   values |-> Pairs(Concatenate, acc.values, current.values)]

\* ConcatFunction::ProcessComponents: the last component first.
ProcessComponents(current) ==
  [flag   |-> CombineFlags(<<acc.flag, current.flag>>),
   values |-> Pairs(Concatenate, current.values, acc.values)]

UnflaggedCombineTwoComponentValues(current) ==
  [flag   |-> current.flag,
   values |-> IF current.flag = "error" THEN <<>>
              ELSE Pairs(Calculate, acc.values, current.values)]

CombineTwoComponentValues(current) ==
  LET flag == CombineFlags(<<acc.flag, current.flag>>)
  IN  [flag   |-> flag,
       values |-> IF flag = "error" THEN <<>>
                  ELSE Pairs(Calculate, acc.values, current.values)]

Concat ==
  /\ Running({"concat"})
  /\ taken < Len(components)
  /\ LET current == components[Len(components) - taken]
     IN  TakeComponent(IF taken = 0 THEN current ELSE ProcessComponents(current))

Arithmetic ==
  /\ Running({"arithmetic"})
  /\ taken < Len(components)
  /\ LET current == components[taken + 1]
     IN  TakeComponent(IF taken = 0 THEN current ELSE CombineTwoComponentValues(current))

CombinationReturns ==
  /\ Running({"concat", "arithmetic"})
  /\ taken = Len(components)
  /\ Return(acc)

ComponentFlags == [i \in DOMAIN components |-> components[i].flag]
AllValues == SeqExt!FlattenSeq([i \in DOMAIN components |-> components[i].values])

CountValues ==
  /\ Running({"count"})
  /\ Return([flag |-> CombineFlags(ComponentFlags), values |-> <<<<Len(AllValues)>>>>])

\* The values come in the order of a std::set, which is left open here.
Unique ==
  /\ Running({"unique"})
  /\ Return([flag   |-> CombineFlags(ComponentFlags),
             values |-> SeqExt!SetToSeq(Occurring(AllValues))])

-----------------------------------------------------------------------------
\* The functions of one component, value by value.

BeginsWith(text, v) == Len(v) >= Len(text) /\ SubSeq(v, 1, Len(text)) = text
EndsWith(text, v) ==
  Len(v) >= Len(text) /\ SubSeq(v, Len(v) - Len(text) + 1, Len(v)) = text

\* A value that is no longer than the text gets it in any case.
Begin(v) ==
  IF Len(v) > Len(function.text) /\ BeginsWith(function.text, v) THEN v
  ELSE function.text \o v
End(v) ==
  IF Len(v) > Len(function.text) /\ EndsWith(function.text, v) THEN v
  ELSE v \o function.text

FaultyEscapeRegexChars(v) ==
  SeqExt!FlattenSeq([i \in DOMAIN v |->
                IF v[i] \in RegexChars \ {Backslash} THEN <<Backslash, v[i]>> ELSE <<v[i]>>])

EscapeRegexChars(v) ==
  SeqExt!FlattenSeq([i \in DOMAIN v |->
                IF v[i] \in RegexChars THEN <<Backslash, v[i]>> ELSE <<v[i]>>])

Substring(v) ==
  LET start  == IF function.start > 1 THEN function.start - 1 ELSE 0
      length == IF function.length \in 0 .. (Len(v) - 1) THEN function.length ELSE Len(v)
  IN  SubSeq(v, start + 1, IF start + length < Len(v) THEN start + length ELSE Len(v))

Capture(v) == IF v \in function.matching THEN v ELSE <<>>

Mapped(v) ==
  CASE function.name = "begin"         -> Begin(v)
    [] function.name = "end"           -> End(v)
    [] function.name = "escape_regex"  -> EscapeRegexChars(v)
    [] function.name = "substring"     -> Substring(v)
    [] function.name = "regex_capture" -> Capture(v)

\* The values of an incomplete component are lost, but for regex_capture.
HasInput ==
  IF function.name = "regex_capture" THEN components[1].flag # "error"
  ELSE components[1].flag = "complete"

StartTooLarge ==
  /\ function.name = "substring"
  /\ \E v \in Occurring(components[1].values) : function.start > Len(v)

MapValues ==
  /\ Running(Mapping)
  /\ ~(HasInput /\ StartTooLarge)
  /\ Return([flag   |-> components[1].flag,
             values |-> IF ~HasInput THEN <<>>
                        ELSE [k \in DOMAIN components[1].values |->
                                Mapped(components[1].values[k])]])

SubstringRaises ==
  /\ Running({"substring"})
  /\ HasInput /\ StartTooLarge
  /\ Raise

-----------------------------------------------------------------------------
\* SplitFunction::ComputeValue.

Value == components[1].values[taken + 1]
OccursAt(v, p) == p <= Len(v) /\ BeginsWith(function.text, SubSeq(v, p, Len(v)))
Matches == {p \in from .. Len(Value) : OccursAt(Value, p)}
HasMoreValues == components[1].flag # "error" /\ taken < Len(components[1].values)

AppendPiece(last) == acc' = [acc EXCEPT !.values = Append(@, SubSeq(Value, from, last))]

SplitAtDelimiter ==
  /\ Running({"split"})
  /\ HasMoreValues
  /\ Matches # {}
  /\ LET match == CHOOSE p \in Matches : \A q \in Matches : p <= q
     IN  AppendPiece(match - 1) /\ from' = match + Len(function.text)
  /\ UNCHANGED <<function, components, taken, outcome>>

\* The rest of a value.
SplitRest ==
  /\ Running({"split"})
  /\ HasMoreValues
  /\ Matches = {}
  /\ AppendPiece(Len(Value))
  /\ from' = 1
  /\ taken' = taken + 1
  /\ UNCHANGED <<function, components, outcome>>

SplitReturns ==
  /\ Running({"split"})
  /\ ~HasMoreValues
  /\ Return([flag |-> components[1].flag, values |-> acc.values])

-----------------------------------------------------------------------------
\* TimeDifferenceFunction::ComputeValue.  The formats are abstracted: a text is
\* the number of seconds it stands for, or is not understood.

First ==
  IF Len(components) = 1 THEN [flag |-> "complete", values |-> <<<<Now>>>>]
  ELSE components[1]
Second == components[Len(components)]

\* The first value of each component is read whatever its flag.
Unreadable ==
  \/ First.values = <<>> \/ Second.values = <<>>
  \/ /\ Second.flag = "complete"
     /\ \E v \in Occurring(First.values \o Second.values) : Len(v) # 1

Subtract(a, b) == <<Number(a) - Number(b)>>

TimeDifference ==
  /\ Running({"time_difference"})
  /\ ~Unreadable
  /\ Return([flag   |-> CombineFlags(<<First.flag, Second.flag>>),
             values |-> IF Second.flag # "complete" THEN <<>>
                        ELSE Pairs(Subtract, First.values, Second.values)])

TimeDifferenceRaises ==
  /\ Running({"time_difference"})
  /\ Unreadable
  /\ Raise

FunctionNext ==
  \/ Concat \/ Arithmetic \/ CombinationReturns \/ CountValues \/ Unique
  \/ MapValues \/ SubstringRaises
  \/ SplitAtDelimiter \/ SplitRest \/ SplitReturns
  \/ TimeDifference \/ TimeDifferenceRaises

\* One thread that never waits.
FunctionSpec == FunctionInit /\ [][FunctionNext]_functionVars /\ WF_functionVars(FunctionNext)

-----------------------------------------------------------------------------
Returned(names) == outcome = "returned" /\ function.name \in names

\* The flag of a function is the one that the chart has for the flags of all its
\* components, though concat and arithmetic combine them two at a time, and from
\* opposite ends (ConcatFunction.cpp:59-103, ArithmeticFunction.cpp:51-80).
FunctionFlagFollowsChart ==
  outcome = "returned" => acc.flag = ChartFunctionFlag(ComponentFlags)

\* The sums and products of the first numbers, and the last of some texts joined.
Sums(numbers) ==
  LET sums[i \in 0 .. Len(numbers)] == IF i = 0 THEN 0 ELSE sums[i - 1] + numbers[i]
  IN  sums
Products(numbers) ==
  LET products[i \in 0 .. Len(numbers)] == IF i = 0 THEN 1 ELSE products[i - 1] * numbers[i]
  IN  products
Ends(texts) ==
  LET ends[n \in 0 .. Len(texts)] ==
        IF n = 0 THEN <<>> ELSE texts[Len(texts) - n + 1] \o ends[n - 1]
  IN  ends
Magnitudes(numbers) == [i \in DOMAIN numbers |-> IF numbers[i] < 0 THEN -numbers[i] ELSE numbers[i]]

\* A selection of one value of each component, what the function makes of it, and
\* its place when the values of the first component vary slowest.
Selections ==
  {c \in [DOMAIN components -> UNION {DOMAIN components[i].values : i \in DOMAIN components}] :
     \A i \in DOMAIN components : c[i] \in DOMAIN components[i].values}
Chosen(c)        == [i \in DOMAIN components |-> components[i].values[c[i]]]
NumbersOf(c)     == [i \in DOMAIN components |-> Number(Chosen(c)[i])]
Calculated(numbers) ==
  (IF function.operation = "add" THEN Sums(numbers) ELSE Products(numbers))[Len(numbers)]
Expected(c) ==
  CASE function.name = "concat"     -> Ends(Chosen(c))[Len(components)]
    [] function.name = "arithmetic" -> <<Calculated(NumbersOf(c))>>
    [] function.name = "time_difference" -> <<NumbersOf(c)[1] - NumbersOf(c)[2]>>
Places(c) ==
  LET places[i \in 0 .. Len(components)] ==
        IF i = 0 THEN 0 ELSE places[i - 1] * Len(components[i].values) + (c[i] - 1)
  IN  places
Place(c) == Places(c)[Len(components)] + 1

Combines == \/ Returned({"concat"})
            \/ Returned({"arithmetic"}) /\ acc.flag # "error"
            \/ Returned({"time_difference"}) /\ Second.flag = "complete"
               /\ Len(components) = 2

\* concat, arithmetic and time_difference have one value for every selection of
\* values of their components, in the order of the components, whatever the signs of numbers
\* (ConcatFunction.cpp:81-92, ArithmeticFunction.cpp:143-167, TimeDifferenceFunction.cpp:119-176).
\* The exception: where the numbers without their signs make Precision or more, arithmetic's
\* result is not judged, as it is rounded to the six digits of a stream (ArithmeticFunction.cpp:165),
\* where the schema wants the result of the operation (xml/oval-definitions-schema.xsd:686).
EveryCombination ==
  Combines =>
    /\ Len(acc.values) = Cardinality(Selections)
    /\ \A c \in Selections :
         function.name # "arithmetic" \/ Calculated(Magnitudes(NumbersOf(c))) < Precision =>
           acc.values[Place(c)] = Expected(c)

\* Joined with the delimiter, the pieces that split makes are its values.
Joined(texts) ==
  LET joined[n \in 0 .. Len(texts)] ==
        IF n = 0 THEN <<>>
        ELSE IF n = 1 THEN texts[1] ELSE joined[n - 1] \o function.text \o texts[n]
  IN  joined[Len(texts)]
SplitIsReversible ==
  Returned({"split"}) /\ components[1].flag # "error" =>
    Joined(acc.values) = Joined(components[1].values)

\* No piece has a delimiter in it.
PiecesAreClean ==
  Returned({"split"}) /\ components[1].flag # "error" =>
    \A k \in DOMAIN acc.values : \A p \in DOMAIN acc.values[k] : ~OccursAt(acc.values[k], p)

\* begin and end leave a value alone that begins, or ends, with the text and goes on, and
\* put the text before, or behind, every other value.  The exception: a value that is the
\* text itself gets it again, as only longer values are looked at (BeginFunction.cpp:71,
\* EndFunction.cpp:71).  By the schema it "is only added to the component string if the
\* component string does not already start with" it (xml/oval-definitions-schema.xsd:707,
\* 760).
HasAffix(v) == IF function.name = "begin" THEN BeginsWith(function.text, v)
               ELSE EndsWith(function.text, v)
WithAffix(v) == IF function.name = "begin" THEN function.text \o v ELSE v \o function.text
AffixIsAdded ==
  Returned({"begin", "end"}) /\ components[1].flag = "complete" =>
    \A k \in DOMAIN components[1].values :
      LET v == components[1].values[k]
      IN  acc.values[k] = IF HasAffix(v) /\ v # function.text THEN v ELSE WithAffix(v)

\* substring takes the characters from start (counted from 1, and at least 1) up
\* to length of them, all the rest if length is negative or too large.
SubstringIsTheSlice ==
  Returned({"substring"}) /\ components[1].flag = "complete" =>
    \A k \in DOMAIN components[1].values :
      LET v     == components[1].values[k]
          first == IF function.start < 1 THEN 1 ELSE function.start
          Taken(p) == p >= first /\ (function.length < 0 \/ p < first + function.length)
          slice == {p \in DOMAIN v : Taken(p)}
      IN  /\ Len(acc.values[k]) = Cardinality(slice)
          /\ \A p \in slice : acc.values[k][p - first + 1] = v[p]

\* begin, end, split and substring at their boundaries: delimiters at the ends, next to
\* each other or overlapping, a text that is there already, a start or a length that is 0,
\* negative or too large (SplitFunction.cpp:70-84, BeginFunction.cpp:67-84,
\* EndFunction.cpp:67-84, SubstringFunction.cpp:65-97).
TextsAreRight ==
  SplitIsReversible /\ PiecesAreClean /\ AffixIsAdded /\ SubstringIsTheSlice

\* concat, arithmetic, time_difference, split, substring, begin and end make of the values
\* of a complete component what the schema says of them, wherever delimiters and bounds
\* fall, with two exceptions: arithmetic beyond the digits that a stream writes
\* (EveryCombination, ArithmeticFunction.cpp:165), and a value that equals the text of begin
\* or end (AffixIsAdded).  The other functions are the matter of OtherValuesAreRight.
ValuesAreRight == EveryCombination /\ TextsAreRight

\* Read as a pattern, what escape_regex returns stands for the value, character by
\* character: nothing is left with a meaning of its own, and nothing is escaped twice
\* (REGEX.cpp:43-54; a pattern that is read gives its characters, each with whether it
\* stands for itself).
Read(pattern) ==
  LET read[i \in 1 .. Len(pattern) + 1] ==
        IF i > Len(pattern) THEN <<>>
        ELSE IF pattern[i] = Backslash /\ i < Len(pattern)
        THEN <<<<pattern[i + 1], TRUE>>>> \o read[i + 2]
        ELSE <<<<pattern[i], pattern[i] \notin RegexChars>>>> \o read[i + 1]
  IN  read[1]
EscapedIsLiteral ==
  Returned({"escape_regex"}) /\ components[1].flag = "complete" =>
    \A k \in DOMAIN components[1].values :
      LET v == components[1].values[k]
      IN  Read(acc.values[k]) = [i \in DOMAIN v |-> <<v[i], TRUE>>]

\* count counts each value of each component, duplicates included, unique has each of
\* them once, and regex_capture has a value for each value, in its place, which is empty
\* where nothing matches (CountFunction.cpp:53-74, UniqueFunction.cpp:50-73,
\* RegexCaptureFunction.cpp:73-84).
EachValue == UNION {{i} \X DOMAIN components[i].values : i \in DOMAIN components}
CountsAndCaptures ==
  /\ Returned({"count"}) => acc.values = <<<<Cardinality(EachValue)>>>>
  /\ Returned({"unique"}) =>
       \A e \in EachValue :
         Cardinality({k \in DOMAIN acc.values :
                        acc.values[k] = components[e[1]].values[e[2]]}) = 1
  /\ Returned({"unique"}) => Len(acc.values) <= Cardinality(EachValue)
  /\ Returned({"regex_capture"}) /\ components[1].flag # "error" =>
       /\ Len(acc.values) = Len(components[1].values)
       /\ \A k \in DOMAIN acc.values :
            acc.values[k] # <<>> =>
              acc.values[k] = components[1].values[k] /\ acc.values[k] \in function.matching

\* What the remaining four functions make of the values of their components.
OtherValuesAreRight == EscapedIsLiteral /\ CountsAndCaptures
=============================================================================
