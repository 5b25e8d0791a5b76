-------------------------- MODULE EntityComparator --------------------------
(***************************************************************************)
(* EntityComparator: how the value of an entity is compared with the value  *)
(* of an item, for each datatype and operation.  An operator returns a      *)
(* result, or "exception".                                                  *)
(*                                                                         *)
(* A value is a sequence of fields that are sequences of numbers:           *)
(*   int, float, boolean     <<<<number>>>>                                 *)
(*   version                 <<components>>                                 *)
(*   string, binary          <<characters>>                                 *)
(*   evr_string              <<<<epoch>>, version characters, release ...>> *)
(*   ipv4_address            <<<<address>>, net>>                           *)
(*   ipv6_address            <<bytes of the address, net>>                  *)
(* where net is <<>> for a host, <<size>> for the size of a prefix and      *)
(* <<0, mask>> for a netmask.  A text that the regular expression of the    *)
(* datatype does not match is <<>>.  Characters are their ASCII codes, and a *)
(* number is the one that its digits are, of any size.                      *)
(***************************************************************************)
EXTENDS OvalEnum, Integers
SetsExt == INSTANCE FiniteSetsExt

CONSTANTS
  IntBits,      \* width of a long long (64)
  EpochBits,    \* width of an int (32)
  AddressBits,  \* width of an IPv4 address (32)
  AddressBytes, \* length of an IPv6 address (16)
  ByteBits,     \* width of a byte of it (8)
  Windows,      \* whether FromString and atoi are those of the Windows build
  Matching      \* the pairs of a pattern and a text it matches

ASSUME WidthsAssumption ==
  {IntBits, EpochBits, AddressBits, AddressBytes, ByteBits} \subseteq Nat \ {0}
ASSUME WindowsAssumption == Windows \in BOOLEAN

Datatypes == {"binary", "boolean", "evr_string", "float", "int", "ios_version",
              "ipv4_address", "ipv6_address", "record", "string", "version"}
Ordering   == {"equals", "not equal", "less than", "less than or equal",
               "greater than", "greater than or equal"}
Operations == Ordering \cup
  {"case insensitive equals", "case insensitive not equal", "pattern match",
   "bitwise and", "bitwise or", "subset of", "superset of"}

Verdict(condition) == IF condition THEN "true" ELSE "false"

\* A result by the sense of a comparison: -1, 0 or 1 as the value of the item is
\* less than, equal to or greater than the one of the entity.
ByOrder(operation, sense) ==
  CASE operation = "equals"                -> Verdict(sense = 0)
    [] operation = "not equal"             -> Verdict(sense # 0)
    [] operation = "less than"             -> Verdict(sense = -1)
    [] operation = "less than or equal"    -> Verdict(sense \in {-1, 0})
    [] operation = "greater than"          -> Verdict(sense = 1)
    [] operation = "greater than or equal" -> Verdict(sense \in {0, 1})
    [] OTHER                               -> "exception"

Sense(def, sc) == IF sc < def THEN -1 ELSE IF sc = def THEN 0 ELSE 1
EqualityOnly(operation, equal) ==
  IF operation \in {"equals", "not equal"} THEN ByOrder(operation, IF equal THEN 0 ELSE 1)
  ELSE "exception"

ToUpper(text) == [i \in DOMAIN text |-> IF text[i] \in 97 .. 122 THEN text[i] - 32 ELSE text[i]]

CompareBinary(operation, def, sc) == EqualityOnly(operation, ToUpper(def[1]) = ToUpper(sc[1]))
CompareBoolean(operation, def, sc) == EqualityOnly(operation, def = sc)
CompareFloat(operation, def, sc) == ByOrder(operation, Sense(def[1][1], sc[1][1]))

CompareString(operation, def, sc) ==
  CASE operation = "equals"        -> Verdict(def = sc)
    [] operation = "not equal"     -> Verdict(def # sc)
    [] operation = "case insensitive equals"     -> Verdict(ToUpper(def[1]) = ToUpper(sc[1]))
    [] operation = "case insensitive not equal"  -> Verdict(ToUpper(def[1]) # ToUpper(sc[1]))
    [] operation = "pattern match" -> Verdict(<<def[1], sc[1]>> \in Matching)
    [] OTHER                       -> "exception"

-----------------------------------------------------------------------------
TwoTo[n \in Nat] == IF n = 0 THEN 1 ELSE 2 * TwoTo[n - 1]

\* Integers.  Common::FromString converts a text to a long long, or to an
\* unsigned one; a stream wraps a negative number, and only the overload of the
\* Windows build refuses it.
Signed(n)       == n \in -(TwoTo[IntBits - 1]) .. TwoTo[IntBits - 1] - 1
FitsUnsigned(n) == n \in (IF Windows THEN 0 ELSE 1 - TwoTo[IntBits]) .. TwoTo[IntBits] - 1
AsUnsigned(n)   == n % TwoTo[IntBits]

BitsOf(n) == {i \in 0 .. IntBits - 1 : (AsUnsigned(n) \div TwoTo[i]) % 2 = 1}
BitwiseResult(operation, def, sc) ==
  IF operation = "bitwise and" THEN Verdict(BitsOf(def) \subseteq BitsOf(sc))
  ELSE Verdict(BitsOf(sc) \subseteq BitsOf(def))

CompareIntOperation(operation, def, sc) ==
  IF operation \in {"bitwise and", "bitwise or"} THEN BitwiseResult(operation, def, sc)
  ELSE ByOrder(operation, Sense(def, sc))

\* One is only a signed number and the other one only an unsigned one.
CompareMixed(operation, def, sc) ==
  IF operation \in {"bitwise and", "bitwise or"} THEN BitwiseResult(operation, def, sc)
  ELSE ByOrder(operation, IF Signed(sc) THEN -1 ELSE 1)

CompareInteger(operation, def, sc) ==
  LET d == def[1][1]
      s == sc[1][1]
  IN  IF Signed(d) /\ Signed(s) THEN CompareIntOperation(operation, d, s)
      ELSE IF FitsUnsigned(d) /\ FitsUnsigned(s)
        THEN CompareIntOperation(operation, AsUnsigned(d), AsUnsigned(s))
      ELSE IF (Signed(d) /\ FitsUnsigned(s)) \/ (FitsUnsigned(d) /\ Signed(s))
        THEN CompareMixed(operation, d, s)
      ELSE "exception"

-----------------------------------------------------------------------------
\* The sense of the first difference of two sequences, strcmp and memcmp: a
\* proper prefix is less.
Lexicographic(def, sc) ==
  LET common == SetsExt!Min({Len(def), Len(sc)})
      differing == {i \in 1 .. common : def[i] # sc[i]}
  IN  IF differing = {} THEN Sense(Len(def), Len(sc))
      ELSE Sense(def[SetsExt!Min(differing)], sc[SetsExt!Min(differing)])

\* A number without a sign that is too large for a long long fails to convert, and
\* the stream leaves the largest one (C++11); nobody asks whether it failed.
ToLongLong(n) == IF Signed(n) THEN n ELSE TwoTo[IntBits - 1] - 1
ParseVersionStr(version) == [i \in DOMAIN version |-> ToLongLong(version[i])]

\* Versions: the shorter one is filled up with zeros, and the first components
\* that differ decide.
Padded(version, n) == version \o [i \in 1 .. n - Len(version) |-> 0]
UnpaddedCompareVersion(operation, def, sc) ==
  IF operation \in {"pattern match", "bitwise and", "bitwise or"} THEN "exception"
  ELSE IF operation \notin Ordering THEN "error"
  ELSE ByOrder(operation, Lexicographic(ParseVersionStr(def[1]), ParseVersionStr(sc[1])))
CompareVersion(operation, def, sc) ==
  LET length == SetsExt!Max({Len(def[1]), Len(sc[1])})
      d      == Padded(ParseVersionStr(def[1]), length)
      s      == Padded(ParseVersionStr(sc[1]), length)
  IN  IF operation \in {"pattern match", "bitwise and", "bitwise or"} THEN "exception"
      ELSE IF operation \notin Ordering THEN "error"
      ELSE ByOrder(operation, Lexicographic(d, s))

Digit  == 48 .. 57
Letter == (65 .. 90) \cup (97 .. 122)

\* The first position from i on whose character is (is not) in a set, or the
\* one behind the text.
FirstIn(text, i, chars) ==
  SetsExt!Min({p \in i .. Len(text) : text[p] \in chars} \cup {Len(text) + 1})
FirstNotIn(text, i, chars) ==
  SetsExt!Min({p \in i .. Len(text) : text[p] \notin chars} \cup {Len(text) + 1})

\* Segments of digits are compared without their leading zeros, the longer one
\* being newer.
CompareSegments(numeric, b, a) ==
  IF ~numeric THEN Lexicographic(b, a)
  ELSE LET x == SubSeq(b, FirstNotIn(b, 1, {48}), Len(b))
           y == SubSeq(a, FirstNotIn(a, 1, {48}), Len(a))
       IN  IF Len(x) # Len(y) THEN Sense(Len(x), Len(y)) ELSE Lexicographic(x, y)

\* 1, 0 or -1 as a is newer than, the same as or older than b: segment by segment
\* from a pair of positions on.
CompareFrom(a, b) ==
  LET compare[p \in (1 .. Len(a) + 1) \X (1 .. Len(b) + 1)] ==
        IF p[1] > Len(a) THEN (IF p[2] > Len(b) THEN 0 ELSE -1)
        ELSE IF p[2] > Len(b) THEN 1
        ELSE LET i       == FirstIn(a, p[1], Digit \cup Letter)
                 j       == FirstIn(b, p[2], Digit \cup Letter)
                 numeric == i <= Len(a) /\ a[i] \in Digit
                 kind    == IF numeric THEN Digit ELSE Letter
                 iEnd    == FirstNotIn(a, i, kind)
                 jEnd    == FirstNotIn(b, j, kind)
                 rc      == CompareSegments(numeric, SubSeq(b, j, jEnd - 1), SubSeq(a, i, iEnd - 1))
             IN  IF i = iEnd THEN -1
                 ELSE IF j = jEnd THEN (IF numeric THEN 1 ELSE -1)
                 ELSE IF rc # 0 THEN rc ELSE compare[<<iEnd, jEnd>>]
  IN  compare
rpmvercmp(a, b) == IF a = b THEN 0 ELSE CompareFrom(a, b)[<<1, 1>>]

\* atoi of digits: the library of the Windows build has the largest int for what is
\* too large, others convert to a long and keep the low bits of it.
LowBits(n) ==
  LET half == TwoTo[EpochBits - 1] IN ((n + half) % TwoTo[EpochBits]) - half
Atoi(n) ==
  IF Windows THEN (IF n < TwoTo[EpochBits - 1] THEN n ELSE TwoTo[EpochBits - 1] - 1)
  ELSE LowBits(ToLongLong(n))

CompareEvrString(operation, def, sc) ==
  LET epoch   == Sense(Atoi(def[1][1]), Atoi(sc[1][1]))
      version == rpmvercmp(sc[2], def[2])
      release == rpmvercmp(sc[3], def[3])
  IN  ByOrder(operation, IF epoch # 0 THEN epoch ELSE IF version # 0 THEN version ELSE release)

-----------------------------------------------------------------------------
\* Addresses.

\* The high bits of a number of the given width.
HighBits(n, width, size) == (n \div TwoTo[width - size]) * TwoTo[width - size]

\* A netmask has no 0 to the left of a 1.
Bit(n, i) == (n \div TwoTo[i]) % 2
IsPrefixMask(mask) == \A i \in 0 .. AddressBits - 2 : Bit(mask, i) = 1 => Bit(mask, i + 1) = 1
MaskSize(mask) ==
  LET ones == {i \in 0 .. AddressBits - 1 : Bit(mask, i) = 1}
  IN  IF ones = {} THEN 0 ELSE AddressBits - SetsExt!Min(ones)

IsIpv4Address(value) ==
  \/ value[2] = <<>>
  \/ Len(value[2]) = 1 /\ value[2][1] \in 0 .. AddressBits
  \/ Len(value[2]) = 2 /\ IsPrefixMask(value[2][2])
Ipv4Address(value) ==
  LET size == CASE value[2] = <<>>     -> AddressBits
                [] Len(value[2]) = 1   -> value[2][1]
                [] OTHER               -> MaskSize(value[2][2])
  IN  [address |-> HighBits(value[1][1], AddressBits, size), prefixSize |-> size]

SubsetOf4(one, other) ==
  /\ one.prefixSize >= other.prefixSize
  /\ HighBits(one.address, AddressBits, other.prefixSize)
       = HighBits(other.address, AddressBits, other.prefixSize)

\* The bits of byte i of an address that are in a prefix of the given size.
BitsInByte(i, size) == SetsExt!Max({0, SetsExt!Min({ByteBits, size - (i - 1) * ByteBits})})
IsIpv6Address(value) ==
  value[2] = <<>> \/ value[2][1] \in 0 .. ByteBits * AddressBytes
Ipv6Address(value) ==
  LET size == IF value[2] = <<>> THEN ByteBits * AddressBytes ELSE value[2][1]
  IN  [address |-> [i \in 1 .. AddressBytes |->
                      HighBits(value[1][i], ByteBits, BitsInByte(i, size))],
       prefixSize |-> size]

\* Whole bytes first, then the bits of the last one.
SubsetOf6(one, other) ==
  LET bytes == other.prefixSize \div ByteBits
      bits  == other.prefixSize % ByteBits
  IN  /\ one.prefixSize >= other.prefixSize
      /\ \A i \in 1 .. bytes : one.address[i] = other.address[i]
      /\ bits # 0 => HighBits(one.address[bytes + 1], ByteBits, bits)
                       = HighBits(other.address[bytes + 1], ByteBits, bits)

\* Prefixes of different sizes are not equal and have no order.
CompareAddresses(operation, def, sc, sense) ==
  IF operation \in {"equals", "not equal"} THEN EqualityOnly(operation, def = sc)
  ELSE IF operation \notin Ordering THEN "exception"
  ELSE IF def.prefixSize # sc.prefixSize THEN "error"
  ELSE ByOrder(operation, sense)

CompareIpv4Address(operation, defValue, scValue) ==
  LET def == Ipv4Address(defValue)
      sc  == Ipv4Address(scValue)
  IN  IF ~(IsIpv4Address(defValue) /\ IsIpv4Address(scValue)) THEN "exception"
      ELSE CASE operation = "subset of"   -> Verdict(SubsetOf4(sc, def))
             [] operation = "superset of" -> Verdict(SubsetOf4(def, sc))
             [] OTHER -> CompareAddresses(operation, def, sc, Sense(def.address, sc.address))

CompareIpv6Address(operation, defValue, scValue) ==
  LET def == Ipv6Address(defValue)
      sc  == Ipv6Address(scValue)
  IN  IF ~(IsIpv6Address(defValue) /\ IsIpv6Address(scValue)) THEN "exception"
      ELSE CASE operation = "subset of"   -> Verdict(SubsetOf6(sc, def))
             [] operation = "superset of" -> Verdict(SubsetOf6(def, sc))
             [] OTHER -> CompareAddresses(operation, def, sc, Lexicographic(def.address, sc.address))

-----------------------------------------------------------------------------
\* The comparison for a datatype, as AbsEntity::Analyze chooses it.
Compare(datatype, operation, def, sc) ==
  IF datatype # "string" /\ (def = <<>> \/ sc = <<>>) THEN "exception"
  ELSE CASE datatype = "binary"       -> CompareBinary(operation, def, sc)
         [] datatype = "boolean"      -> CompareBoolean(operation, def, sc)
         [] datatype = "evr_string"   -> CompareEvrString(operation, def, sc)
         [] datatype = "float"        -> CompareFloat(operation, def, sc)
         [] datatype = "int"          -> CompareInteger(operation, def, sc)
         [] datatype \in {"ios_version", "record"} -> "exception"
         [] datatype = "ipv4_address" -> CompareIpv4Address(operation, def, sc)
         [] datatype = "ipv6_address" -> CompareIpv6Address(operation, def, sc)
         [] datatype = "string"       -> CompareString(operation, def, sc)
         [] datatype = "version"      -> CompareVersion(operation, def, sc)
=============================================================================
