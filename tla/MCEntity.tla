------------------------------ MODULE MCEntity ------------------------------
(***************************************************************************)
(* All integers around the bounds of 3-bit types, versions of up to three   *)
(* components, of which some do not fit 3 bits, epochs around the bounds of 2 bits, *)
(* package versions of up to three characters, prefixes of 3-bit *)
(* IPv4 and 4-bit (two bytes) IPv6 addresses, variables of up to two values and   *)
(* records of up to two fields.                                             *)
(***************************************************************************)
EXTENDS Entity

LOCAL Lists(S, low, high) == UNION {[1 .. n -> S] : n \in low .. high}
LOCAL PartOf(datatype, operation, value) ==
  [name |-> "f", datatype |-> datatype, operation |-> operation, value |-> value,
   variable |-> <<>>, varCheck |-> "all", entityCheck |-> "all"]
LOCAL ItemOf(status, value) == [status |-> status, value |-> value, fields |-> <<>>]
LOCAL Plains(datatype, operations, values) ==
  {[entity |-> [part |-> PartOf(datatype, op, def), fields |-> <<>>],
    item |-> ItemOf("exists", sc)] : op \in operations, def \in values, sc \in values}

LOCAL Integers == {<<<<n>>>> : n \in -9 .. 9} \cup {<<>>}
LOCAL Versions == {<<v>> : v \in Lists(0 .. 2, 1, 3) \cup Lists({1, 3, 4, 5}, 1, 2)}
LOCAL Dot == 46
LOCAL Texts == Lists({48, 49, 97, Dot}, 1, 3)
LOCAL Packages ==
  {<<<<0>>, v, <<49>>>> : v \in Texts}
  \cup {<<<<e>>, <<49, Dot>>, r>> : e \in 0 .. 9, r \in Lists({49, 97}, 1, 1)}
LOCAL Nets(width) == {<<>>} \cup {<<size>> : size \in 0 .. width + 1}
LOCAL Ipv4 ==
  {<<<<a>>, net>> : a \in {0, 2, 3, 5, 7}, net \in Nets(3) \cup {<<0, mask>> : mask \in 0 .. 7}}
LOCAL Ipv6 == {<<bytes, net>> : bytes \in [1 .. 2 -> {0, 1, 3}], net \in Nets(4)}
LOCAL AddressOperations ==
  {"equals", "greater than or equal", "subset of", "superset of", "pattern match"}
LOCAL Words == {<<<<65>>>>, <<<<97>>>>, <<<<98>>>>}

\* Every operation with every datatype, the ones that are not meant for it too.
LOCAL Odd ==
  UNION {Plains(d, Operations, {<<>>, <<<<1>>, <<49>>, <<49>>>>, <<<<0>>, <<>>, <<49>>>>}) :
           d \in {"binary", "boolean", "float", "ios_version"}}
  \cup Plains("version", Operations, {<<<<1>>>>, <<<<1, 1>>>>})
  \cup Plains("evr_string", Operations, {<<<<0>>, <<49>>, <<49>>>>})
  \cup Plains("string", Operations, Words)

LOCAL Variables(datatype, operation, values, sc) ==
  {[entity |-> [part |-> [PartOf(datatype, operation, <<>>) EXCEPT
                            !.variable = <<[flag |-> flag, values |-> list]>>,
                            !.varCheck = check],
                fields |-> <<>>],
    item |-> ItemOf(status, sc)] :
     flag \in {"complete", "incomplete", "error"}, list \in Lists(values, 0, 2),
     check \in Checks \ {"none exist"}, status \in Statuses}

LOCAL Number(n) == <<<<n>>>>
LOCAL Fields ==
  {[PartOf("int", "equals", Number(1)) EXCEPT !.name = name, !.entityCheck = check] :
     name \in {"f", "g"}, check \in Checks \ {"none exist"}}
  \cup {[PartOf("int", "equals", <<>>) EXCEPT
           !.variable = <<[flag |-> flag, values |-> <<Number(1), Number(2)>>]>>,
           !.varCheck = "at least one"] : flag \in {"complete", "does not exist"}}
LOCAL ItemFields ==
  [name : {"f", "g"}, status : {"exists", "does not exist"}, value : {Number(1), Number(2)}]
LOCAL Records ==
  {[entity |-> [part |-> PartOf("record", op, <<>>), fields |-> fields],
    item |-> [status |-> "exists", value |-> <<>>, fields |-> itemFields]] :
     op \in {"equals", "not equal"}, fields \in Lists(Fields, 0, 2),
     itemFields \in Lists(ItemFields, 0, 2)}

MCRequests == <<
  Plains("int", Operations, Integers),
  Plains("version", Ordering, Versions),
  Plains("evr_string", {"equals", "less than or equal", "greater than"}, Packages),
  Plains("ipv4_address", AddressOperations, Ipv4),
  Plains("ipv6_address", AddressOperations, Ipv6),
  Odd,
  Variables("int", "less than", {Number(n) : n \in 0 .. 2} \cup {<<>>}, Number(1)),
  Variables("ipv6_address", "equals", {<<<<0, 0>>, <<>>>>}, <<<<0, 0>>, <<>>>>),
  Variables("record", "equals", {Number(1)}, Number(1)),
  Records>>
MCMatching == {<<<<97>>, <<97>>>>, <<<<98>>, <<97>>>>}
=============================================================================
