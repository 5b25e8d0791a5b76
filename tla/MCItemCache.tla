---------------------------- MODULE MCItemCache ----------------------------
(***************************************************************************)
(* Two objects with a probe and one set over either of them.  The contents  *)
(* differ in one place each: the status, the datatype of an element, the    *)
(* number of elements, a field of a record, also of one that is in error,   *)
(* whose fields are not written.                                            *)
(***************************************************************************)
EXTENDS ItemCache, TLC

MCObjects == 1 .. 3

Entity(datatype, status, values) ==
  [name |-> 1, datatype |-> datatype, status |-> status, nil |-> 0,
   values |-> values]
Element(datatype, values) == Entity(datatype, "exists", values)
ItemWith(status, elements) ==
  [name |-> 1, xmlns |-> 1, status |-> status, elements |-> elements]

Plain   == ItemWith("exists", <<Element(1, << <<1>> >>)>>)
Integer == ItemWith("exists", <<Element(2, << <<1>> >>)>>)
Failed  == ItemWith("error",  <<Element(1, << <<1>> >>)>>)
Longer  == ItemWith("exists", <<Element(1, << <<1>> >>), Element(1, << <<1>> >>)>>)
Broken(last) ==
  ItemWith("error", <<Entity(Record, "error", << <<1, 1, 1, last>> >>)>>)
Fields(last) ==
  ItemWith("exists", <<Element(Record, << <<1, 1, 1, 5>>, <<1, 1, 2, last>> >>)>>)

MCContents == {Plain, Integer, Failed, Longer, Broken(3), Broken(4),
               Fields(3), Fields(4)}

\* Up to two of the items that are told apart by a detail.
AnswersOf(contents) == UNION {[1 .. n -> contents] : n \in 0 .. 2}

MCInputs ==
  {[answer |-> (1 :> a @@ 2 :> b @@ 3 :> <<>>),
    rejects |-> (1 :> r @@ 2 :> {} @@ 3 :> s),
    from |-> (1 :> 1 @@ 2 :> 2 @@ 3 :> p),
    readable |-> q] :
      a \in AnswersOf({Plain, Integer}),
      b \in {<<>>, <<Fields(3), Fields(4)>>, <<Integer, Plain>>,
              <<Failed, Longer>>, <<Broken(3), Plain, Plain, Broken(4)>>},
      r \in {{}, {Plain}}, s \in {{}, {Integer, Fields(4)}}, p \in {1, 2},
      q \in {{1, 3}, {2, 3}}}
=============================================================================
