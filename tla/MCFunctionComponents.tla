------------------------ MODULE MCFunctionComponents ------------------------
(***************************************************************************)
(* Every function: those of several components over up to three components, *)
(* with numbers whose product has more digits than a stream writes, those   *)
(* of one component over up to two values in which delimiters are missing,  *)
(* first, last, adjacent and overlapping.                                   *)
(***************************************************************************)
EXTENDS FunctionComponents

LOCAL Element(name) ==
  [name |-> name, operation |-> "add", text |-> <<>>, start |-> 1, length |-> 0,
   matching |-> {}]
LOCAL Lists(S, low, high) == UNION {[1..n -> S] : n \in low .. high}
LOCAL On(functions, lists) == [function : functions, components : lists]

LOCAL Numbers == [flag : Flags, values : {<<>>, <<<<7>>>>, <<<<1001>>, <<-3>>, <<2, 1>>>>}]

LOCAL Texts == {<<>>, <<0>>, <<1>>, <<1, 0, 0>>, <<0, 1, 0>>, <<0, 0, 0>>}
\* With the character that escapes, first, last and twice.
LOCAL Escapes == {<<92>>, <<92, 0>>, <<0, 92>>, <<1, 92, 92>>}
LOCAL OneOf(texts) ==
  Lists([flag : {"complete", "incomplete", "error"}, values : Lists(texts, 0, 2)], 1, 1)

MCInputs ==
  On({Element("concat"), Element("arithmetic"),
      [Element("arithmetic") EXCEPT !.operation = "multiply"]}, Lists(Numbers, 2, 3))
  \cup On({Element("count"), Element("unique")}, Lists(Numbers, 1, 3))
  \cup On({Element("time_difference")}, Lists(Numbers, 1, 2))
  \cup On({Element("escape_regex")}, OneOf(Texts \cup Escapes))
  \cup On({[Element("regex_capture") EXCEPT !.matching = {<<>>, <<0>>, <<1, 0, 0>>}]}
          \cup {[Element(name) EXCEPT !.text = text] :
                  name \in {"begin", "end", "split"}, text \in {<<0>>, <<0, 0>>, <<1, 0>>}}
          \cup {[Element("substring") EXCEPT !.start = start, !.length = length] :
                  start \in -1 .. 4, length \in -1 .. 4},
          OneOf(Texts))
=============================================================================
