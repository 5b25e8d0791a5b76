--------------------------- MODULE MCInterpreter ---------------------------
(***************************************************************************)
(* Every command line of up to three units, in every order, on two disks.   *)
(***************************************************************************)
EXTENDS Interpreter

Home == <<"/", "home">>
Schema == <<"/", "share">>

\* "rules" is a stylesheet in the directory of the run, named by its name or in full.
With(letter, path) == <<Option(letter), Word(path)>>
Units ==
  { <<Option("m")>>, <<Option("s")>>, <<Option("z")>>, <<Option("h")>>, <<Option("p")>>,
    <<Option("c")>>, <<Option("j")>>, <<Option("?")>>, <<Option("r")>>,
    <<Word(<<"hash">>)>>, <<Word(<<"other">>)>>,
    With("c", <<"rules">>), With("j", <<"rules">>), With("k", <<"/", "home", "rules">>),
    With("i", <<"given">>), With("i", <<"absent">>), With("d", <<"given">>), With("d", <<"rules">>),
    With("r", <<"rules">>), With("r", <<"/", "home", "given">>), With("r", <<"new">>),
    With("x", <<"new">>), With("x", <<"definitions.xml">>), With("y", <<"/", "logs">>),
    With("o", <<"given">>), With("o", <<"ovaldi.log">>), With("t", <<"rules">>),
    With("v", <<"given">>), With("g", <<"rules">>),
    With("e", <<"ids">>), With("f", <<"given">>), With("a", <<"/", "absent">>) }
MCCommandLines ==
  {a \o b \o c : a \in Units \cup {<<>>, <<Option("m")>>}, b \in Units \cup {<<>>}, c \in Units \cup {<<>>}}

Files ==
  {Home \o f : f \in {<<"definitions.xml">>, <<"given">>, <<"rules">>}} \cup
  {Schema \o <<f>> : f \in {"oval-definitions-schematron.xsl", "results_to_html.xsl",
                            "oval-system-characteristics-schematron.xsl", "oval-results-schematron.xsl"}}
MCDisks == {Files, Files \cup {Home \o <<"directives.xml">>, Home \o <<"ovaldi.log">>}}
MCHash == <<"hash">>
=============================================================================
