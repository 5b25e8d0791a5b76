------------------------- MODULE CollectionMeaning -------------------------
(***************************************************************************)
(* What the objects of a document mean, without caches, stack or order of   *)
(* collection: each is what its own element says of those it refers to.     *)
(* What refers to itself is settled by least sets: a variable is complete   *)
(* when it is in every set of variables that has all those that can be      *)
(* computed from its own, so that one that is needed to compute itself is   *)
(* not.  `m' is what is written of each object.                             *)
(***************************************************************************)
EXTENDS ObjectCollector

\* What is there to be used when some variables are complete: they, and the objects
\* whose parsing goes through, which is to say that all they use is there.
ClosedUnderParsing(in, complete, parsed) ==
  \A o \in Objects :
    (\A i \in DOMAIN in.uses[o] : in.uses[o][i] \in complete \cup parsed) => o \in parsed
There(in, complete) ==
  complete \cup {o \in Objects : \A parsed \in SUBSET Objects :
                                   ClosedUnderParsing(in, complete, parsed) => o \in parsed}

\* The flag of a variable that has got all its components.
ComponentFlag(in, m, need) ==
  IF need \in Variables THEN "complete" ELSE ObjectComponentFlag(m[need], in.field[need])
ComputedFlag(in, m, v) ==
  CombineFlags(<<in.own[v]>> \o
    [i \in DOMAIN in.needs[v] |-> ComponentFlag(in, m, in.needs[v][i])])

\* The variables that are complete.
ComputedFrom(in, m, complete, v) ==
  /\ in.own[v] \notin {"undefined", "throws"}
  /\ \A i \in DOMAIN in.needs[v] :
       in.needs[v][i] \in There(in, complete) \cap (Variables \cup DOMAIN m)
  /\ ComputedFlag(in, m, v) = "complete"
ClosedUnderComputing(in, m, complete) ==
  \A v \in Variables : ComputedFrom(in, m, complete, v) => v \in complete
CompleteVariables(in, m) ==
  {v \in Variables : \A complete \in SUBSET Variables :
                       ClosedUnderComputing(in, m, complete) => v \in complete}

\* What stops the parsing of u: the first of what it uses, in document order, that is
\* not there; and what stops that.
Parsed(in, u) == IF u \in Objects THEN in.uses[u]
                 ELSE IF in.own[u] = "undefined" THEN <<>> ELSE in.needs[u]
StoppedBy(in, there, u, w) ==
  \E i \in DOMAIN Parsed(in, u) :
    /\ w = Parsed(in, u)[i] /\ w \notin there /\ (u \in Variables => w \in Variables)
    /\ \A j \in 1 .. i - 1 : Parsed(in, u)[j] \in there
Stoppers(in, there, o) ==
  {v \in Variables : \A reached \in SUBSET Uses :
     /\ o \in reached
     /\ \A u \in reached, w \in Uses : StoppedBy(in, there, u, w) => w \in reached
     => v \in reached}

\* The flag of a variable that is not complete.
FailedFlag(in, m, there, v) ==
  IF \/ in.own[v] \in {"undefined", "throws"}
     \/ \E i \in DOMAIN in.needs[v] : in.needs[v][i] \in Variables \ there
    THEN "error" ELSE ComputedFlag(in, m, v)

\* The items of an object, and their flag, when all its variables are there.
SimpleMeaning(in, o) ==
  LET statuses == {in.status[i] : i \in in.items[o]}
  IN  CASE in.answer[o] = "not applicable" -> [flag |-> "not applicable", items |-> {}]
        [] in.answer[o] = "not supported"  -> [flag |-> "not collected", items |-> {}]
        [] in.answer[o] = "throws"         -> [flag |-> "error", items |-> {}]
        [] in.answer[o] = "items"          ->
             [items |-> in.items[o],
              flag  |-> IF "error" \in statuses              THEN "error"
                        ELSE IF "not collected" \in statuses THEN "incomplete"
                        ELSE IF "exists" \in statuses        THEN "complete"
                        ELSE "does not exist"]

\* A set is built from what is kept of the objects it refers to; a filter that cannot be
\* decided for an item of one that is written makes it an error.
Unclear(in, m, o) ==
  \E i \in DOMAIN in.references[o] :
    LET ref == in.references[o][i]
    IN  ref \in DOMAIN m /\ \E x \in m[ref].items : in.filter[o][x] = "undecided"
Part(in, m, o, i) ==
  LET object == m[in.references[o][i]]
  IN  [flag  |-> object.flag,
       items |-> {x \in object.items : in.filter[o][x] = "keep"}]
SetMeaning(in, m, o) ==
  CASE Unclear(in, m, o) -> [flag |-> "error", items |-> {}]
    [] ~ Unclear(in, m, o) /\ Len(in.references[o]) = 1 ->
         LET part == Part(in, m, o, 1)
         IN  [flag |-> SettleFlag(part.flag, part.items), items |-> part.items]
    [] OTHER ->
         CombineSets(in.operator[o], Part(in, m, o, 1), Part(in, m, o, 2))

\* There is more than one for an object that is stopped by a variable that was
\* stopped itself: the first user sees the flag of the variable where it began,
\* later ones an error.
ObjectMeaning(in, m, there, o) ==
  IF o \notin there
    THEN {[flag |-> FailedFlag(in, m, there, v), items |-> {}] : v \in Stoppers(in, there, o)}
    ELSE {IF in.operator[o] = "none" THEN SimpleMeaning(in, o) ELSE SetMeaning(in, m, o)}

\* Every object of the document is written, whatever went wrong with it, and what
\* is written is its meaning in the document, although the collector meets objects
\* in any order, re-enters itself and takes half-finished variables from its cache
\* (AbsDataCollector.cpp:151-205, CollectedObject.cpp:162-174).
WritesTheMeaning ==
  /\ EveryObjectIsWritten
  /\ LET there == There(input, CompleteVariables(input, written))
     IN  \A o \in DOMAIN written : written[o] \in ObjectMeaning(input, written, there, o)
=============================================================================
