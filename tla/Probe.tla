------------------------------- MODULE Probe -------------------------------
(***************************************************************************)
(* What the probes have in common.  A probe is asked for the things of the  *)
(* system that match the entities of an object.  Each writes down its own   *)
(* way to find them: which datatypes and operations it accepts, whether it  *)
(* looks a value up or goes through a list, whether it compares itself or   *)
(* calls Analyze, when it reports that something does not exist, what it    *)
(* makes of a call of the operating system that fails.                      *)
(*                                                                         *)
(* A thing is a sequence of names, one for each entity of the object; an    *)
(* item is a status and a thing, in which Nothing stands for an element     *)
(* that is empty or left out.  What the system holds is the set `there';    *)
(* `list' is the answer to the call that lists the things, and `read' the   *)
(* answer to the calls that read one of them afterwards: a thing that is    *)
(* listed may be gone, or may be closed to the reader.                      *)
(***************************************************************************)
EXTENDS Naturals, Sequences, FiniteSets

CONSTANT Names        \* the texts that are told apart

Nothing == ""
ASSUME NamesAssumption == Nothing \notin Names

Operations == {"equals", "not equal", "case insensitive equals",
               "case insensitive not equal", "pattern match", "other"}
StringOperations == Operations \ {"other"}
ThreeOperations  == {"equals", "pattern match", "not equal"}

\* typed: the datatype is the one the probe expects.  var: the value comes from a
\* variable.  values: GetEntityValues.  matches: the names Analyze is true for,
\* which without a variable is what the operation says.
Entity == [op : Operations, typed : BOOLEAN, nil : BOOLEAN, var : BOOLEAN,
           values : SUBSET Names, matches : SUBSET Names]

Answers == {"ok", "absent", "fails"}

-----------------------------------------------------------------------------
\* How CollectItems ends.
Throws          == [thrown |-> TRUE,  items |-> {}]
Collects(items) == [thrown |-> FALSE, items |-> items]

Exists(thing)       == [status |-> "exists", thing |-> thing]
DoesNotExist(thing) == [status |-> "does not exist", thing |-> thing]
Failed(thing)       == [status |-> "error", thing |-> thing]

All(status, things) == {[status |-> status, thing |-> t] : t \in things}

\* Object::Analyze: every entity is true of the element of that name.
Analyze(object, thing) ==
  \A i \in DOMAIN object : object[i].nil \/ thing[i] \in object[i].matches
Matching(object, things) == {t \in things : Analyze(object, t)}

\* The names one level below a thing, and the things as sequences of one name.
Firsts(things)       == {t[1] : t \in things}
Seconds(things, n)   == {t[2] : t \in {u \in things : Len(u) > 1 /\ u[1] = n}}
Single(names)        == {<<n>> : n \in names}

-----------------------------------------------------------------------------
\* The common ways to choose.

\* The check at the head of most CollectItems methods.
Accepts(e, operations) == e.typed /\ e.op \in operations

\* The values of the entity when it says equals, else everything there is.
Candidates(e, names) == IF e.op = "equals" THEN e.values ELSE names
\* A slip: what is there is not compared any more.
FaultyChosen(e, names) == Candidates(e, names) \cap names
Chosen(e, names)     == {n \in Candidates(e, names) : n \in e.matches /\ n \in names}
Missing(e, names)    == IF e.op = "equals" /\ ~ e.nil THEN e.values \ names ELSE {}

\* Go through the list and keep what matches.
Scan(object, system) ==
  IF system.list # "ok" THEN Throws
  ELSE Collects(All("exists", Matching(object, system.there)))

\* Look the values up; those that are not there get an item, too.
LookUp(e, system) ==
  LET names == Firsts(system.there)
  IN  Collects(All("exists", Single(e.values \cap names)) \cup
               All("does not exist", Single(e.values \ names)))

\* The outcome of reading each chosen thing, by the answer to the reading: a
\* status, "none" for no item, "throws".
ReadEach(things, answer(_), result) ==
  IF \E t \in things : result[answer(t)] = "throws" THEN Throws
  ELSE Collects({[status |-> result[answer(t)], thing |-> t] :
                  t \in {u \in things : result[answer(u)] # "none"}})

\* Two outcomes of one call.
Both(p, q) ==
  IF p.thrown \/ q.thrown THEN Throws ELSE Collects(p.items \cup q.items)

\* What a call for one thing answers: a thing that is not there is absent, unless
\* the call fails before it finds out.
AnswerFor(thing, names, system) ==
  IF system.read[thing] = "fails" THEN "fails"
  ELSE IF thing \in names THEN system.read[thing] ELSE "absent"

Always(status) == [answer \in Answers |-> status]
ByAnswer(ok, absent, fails) == [ok |-> ok, absent |-> absent, fails |-> fails]

-----------------------------------------------------------------------------
\* The item of one thing: the status of the item and of its elements, which
\* follow the answers of the calls that fill them.
NoItem     == [kind |-> "none"]
ItemThrows == [kind |-> "throws"]
Item(status, elements) == [kind |-> "item", status |-> status, elements |-> elements]

Element(answer, result) == result[answer]
\* What two records say; the first counts where both say something.
Joined(first, more) ==
  [x \in DOMAIN first \cup DOMAIN more |-> IF x \in DOMAIN first THEN first[x] ELSE more[x]]
ErrorIfAny(answers) == IF "fails" \in answers THEN "error" ELSE "exists"

-----------------------------------------------------------------------------
\* The probes of files share the way they ask the finder (see FileFinder) and
\* report what is missing.  An object has a path and a filename, or a filepath,
\* the thing then has one name; a directory is the thing <<path, Nothing>>.
Paths(system) == {t[1] : t \in {u \in system.there : Len(u) = 2}}

SearchFiles(object, system) ==
  IF Len(object) = 1
  THEN Single(Chosen(object[1], {t[1] : t \in {u \in system.there : Len(u) = 1}}))
  ELSE UNION {IF object[2].nil THEN {<<p, Nothing>>}
              ELSE {<<p, f>> : f \in Chosen(object[2],
                                     Seconds(system.there, p) \ {Nothing})} :
                p \in Chosen(object[1], Paths(system))}

\* Nothing was found: each filepath that is missing, or the path if one value of
\* it is.
Unfound(e, names) ==
  IF e.op \in {"equals", "case insensitive equals"} THEN e.values \ names ELSE {}
ReportMissing(object, system) ==
  IF Len(object) = 1
  THEN All("does not exist",
           Single(Unfound(object[1], {t[1] : t \in {u \in system.there : Len(u) = 1}})))
  ELSE IF Unfound(object[1], Paths(system)) # {}
       THEN {DoesNotExist(<<Nothing, Nothing>>)} ELSE {}

\* What becomes of a path without a filename, and of a file, by the answer to
\* reading it.
CollectFiles(object, system, directory, file) ==
  LET found == SearchFiles(object, system)
      IsDirectory(t) == Len(t) = 2 /\ t[2] = Nothing
      directories == {t \in found : IsDirectory(t)}
      AnswerOf(t) == system.read[IF IsDirectory(t) THEN t[1] ELSE t[Len(t)]]
      lists == \E i \in DOMAIN object : object[i].op # "equals" /\ ~ object[i].nil
  IN  IF lists /\ system.list # "ok" THEN Throws
      ELSE IF found = {} THEN Collects(ReportMissing(object, system))
      ELSE Both(ReadEach(directories, AnswerOf, directory),
                ReadEach(found \ directories, AnswerOf, file))
=============================================================================
