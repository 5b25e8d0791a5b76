------------------------- MODULE IndependentProbes -------------------------
(***************************************************************************)
(* The probes of src/probes/independent: how each chooses its things and    *)
(* what it makes of a reading that fails.  See Probe.                       *)
(***************************************************************************)
EXTENDS Probe

\* getenv for one name, else a walk through the environment of the process; with
\* a variable always the walk.  The walk cannot fail.
EnvironmentVariable(object, system) ==
  LET e == object[1] IN
  IF ~ Accepts(e, ThreeOperations) THEN Throws
  ELSE IF e.op = "equals" /\ ~ e.var THEN LookUp(e, system)
  ELSE Scan(object, [system EXCEPT !.list = "ok"])

\* The variables of the definition document; a variable that cannot be computed,
\* or that is not there, throws out of VariableFactory.
Variable(object, system) ==
  LET e      == object[1]
      lookUp == e.op = "equals" /\ ~ e.var
      ids    == IF lookUp THEN e.values
                ELSE Firsts(Matching(object, system.there))
      Fails(id) == <<id>> \notin system.there \/ system.read[id] # "ok"
  IN  IF ~ Accepts(e, ThreeOperations) THEN Throws
      ELSE IF ~ lookUp /\ system.list # "ok" THEN Throws
      ELSE IF \E id \in ids : Fails(id) THEN Throws
      ELSE Collects(All("exists", Single(ids)))

\* A slip: an environment that is closed has no item.
QuietEnvironmentVariable58(object, system) ==
  IF object[1].op # "equals" /\ system.list # "ok" THEN Throws
  ELSE Collects(All("exists", {t \in Matching(object, system.there) :
                                 system.read[t[1]] = "ok"}))

\* Things are <<pid, name>>.  Reading the environment of a process that has
\* ended finds nothing, one that is closed is an item with an error.
EnvironmentVariable58(object, system) ==
  LET pids    == Chosen(object[1], Firsts(system.there))
      asked   == IF object[1].op = "equals" THEN object[1].values \cap object[1].matches
                 ELSE pids
      OfPid(pid) ==
        IF system.read[pid] = "fails" THEN {Failed(<<pid, Nothing>>)}
        ELSE IF system.read[pid] = "absent" \/ pid \notin Firsts(system.there) THEN {}
        ELSE All("exists", {<<pid, n>> : n \in
                    Seconds(system.there, pid) \cap object[2].matches})
  IN  IF object[1].op # "equals" /\ system.list # "ok" THEN Throws
      ELSE Collects(UNION {OfPid(pid) : pid \in asked})
\* A nil pid is the process itself, whose number the model leaves out of the item.
OwnEnvironment(object, system) ==
  Collects(All("exists", {<<Nothing, n>> : n \in {t[2] : t \in system.there}
                                                 \cap object[2].matches}))

-----------------------------------------------------------------------------
\* A digest that cannot be computed is an error of the element and of the item.
FileHash(object, system) ==
  CollectFiles(object, system, Always("exists"),
               ByAnswer("exists", "error", "error"))

\* One item for each file and digest the last entity, hash_type, asks for; a
\* directory has no digest.
FileHash58(object, system) ==
  LET hashType == object[Len(object)]
      found    == CollectFiles(SubSeq(object, 1, Len(object) - 1), system, Always("error"),
                    ByAnswer("exists", "error", "error"))
      NoFile(item) == \/ item.status = "does not exist"
                      \/ Len(item.thing) = 2 /\ item.thing[2] = Nothing
  IN  IF found.thrown THEN Throws
      ELSE Collects({i \in found.items : NoFile(i)} \cup
             {[i EXCEPT !.thing = Append(@, digest)] :
                i \in {j \in found.items : ~ NoFile(j)}, digest \in hashType.matches})

FileMd5(object, system) ==
  IF Len(object) = 1 THEN Throws
  ELSE CollectFiles(object, system, Always("exists"),
                    ByAnswer("exists", "error", "error"))

\* Every file here has a line that matches.  A file that cannot be opened leaves
\* no trace (GetLines).
TextFileContent(object, line, system) ==
  IF Len(object) = 1 \/ ~ Accepts(line, {"pattern match"}) THEN Throws
  ELSE CollectFiles(object, system, Always("exists"),
                    ByAnswer("exists", "none", "none"))

\* The successor throws, and has no item for a directory.
TextFileContent54(object, system) ==
  CollectFiles(object, system, Always("none"),
               ByAnswer("exists", "throws", "throws"))

\* The instances of a pattern are counted over all matches, those without text
\* included, before the instance entity chooses.
Instances(texts, wanted) ==
  {i \in DOMAIN texts : texts[i] # <<>> /\ i \in wanted}

XmlFileContent(object, system) ==
  CollectFiles(object, system, Always("exists"),
               ByAnswer("exists", "throws", "throws"))

\* What an xpath selects: a value, or nodes by their kind.  An empty
\* node set does not exist, a node that is no text and no attribute throws.
EvaluateXpath(os) ==
  IF os.parse # "ok" \/ os.evaluate # "ok" THEN ItemThrows
  ELSE IF os.kind \in {"boolean", "number", "string"}
       THEN Item("exists", [value_of |-> "exists"])
  ELSE IF os.kind # "node-set" \/ ~ os.nodes \subseteq {"text", "attribute"} THEN ItemThrows
  ELSE IF os.nodes = {} THEN Item("does not exist", [value_of |-> "does not exist"])
  ELSE Item("exists", [value_of |-> "exists"])

-----------------------------------------------------------------------------
\* Things are <<suffix, relative_dn, attribute>>.  Existence is decided by a
\* search below the name, and a search that fails is logged and finds nothing:
\* `read' of a name that is not ok makes everything below it disappear.
Visible(system) == {t \in system.there : \A i \in 1 .. 3 : system.read[t[i]] = "ok"}
LDAP(object, system) ==
  LET visible    == Visible(system)
      Dns(x)     == {t[2] : t \in {u \in visible : u[1] = x}}
      Attrs(x, d) == {t[3] : t \in {u \in visible : u[1] = x /\ u[2] = d}}
      suffixes   == Chosen(object[1], Firsts(visible))
      dns(x)     == IF object[2].nil THEN {Nothing} ELSE Chosen(object[2], Dns(x))
      attrs(x, d) == IF object[3].nil THEN {Nothing} ELSE Chosen(object[3], Attrs(x, d))
      Under(x, d) == All("exists", {<<x, d, a>> : a \in attrs(x, d)}) \cup
                     (IF d \notin object[2].matches \/ Missing(object[3], Attrs(x, d)) = {}
                      THEN {} ELSE {DoesNotExist(<<x, d, Nothing>>)})
  IN  IF system.list # "ok" THEN Throws
      ELSE Collects(
        UNION {Under(y[1], y[2]) :
                 y \in {z \in suffixes \X (Names \cup {Nothing}) : z[2] \in dns(z[1])}} \cup
        {DoesNotExist(<<x, Nothing, Nothing>>) :
           x \in {y \in suffixes : Missing(object[2], Dns(y)) # {}}} \cup
        {DoesNotExist(<<x, Nothing, Nothing>>) :
           x \in Missing(object[1], Firsts(visible))})
=============================================================================
