------------------------ MODULE WindowsPolicyProbes ------------------------
(***************************************************************************)
(* The probes of src/probes/windows that ask a service of the system: the   *)
(* policies, volumes, updates, WMI, the metabase, services, PowerShell and  *)
(* Active Directory; and those of files and registry keys.  See Probe.      *)
(***************************************************************************)
EXTENDS Probe, SequencesExt, Functions

-----------------------------------------------------------------------------
\* One item says all.  The two calls are independent: one that fails leaves its
\* elements out, and no item is left if both fail; access that is denied throws.
LockoutPolicyItem(os) ==
  CASE "denied" \in {os.force, os.lockout} -> ItemThrows
    [] {os.force, os.lockout} = {"fails"} -> NoItem
    [] OTHER -> Item("exists",
         [force_logoff |-> IF os.force = "ok" THEN "exists" ELSE "not collected",
          lockout_duration |-> IF os.lockout = "ok" THEN "exists" ELSE "not collected"])

\* The two flags come from WMI or else from an export to a file.  Either source
\* may not have them: they are then the defaults of the code, and exist
\* (PasswordPolicyProbe.cpp:135).
Flag(os, flag, default) ==
  IF flag \in DOMAIN os.wmi THEN os.wmi[flag]
  ELSE IF flag \in DOMAIN os.exported THEN os.exported[flag] ELSE default
PasswordPolicyItem(os) ==
  CASE os.modals = "denied" -> ItemThrows
    [] os.modals = "fails" -> NoItem
    [] DOMAIN os.wmi = {} /\ os.export = "fails" -> ItemThrows
    [] OTHER -> Item("exists",
         [max_passwd_age |-> "exists",
          password_complexity |-> Flag(os, "password_complexity", "0"),
          reversible_encryption |-> Flag(os, "reversible_encryption", "0")])

\* What a set of bits says of one kind of event; an unknown one is an error.
ReadAuditOptions(bits) ==
  CASE "none" \in bits -> "AUDIT_NONE"
    [] {"success", "failure"} \subseteq bits -> "AUDIT_SUCCESS_FAILURE"
    [] "failure" \in bits -> "AUDIT_FAILURE"
    [] "success" \in bits -> "AUDIT_SUCCESS"
    [] bits = {} -> "AUDIT_NONE"
    [] OTHER -> "error"

\* The categories by number, as many as the system knows; the others stay errors.
AuditEventPolicyItem(os, categories) ==
  IF os.policy # "ok" THEN ItemThrows
  ELSE Item("exists",
         [i \in 1 .. categories |->
            IF ~ os.auditing THEN "AUDIT_NONE"
            ELSE IF i <= Len(os.events) THEN ReadAuditOptions(os.events[i]) ELSE "error"])

\* The same by subcategory, whose number (GUID) each element has; several elements
\* may have one number.
AuditSubcategories(os, numbers) ==
  IF os.policy # "ok" THEN ItemThrows
  ELSE IF ~ os.auditing THEN Item("exists", [n \in DOMAIN numbers |-> "AUDIT_NONE"])
  ELSE IF {os.categories, os.subcategories, os.query} # {"ok"} THEN ItemThrows
  ELSE Item("exists",
         [n \in DOMAIN numbers |-> IF numbers[n] \in DOMAIN os.events
                                   THEN ReadAuditOptions(os.events[numbers[n]]) ELSE "error"])

-----------------------------------------------------------------------------
\* A volume that is named is read unseen; the list goes through Analyze.
VolumeAnswer == ByAnswer("exists", "does not exist", "error")
Volume(object, system) ==
  LET e     == object[1]
      asked == IF e.op = "equals" THEN e.values
               ELSE {n \in Firsts(system.there) : n \in e.matches}
      items == ReadEach(Single(asked),
                 LAMBDA t : AnswerFor(t[1], Firsts(system.there), system), VolumeAnswer)
  IN  IF ~ Accepts(e, ThreeOperations) THEN Throws
      ELSE IF e.op # "equals" /\ system.list # "ok" THEN Throws
      ELSE Collects({IF i.status = "does not exist" THEN [i EXCEPT !.thing = <<Nothing>>]
                     ELSE i : i \in items.items})

\* A search that succeeds with errors says so in a message only.
WUAUpdateSearcher(object, system) ==
  LET e == object[1] IN
  IF ~ Accepts(e, {"equals"}) THEN Throws
  ELSE ReadEach(Single(e.values),
                LAMBDA t : AnswerFor(t[1], Firsts(system.there), system),
                ByAnswer("exists", "does not exist", "throws"))

-----------------------------------------------------------------------------
\* Both entities say equals, and their values are not looked at by Analyze.  A
\* query is the second name; a query without rows has an item that says so.
WMI(object, system) ==
  IF \E i \in 1 .. 2 : ~ Accepts(object[i], {"equals"}) THEN Throws
  ELSE ReadEach({<<n, q>> : n \in object[1].values, q \in object[2].values},
         LAMBDA t : AnswerFor(t[2], Seconds(system.there, t[1]), system),
         ByAnswer("exists", "does not exist", "throws"))
WMI57(object, system) == WMI(object, system)

\* The rows that are fetched, by their numbers: one after the first that cannot be
\* fetched ends the loop as the last one does (WMIProbe.cpp:387).
Fetched(rows, lost) ==
  LET late == {i \in lost : i > 1}
  IN  IF late = {} THEN rows
      ELSE SubSeq(rows, 1, (CHOOSE i \in late : \A j \in late : i <= j) - 1)

\* The elements of one item, a row of the answer after another: a first row that
\* cannot be fetched, or a text that cannot be converted, is an element with an
\* error, a value of a type that is not handled makes the item an error and leaves
\* no element.
WqlResults(rows) ==
  LET fetched == Fetched(rows, {i \in DOMAIN rows : rows[i] = "lost"})
      shown   == SelectSeq(fetched, LAMBDA r : r \notin {"unsupported", "not found"})
  IN  IF rows = <<>> THEN Item("does not exist", <<"does not exist">>)
      ELSE Item(IF Len(shown) < Len(fetched) THEN "error" ELSE "exists",
                [i \in DOMAIN shown |-> IF shown[i] = "value" THEN "exists" ELSE "error"])
WMIItem(os) == IF os.query # "ok" THEN ItemThrows ELSE WqlResults(os.rows)

\* The successor has a record for each row, with a field for each column asked for.
LostRow == [row |-> "lost"]
WqlRecord(columns) ==
  [c \in DOMAIN columns |->
     CASE columns[c] = "value" -> "exists"
       [] columns[c] = "unsupported" -> "not collected"
       [] columns[c] = "not found" -> "does not exist"
       [] OTHER -> "error"]
WqlRecords(rows) ==
  LET fetched == Fetched(rows, {i \in DOMAIN rows : rows[i] = LostRow})
      records == [i \in DOMAIN fetched |-> WqlRecord(fetched[i])]
  IN  IF rows = <<>> THEN Item("does not exist", <<"does not exist">>)
      ELSE Item(IF \E i \in DOMAIN records : "error" \in Range(records[i])
                THEN "error" ELSE "exists", records)
WMI57Item(os) == IF os.query # "ok" THEN ItemThrows ELSE WqlRecords(os.records)

-----------------------------------------------------------------------------
\* A key of the metabase must open; a key that is busy or invalid is as one that
\* is not there.  The ids that are named are asked for without a look whether
\* they are there, and reported missing as well.
Metabase(object, system) ==
  LET keys == {k \in Candidates(object[1], Firsts(system.there)) :
                 k \in object[1].matches}
      Opens(k) == k \in Firsts(system.there) /\ system.read[k] = "ok"
      Ids(k) == IF object[2].op = "equals" THEN object[2].values \cap object[2].matches
                ELSE Seconds(system.there, k) \cap object[2].matches
      MissingIds(k) == IF object[2].op = "equals"
                       THEN object[2].values \ Seconds(system.there, k) ELSE {}
      OfKey(k) ==
        IF object[2].nil THEN {Exists(<<k, Nothing>>)}
        ELSE {IF i \in Seconds(system.there, k) THEN Exists(<<k, i>>)
              ELSE DoesNotExist(<<k, i>>) : i \in Ids(k)} \cup
             (IF MissingIds(k) # {} THEN {DoesNotExist(<<k, Nothing>>)} ELSE {})
      missing == IF object[1].op = "equals" THEN {k \in object[1].values : ~ Opens(k)} ELSE {}
  IN  Collects(UNION {OfKey(k) : k \in {n \in keys : Opens(n)}} \cup
               (IF missing # {} THEN {DoesNotExist(<<Nothing, Nothing>>)} ELSE {}))

\* The table of the services is read once, in the constructor.  A name that is not
\* in it has no item.  With a variable and any operation but equals the names are
\* compared with the value of the entity, which is empty then.
Services(e, names) ==
  CASE e.op \in {"equals", "case insensitive equals"} -> e.values \cap e.matches \cap names
    [] OTHER -> names \cap e.matches
WindowsServices(object, snapshot, system) ==
  IF ~ Accepts(object[1], Operations \ {"other"}) THEN Throws
  ELSE ReadEach(Single(Services(object[1], Firsts(snapshot))),
                LAMBDA t : AnswerFor(t[1], Firsts(system.there), system),
                ByAnswer("exists", "error", "error"))

\* Elements with several values: each bit, or each name of a list.
ManyValues(values) == IF values = {} THEN "does not exist" ELSE "exists"

\* Each call that fails leaves its own elements as errors; only a service that
\* cannot be opened is an error itself.
ServiceItem(os) ==
  Item(IF os.open = "ok" THEN "exists" ELSE "error",
       [service_name |-> "exists",
        display_name |-> IF os.open # "ok" THEN "error"
                         ELSE Element(os.config, ByAnswer("exists", "does not exist", "error")),
        description |-> IF os.open # "ok" THEN "error"
                        ELSE Element(os.description,
                                     ByAnswer("exists", "does not exist", "error")),
        controls_accepted |-> IF os.open = "ok" /\ os.status = "ok" THEN ManyValues(os.bits)
                              ELSE "error",
        pid |-> IF os.open = "ok" /\ os.status = "ok" THEN "exists" ELSE "error"])
-----------------------------------------------------------------------------
\* Keys are <<hive, key, name>>.  Everything is reported by level, for each hive
\* and key that has nothing below it that is asked for.
Registry(object, system) ==
  LET hives == Chosen(object[1], Firsts(system.there))
      Keys(h) == IF object[2].nil THEN {Nothing}
                 ELSE Chosen(object[2], Seconds(system.there, h) \ {Nothing})
      NamesOf(h, k) == {t[3] : t \in {u \in system.there : u[1] = h /\ u[2] = k}} \ {Nothing}
      Found(h, k) == IF object[3].nil THEN {Nothing} ELSE Chosen(object[3], NamesOf(h, k))
      found == {t \in UNION {{<<h, k, n>> : n \in Found(h, k)} :
                               h \in hives, k \in UNION {Keys(x) : x \in hives}} :
                  t[2] \in Keys(t[1])}
      missingKeys == {h \in hives : Missing(object[2], Seconds(system.there, h)) # {}}
      missingNames == {<<h, k>> : h \in hives \ missingKeys,
                                  k \in UNION {Keys(x) : x \in hives}}
      Answer(t) == system.read[IF t[3] # Nothing THEN t[3]
                               ELSE IF t[2] # Nothing THEN t[2] ELSE t[1]]
  IN  IF \E i \in DOMAIN object : ~ Accepts(object[i], ThreeOperations) THEN Throws
      ELSE IF found # {}
      THEN ReadEach(found, Answer, ByAnswer("exists", "none", "error"))
      ELSE Collects(
        IF Missing(object[1], Firsts(system.there)) # {}
        THEN {DoesNotExist(<<Nothing, Nothing, Nothing>>)}
        ELSE {DoesNotExist(<<h, Nothing, Nothing>>) : h \in missingKeys} \cup
             {DoesNotExist(<<p[1], p[2], Nothing>>) :
                p \in {q \in missingNames : /\ q[2] \in Keys(q[1])
                                            /\ Missing(object[3], NamesOf(q[1], q[2])) # {}}})

\* The value of a name: a list without members has no value, a type that is not
\* known is an error of the elements and not of the item.
RegistryItem(os) ==
  CASE os.key = "absent" -> Item("does not exist", [key |-> "does not exist"])
    [] os.key = "fails" -> Item("error", [key |-> "error"])
    [] os.name = "absent" -> Item("does not exist", [name |-> "does not exist"])
    [] os.name = "fails" -> Item("error", [name |-> "exists", value |-> "error"])
    [] OTHER -> Item(IF os.time = "ok" THEN "exists" ELSE "error",
         [name |-> "exists",
          type |-> IF os.type = "unknown" THEN "error" ELSE "exists",
          value |-> IF os.type = "unknown" THEN "error"
                    ELSE IF os.type = "list" /\ os.values = {} THEN "does not exist"
                    ELSE "exists"])

-----------------------------------------------------------------------------
\* A file that cannot be opened for another reason than that it is gone throws
\* out of the whole collection.
WinFile(object, system) ==
  CollectFiles(object, system, ByAnswer("exists", "none", "throws"),
               ByAnswer("exists", "none", "throws"))
WinFileItem(os) ==
  CASE os.open = "absent" -> NoItem
    [] os.open = "fails" -> ItemThrows
    [] OTHER -> Item("exists",
         [owner |-> Element(os.owner, ByAnswer("exists", "error", "error")),
          size |-> IF os.attributes = "ok" THEN "exists" ELSE "error",
          type |-> IF os.attributes # "ok" \/ os.type # "ok" THEN "error" ELSE "exists",
          ms_checksum |-> IF os.directory THEN "does not exist"
                          ELSE IF os.checksum = "ok" THEN "exists" ELSE "error",
          version |-> IF os.directory THEN "does not exist"
                      ELSE Element(os.version, ByAnswer("exists", "does not exist", "error"))])

-----------------------------------------------------------------------------
\* The values of the parameters and of the columns of a cmdlet: every combination
\* of one of each, the last running fastest.  A list without values stands still.
Here(list, i) == IF list = <<>> THEN Nothing ELSE list[i]
\* A slip: the lists behind the one that moves stay at their end.
FaultyAdvance(at, lists) ==
  LET moves == {i \in DOMAIN lists : lists[i] # <<>> /\ at[i] < Len(lists[i])}
      last  == CHOOSE i \in moves : \A j \in moves : j <= i
  IN  IF moves = {} THEN <<>> ELSE [at EXCEPT ![last] = @ + 1]
Advance(at, lists) ==
  LET moves == {i \in DOMAIN lists : lists[i] # <<>> /\ at[i] < Len(lists[i])}
      last  == CHOOSE i \in moves : \A j \in moves : j <= i
  IN  IF moves = {} THEN <<>>
      ELSE [i \in DOMAIN at |-> IF i < last THEN at[i]
                                ELSE IF i = last THEN at[i] + 1 ELSE 1]
CombinationsFrom(at, lists) ==
  LET from[place \in [DOMAIN lists -> Nat]] ==
        LET combo == [i \in DOMAIN lists |-> Here(lists[i], place[i])]
            next  == Advance(place, lists)
        IN  <<combo>> \o (IF next = <<>> THEN <<>> ELSE from[next])
  IN  from[at]
Combinations(lists) ==
  IF \A i \in DOMAIN lists : lists[i] = <<>> THEN <<>>
  ELSE CombinationsFrom([i \in DOMAIN lists |-> 1], lists)

\* What the entities of a record say of their names and values: without any name
\* the command runs once, with a name but no value not at all.
Runs(parameters, columns) ==
  LET Of(lists) == IF lists = <<>> THEN <<<<>>>> ELSE Combinations(lists)
  IN  {<<p, c>> : p \in Range(Of(parameters)), c \in Range(Of(columns))}

\* The module must be one that every entity that is not nil accepts.  A command that
\* is not loaded is looked for in the modules there are, if one is asked for by name:
\* those that fit are imported.  A module is <<name, id, version>>.
Fits(entities, module) ==
  \A i \in 1 .. 3 : entities[i].nil \/ (module[i] # Nothing /\ module[i] \in entities[i].matches)
VerifyModule(entities, name, command, modules) ==
  LET Owns(m)  == command \in modules.commands[m] /\ name \in {Nothing, m[1]}
      loaded   == {m \in modules.loaded : Owns(m)}
      imported == {m \in modules.available : entities[1].nil = FALSE /\ Fits(entities, m)}
      used     == IF loaded # {} THEN loaded ELSE {m \in imported : Owns(m)}
  IN  {m \in used : Fits(entities, m)}

\* Each verb with each noun, and each name of a module: a verb that is not allowed
\* throws, Select-Object is passed over, a command without a module has no item, one
\* that fails has an error.
Cmdlet(object, modules) ==
  LET commands == {c \in object.verbs \X object.nouns : c # <<"select", "object">>}
      names    == IF object.module[1].nil THEN {Nothing} ELSE object.module[1].values
      run      == {c \in commands : \E n \in names :
                     VerifyModule(object.module, n, c, modules) # {}}
  IN  IF ~ object.verbs \subseteq modules.legal THEN Throws
      ELSE Collects({[status |-> IF c \in modules.failing THEN "error" ELSE "exists",
                      thing |-> <<c, r>>] :
                       c \in run, r \in Runs(object.parameters, object.columns)})

-----------------------------------------------------------------------------
\* Active Directory: things are <<naming_context, relative_dn, attribute>>.  The
\* names of all objects are read from the root of the domain when one is looked for
\* by other means than equality, and kept: from then on every name, of whatever
\* context, is looked up among them (ActiveDirectoryProbe.cpp:636, 672).  Which
\* contexts the search from the root covers is up to the directory.
DistinguishedNames(kept, contexts, covered, system) ==
  IF kept # {} \/ contexts = {} \/ system.list # "ok" THEN kept
  ELSE {<<t[1], t[2]>> : t \in {u \in system.there : u[1] \in covered /\ u[2] # Nothing}}
RelativeDns(e, context, kept, system) ==
  LET there == {t[2] : t \in {u \in system.there : u[1] = context}} \ {Nothing}
      known == IF kept = {} THEN (IF e.op = "equals" THEN there ELSE {})
               ELSE {d[2] : d \in {x \in kept : x[1] = context}}
  IN  IF e.nil THEN {Nothing}
      ELSE {d \in Candidates(e, known) : d \in known /\ d \in e.matches}
ActiveDirectory(object, kept, covered, system) ==
  LET contexts == Chosen(object[1], Firsts(system.there))
      lists == {c \in contexts : object[2].op # "equals" /\ ~ object[2].nil}
      names == DistinguishedNames(kept, lists, covered, system)
      Attributes(c, d) ==
        IF object[3].nil THEN {Nothing}
        ELSE Chosen(object[3], {t[3] : t \in {u \in system.there : u[1] = c /\ u[2] = d}})
      OfObject(c, d) ==
        IF Attributes(c, d) = {}
        THEN IF object[3].op = "equals" /\ object[3].values # {}
             THEN {DoesNotExist(<<c, d, Nothing>>)} ELSE {}
        ELSE All("exists", {<<c, d, a>> : a \in Attributes(c, d)})
      OfContext(c) ==
        LET dns == RelativeDns(object[2], c, names, system)
        IN  IF dns = {} /\ object[2].op = "equals" /\ object[2].values # {}
            THEN {DoesNotExist(<<c, Nothing, Nothing>>)}
            ELSE UNION {OfObject(c, d) : d \in dns}
  IN  IF \E i \in DOMAIN object : ~ Accepts(object[i], ThreeOperations) THEN Throws
      ELSE Collects(IF contexts = {}
                    THEN IF object[1].op = "equals" /\ object[1].values # {}
                         THEN {DoesNotExist(<<Nothing, Nothing, Nothing>>)} ELSE {}
                    ELSE UNION {OfContext(c) : c \in contexts})

\* The elements of an attribute: a kind that is not supported is a message and an
\* item with an error, that has no value.
Supported == {"text", "number", "octets"}
AttributeItem(values) ==
  Item(IF ~ values \subseteq Supported THEN "error" ELSE "exists",
       [attribute |-> "exists",
        value |-> IF values \cap Supported = {} THEN "not collected" ELSE "exists"])
ActiveDirectoryItem(os) ==
  AttributeItem(os.values \cup (IF os.kind = "ok" THEN {} ELSE {"unsupported"}))
=============================================================================
