----------------------------- MODULE UnixProbes -----------------------------
(***************************************************************************)
(* The probes of src/probes/unix: how each chooses its things, and what its *)
(* items hold when a call fails.  See Probe.                                *)
(***************************************************************************)
EXTENDS Probe, SequencesExt

-----------------------------------------------------------------------------
\* lstat says what there is; a file that has gone since the finder saw it leaves
\* no trace, any other error throws.
File(object, system) ==
  CollectFiles(object, system, ByAnswer("exists", "none", "throws"),
               ByAnswer("exists", "none", "throws"))

\* A slip: a list that cannot be read is one that is not there.
QuietFileItem(os) ==
  IF os.lstat # "ok" THEN (IF os.lstat = "absent" THEN NoItem ELSE ItemThrows)
  ELSE Item("exists",
         [type |-> "exists",
          has_extended_acl |-> IF os.linux = "ok" /\ os.acl = "ok" THEN "exists"
                               ELSE "does not exist"])
\* The access control list is read on Linux alone, and a file system without
\* them answers that there is none.
FileItem(os) ==
  IF os.lstat # "ok" THEN (IF os.lstat = "absent" THEN NoItem ELSE ItemThrows)
  ELSE Item("exists",
         [type |-> "exists", mode |-> "exists",
          has_extended_acl |->
            IF os.linux # "ok" THEN "not collected"
            ELSE Element(os.acl, ByAnswer("exists", "does not exist", "error"))])

\* The bits of the mode as elements.
ModeElements == <<"oexec", "owrite", "oread", "gexec", "gwrite", "gread",
                  "uexec", "uwrite", "uread", "sticky", "sgid", "suid">>
ModeBit(mode, element) ==
  LET i == CHOOSE n \in DOMAIN ModeElements : ModeElements[n] = element
  IN  (mode \div 2 ^ (i - 1)) % 2
FileType(mode) ==
  LET types == [n \in {1, 2, 4, 6, 8, 10, 12} |->
         CASE n = 1 -> "fifo"    [] n = 2 -> "character" [] n = 4 -> "directory"
           [] n = 6 -> "block special" [] n = 8 -> "regular"
           [] n = 10 -> "symbolic link" [] n = 12 -> "socket"]
      n == (mode \div 4096) % 16
  IN  IF n \in DOMAIN types THEN types[n] ELSE Nothing

-----------------------------------------------------------------------------
\* A slip: a user who cannot be read is one that is not there.
QuietPassword(object, system) ==
  IF object[1].op = "equals"
  THEN ReadEach(Single(object[1].values),
                LAMBDA t : AnswerFor(t[1], Firsts(system.there), system),
                ByAnswer("exists", "does not exist", "does not exist"))
  ELSE Scan(object, system)
\* A user by name, or the whole list; only the list goes through Analyze.
Password(object, system) ==
  LET e == object[1] IN
  CASE e.op = "equals" ->
         ReadEach(Single(e.values),
                  LAMBDA t : AnswerFor(t[1], Firsts(system.there), system),
                  ByAnswer("exists", "does not exist", "error"))
    [] e.op = "other" -> Throws
    [] OTHER -> Scan(object, system)

\* By what the password begins with: an underscore, a name between dollars, or no
\* mark at all, which is DES.
EncryptMethodNames ==
  [id \in {"1", "2", "2a", "md5", "5", "6"} |->
     CASE id = "1" -> "MD5" [] id \in {"2", "2a"} -> "Blowfish"
       [] id = "md5" -> "Sun MD5" [] id = "5" -> "SHA-256" [] id = "6" -> "SHA-512"]
EncryptMethod(mark) ==
  CASE mark = "_" -> "BSDi"
    [] mark = "none" -> "DES"
    [] mark \in DOMAIN EncryptMethodNames -> EncryptMethodNames[mark]
    [] OTHER -> Nothing

\* The same under the lock of the shadow file, without which nothing is read.
Shadow(object, system) ==
  IF system.list # "ok" THEN Throws ELSE Password(object, system)
ShadowItem(os) ==
  Item("exists", [password |-> "exists",
                  encrypt_method |-> IF EncryptMethod(os.mark) = Nothing THEN "error"
                                     ELSE "exists"])

-----------------------------------------------------------------------------
\* The interfaces are listed once, when the probe is made.
Interface(object, snapshot) ==
  IF ~ object[1].typed THEN Throws
  ELSE Collects(All("exists", Matching(object, snapshot)))
\* flags and type are those of the interface.
InterfaceItem(os) ==
  Item("exists", [hardware_addr |-> IF os.ethernet = "ok" THEN "exists"
                                    ELSE "does not exist",
                  broadcast_addr |-> IF os.broadcast = "ok" THEN "exists"
                                     ELSE "does not exist"])

\* Things are <<service_name, runlevel>>, read from the directories when the
\* probe is made; a directory that cannot be opened is empty.
RunLevel(object, snapshot) ==
  LET service == object[1]
      level   == object[2]
      levels  == {t[2] : t \in snapshot} \cap level.matches
  IN  IF \E e \in {service, level} : ~ Accepts(e, ThreeOperations) THEN Throws
      ELSE Collects(All("exists", {t \in snapshot : t[2] \in levels /\
                                                  t[1] \in service.matches}))
\* What one entry of a directory comes to.  The result of stat is not looked at:
\* if it fails the mode is whatever the memory held.
RunLevelItems(os) ==
  LET regular == Item("exists", [service_name |-> "exists", start |-> "exists"])
  IN  CASE os.stat = "ok"     -> {regular}
        [] os.stat = "absent" -> {NoItem}             \* neither file nor link
        [] OTHER              -> {regular, NoItem}

\* One item, or an exception.
UnameItem(os) ==
  IF "ok" # os.uname \/ "ok" # os.sysinfo THEN ItemThrows
  ELSE Item("exists", [machine_class |-> "exists", processor_type |-> "exists"])

-----------------------------------------------------------------------------
\* Things are <<service_name, protocol>>, lines of a file; a line of fewer than
\* six fields is none.
Inetd(object, system) == Scan(object, system)
InetdItem(os) ==
  IF os.fields # "ok" THEN NoItem
  ELSE Item("exists",
         [endpoint_type |-> IF os.type = "ok" THEN "exists" ELSE "not collected",
          wait_status   |-> IF os.wait = "ok" THEN "exists" ELSE "not collected"])

\* NextVirtualLine over all the lines of a file, each "text", "more" (it begins
\* with a space) or "skip" (empty or a comment): the numbers of the lines that
\* belong together.  What comes before the first text is lost.
VirtualLines(lines) ==
  LET kept   == {i \in DOMAIN lines : lines[i] # "skip"}
      heads  == {i \in kept : lines[i] = "text"}
      Next(i) == {j \in heads : j > i}
      Of(i)  == {j \in kept : j >= i /\ \A k \in Next(i) : j < k}
  IN  {Of(i) : i \in heads}

-----------------------------------------------------------------------------
\* Processes.  Things are <<command, pid>>; every walk reads the command line of
\* each process it meets, and a process that has ended since it was listed makes
\* the walk throw.
Pids(system) == {t[2] : t \in system.there}
Walk(system)      == SetToSeq(Pids(system))
Unreadable(pids, system) == \E i \in DOMAIN pids : system.read[pids[i]] # "ok"

\* The walk for one command stops at the first process that has it.
FirstProcess(command, system) ==
  LET walk == Walk(system)
      hits == {i \in DOMAIN walk : <<command, walk[i]>> \in system.there}
      last == IF hits = {} THEN Len(walk)
              ELSE CHOOSE i \in hits : \A j \in hits : i <= j
  IN  [thrown |-> Unreadable(SubSeq(walk, 1, last), system),
       found  |-> IF hits = {} THEN {} ELSE {<<command, walk[last]>>}]

\* Nothing was found: an item for each value.
NoProcess(command) ==
  IF command.op = "equals" THEN All("does not exist", Single(command.values)) ELSE {}

ProcessItems(commands, command) ==
  Collects(IF commands = {} THEN NoProcess(command) ELSE All("exists", commands))

\* The number of the last process, on Mac OS, where the list comes in one call.
LastProcess(command, system) ==
  LET walk == Walk(system)
      hits == {i \in DOMAIN walk : <<command, walk[i]>> \in system.there}
  IN  {<<command, walk[i]>> : i \in {j \in hits : \A k \in hits : k <= j}}
MacProcess(object, system) ==
  LET command == object[1]
      found   == IF command.op = "equals"
                 THEN UNION {LastProcess(v, system) : v \in command.values}
                 ELSE system.there
  IN  IF ~ Accepts(command, ThreeOperations) \/ system.list # "ok" THEN Throws
      ELSE ProcessItems({t \in found : \/ t[1] \in command.matches
                                       \/ command.op = "equals" /\ ~ command.var},
                        command)

Process(object, system) ==
  LET command == object[1]
      firsts  == {FirstProcess(v, system) : v \in command.values}
      found   == UNION {f.found : f \in firsts}
  IN  IF ~ Accepts(command, ThreeOperations) \/ system.list # "ok" THEN Throws
      ELSE IF command.op = "equals"
      THEN IF \E f \in firsts : f.thrown THEN Throws
           ELSE ProcessItems({t \in found : t[1] \in command.matches \/ ~ command.var},
                             command)
      ELSE IF Unreadable(Walk(system), system) THEN Throws
      ELSE ProcessItems({t \in system.there : t[1] \in command.matches}, command)

\* The later probe finds all the processes of a command.  The vector of their
\* numbers is not cleared between two values of the entity, so that the processes
\* of the values before are found again under the value at hand.
PairsFor(command, pids, system) ==
  {<<command, p>> : p \in pids \cup {q \in Pids(system) :
                                       <<command, q>> \in system.there}}
PairsOf(values, pids, system) ==
  LET OfValue(done, v) ==
        LET mine == {q \in Pids(system) : <<v, q>> \in system.there}
        IN  [pids  |-> done.pids \cup mine,
             pairs |-> done.pairs \cup
                       (IF mine = {} THEN {} ELSE PairsFor(v, done.pids, system))]
  IN  FoldLeft(OfValue, [pids |-> pids, pairs |-> {}], values).pairs

Process58(object, system) ==
  LET command == object[1]
      pairs   == IF command.op = "equals"
                 THEN PairsOf(SetToSeq(command.values), {}, system)
                 ELSE system.there
  IN  IF ~ Accepts(command, ThreeOperations) \/ system.list # "ok" THEN Throws
      ELSE IF Unreadable(Walk(system), system) THEN Throws
      ELSE ProcessItems(Matching(object, pairs), command)
-----------------------------------------------------------------------------
\* What is read of a process, on Linux.  A state of the process that cannot be
\* read leaves an item with the command alone; the terminal is `?' then.
ProcessItem(os) ==
  CASE os.uptime # "ok" \/ os.cmdline = "fails" -> ItemThrows
    [] os.directory # "ok" \/ os.cmdline = "absent" -> NoItem   \* another command now
    [] os.stat # "ok" \/ os.status # "ok" -> Item("exists", [command |-> "exists"])
    [] OTHER -> Item("exists",
         [command |-> "exists", pid |-> "exists", user_id |-> "exists",
          exec_time |-> "exists", tty |-> "exists",
          scheduling_class |-> IF os.policy = "ok" THEN "exists" ELSE "error"])

\* The later probe tells a process that ended, which has no item, from a file
\* that is closed to the reader, which is an error of the elements read from it.
Process58Item(os) ==
  LET stat    == Element(os.stat, ByAnswer("exists", "none", "error"))
      status  == IF os.status = "ok" /\ os.uid = "ok" THEN "exists" ELSE "error"
      ended   == "absent" \in {os.directory, os.stat, os.status, os.loginuid}
      errors  == {os.stat, os.status, os.loginuid, os.selinux} \cup
                 (IF os.status = "ok" /\ (os.uid # "ok" \/ os.caps # "ok")
                  THEN {"fails"} ELSE {})
  IN  IF os.uptime # "ok" THEN ItemThrows
      ELSE IF ended THEN NoItem
      ELSE Item(ErrorIfAny(errors),
         [exec_time |-> stat, ppid |-> stat, session_id |-> stat, tty |-> "exists",
          scheduling_class |-> IF os.policy = "ok" THEN stat ELSE "error",
          ruid |-> status, user_id |-> status,
          loginuid |-> Element(os.loginuid, ByAnswer("exists", "none", "error")),
          exec_shield |-> "not collected",
          posix_capability |->
            IF os.status = "ok" /\ os.caps = "ok" THEN "exists" ELSE "error",
          selinux_domain_label |->
            Element(os.selinux, ByAnswer("exists", "error", "error"))])

\* On Solaris one file holds everything; the device of the terminal is searched.
SolarisProcessItem(os) ==
  CASE os.psinfo = "absent" -> NoItem
    [] os.psinfo = "fails"  -> ItemThrows
    [] OTHER -> Item("exists",
         [command |-> "exists", scheduling_class |-> "exists",
          tty |-> IF os.device = "ok" THEN "exists" ELSE "does not exist"])
SolarisProcess58Item(os) ==
  LET item == SolarisProcessItem(os) IN
  IF item.kind # "item" THEN item
  ELSE Item("exists",
         [element \in DOMAIN item.elements \cup
            {"loginuid", "posix_capability", "selinux_domain_label"} |->
            IF element \in DOMAIN item.elements THEN item.elements[element]
            ELSE "not collected"])

\* On Mac OS, from the table of the kernel.
MacProcessItem(os) ==
  IF os.sysctl # "ok" THEN ItemThrows
  ELSE Item("exists",
         [command |-> "exists", exec_time |-> "not collected",
          scheduling_class |-> "not collected",
          tty |-> IF os.device = "ok" THEN "exists" ELSE "does not exist"])
MacProcess58Item(os) ==
  LET item == MacProcessItem(os) IN
  IF item.kind # "item" THEN item
  ELSE Item("exists",
         [element \in DOMAIN item.elements \cup {"loginuid", "session_id"} |->
            IF element \in DOMAIN item.elements THEN item.elements[element]
            ELSE "not collected"])

\* dd-hh:mm:ss, and the time of the day for a process that was started today, by
\* the day of the year alone.
FormatExecTime(seconds) ==
  [days |-> seconds \div 86400, hours |-> (seconds % 86400) \div 3600,
   minutes |-> (seconds % 3600) \div 60, seconds |-> seconds % 60]
DaysOfYear == 365
FormatStartTime(start, now) ==
  IF (start \div 86400) % DaysOfYear = (now \div 86400) % DaysOfYear
  THEN "time" ELSE "day"

-----------------------------------------------------------------------------
(***************************************************************************)
(* xinetd (XinetdProbe.cpp): configuration files that include each other,   *)
(* entries whose parameters are assigned, appended to and removed from,     *)
(* defaults that are merged into the services.                              *)
(*                                                                         *)
(* A file is [readable, include, directories, entries]: `include' is the    *)
(* name of a file or Nothing, `directories' a sequence of sequences of      *)
(* files, the names of what a directory holds that is a regular file and    *)
(* whose name has no dot and no tilde at its end, or Nothing for one that   *)
(* cannot be read.  An entry is [name, parameters], Nothing the name of     *)
(* defaults, and a parameter <<name, operator, values>>.                    *)
(***************************************************************************)

Definition(op, values) == [op |-> op, values |-> values]
NAME_PARAM == "name"
TcpOrUdp == [stream |-> "tcp", dgram |-> "udp"]
AllowedTypes == {"RPC", "INTERNAL", "UNLISTED", "TCPMUX", "TCPMUXPLUS"}

\* What a service map holds of a parameter: a sequence of definitions.
Given(service, parameter) == parameter \in DOMAIN service
First(service, parameter) == service[parameter][1].values
With(service, parameter, definitions) ==
  [p \in DOMAIN service \cup {parameter} |->
     IF p = parameter THEN definitions ELSE service[p]]

-----------------------------------------------------------------------------
\* Each line of an entry adds a definition to its parameter.
ProcessEntryParams(parameters) ==
  [p \in {x[1] : x \in Range(parameters)} |->
     LET mine == SelectSeq(parameters, LAMBDA x : x[1] = p)
     IN  [i \in DOMAIN mine |-> Definition(mine[i][2], mine[i][3])]]

\* Definitions by their operator, those with the same in the order of the file.
SortedDefinitions(definitions) ==
  SelectSeq(definitions, LAMBDA d : d.op = "=") \o
  SelectSeq(definitions, LAMBDA d : d.op = "+=") \o
  SelectSeq(definitions, LAMBDA d : d.op = "-=")
Applied(definition, values) ==
  CASE definition.op = "="  -> definition.values
    [] definition.op = "+=" -> values \o definition.values
    [] definition.op = "-=" ->
         SelectSeq(values, LAMBDA v : v \notin Range(definition.values))
MergeParamValues(definitions, preexisting) ==
  <<Definition("=", FoldLeft(LAMBDA values, d : Applied(d, values), preexisting,
                             SortedDefinitions(definitions)))>>

NormalizeDefaults(defaults) == [p \in DOMAIN defaults |-> MergeParamValues(defaults[p], <<>>)]

\* A parameter the defaults name is merged with their first definition; one they
\* do not name keeps its definitions as they are, several of them if the entry
\* has several (XinetdProbe.cpp:386).
MergeDefaultsIntoService(service, defaults) ==
  [p \in DOMAIN service \cup DOMAIN defaults |->
     IF ~ Given(service, p) THEN defaults[p]
     ELSE IF ~ Given(defaults, p) THEN service[p]
     ELSE MergeParamValues(service[p], First(defaults, p))]

-----------------------------------------------------------------------------
Broken == [thrown |-> TRUE, services |-> <<>>, defaults |-> <<>>]
Fresh  == [thrown |-> FALSE, services |-> <<>>, defaults |-> <<>>]

\* A service gets its name, and its name for an id; the defaults are merged with
\* those before them, whose place they take.
AddEntry(conf, entry) ==
  LET map == ProcessEntryParams(entry.parameters)
      name == <<Definition("=", <<entry.name>>)>>
      named == With(map, NAME_PARAM, IF Given(map, NAME_PARAM)
                                     THEN map[NAME_PARAM] \o name ELSE name)
      service == IF Given(named, "id") THEN named
                 ELSE With(named, "id", named[NAME_PARAM])
  IN  IF entry.name = Nothing
      THEN [conf EXCEPT !.defaults = MergeDefaultsIntoService(map, conf.defaults)]
      ELSE [conf EXCEPT !.services = Append(@, service)]

\* An include drops everything found so far and the rest of the file; directories
\* come before the entries; a file that includes itself in turn throws.  `steps' is
\* what a file, and what it includes, does to the configuration, in its order.
Break      == [does |-> "throws"]
Drop       == [does |-> "drops"]
Enter(entry) == [does |-> "enters", entry |-> entry]
Done(conf, step) ==
  CASE conf.thrown \/ step.does = "throws"    -> Broken
    [] ~ conf.thrown /\ step.does = "drops"   -> Fresh
    [] ~ conf.thrown /\ step.does = "enters"  -> AddEntry(conf, step.entry)
ProcessConfigFile(name, stack, conf, files) ==
  LET steps[f \in DOMAIN files, above \in SUBSET DOMAIN files] ==
        LET file == files[f]
            Included(g) == IF g \in above THEN <<Break>> ELSE steps[g, above \cup {g}]
            ProcessIncludeDir(directory) ==
              IF directory = <<Nothing>> THEN <<Break>>
              ELSE FlattenSeq([i \in DOMAIN directory |-> Included(directory[i])])
        IN  IF ~ file.readable THEN <<Break>>
            ELSE IF file.include # Nothing THEN <<Drop>> \o Included(file.include)
            ELSE FlattenSeq([i \in DOMAIN file.directories |->
                               ProcessIncludeDir(file.directories[i])]) \o
                 [i \in DOMAIN file.entries |-> Enter(file.entries[i])]
  IN  FoldLeft(Done, conf, steps[name, stack])

-----------------------------------------------------------------------------
\* What xinetd would know by itself: the protocol of a socket type and back, and
\* the port from the table of services.
FillProtocol(service) ==
  IF Given(service, "socket_type") /\ ~ Given(service, "protocol") /\
     First(service, "socket_type")[1] \in DOMAIN TcpOrUdp
  THEN With(service, "protocol",
            <<Definition("=", <<TcpOrUdp[First(service, "socket_type")[1]]>>)>>)
  ELSE service
FillSocketType(service) ==
  LET types == {t \in DOMAIN TcpOrUdp : TcpOrUdp[t] = First(service, "protocol")[1]}
  IN  IF Given(service, "protocol") /\ ~ Given(service, "socket_type") /\ types # {}
      THEN With(service, "socket_type", <<Definition("=", <<CHOOSE t \in types : TRUE>>)>>)
      ELSE service
FillPort(service, ports) ==
  LET unlisted == Given(service, "type") /\
        Range(First(service, "type")) \cap (AllowedTypes \ {"INTERNAL"}) # {}
      name == First(service, NAME_PARAM)[1]
  IN  IF ~ Given(service, "port") /\ Given(service, "protocol") /\ ~ unlisted /\
         name \in ports
      THEN With(service, "port", <<Definition("=", <<name>>)>>)
      ELSE service
FillInOtherParams(service, ports) ==
  FillPort(FillSocketType(FillProtocol(service)), ports)

\* enabled of the defaults says which services are on, without it disabled says
\* which are off; a service may disable itself.
ResolveEnabled(service) ==
  LET name == First(service, NAME_PARAM)[1]
      Named(list) == name \in Range(First(service, list))
      inDefaults == IF Given(service, "enabled") THEN Named("enabled")
                    ELSE IF Given(service, "disabled") THEN ~ Named("disabled")
                    ELSE TRUE
      inService == ~ Given(service, "disable") \/ First(service, "disable")[1] # "yes"
  IN  inDefaults /\ inService

\* An item has the first definition of each parameter; without a protocol there
\* is none.
Service2Item(service, object) ==
  LET Value(p) == IF Given(service, p) THEN First(service, p) ELSE <<>>
  IN  IF ~ Given(service, "protocol") THEN {}
      ELSE IF First(service, NAME_PARAM)[1] \notin object[1].matches THEN {}
      ELSE IF First(service, "protocol")[1] \notin object[2].matches THEN {}
      ELSE {[status |-> "exists", name |-> First(service, NAME_PARAM)[1],
             protocol |-> First(service, "protocol")[1],
             only_from |-> Value("only_from"), port |-> Value("port"),
             type |-> IF Given(service, "type") /\ First(service, "type")[1] \notin AllowedTypes
                      THEN "not collected" ELSE "exists",
             wait |-> Value("wait") # <<>> /\ Value("wait")[1] = "yes",
             disabled |-> ~ ResolveEnabled(service)]}

XinetdItems(object, files, main, ports) ==
  LET conf == ProcessConfigFile(main, {main}, Fresh, files)
      defaults == NormalizeDefaults(conf.defaults)
      Filled(s) == FillInOtherParams(MergeDefaultsIntoService(s, defaults), ports)
  IN  IF conf.thrown THEN Throws
      ELSE Collects(UNION {Service2Item(Filled(s), object) : s \in Range(conf.services)})

-----------------------------------------------------------------------------
\* The header says: "The values of duplicate parameters are merged together into a
\* single parameter" (see the findings).  One value of each parameter, computed from
\* all its definitions and the defaults.
MergedValues(service, defaults, p) ==
  MergeParamValues(IF Given(service, p) THEN service[p] ELSE <<>>,
                   IF Given(defaults, p) THEN First(defaults, p) ELSE <<>>)[1].values
DuplicatesAreMerged(service, defaults) ==
  LET merged == MergeDefaultsIntoService(service, defaults)
  IN  \A p \in DOMAIN merged : First(merged, p) = MergedValues(service, defaults, p)
=============================================================================
