---------------------------- MODULE LinuxProbes ----------------------------
(***************************************************************************)
(* The probes of src/probes/linux: how each chooses its things, and what    *)
(* its items hold when a call fails.  See Probe.                            *)
(***************************************************************************)
EXTENDS Probe

-----------------------------------------------------------------------------
\* Packages.  With a variable, an operation other than equals asks for the list
\* and drops it (DPKGInfoProbe.cpp:183), so that nothing is found; that the list
\* cannot be read is an error all the same.
Dropped(e) == e.var /\ e.op # "equals"
NamesFound(e, names) == IF Dropped(e) THEN {} ELSE Chosen(e, names)

\* Nothing was found: an item for each value.  A value that is missing beside one
\* that was found has no item.
NoneOf(e, prefix) ==
  IF e.op = "equals" THEN All("does not exist", {Append(prefix, v) : v \in e.values})
  ELSE {}
FoundOrNone(names, e) ==
  Collects(IF names = {} THEN NoneOf(e, <<>>) ELSE All("exists", Single(names)))

DPKGInfo(object, system) ==
  LET name == object[1] IN
  IF ~ Accepts(name, ThreeOperations) THEN Throws
  ELSE IF system.list # "ok" THEN Throws
  ELSE FoundOrNone(NamesFound(name, Firsts(system.there)), name)

\* A package is installed if the first section of its name says so.
DPKGExists(sections, name) ==
  LET mine == {i \in DOMAIN sections : sections[i].name = name}
  IN  /\ mine # {}
      /\ sections[CHOOSE i \in mine : \A j \in mine : i <= j].installed

\* The version splits at its last dash; without one the release is 0, and the
\* epoch is always 0.  `parts' is the version cut at its dashes.
DPKGVersion(parts) ==
  [epoch |-> "0",
   version |-> IF Len(parts) > 1 THEN SubSeq(parts, 1, Len(parts) - 1) ELSE parts,
   release |-> IF Len(parts) > 1 THEN parts[Len(parts)] ELSE "0"]
DPKGItem(os) ==
  IF os.database # "ok" THEN ItemThrows
  ELSE IF os.installed # "ok" THEN NoItem
  ELSE Item("exists", [name |-> "exists", arch |-> "exists", evr |-> "exists"])

-----------------------------------------------------------------------------
RPMInfo(object, system) ==
  LET name  == object[1]
      found == Chosen(name, Firsts(system.there))
  IN  IF ~ Accepts(name, ThreeOperations) \/ system.list # "ok" THEN Throws
      ELSE FoundOrNone(found, name)

\* The signature is asked from a command, whose failure throws.
RPMInfoItem(os) ==
  IF "ok" # os.database \/ os.signature = "fails" THEN ItemThrows
  ELSE Item("exists",
         [version |-> Element(os.version, ByAnswer("exists", "does not exist",
                                                   "does not exist")),
          release |-> Element(os.release, ByAnswer("exists", "does not exist",
                                                   "does not exist")),
          signature_keyid |-> IF os.signature = "ok" THEN "exists"
                              ELSE "does not exist",
          evr |-> "exists"])

\* The texts of the header are declared before the loop over the packages of one
\* name (RPMInfoProbe.cpp:297), and a tag that is missing leaves them alone: the
\* evr of a package takes over the version of the one before.  `headers' are the
\* versions, Nothing where the tag is missing.
EvrOf(headers, i) ==
  LET set == {j \in 1 .. i : headers[j] # Nothing}
  IN  IF set = {} THEN "0" ELSE headers[CHOOSE j \in set : \A k \in set : k <= j]

-----------------------------------------------------------------------------
\* The files of packages: things are <<name, filepath>>, `skipped' are directories
\* and what the behaviors leave out.  There is no iterator over the packages of a
\* name that is not installed, which throws (RpmGuards.h:105); the owner of a file
\* is looked for with care.
PackagesByName(names, system) ==
  IF names \subseteq Firsts(system.there)
  THEN Collects(All("exists", {t \in system.there : t[1] \in names}))
  ELSE Throws
GetPackagesForFilepaths(paths, system) ==
  {t[1] : t \in {u \in system.there : u[2] \in paths}}

RPMVerify(object, skipped, system) ==
  LET considered ==
        IF object[1].op = "equals" THEN PackagesByName(object[1].values, system)
        ELSE IF object[2].op = "equals"
        THEN PackagesByName(GetPackagesForFilepaths(object[2].values, system), system)
        ELSE Collects(All("exists", system.there))
  IN  IF system.list # "ok" \/ considered.thrown THEN Throws
      ELSE Collects({i \in considered.items :
                       i.thing \notin skipped /\ Analyze(object, i.thing)})

\* The later probe does not skip directories.
RPMVerifyFile(object, behaviorSkips, system) == RPMVerify(object, behaviorSkips, system)

\* A file that cannot be looked at is missing (RPMVerifyProbe.cpp:382): nothing is
\* performed, and unless it may be missing the item does not exist.
RPMVerifyItem(os) ==
  IF os.header # "ok" THEN ItemThrows
  ELSE Item(IF os.lstat = "ok" \/ os.missingok = "ok" THEN "exists" ELSE "does not exist",
         [size_differs |-> "exists", md5_differs |-> "exists",
          capabilities_differ |-> "not collected"])
RPMVerifyFileItem(os) ==
  LET item == RPMVerifyItem(os)
      Tag(answer) == Element(answer, ByAnswer("exists", "does not exist",
                                              "does not exist"))
  IN  IF item.kind # "item" THEN item
      ELSE Item(item.status,
             [e \in DOMAIN item.elements \cup {"version", "release"} |->
                CASE e = "version" -> Tag(os.version)
                  [] e = "release" -> Tag(os.release)
                  [] OTHER -> item.elements[e]])

RPMVerifyPackage(object, system) ==
  LET name == object[1] IN
  IF system.list # "ok" THEN Throws
  ELSE IF name.op = "equals" /\ ~ name.values \subseteq Firsts(system.there) THEN Throws
  ELSE Collects(All("exists", Matching(object, system.there)))

\* Two of the four checks are never made, the other two unless a behavior says no.
RPMVerifyPackageItem(os) ==
  IF os.header # "ok" THEN ItemThrows
  ELSE Item("exists",
         [dependency_check_passed |->
            IF os.nodeps = "ok" THEN "not collected" ELSE "exists",
          verification_script_successful |->
            IF os.noscripts = "ok" THEN "not collected" ELSE "exists",
          digest_check_passed |-> "not collected",
          signature_check_passed |-> "not collected"])

-----------------------------------------------------------------------------
\* The packet listeners <<interface, protocol>>, found when the probe is made; one
\* that cannot be traced to its process throws.
IfListeners(object, snapshot) == Collects(All("exists", Matching(object, snapshot)))
PacketListener(os) ==
  IF "ok" # os.line \/ "ok" # os.interface \/ "ok" # os.exe THEN ItemThrows
  ELSE Item("exists",
         [program_name |-> "exists",
          protocol   |-> IF os.protocol = "ok" THEN "exists" ELSE "error",
          hw_address |-> IF os.address = "ok" THEN "exists" ELSE "error"])
\* The process that holds a socket: `fds' are the sockets of each process, in the
\* order of the directory; a process that cannot be looked into throws, unless
\* the owner came before it.
Unread == {Nothing}
FindInodeOwner(inode, fds) ==
  LET owners == {i \in DOMAIN fds : inode \in fds[i]}
      first  == CHOOSE i \in owners : \A j \in owners : i <= j
      walked == IF owners = {} THEN DOMAIN fds ELSE 1 .. first
  IN  IF \E i \in walked : fds[i] = Unread THEN Throws
      ELSE Collects(IF owners = {} THEN {} ELSE {first})

\* Whether a boolean is there is never asked, and -1 of the call that reads it is
\* true in a bool (SelinuxBooleanProbe.cpp:178); if the list cannot be had, the
\* names are what the memory holds.
SelinuxBoolean(object, system) ==
  LET name  == object[1]
      found == IF name.op = "equals" THEN name.values ELSE Firsts(system.there)
      Some(names) == Collects(All("exists", Single(names \cap name.matches)))
  IN  IF name.op = "equals" \/ system.list = "ok" THEN {Some(found)}
      ELSE {Throws} \cup {Some(names) : names \in SUBSET found}
SelinuxBooleanItem(os) ==
  Item("exists", [current_status |-> "exists", pending_status |-> "exists"])
\* A parameter is a file; one by name that cannot be opened is an error, whether it
\* is there or not.
Sysctl(object, system) ==
  LET name == object[1]
      Answer(t) == AnswerFor(t[1], Firsts(system.there), system)
      result == ByAnswer("exists", "error", "error")
  IN  IF name.op = "equals" THEN ReadEach(Single(name.values), Answer, result)
      ELSE IF system.list # "ok" THEN Throws
      ELSE ReadEach(Matching(object, system.there), Answer, result)

\* The lines of mtab, with what the file system says of each, read when the probe
\* is made.
Partition(object, snapshot) == Collects(All("exists", Matching(object, snapshot)))
PartitionItem(os) ==
  IF os.mountpoint # "ok" \/ os.statfs # "ok" THEN ItemThrows
  ELSE Item("exists",
         [uuid |-> IF os.blkid # "ok" THEN "error"
                   ELSE Element(os.uuid, ByAnswer("exists", "does not exist",
                                                  "does not exist")),
          mount_options |-> IF os.options = "ok" THEN "exists" ELSE "does not exist",
          total_space |-> "exists"])

-----------------------------------------------------------------------------
\* The sockets netstat shows: things are <<protocol, local_address, local_port>>.
\* Each level is chosen below the one before, and where a level has nothing there
\* is an item for each value of its entity.
InetListeningServers(object, snapshot) ==
  LET Addresses(p) == NamesFound(object[2], Seconds(snapshot, p))
      Ports(p, a)  == {t[3] : t \in {u \in snapshot : u[1] = p /\ u[2] = a}}
                        \cap object[3].matches
      protocols == NamesFound(object[1], Firsts(snapshot))
      Servers(p, a) ==
        IF Ports(p, a) = {} THEN NoneOf(object[3], <<p, a>>)
        ELSE All("exists", {<<p, a, port>> : port \in Ports(p, a)})
      OfProtocol(p) ==
        IF Addresses(p) = {} THEN NoneOf(object[2], <<p>>)
        ELSE UNION {Servers(p, a) : a \in Addresses(p)}
  IN  IF ~ object[3].typed \/ \E i \in 1 .. 2 : ~ Accepts(object[i], ThreeOperations)
      THEN Throws
      ELSE Collects(IF protocols = {} THEN NoneOf(object[1], <<>>)
                    ELSE UNION {OfProtocol(p) : p \in protocols})
\* What is read of the command: the lines up to one that cannot be read, which
\* throws.  The text is kept before it is parsed (InetListeningServersProbe.cpp
\* :134), so that the next object finds these lines and no exception; a command
\* that did not start leaves an empty text, which is not what netstat writes.
NetstatRecords(lines) ==
  LET bad == {i \in DOMAIN lines : lines[i] = Nothing}
      last == IF bad = {} THEN Len(lines)
              ELSE (CHOOSE i \in bad : \A j \in bad : i <= j) - 1
  IN  [thrown |-> bad # {}, records |-> {lines[i] : i \in 1 .. last}]
InetListeningServerItem(os) ==
  IF os.format # "ok" \/ os.program = "fails" THEN ItemThrows
  ELSE Item("exists", [program_name |-> "exists", local_port |-> "exists",
                       pid |-> "exists", user_id |-> "exists"])

-----------------------------------------------------------------------------
\* The contexts of processes <<pid>> and of files.  A pid of the entity is asked
\* without a look at what there is; an answer that fails is an item with an error.
SelinuxContextOfPids(object, system) ==
  LET pid == object[1]
      Answer(t) == AnswerFor(t[1], Firsts(system.there), system)
      asked == IF pid.op = "equals" THEN pid.values ELSE Firsts(system.there)
  IN  IF pid.op # "equals" /\ system.list # "ok" THEN Throws
      ELSE ReadEach(Single(asked \cap pid.matches), Answer,
                    ByAnswer("exists", "error", "error"))
SelinuxContextOfFiles(object, system) ==
  CollectFiles(object, system, ByAnswer("exists", "throws", "throws"),
               ByAnswer("exists", "throws", "throws"))

\* A range is low-high, each a sensitivity and perhaps a category; what is left out
\* does not exist.
ParseRange(range) ==
  LET Part(i, j) == IF Len(range) >= i /\ Len(range[i]) >= j THEN range[i][j] ELSE Nothing
  IN  IF \E i \in DOMAIN range : range[i] = <<>> THEN Throws
      ELSE Collects({[low_sensitivity  |-> Part(1, 1), low_category  |-> Part(1, 2),
                      high_sensitivity |-> Part(2, 1), high_category |-> Part(2, 2)]})
SelinuxContextItem(os) ==
  LET Part(answer) == IF answer = "ok" THEN "exists" ELSE "does not exist" IN
  IF os.context # "ok" \/ os.rawContext # "ok" THEN Item("error", [pid |-> "exists"])
  ELSE Item("exists", [user |-> "exists", low_sensitivity |-> Part(os.low),
                       high_sensitivity |-> Part(os.high)])
=============================================================================
