------------------------------- MODULE Probing ------------------------------
(***************************************************************************)
(* A probe and the system it looks at: the system changes between two       *)
(* objects, the probe keeps what it has listed before, calls fail.          *)
(* CollectItems is asked one object after another; the items it builds are  *)
(* filled from further calls, each of which may fail.                       *)
(*                                                                         *)
(* The probes are translated one by one in the modules below.  Each has its *)
(* own exceptions to what the whole promises; they are named here, with the *)
(* lines they come from.                                                    *)
(***************************************************************************)
EXTENDS ProbeAlgorithms, Finders

CONSTANTS Probes,        \* the probes a run is about
          ObjectsOf(_),  \* the objects for a probe
          SystemsOf(_),  \* the systems it is asked on
          AnswersOf(_),  \* what the calls that fill its items may answer
          SearchesOf(_)  \* what a finder is asked, and on what

VARIABLES probe,      \* the probe
          system,     \* what the system holds and how it answers
          kept,       \* what the probe has listed before, NotListed before that
          taken,      \* the system it was listed on
          asked,      \* the object it was asked for last, NothingAsked before that
          outcome,    \* how CollectItems ended
          calls,      \* the answers an item was filled from, and what else is so
          built       \* the item

probingVars == <<probe, system, kept, taken, asked, outcome, calls, built>>

NotListed    == {<<Nothing>>}
NothingAsked == <<>>
NoCalls      == [answers |-> <<>>, rest |-> <<>>]

-----------------------------------------------------------------------------
\* What a probe keeps.  These list everything once, when they are made or when
\* they are first asked, and look at the list ever after.
AtConstruction == {"interface", "runlevel", "iflisteners", "partition", "patch54"}
AtFirstUse     == {"inetlisteningserver510", "wininterface", "sharedresource", "port"}
\* The list is kept before it is complete, so that an exception leaves what there
\* was until then: InetListeningServersProbe.cpp:134, NvramProbe.cpp:129, windows
\* ProcessProbe.cpp:161 and Process58Probe.cpp:125.
KeepsPart      == {"inetlisteningservers", "nvram", "winprocess", "winprocess58"}
\* Names are kept once there are any.
KeepsNames     == {"accountinfo", "pwpolicy59"}
Listing == AtConstruction \cup AtFirstUse \cup KeepsPart

\* A slip: every list is kept before it is complete.
EagerSnapshots(p, before, s) ==
  IF before # NotListed THEN {Collects(before)}
  ELSE IF s.list = "ok" THEN {Collects(s.there)}
  ELSE {[Throws EXCEPT !.items = part] : part \in SUBSET s.there}
\* The snapshots a probe may go on with: a directory that cannot be opened is empty
\* for runlevel.
Snapshots(p, before, s) ==
  IF before # NotListed THEN {Collects(before)}
  ELSE IF s.list = "ok" THEN {Collects(s.there)}
  ELSE IF p = "runlevel" THEN {Collects({})}
  ELSE IF p \in KeepsPart THEN {[Throws EXCEPT !.items = part] : part \in SUBSET s.there}
  ELSE {[Throws EXCEPT !.items = NotListed]}
NamesKept(before, s) ==
  IF before = {} /\ s.list = "ok" THEN Firsts(s.there) ELSE before

-----------------------------------------------------------------------------
\* CollectItems of the probes that look at their snapshot.
OnSnapshot(p, o, things) ==
  CASE p = "interface"              -> Interface(o, things)
    [] p = "runlevel"               -> RunLevel(o, things)
    [] p = "iflisteners"            -> IfListeners(o, things)
    [] p = "partition"              -> Partition(o, things)
    [] p = "patch54"                -> Patch54(o, SetToSeq(o[1].values), things, {}, {}, FALSE)
    [] p = "inetlisteningserver510" -> InetListeningServer510(o, things)
    [] p = "inetlisteningservers"   -> InetListeningServers(o, things)
    [] p = "nvram"                  -> Nvram(o, things)
    [] p = "wininterface"           -> WinInterface(o, things)
    [] p = "sharedresource"         -> SharedResource(o, things)
    [] p = "winprocess"             -> WinProcess(o, things)
    [] p = "winprocess58"           -> WinProcess58(o, things)
    [] p = "port"                   -> Port(o, things)

\* The probes of access lists: of services and printers, of files, of registry keys.
OnNames == {"serviceeffectiverights", "printereffectiverights"}
OnFiles == {"fileeffectiverights", "fileeffectiverights53", "fileauditedpermissions",
            "fileauditedpermissions53"}
OnKeys  == {"regkeyeffectiverights", "regkeyeffectiverights53", "regkeyauditedpermissions",
            "regkeyauditedpermissions53"}

\* And of the others.  `before' are the names kept.
IndependentFamily == {"environmentvariable", "variable", "environmentvariable58",
  "own environment", "filehash", "filehash58", "filemd5", "textfilecontent",
  "textfilecontent54", "xmlfilecontent", "ldap"}
UnixFamily == {"file", "password", "shadow", "inetd", "process", "macprocess", "process58"}
LinuxFamily == {"dpkginfo", "rpminfo", "rpmverify", "rpmverifyfile", "rpmverifypackage",
  "selinuxboolean", "sysctl", "selinuxcontext of pids", "selinuxcontext of files"}
AccountFamily == {"dnscache", "group", "groupsid", "user", "usersid", "usersid55"}
RightsFamily == OnNames \cup OnFiles \cup OnKeys \cup {"accesstoken", "sidsid", "sid"}
PolicyFamily == {"volume", "wuaupdatesearcher", "wmi", "wmi57", "metabase", "services",
  "registry", "winfile", "activedirectory"}
FamilyOf(p) ==
  CASE p \in IndependentFamily -> "independent"
    [] p \in UnixFamily        -> "unix"
    [] p \in LinuxFamily       -> "linux"
    [] p \in KeepsNames        -> "mac"
    [] p \in AccountFamily     -> "accounts"
    [] p \in RightsFamily      -> "rights"
    [] p \in PolicyFamily      -> "policy"
    [] OTHER -> "none"

Independent(p, o, s) ==
  CASE p = "environmentvariable"   -> EnvironmentVariable(o, s)
    [] p = "variable"              -> Variable(o, s)
    [] p = "environmentvariable58" -> EnvironmentVariable58(o, s)
    [] p = "own environment"       -> OwnEnvironment(o, s)
    [] p = "filehash"              -> FileHash(o, s)
    [] p = "filehash58"            -> FileHash58(o, s)
    [] p = "filemd5"               -> FileMd5(o, s)
    [] p = "textfilecontent"       -> TextFileContent(o, [o[1] EXCEPT !.op = "pattern match",
                                                                     !.typed = TRUE], s)
    [] p = "textfilecontent54"     -> TextFileContent54(o, s)
    [] p = "xmlfilecontent"        -> XmlFileContent(o, s)
    [] p = "ldap"                  -> LDAP(o, s)
OnUnix(p, o, s) ==
  CASE p = "file"       -> File(o, s)
    [] p = "password"   -> Password(o, s)
    [] p = "shadow"     -> Shadow(o, s)
    [] p = "inetd"      -> Inetd(o, s)
    [] p = "process"    -> Process(o, s)
    [] p = "macprocess" -> MacProcess(o, s)
    [] p = "process58"  -> Process58(o, s)
OnLinux(p, o, s) ==
  CASE p = "dpkginfo"         -> {DPKGInfo(o, s)}
    [] p = "rpminfo"          -> {RPMInfo(o, s)}
    [] p = "rpmverify"        -> {RPMVerify(o, {}, s)}
    [] p = "rpmverifyfile"    -> {RPMVerifyFile(o, {}, s)}
    [] p = "rpmverifypackage" -> {RPMVerifyPackage(o, s)}
    [] p = "selinuxboolean"   -> SelinuxBoolean(o, s)
    [] p = "sysctl"           -> {Sysctl(o, s)}
    [] p = "selinuxcontext of pids"  -> {SelinuxContextOfPids(o, s)}
    [] p = "selinuxcontext of files" -> {SelinuxContextOfFiles(o, s)}
OfAccounts(p, o, s) ==
  CASE p = "dnscache" -> DNSCache(o, s)
    [] p = "group"    -> Group(o, s)
    [] p = "groupsid" -> GroupSid(o, s)
    [] p = "user"     -> User(o, s)
    [] p = "usersid"  -> UserSid(o, s)
    [] p = "usersid55" -> UserSid55(o, s)
OfRights(p, o, s) ==
  CASE p = "serviceeffectiverights" -> ServiceEffectiveRights(o, s)
    [] p = "printereffectiverights" -> PrinterEffectiveRights(o, s)
    [] p = "fileeffectiverights"      -> FileEffectiveRights(o, s)
    [] p = "fileeffectiverights53"    -> FileEffectiveRights53(o, s)
    [] p = "fileauditedpermissions"   -> FileAuditedPermissions(o, s)
    [] p = "fileauditedpermissions53" -> FileAuditedPermissions53(o, s)
    [] p = "regkeyeffectiverights"    -> RegKeyEffectiveRights(o, s)
    [] p = "regkeyeffectiverights53"  -> RegKeyEffectiveRights53(o, s)
    [] p = "regkeyauditedpermissions" -> RegKeyAuditedPermissions(o, s)
    [] p = "regkeyauditedpermissions53" -> RegKeyAuditedPermissions53(o, s)
    [] p = "accesstoken" -> AccessToken(o, s)
    [] p = "sidsid"      -> SidSid(o, s)
    [] p = "sid"         -> Sid(o, s)
OfPolicy(p, o, s, before) ==
  CASE p = "volume"   -> Volume(o, s)
    [] p = "wuaupdatesearcher" -> WUAUpdateSearcher(o, s)
    [] p = "wmi"      -> WMI(o, s)
    [] p = "wmi57"    -> WMI57(o, s)
    [] p = "metabase" -> Metabase(o, s)
    [] p = "services" -> WindowsServices(o, s.there, s)
    [] p = "registry" -> Registry(o, s)
    [] p = "winfile"  -> WinFile(o, s)
    [] p = "activedirectory" -> ActiveDirectory(o, before, s.covered, s)

Outcomes(p, o, s, before) ==
  CASE p \in Listing -> {}
    [] FamilyOf(p) = "independent" -> {Independent(p, o, s)}
    [] FamilyOf(p) = "unix"        -> {OnUnix(p, o, s)}
    [] FamilyOf(p) = "linux"       -> OnLinux(p, o, s)
    [] p = "accountinfo"           -> {AccountInfo(o, s, before)}
    [] p = "pwpolicy59"            -> {PwPolicy59(o, s, before)}
    [] FamilyOf(p) = "accounts"    -> {OfAccounts(p, o, s)}
    [] FamilyOf(p) = "rights"      -> {OfRights(p, o, s)}
    [] FamilyOf(p) = "policy"      -> {OfPolicy(p, o, s, before)}

\* What the probe keeps after the object.
KeptAfter(p, o, s, before, result) ==
  CASE p \in KeepsNames ->
         IF Accepts(o[1], Operations \ {"other"}) THEN NamesKept(before, s) ELSE before
    [] p = "activedirectory" ->
         LET contexts == {c \in Chosen(o[1], Firsts(s.there)) :
                            o[2].op # "equals" /\ ~ o[2].nil}
         IN  IF result.thrown THEN before
             ELSE DistinguishedNames(before, contexts, s.covered, s)
    [] OTHER -> before

-----------------------------------------------------------------------------
\* What is read of one thing, for the probes whose items come from calls of their
\* own.
UnixItem(p, os) ==
  CASE p = "file"       -> FileItem(os)
    [] p = "xmlfilecontent" -> EvaluateXpath(os)
    [] p = "shadow"     -> ShadowItem(os)
    [] p = "interface"  -> InterfaceItem(os)
    [] p = "uname"      -> UnameItem(os)
    [] p = "inetd"      -> InetdItem(os)
    [] p = "process"    -> ProcessItem(os)
    [] p = "process58"  -> Process58Item(os)
    [] p = "solarisprocess"   -> SolarisProcessItem(os)
    [] p = "solarisprocess58" -> SolarisProcess58Item(os)
    [] p = "macprocess"       -> MacProcessItem(os)
    [] p = "macprocess58"     -> MacProcess58Item(os)
LinuxItem(p, os) ==
  CASE p = "dpkginfo"         -> DPKGItem(os)
    [] p = "rpminfo"          -> RPMInfoItem(os)
    [] p = "rpmverify"        -> RPMVerifyItem(os)
    [] p = "rpmverifyfile"    -> RPMVerifyFileItem(os)
    [] p = "rpmverifypackage" -> RPMVerifyPackageItem(os)
    [] p = "iflisteners"      -> PacketListener(os)
    [] p = "partition"        -> PartitionItem(os)
    [] p = "inetlisteningservers"   -> InetListeningServerItem(os)
    [] p = "selinuxcontext of pids" -> SelinuxContextItem(os)
    [] p = "selinuxboolean" -> SelinuxBooleanItem(os)
    [] p = "accountinfo" -> AccountInfoItem(os)
    [] p = "inetlisteningserver510" -> InetListeningServer510Item(os)
    [] p = "nvram"       -> NvramItem(os)
    [] p = "pwpolicy59"  -> PwPolicy59Item(os)
    [] p = "isainfo"     -> IsainfoItem(os)
    [] p = "patch54"     -> PatchPackage(os)
WindowsItem(p, os) ==
  CASE p = "wininterface" -> WinInterfaceItem(os)
    [] p = "winprocess"   -> WinProcessItem(os)
    [] p = "winprocess58" -> WinProcess58Item(os)
    [] p = "dnscache"     -> DNSCacheItem(os)
    [] p = "group"        -> GroupItem(os)
    [] p = "user"         -> UserItem(os)
    [] p = "usersid"      -> UserSidItem(os)
    [] p = "serviceeffectiverights" -> RightsItem(os)
    [] p = "fileauditedpermissions" -> AuditItem(os)
    [] p = "sharedresource" -> SharedResourceItem(os)
    [] p = "accesstoken"  -> AccessTokenItem(os)
    [] p = "wmi"          -> WMIItem(os)
    [] p = "wmi57"        -> WMI57Item(os)
    [] p = "activedirectory" -> ActiveDirectoryItem(os)
    [] p = "lockoutpolicy"  -> LockoutPolicyItem(os)
    [] p = "passwordpolicy" -> PasswordPolicyItem(os)
    [] p = "auditeventpolicy"   -> AuditEventPolicyItem(os, os.elements)
    [] p = "auditsubcategories" -> AuditSubcategories(os, os.elements)
    [] p = "services"     -> ServiceItem(os)
    [] p = "registry"     -> RegistryItem(os)
    [] p = "winfile"      -> WinFileItem(os)
UnixItems == {"file", "xmlfilecontent", "shadow", "interface", "uname", "inetd", "process", "process58",
              "solarisprocess", "solarisprocess58", "macprocess", "macprocess58"}
WindowsItems == {"wininterface", "winprocess", "winprocess58", "dnscache", "group", "user",
                 "usersid", "serviceeffectiverights", "fileauditedpermissions",
                 "sharedresource", "accesstoken", "wmi", "wmi57", "activedirectory",
                 "lockoutpolicy", "passwordpolicy", "auditeventpolicy",
                 "auditsubcategories", "services", "registry", "winfile"}
LinuxItems == {"dpkginfo", "rpminfo", "rpmverify", "rpmverifyfile", "rpmverifypackage",
               "iflisteners", "partition", "inetlisteningservers", "selinuxcontext of pids",
               "selinuxboolean",
               "accountinfo", "inetlisteningserver510", "nvram", "pwpolicy59", "isainfo",
               "patch54"}
FilledItem(p, os) ==
  CASE p \in UnixItems  -> UnixItem(p, os)
    [] p \in LinuxItems -> LinuxItem(p, os)
    [] p \in WindowsItems -> WindowsItem(p, os)

\* Probes that have but one item, of the system itself.
OneItem == {"uname", "isainfo", "lockoutpolicy", "passwordpolicy", "auditeventpolicy",
            "auditsubcategories",
            "solarisprocess", "solarisprocess58", "macprocess58"}
Finder == {"filefinder", "registryfinder"}
Collectors == IndependentFamily \cup UnixFamily \cup LinuxFamily \cup KeepsNames
                \cup AccountFamily \cup RightsFamily \cup PolicyFamily
ASSUME ProbesAssumption ==
  Probes \subseteq Listing \cup Collectors \cup OneItem \cup Finder \cup Algorithm

-----------------------------------------------------------------------------
\* The entities of an object, and the names of a thing: a path and a filename or a
\* filepath alone, and what comes with a file.
OfFile == {"filehash", "filemd5", "textfilecontent", "textfilecontent54", "xmlfilecontent",
           "file", "winfile", "selinuxcontext of files"}
TwoEntities == {"environmentvariable58", "own environment", "inetd", "process58", "rpmverify",
  "rpmverifyfile", "rpmverifypackage", "wmi", "wmi57", "metabase", "runlevel", "iflisteners",
  "patch54", "winprocess58"} \cup OnNames
WithNil == {"ldap", "registry", "activedirectory"}
ThreeEntities == {"port", "inetlisteningservers", "inetlisteningserver510"} \cup WithNil \cup OnKeys
ObjectLengths(p) ==
  CASE p \in OfFile -> {1, 2}
    [] p \in OnFiles \cup {"filehash58"} -> {2, 3}
    [] p \in TwoEntities -> {2}
    [] p \in ThreeEntities -> {3}
    [] OTHER -> {1}
ThingLengths(p) ==
  CASE p \in {"process", "macprocess"} -> {2}
    [] p = "filehash58" -> {1, 2}
    [] OTHER -> ObjectLengths(p)

\* Which entities may be nil; without a variable the others have one value.  What is
\* below a key that is nil is nil.
MayBeNil(p) ==
  CASE p \in OfFile \cup OnFiles \cup {"filehash58", "metabase"} -> {2}
    [] p \in WithNil -> {2, 3}
    [] p = "own environment" -> {1}
    [] OTHER -> {}
IsObject(p, o) ==
  /\ o \in Seq(Entity) /\ Len(o) \in ObjectLengths(p)
  /\ \A i \in DOMAIN o : IF o[i].nil THEN i \in MayBeNil(p) /\ o[i].values = {}
                         ELSE o[i].var \/ o[i].values # {}
  /\ p \in WithNil => (o[2].nil => o[3].nil)
ASSUME ObjectsAssumption == \A p \in Probes : \A o \in ObjectsOf(p) : IsObject(p, o)

\* Everything has its names, and the accounts in an access list are known.
AreThings(p, things) ==
  \A t \in things : t \in Seq(Names \cup {Nothing}) /\ Len(t) \in ThingLengths(p)
IsSystem(p, s) ==
  /\ s.read \in [Names -> Answers]
  /\ IsFiniteSet(s.there) /\ AreThings(p, s.there)
  /\ FamilyOf(p) = "rights" => \A t \in s.there : t[Len(t)] \in s.known \cup {Nothing}
ASSUME SystemsAssumption ==
  \A p \in Probes \ (Finder \cup Algorithm) : \A s \in SystemsOf(p) : IsSystem(p, s)

-----------------------------------------------------------------------------
\* The calls that fill an item, and what else decides which of them are made.
CallsOf(p) ==
  CASE p = "file"      -> {"lstat", "acl"}
    [] p = "uname"     -> {"uname", "sysinfo"}
    [] p = "runlevel"  -> {"stat"}
    [] p = "process"   -> {"uptime", "cmdline", "directory", "stat", "status", "policy"}
    [] p = "process58" -> {"uptime", "directory", "stat", "status", "uid", "caps",
                           "loginuid", "selinux", "policy"}
    [] p \in {"solarisprocess", "solarisprocess58"} -> {"psinfo", "device"}
    [] p \in {"macprocess", "macprocess58"} -> {"sysctl", "device"}
    [] p = "dpkginfo"  -> {"database", "installed"}
    [] p = "rpminfo"   -> {"database", "signature", "version", "release"}
    [] p = "rpmverify" -> {"header", "lstat"}
    [] p = "rpmverifyfile" -> {"header", "lstat", "version", "release"}
    [] p = "rpmverifypackage" -> {"header"}
    [] p = "iflisteners" -> {"line", "interface", "exe", "protocol", "address"}
    [] p = "partition" -> {"mountpoint", "statfs", "blkid", "uuid"}
    [] p = "inetlisteningservers" -> {"format", "program"}
    [] p = "selinuxcontext of pids" -> {"context", "rawContext"}
    [] p = "accountinfo" -> {"dscl"}
    [] p = "pwpolicy59" -> {"pwpolicy", "integer", "boolean"}
    [] p = "isainfo"   -> {"application", "kernel"}
    [] p = "patch54"   -> {"stat", "pkginfo", "read"}
    [] p = "winprocess" -> {"open", "close", "image", "line", "directory"}
    [] p = "winprocess58" -> {"open", "close", "image", "line", "directory", "times",
                              "window", "dep"}
    [] p = "dnscache"  -> {"query", "address"}
    [] p = "group"     -> {"group"}
    [] p = "user"      -> {"account", "global", "local"}
    [] p = "usersid"   -> {"sid", "account", "global", "local"}
    [] p \in {"serviceeffectiverights", "fileauditedpermissions"} -> {"sid", "rights"}
    [] p = "accesstoken" -> {"enumerate"}
    [] p \in {"wmi", "wmi57"} -> {"query"}
    [] p = "activedirectory" -> {"kind"}
    [] p = "selinuxboolean" -> {"active", "pending"}
    [] p = "xmlfilecontent" -> {"parse", "evaluate"}
    [] p = "lockoutpolicy" -> {"force", "lockout"}
    [] p = "passwordpolicy" -> {"modals", "export"}
    [] p = "auditeventpolicy" -> {"policy"}
    [] p = "auditsubcategories" -> {"policy", "categories", "subcategories", "query"}
    [] p = "services"  -> {"open", "config", "description", "status"}
    [] p = "registry"  -> {"key", "name", "time"}
    [] p = "winfile"   -> {"open", "owner", "attributes", "type", "checksum", "version"}
    [] OTHER -> {}
DecidedBy(p) ==
  CASE p = "file"    -> {"linux"}
    [] p = "winfile" -> {"directory"}
    [] p = "passwordpolicy"     -> {"wmi"}
    [] p = "auditsubcategories" -> {"auditing"}
    [] OTHER -> {}

\* An item is filled when every call has its answer.
ASSUME AnswersAssumption ==
  \A p \in Probes : \A a \in AnswersOf(p) :
    DOMAIN a.answers = CallsOf(p) /\ DecidedBy(p) \subseteq DOMAIN a.rest

FilledItems(p, answers) ==
  LET os == Joined(answers.answers, answers.rest)
  IN  IF p = "runlevel" THEN RunLevelItems(os) ELSE {FilledItem(p, os)}

-----------------------------------------------------------------------------
\* The system of a run that fills an item: nothing of it but the answers matters.
Unobserved == [there |-> {}]

NothingKept(p) == IF p \in KeepsNames \cup {"activedirectory"} THEN {} ELSE NotListed

ProbingInit ==
  /\ probe \in Probes
  /\ system \in SystemsOf(probe) \cup {Unobserved}
  /\ kept = NothingKept(probe) /\ taken = system
  /\ asked = NothingAsked /\ outcome = Collects({})
  /\ calls = NoCalls /\ built = NoItem

\* CollectItems of a probe that lists first.  A constructor that throws leaves no
\* probe behind, which is then made again.
CollectListed(o) ==
  /\ probe \in Listing /\ asked = NothingAsked /\ system # Unobserved
  /\ \E snapshot \in Snapshots(probe, kept, system) :
       /\ kept' = snapshot.items
       /\ outcome' = IF snapshot.thrown THEN Throws
                     ELSE OnSnapshot(probe, o, snapshot.items)
  /\ taken' = IF kept = NotListed THEN system ELSE taken
  /\ asked' = o
  /\ UNCHANGED <<probe, system, calls, built>>

Collect(o) ==
  /\ probe \notin Listing \cup OneItem \cup Finder \cup Algorithm
  /\ asked = NothingAsked /\ system # Unobserved
  /\ outcome' \in Outcomes(probe, o, system, kept)
  /\ kept' = KeptAfter(probe, o, system, kept, outcome')
  /\ taken' = IF kept = NothingKept(probe) THEN system ELSE taken
  /\ asked' = o
  /\ UNCHANGED <<probe, system, calls, built>>

PathsFound(found) == [thrown |-> found.thrown, items |-> {found.paths}]
\* What the finder is asked by the probes of files and of the registry.
Search(question) ==
  /\ probe \in Finder /\ asked = NothingAsked /\ system # Unobserved
  /\ outcome' = IF probe = "registryfinder"
                THEN Collects(GetKeys(system, question.entity, question.behaviors))
                ELSE PathsFound(
                       IF question.filepath
                       THEN GetFilePaths(system, question.os, question.entity)
                       ELSE SearchFilesOf(system, question.os, question.entity,
                                          question.file, question.behaviors))
  /\ asked' = <<question>>
  /\ UNCHANGED <<probe, system, kept, taken, calls, built>>

\* What an algorithm inside of a probe makes of its input.
Work(question) ==
  /\ probe \in Algorithm /\ asked = NothingAsked /\ system # Unobserved
  /\ outcome' = Worked(probe, question)
  /\ asked' = <<question>>
  /\ UNCHANGED <<probe, system, kept, taken, calls, built>>

\* An item of a thing that was chosen.
Unfilled == system = Unobserved /\ calls = NoCalls
Fill(answers) ==
  /\ probe \in UnixItems \cup LinuxItems \cup WindowsItems \cup {"runlevel"}
  /\ calls' = answers
  /\ built' \in FilledItems(probe, answers)
  /\ UNCHANGED <<probe, system, kept, taken, asked, outcome>>

\* The next object, perhaps on another system.
Continue ==
  /\ asked # NothingAsked
  /\ asked' = NothingAsked /\ outcome' = Collects({})
  /\ UNCHANGED <<probe, system, kept, taken, calls, built>>
Change ==
  /\ asked = NothingAsked /\ kept # NothingKept(probe)
  /\ system' \in SystemsOf(probe)
  /\ UNCHANGED <<probe, kept, taken, asked, outcome, calls, built>>

ProbingNext ==
  \/ \E o \in ObjectsOf(probe) : CollectListed(o) \/ Collect(o)
  \/ \E q \in SearchesOf(probe) : Search(q) \/ Work(q)
  \/ Unfilled /\ \E a \in AnswersOf(probe) : Fill(a)
  \/ Continue
  \/ Change
ProbingSpec == ProbingInit /\ [][ProbingNext]_probingVars

-----------------------------------------------------------------------------
\* The things an object means: each entity is true of the name in its place, and a
\* nil entity stands for the thing as a whole.
Meaning(o, things) ==
  {[i \in DOMAIN t |-> IF i \in DOMAIN o /\ o[i].nil THEN Nothing ELSE t[i]] :
     t \in {u \in things : /\ Analyze(o, u)
                           /\ \A i \in DOMAIN o : o[i].nil \/ u[i] # Nothing}}
Alike(p, o, things) ==
  {t \in things : /\ p \in OfFile \cup OnFiles => Len(t) = Len(o)
                  /\ p = "filehash58" => Len(t) = Len(o) - 1}
Digests(o, things) ==
  {Append(t, d) : t \in {u \in Meaning(SubSeq(o, 1, Len(o) - 1), things) :
                           u[Len(u)] # Nothing},
                  d \in o[Len(o)].matches}
\* A trustee that must be equal is an account, in the list or not.
AccessLists == OnNames \cup OnFiles \cup OnKeys
Accounts == {"accesstoken", "sidsid", "sid"}
OfTrustees(o, containers, s) ==
  LET e == o[Len(o)]
      List(c) == IF e.op = "equals" THEN (e.values \cap s.known) \cup AccessList(c, s.there)
                 ELSE AccessList(c, s.there)
  IN  UNION {{Append(c, t) : t \in List(c) \cap e.matches} :
               c \in Meaning(SubSeq(o, 1, Len(o) - 1), containers)}
Wanted(p, o, things, s) ==
  CASE p = "filehash58" -> Digests(o, Alike(p, o, things))
    [] p = "textfilecontent54" -> {t \in Meaning(o, Alike(p, o, things)) : t[Len(t)] # Nothing}
    [] p \in AccessLists -> OfTrustees(o, Containers(things), s)
    [] p \in Accounts /\ o[1].op \in {"equals", "case insensitive equals"} ->
         Single(o[1].matches \cap ((o[1].values \cap s.known) \cup
                                   (IF o[1].var /\ p # "sid" THEN Firsts(things) ELSE {})))
    [] OTHER -> Meaning(o, Alike(p, o, things))

Looked    == probe \notin Finder \cup Algorithm /\ asked # NothingAsked /\ ~ outcome.thrown
Holds     == IF probe \in Listing THEN kept ELSE system.there
Means     == Wanted(probe, asked, Holds, system)
AllAnswer(s) == s.list = "ok" /\ \A n \in Names : s.read[n] = "ok"
WithStatus(status) == {i.thing : i \in {j \in outcome.items : j.status = status}}

\* Where an entity says equals its values are the candidates, even if the check of the
\* variable is true of other names.
OnlyValues(o) == \A i \in DOMAIN o : o[i].op = "equals" => o[i].matches \subseteq o[i].values
Checks(o) == \E i \in DOMAIN o : o[i].op = "equals" /\ ~ o[i].nil /\ o[i].matches # o[i].values
Several(e) == e.op = "equals" /\ Cardinality(e.values) > 1

-----------------------------------------------------------------------------
\* The exceptions.  These make an item of each value without a look at the check.
Unchecked == {"password", "shadow", "dnscache", "group", "groupsid", "volume", "wmi",
              "wmi57", "wuaupdatesearcher", "sysctl"}
\* Found although it is not meant: a boolean is never asked whether it is there
\* (SelinuxBooleanProbe.cpp:136), the processes of one value are found again under
\* the next (Process58Probe.cpp:257).
MayInvent(p, o) ==
  \/ p \in Unchecked /\ Checks(o)
  \/ p = "selinuxboolean" /\ o[1].op = "equals"
  \/ p = "process58" /\ Several(o[1])
\* Meant and not found: the list is asked for and dropped (DPKGInfoProbe.cpp:183,
\* InetListeningServersProbe.cpp:335), one process stands for all that have its
\* command (ProcessProbe.cpp:762), the last value replaces the others
\* (Patch54Probe.cpp:120), an account of the variable must be in the list
\* (AccessTokenProbe.cpp:132, SidSidProbe.cpp:186), the names of one context are those
\* of all (ActiveDirectoryProbe.cpp:636).
MayMiss(p, o) ==
  \/ p \in {"dpkginfo", "inetlisteningservers"} /\ \E i \in DOMAIN o : Dropped(o[i])
  \/ p \in {"process", "macprocess"} /\ o[1].op = "equals"
  \/ p = "patch54" /\ Several(o[1])
  \/ p \in {"accesstoken", "sidsid"} /\ o[1].op = "equals" /\ o[1].var
  \/ p = "activedirectory"
\* A failure that is written to the log or nowhere: LDAPProbe.cpp:420,
\* MetabaseProbe.cpp:220, GetLines of TextFileContentProbe.cpp:187, the access lists,
\* the list of booleans (SelinuxBooleanProbe.cpp:165), and a command that prints
\* nothing (CommandReader.cpp:14).
OnlyLogged == AccessLists \cup {"ldap", "metabase", "textfilecontent", "selinuxboolean"}
                \cup KeepsNames
\* Said not to exist although it is there: what could not be searched or opened
\* (LDAPProbe.cpp:531, MetabaseProbe.cpp:235), what the kept names do not cover
\* (ActiveDirectoryProbe.cpp:672), a command none of whose processes has the pid
\* (Process58Probe.cpp:198).
LooksAbsent == {"ldap", "metabase", "activedirectory", "process58"}
\* A list that is kept although it could not be read, and names that are kept for
\* other contexts.
KeepsTheFailure == KeepsPart \cup {"runlevel"}

\* What an object means is what its items say exists, for every probe, object and
\* system that answers: the values of an equals that are looked up, the lists that are
\* gone through, the levels one below the other come to the same as evaluating the
\* entities on each thing there is (CollectItems of each probe).
FindsTheMeaning ==
  Looked /\ AllAnswer(system) /\ (probe \in Listing \/ taken = system) =>
    /\ WithStatus("exists") \subseteq Means \/ MayInvent(probe, asked)
    /\ \/ Means \subseteq WithStatus("exists")
       \/ MayMiss(probe, asked) \/ ~ OnlyValues(asked)

\* A thing that is meant and cannot be read is not passed over in silence: it has an
\* item, or some item is an error, or it has gone since it was listed.
FailureIsSeen ==
  Looked => \A t \in Means :
    \/ t \in WithStatus("exists")
    \/ "error" \in {i.status : i \in outcome.items}
    \/ \E i \in DOMAIN t : t[i] # Nothing /\ system.read[t[i]] = "absent"
    \/ MayMiss(probe, asked) \/ probe \in OnlyLogged \/ ~ OnlyValues(asked)

\* An item that says a thing does not exist stands for a value that is looked up by its
\* name and is not there, or for a name that was asked for and was gone when it was read.
\* A failure is not an absence (the code after each call of CollectItems that answers
\* that there is no such thing).
Sought(e) == IF e.op \in {"equals", "case insensitive equals"} THEN e.values ELSE {}
AbsenceIsReal ==
  Looked => \A t \in WithStatus("does not exist") :
    \/ \E i \in DOMAIN asked \cap DOMAIN t :
         \/ \E v \in asked[i].matches \cup Sought(asked[i]) : system.read[v] = "absent"
         \/ \E v \in Sought(asked[i]) : \A u \in Alike(probe, asked, Holds) :
              u[i] # v \/ \E j \in 1 .. i - 1 : t[j] \notin {Nothing, u[j]}
    \/ Checks(asked) \/ probe \in LooksAbsent

\* What is kept between two objects does not change the answer to the second: a list
\* that failed is read again (the constructors, and CollectItems where it fills a
\* list that is a member).
AnswersForgetTheOthers ==
  Looked /\ taken = system =>
    \/ IF probe \in Listing THEN kept = system.there
       ELSE outcome \in Outcomes(probe, asked, system, NothingKept(probe))
    \/ probe \in KeepsTheFailure /\ system.list # "ok"
    \/ probe = "activedirectory"

\* Failures of which the item says nothing.  The thing is passed over:
PassedOver ==
  {<<"dpkginfo", "installed">>, <<"process", "directory">>, <<"process58", "directory">>,
   <<"runlevel", "stat">>, <<"serviceeffectiverights", "sid">>,
   <<"fileauditedpermissions", "sid">>,
   <<"passwordpolicy", "modals">>, <<"winprocess", "open">>, <<"winprocess", "image">>,
   <<"winprocess58", "open">>, <<"winprocess58", "image">>}
\* or the element does not exist, or is left out, or says what a failure is not: a
\* boolean that cannot be read is true (SelinuxBooleanProbe.cpp:178), an account whose
\* rights cannot be listed has none (AccessTokenProbe.cpp:228).
LeftOut ==
  {<<p, "device">> : p \in {"solarisprocess", "solarisprocess58", "macprocess",
                            "macprocess58"}} \cup
  {<<p, c>> : p \in {"rpminfo", "rpmverifyfile"}, c \in {"version", "release"}} \cup
  {<<p, c>> : p \in {"winprocess", "winprocess58"}, c \in {"line", "directory", "window"}} \cup
  {<<p, "lstat">> : p \in {"rpmverify", "rpmverifyfile"}} \cup
  {<<"lockoutpolicy", "force">>, <<"lockoutpolicy", "lockout">>,
   <<"partition", "uuid">>, <<"process", "stat">>, <<"process", "status">>,
   <<"selinuxboolean", "active">>, <<"selinuxboolean", "pending">>,
   <<"accesstoken", "enumerate">>}
\* Calls that are not made: for access control lists but on Linux, for the version of a
\* directory, for an export when WMI has answered.
NotMade(c) ==
  \/ probe = "file" /\ c = "acl" /\ calls.rest.linux # "ok"
  \/ probe = "winfile" /\ c \in {"version", "checksum"} /\ calls.rest.directory
  \/ probe = "passwordpolicy" /\ c = "export" /\ calls.rest.wmi # <<>>
  \/ probe = "auditsubcategories" /\ c # "policy" /\ ~ calls.rest.auditing
Told(i) == \/ i.kind = "throws"
           \/ i.kind = "item" /\ (i.status = "error" \/
                \E e \in DOMAIN i.elements : i.elements[e] = "error")

\* A call that fails, the others being well, leaves an error in the item or is an
\* exception, but for those named (the code after each call of the probes).
FailureIsTold ==
  \A c \in DOMAIN calls.answers :
    /\ calls.answers[c] = "fails" /\ <<probe, c>> \notin PassedOver \cup LeftOut
    /\ ~ NotMade(c)
    /\ \A d \in DOMAIN calls.answers \ {c} : calls.answers[d] = "ok"
    => Told(built)

-----------------------------------------------------------------------------
\* What a finder is asked for, said of each path by itself and without a walk.  A path
\* that is asked for is there if it is a directory, and on Windows if it leads to a
\* directory or to a file.  A directory below it is reached if everything in between can
\* be opened and, on Windows, no name on the way is hidden.
Question == asked[1]
Above(path) == {SubSeq(path, 1, n) : n \in 0 .. Len(path) - 1}
IsPath(fs, os, p) == IF os = "windows" THEN Stat(fs, p) \in {"directory", "file"}
                     ELSE Lstat(fs, p) = "directory"
Reached(fs, os, start) ==
  LET base == Resolve(fs, start).at
      way(d) == SubSeq(d, Len(base) + 1, Len(d))
      below == {d \in fs.dirs :
                  /\ IsPrefix(base, d)
                  /\ \A a \in Above(d) : Len(a) >= Len(base) => a \notin fs.closed
                  /\ os = "windows" => Range(way(d)) \cap fs.hidden = {}}
  IN  IF IsPath(fs, os, start) THEN {start \o way(d) : d \in below} ELSE {}
PathsByOperation(fs, os, op, query, matches) ==
  CASE op = "pattern match" /\ query.constant ->
         {p \in {query.start} : IsPath(fs, os, p) /\ (os = "windows" => p \in matches)}
    [] op = "pattern match" /\ ~ query.constant -> Reached(fs, os, query.start) \cap matches
    [] OTHER -> Reached(fs, os, Root) \cap matches
IsTheText(os, op) == op = "equals" \/ (os = "windows" /\ op = "case insensitive equals")
ValuePaths(fs, os, entity, query) ==
  IF IsTheText(os, entity.op) THEN {p \in {query.text} : IsPath(fs, os, p)}
  ELSE {p \in PathsByOperation(fs, os, entity.op, query, query.matches) :
          entity.op = "case insensitive equals" => Len(p) = Len(query.text)}

\* Below a path, as deep as the behavior says: unix goes through links that lead to a
\* directory, and MaxBelow names are more than any path of it has.
MaxBelow == 4
BelowPath(fs, os, path, depth) ==
  LET Leads(p) == IF os = "unix" THEN Stat(fs, p) = "directory"
                  ELSE Lstat(fs, p) = "directory" /\ Last(p) \notin fs.hidden
      level[n \in 0 .. MaxBelow] ==
        IF n = 0 THEN {path}
        ELSE {p \in UNION {Children(fs, q) : q \in level[n - 1]} : Leads(p)}
      deepest == IF depth = -1 \/ depth > MaxBelow THEN MaxBelow ELSE depth
  IN  UNION {level[n] : n \in 1 .. deepest}
AbovePath(path, depth) ==
  {IF a = Root THEN TopParent ELSE a :
     a \in {b \in Above(path) : depth = -1 \/ Len(b) >= Len(path) - depth}}
PathsMeant(fs, q) ==
  LET chosen == {p \in UNION {ValuePaths(fs, q.os, q.entity, q.entity.queries[i]) :
                                i \in DOMAIN q.entity.queries} :
                   q.entity.var => p \in q.entity.matches}
  IN  chosen \cup
      CASE q.behaviors.direction = "up" ->
             UNION {AbovePath(p, q.behaviors.depth) : p \in chosen}
        [] q.behaviors.direction = "down" ->
             UNION {BelowPath(fs, q.os, p, q.behaviors.depth) : p \in chosen}
        [] OTHER -> {}
\* A file is what is not a directory; on Windows not what leads to one either.  Above
\* the paths at the top Windows has the root, and unix nothing.  Only a file that is
\* asked for by its name may be hidden on Windows.
IsFile(fs, os, f) == IF os = "windows" THEN Stat(fs, f) = "file"
                     ELSE Lstat(fs, f) \in {"file", "link"}
FilesOf(fs, q, p, op) ==
  LET at == IF p = TopParent /\ q.os = "windows" THEN Root ELSE p
  IN  {Append(p, n) : n \in {m \in Entries(fs, Resolve(fs, at).at) :
         /\ IsFile(fs, q.os, Append(at, m))
         /\ q.os = "windows" /\ m \in fs.hidden => IsTheText(q.os, op)}}
FilesMeant(fs, q) ==
  {f \in UNION {FilesOf(fs, q, p, q.file.op) : p \in PathsMeant(fs, q)} :
     /\ q.file.var => Last(f) \in q.file.matches
     /\ \E i \in DOMAIN q.file.queries : Last(f) \in q.file.queries[i].matches}

FilepathsMeant(fs, q) ==
  LET op == q.entity.op
      Places(r) ==
        IF IsTheText(q.os, op) THEN {p \in {Front(r.text)} : IsPath(fs, q.os, p)}
        ELSE {p \in PathsByOperation(fs, q.os, op, r, r.directories) :
                op = "case insensitive equals" => Len(p) = Len(r.text) - 1}
      OfQuery(r) == UNION {FilesOf(fs, q, p, op) : p \in Places(r)} \cap
                    IF IsTheText(q.os, op) THEN {r.text} ELSE r.matches
  IN  {f \in UNION {OfQuery(q.entity.queries[i]) : i \in DOMAIN q.entity.queries} :
         q.entity.var => f \in q.entity.matches}

\* Why a search is given up.  Unix: a directory that cannot be opened, links that do not
\* end, a behavior that it does not know, or the empty text above a path at the top
\* (unix/FileFinder.cpp:291, :425, :446 and :108, Common.cpp:560).
\* Windows: a directory that cannot be listed, a handle that is refused, a file that is
\* taken for a directory because there is a handle for it, or a directory that is asked
\* for as a file (windows/FileFinder.cpp:309, :400, :641, :493, :568).
GivenUpOnUnix(fs, q) ==
  \/ fs.closed # {}
  \/ DOMAIN fs.links # {} /\ q.behaviors.direction = "down"
  \/ q.behaviors.direction # "none" /\ ~ q.behaviors.supported
  \/ q.behaviors.direction = "up" /\ ~ q.file.nil
GivenUpOnWindows(fs, q) ==
  LET starts == UNION {{r.text, r.start} : r \in Range(q.entity.queries)}
      named  == IF q.filepath THEN {r.text : r \in Range(q.entity.queries)}
                ELSE {Append(p, r.text) : p \in fs.dirs \cup DOMAIN fs.links,
                                          r \in Range(q.file.queries)}
      op     == IF q.filepath THEN q.entity.op ELSE q.file.op
  IN  \/ fs.closed \cup fs.locked # {}
      \/ \E p \in starts : Stat(fs, p) = "file" /\ ~ q.filepath
      \/ IsTheText(q.os, op) /\ \E f \in named : Stat(fs, f) = "directory"

\* The same of the keys of a hive; one that is foreign, and everything below it, is not
\* found by a walk.
WalkOf(entity, query) == IF entity.op = "pattern match" THEN query.start ELSE Root
Opened(hive, key) == \A k \in {key} \cup Above(key) : KeyExists(hive, k)
KeysMeant(hive, q) ==
  LET e == q.entity
      Walked(k, start) == /\ IsPrefix(start, k) /\ k # Root /\ Opened(hive, k)
                          /\ \A a \in Above(k) \cup {k} :
                               Len(a) > Len(start) => a \notin hive.foreign
      OfQuery(r) ==
        CASE e.op = "equals" -> {k \in {r.text} : KeyExists(hive, k)}
          [] e.op = "pattern match" /\ r.constant -> {k \in {r.start} : KeyExists(hive, k)}
          [] OTHER -> {k \in hive.keys \cap r.matches : Walked(k, WalkOf(e, r))}
      chosen == {k \in UNION {OfQuery(e.queries[i]) : i \in DOMAIN e.queries} :
                   e.var /\ e.op # "equals" => k \in e.matches}
      Relatives(k) ==
        CASE q.behaviors.direction = "up" ->
               {IF a = Root THEN HiveName ELSE a :
                  a \in {b \in Above(k) : \/ q.behaviors.depth = -1
                                          \/ Len(b) >= Len(k) - q.behaviors.depth}}
          [] q.behaviors.direction = "down" ->
               {b \in hive.keys : /\ IsPrefix(k, b) /\ b # k
                                  /\ \A a \in Above(b) : Len(a) >= Len(k) => KeyExists(hive, a)
                                  /\ \/ q.behaviors.depth = -1
                                     \/ Len(b) <= Len(k) + q.behaviors.depth}
          [] OTHER -> {}
  IN  IF e.nil THEN {Root} ELSE chosen \cup UNION {Relatives(k) : k \in chosen}

\* What the finders find is exactly what is asked for: the walks, the recursion up and
\* down to a depth, variables and patterns come to one condition on each path
\* (AbsFileFinder::GetPaths and GetFilePaths, FileFinder of unix and of windows,
\* RegistryFinder::GetKeys).  A search is given up for one of the reasons above.
FoundPaths == UNION {Range(paths) : paths \in outcome.items}
FindersAreExact ==
  /\ probe = "filefinder" /\ asked # NothingAsked /\ ~ outcome.thrown =>
       FoundPaths = CASE Question.filepath -> FilepathsMeant(system, Question)
                 [] ~ Question.filepath /\ Question.file.nil -> PathsMeant(system, Question)
                 [] OTHER -> FilesMeant(system, Question)
  /\ probe = "filefinder" /\ outcome.thrown =>
       IF Question.os = "unix" THEN GivenUpOnUnix(system, Question)
       ELSE GivenUpOnWindows(system, Question)
  /\ probe = "registryfinder" /\ asked # NothingAsked =>
       outcome.items = KeysMeant(system, Question)

\* The comment in GetPaths says that unique removes the duplicates (AbsFileFinder.cpp
\* :155): no path is found twice.
FoundPathsAreUnique ==
  probe = "filefinder" /\ asked # NothingAsked => \A paths \in outcome.items : IsInjective(paths)

-----------------------------------------------------------------------------
\* The algorithms do what they are for, on every input: nothing is left out and nothing
\* found twice (CmdletProbe.cpp:546, Patch54Probe.cpp:157, WindowsCommon.cpp:409,
\* InetdProbe.cpp:103, XinetdProbe.cpp:156, and the lines given in ProbeAlgorithms).
AlgorithmsAreExact ==
  probe \in Algorithm /\ asked # NothingAsked /\ ~ outcome.thrown =>
    Exact(probe, Question, outcome.items)
=============================================================================
