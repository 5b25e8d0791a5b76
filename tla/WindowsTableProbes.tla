------------------------- MODULE WindowsTableProbes -------------------------
(***************************************************************************)
(* The probes of src/probes/windows that go through a table of the system:  *)
(* ports, processes, interfaces, shares, the cache of names, users and      *)
(* groups.  See Probe.  The tables of the first four are read for the first *)
(* object and kept as items.                                                *)
(***************************************************************************)
EXTENDS Probe, SequencesExt, WindowsCommon

-----------------------------------------------------------------------------
\* Without a variable a name that must be equal is looked up, and its item is empty
\* if it is not there.
CachedByName(e, snapshot) ==
  Collects(IF e.op = "equals" /\ ~ e.var
           THEN LET found == {t \in snapshot : t[1] \in e.values}
                IN  IF found = {} THEN {DoesNotExist(<<Nothing>>)} ELSE All("exists", found)
           ELSE All("exists", {t \in snapshot : t[1] \in e.matches}))

\* The operation is looked at where the names are, so that without any interface
\* every operation will do.
ByNameOfString(object, snapshot) ==
  IF ~ object[1].typed \/ (object[1].op = "other" /\ ~ object[1].var /\ snapshot # {})
  THEN Throws ELSE CachedByName(object[1], snapshot)
WinInterface(object, snapshot)   == ByNameOfString(object, snapshot)
SharedResource(object, snapshot) == ByNameOfString(object, snapshot)

WinInterfaceItem(os) ==
  Item("exists",
       [hardware_addr |-> IF os.ethernet = "ok" THEN "exists" ELSE "does not exist",
        inet_addr |-> IF os.address = "ok" THEN "exists" ELSE "does not exist"])

\* What the items of the shares say of the permissions: the flags are set for a
\* share that has the permission and are not taken back for the next
\* (SharedResourceProbe.cpp:189).
Permissions == {"read", "write", "create", "exec", "delete", "atrib", "perm"}
SharePermissions(masks) ==
  [i \in DOMAIN masks |->
     [granted |-> UNION {masks[j] : j \in 1 .. i},
      all |-> \E j \in 1 .. i : masks[j] = Permissions]]

\* The kinds of a share, with the marks that may be added; a mark may make it
\* special, and both go together.
SharedResourceType(kind, special, temporary) ==
  IF kind \notin {"disk", "print", "device", "ipc"} THEN <<>>
  ELSE <<kind>> \o (IF special THEN <<"special">> ELSE <<>>)
                \o (IF temporary THEN <<"temporary">> ELSE <<>>)
\* A share whose kind is not known has an element with an error.
SharedResourceItem(os) ==
  Item("exists",
       [netname |-> "exists",
        shared_type |-> IF SharedResourceType(os.kind, os.special, os.temporary) = <<>>
                        THEN "error" ELSE "exists"])

-----------------------------------------------------------------------------
\* A process by its command line, of which the first with that line is taken.
WinProcess(object, snapshot) ==
  IF ~ Accepts(object[1], ThreeOperations) THEN Throws
  ELSE CachedByName(object[1], snapshot)
WinProcess58(object, snapshot) ==
  IF \E i \in DOMAIN object : ~ Accepts(object[i], ThreeOperations) THEN Throws
  ELSE Collects(All("exists", Matching(object, snapshot)))

\* A process that cannot be opened, or whose image has no name, has no item.  The
\* command line comes from another query, in which the process may be missing.
WinProcessItem(os) ==
  CASE os.open # "ok" -> NoItem
    [] os.close # "ok" -> ItemThrows
    [] os.image # "ok" -> NoItem
    [] OTHER -> Item("exists",
         [command_line |-> IF os.line = "ok" THEN "exists" ELSE "does not exist",
          pid |-> "exists",
          current_dir |-> IF os.directory = "ok" THEN "exists" ELSE "does not exist"])
\* A policy that is neither on nor off leaves no element.
WinProcess58Item(os) ==
  LET before == WinProcessItem(os)
      more   == [creation_time |-> IF os.times = "ok" THEN "exists" ELSE "error",
                 primary_window_text |-> IF os.window = "ok" THEN "exists"
                                         ELSE "does not exist",
                 dep_enabled |-> Element(os.dep, ByAnswer("exists", "not collected",
                                                          "error"))]
  IN  IF before.kind # "item" THEN before
      ELSE Item("exists", Joined(before.elements, more))

-----------------------------------------------------------------------------
\* Things are <<protocol, local_address, local_port>>, looked for level by level.
\* The item of a level at which nothing is found names the levels above it.
Below(prefix, things) ==
  {t[Len(prefix) + 1] : t \in {u \in things : SubSeq(u, 1, Len(prefix)) = prefix}}
PortsOf(object, prefix, things) ==
  LET i     == Len(prefix) + 1
      found == {n \in Candidates(object[i], Below(prefix, things)) :
                  n \in object[i].matches /\ n \in Below(prefix, things)}
  IN  [found |-> {prefix \o <<n>> : n \in found},
       items |-> IF found = {} /\ object[i].op = "equals" /\ object[i].values # {}
                 THEN {DoesNotExist(prefix \o [k \in 1 .. Len(object) - i + 1 |-> Nothing])}
                 ELSE {}]
PortLevel(object, prefixes, things) ==
  LET parts == {PortsOf(object, p, things) : p \in prefixes}
  IN  [found |-> UNION {q.found : q \in parts}, items |-> UNION {q.items : q \in parts}]
Port(object, snapshot) ==
  LET one   == PortLevel(object, {<<>>}, snapshot)
      two   == PortLevel(object, one.found, snapshot)
      three == PortLevel(object, two.found, snapshot)
  IN  IF \/ \E i \in 1 .. 2 : ~ Accepts(object[i], ThreeOperations)
         \/ ~ Accepts(object[3], Operations \ {"pattern match"})
      THEN Throws
      ELSE Collects(one.items \cup two.items \cup three.items \cup
                    All("exists", three.found))

\* A port that is listened on has no foreign end, but the text of the row before is
\* still in the buffer (PortProbe.cpp:326).
ForeignAddresses(rows) ==
  [i \in DOMAIN rows |->
     LET ends == {j \in 1 .. i : ~ rows[j].listening}
     IN  IF ends = {} THEN Nothing
         ELSE rows[CHOOSE j \in ends : \A k \in ends : k <= j].remote]

-----------------------------------------------------------------------------
\* The names to ask for: the values themselves, unasked, or the list through
\* Analyze.
NamesAsked(e, system) ==
  IF e.op = "equals" THEN e.values ELSE Firsts(system.there) \cap e.matches
AskEach(e, system, result) ==
  LET outcome == ReadEach(Single(NamesAsked(e, system)),
                   LAMBDA t : AnswerFor(t[1], Firsts(system.there), system), result)
  IN  IF e.op # "equals" /\ system.list # "ok" THEN Throws
      ELSE IF outcome.thrown THEN Throws
      ELSE Collects({IF i.status = "exists" THEN i
                     ELSE [i EXCEPT !.thing = <<Nothing>>] : i \in outcome.items})

DNSCache(object, system) ==
  AskEach(object[1], system, ByAnswer("exists", "does not exist", "error"))
DNSCacheItem(os) ==
  CASE os.query = "absent" -> Item("does not exist", [domain_name |-> "does not exist"])
    [] os.query = "fails" -> Item("error", [domain_name |-> "error"])
    [] os.address = "fails" -> ItemThrows
    [] OTHER -> Item("exists",
         [domain_name |-> "exists", ttl |-> "exists",
          ip_address |-> IF os.address = "ok" THEN "exists" ELSE "does not exist"])

\* A group that cannot be opened up is one that does not exist.
Group(object, system) ==
  AskEach(object[1], system, ByAnswer("exists", "does not exist", "throws"))
GroupSid(object, system) == Group(object, system)
GroupItem(os) ==
  CASE os.group = "fails" -> ItemThrows
    [] os.group = "absent" -> Item("does not exist", [group |-> "does not exist"])
    [] OTHER -> Item("exists",
         [group |-> "exists",
          user |-> IF os.users = "ok" THEN "exists" ELSE "does not exist",
          subgroup |-> IF os.subgroups = "ok" THEN "exists" ELSE "does not exist"])

\* A user that is listed and gone has no item, one that is named has one.
User(object, system) ==
  LET e == object[1]
      checked == [e EXCEPT !.values = IF e.var THEN @ \cap e.matches ELSE @]
  IN  AskEach(checked, system,
              ByAnswer("exists", IF e.op = "equals" THEN "does not exist" ELSE "none",
                       "exists"))
UserSid(object, system)   == User(object, system)
UserSid55(object, system) == User(object, system)
\* The account may be gone, or a list of groups fail, and the user exists for all
\* that.
LOCAL ItemOfUser(account, groups) ==
  IF account = "absent" \/ ~ (groups.exists \/ groups.thrown) THEN NoItem
  ELSE Item("exists",
         [user |-> "exists",
          enabled |-> IF account = "ok" THEN "exists" ELSE "error",
          last_logon |-> IF account = "ok" THEN "exists" ELSE "error",
          group |-> IF groups.thrown THEN "error"
                    ELSE IF groups.names = {} THEN "does not exist" ELSE "exists"])
UserItem(os) ==
  ItemOfUser(os.account, GetGroupsForUser(os.global, os.local, os.members, os.members))
UserSidItem(os) ==
  CASE os.sid = "fails" -> ItemThrows
    [] os.sid = "absent" -> NoItem
    [] OTHER -> UserItem(os)
=============================================================================
