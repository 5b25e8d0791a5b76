--------------------------- MODULE ProbeAlgorithms ---------------------------
(***************************************************************************)
(* The algorithms inside of probes, each asked by itself, and what each is  *)
(* for, said without its steps.                                             *)
(***************************************************************************)
EXTENDS IndependentProbes, UnixProbes, LinuxProbes, MacSolarisProbes,
        WindowsTableProbes, WindowsRightsProbes, WindowsPolicyProbes

\* Of members of groups, of names, of lines and texts, of rows that a loop goes through,
\* of times; the combinations of the values of a cmdlet, what supersedes a patch, the
\* files of xinetd.
OfGroups == {"group members", "group numbers", "sid accounts", "tokens"}
OfNames  == {"trustees", "trustee text", "access list", "audited", "domain controller"}
OfLines  == {"virtual lines", "netstat lines", "range", "package version",
             "package sections", "instances", "inode owner"}
OfRows   == {"package rows", "share rows", "port rows"}
OfNumbers == {"mode", "run time", "start time"}
Algorithm == OfGroups \cup OfNames \cup OfLines \cup OfRows \cup OfNumbers \cup
             {"combinations", "cmdlet", "supersedence", "xinetd"}

\* What each makes of its input: an outcome whose items are what it returns.
OneResult(r) == Collects({r})
OfResult(r)  == [thrown |-> r.thrown, items |-> r.names]
Members(p, q) ==
  CASE p = "group members" -> OfResult(ExpandGroup(q.group, q.include, TRUE, q.accounts))
    [] p = "group numbers" -> OfResult(ExpandGroupBySID(q.group, q.include, TRUE, q.accounts))
    [] p = "sid accounts"  -> Collects(SidAccounts(q.group, TRUE, q.include, q.accounts))
    [] p = "tokens"        -> Collects(TokensOf(q.group, TRUE, q.include, q.accounts))

\* All the names and then their numbers, without what was listed before.
TrusteeNumbers(q) ==
  LET names == GetAllTrusteeNames({}, q.users, q.lists, q.accounts)
  IN  IF names.thrown THEN Throws ELSE OfResult(GetAllTrusteeSIDs(names.names, q.accounts))
\* The controllers of the domains asked for, one after the other: each as it was named
\* the last time.
Controllers(questions, kept) ==
  LET Asked(done, q) ==
        LET answer == GetDomainControllerName(q.domain, done.kept, q.answer, q.name)
        IN  [names |-> Append(done.names, answer.name), kept |-> answer.kept]
  IN  FoldLeft(Asked, [names |-> <<>>, kept |-> kept], questions).names
NamesGiven(p, q) ==
  CASE p = "trustees"     -> TrusteeNumbers(q)
    [] p = "trustee text" ->
         OneResult([formatted |-> GetFormattedTrusteeName(q.domain, q.name),
                    normal    |-> NormalFormattedName(q.type, q.domain, q.name, q.builtin),
                    looked    |-> LookUpTrusteeName(q.type, q.domain, q.name)])
    [] p = "access list"  -> OfResult(GetTrusteesFromPACL(q.acl, q.accounts))
    [] p = "audited"      ->
         LET mask == GetAuditedPermissions(q.acl, q.trustee)
         IN  Collects({<<r, AuditedValue(r \in mask.success, r \in mask.failure)>> :
                         r \in q.rights})
    [] p = "domain controller" -> OneResult(Controllers(q, <<>>))

OfText(p, q) ==
  CASE p = "virtual lines"    -> Collects(VirtualLines(q))
    [] p = "netstat lines"    -> LET r == NetstatRecords(q)
                                 IN  [thrown |-> r.thrown, items |-> r.records]
    [] p = "range"            -> ParseRange(q)
    [] p = "package version"  -> OneResult(DPKGVersion(q))
    [] p = "package sections" -> OneResult(DPKGExists(q.sections, q.name))
    [] p = "instances"        -> Collects(Instances(q.texts, q.wanted))
    [] p = "inode owner"      -> FindInodeOwner(q.inode, q.fds)

RowByRow(p, rows) ==
  CASE p = "package rows" -> OneResult([i \in DOMAIN rows |-> EvrOf(rows, i)])
    [] p = "share rows"   -> OneResult(SharePermissions(rows))
    [] p = "port rows"    -> OneResult(ForeignAddresses(rows))

OfNumber(p, q) ==
  CASE p = "mode"       -> OneResult([type |-> FileType(q),
                             bits |-> [i \in DOMAIN ModeElements |->
                                         ModeBit(q, ModeElements[i])]])
    [] p = "run time"   -> OneResult(FormatExecTime(q))
    [] p = "start time" -> OneResult(FormatStartTime(q.start, q.now))

Worked(p, q) ==
  CASE p \in OfGroups  -> Members(p, q)
    [] p \in OfNames   -> NamesGiven(p, q)
    [] p \in OfLines   -> OfText(p, q)
    [] p \in OfRows    -> RowByRow(p, q)
    [] p \in OfNumbers -> OfNumber(p, q)
    [] p = "combinations" -> OneResult(Combinations(q))
    [] p = "cmdlet"       -> Cmdlet(q.object, q.modules)
    [] p = "supersedence" -> Collects(Supersedence(q.chosen, q.patches, q.obsoletes, q.later))
    [] p = "xinetd"       -> XinetdItems(q.object, q.files, q.main, q.ports)

-----------------------------------------------------------------------------
\* What the algorithms promise.  The least set that holds some things and, with each,
\* those that follow from it.
Least(universe, some, Follow(_)) ==
  {x \in universe : \A s \in SUBSET universe :
     some \subseteq s /\ (\A y \in s : Follow(y) \subseteq s) => x \in s}

\* Every choice of one value of each list, once; a list without values has no say, and
\* without any value there is nothing to choose.
EveryChoice(lists) ==
  IF \A i \in DOMAIN lists : lists[i] = <<>> THEN {}
  ELSE {c \in [DOMAIN lists -> UNION {Range(lists[i]) : i \in DOMAIN lists} \cup {Nothing}] :
          \A i \in DOMAIN lists : IF lists[i] = <<>> THEN c[i] = Nothing
                                  ELSE c[i] \in Range(lists[i])}
Supersedes(q) ==
  Least(q.patches \cup {o[1] : o \in q.obsoletes}, q.chosen,
        LAMBDA p : GetSupersedingPatches(p, q.patches, q.obsoletes, q.later))
\* Members of a member that is a group, down to the accounts that can be looked up; of
\* a group whose members cannot be listed only the group is left, if groups are wanted.
MembersBelow(q) ==
  LET a == q.accounts
      Step(g) == IF a.isGroup[g] /\ a.lookup[g] = "ok" /\ a.listed[g] = "ok"
                 THEN {m \in a.members[g] : a.lookup[m] = "ok"} ELSE {}
      all == Least(DOMAIN a.lookup, Step(q.group), Step)
  IN  {m \in all : ~ a.isGroup[m] \/ q.include}

\* The entries of the files that are read, those of a file that includes another being
\* lost; what an entry and the defaults come to when each parameter is one definition.
\* An entry with several definitions that the defaults do not name keeps the first,
\* although XinetdProbe.h:146 takes it for normalized.
EntriesRead(q) ==
  LET Includes(f) == IF q.files[f].include # Nothing THEN {q.files[f].include}
                     ELSE UNION {Range(d) : d \in Range(q.files[f].directories)} \ {Nothing}
  IN  UNION {Range(q.files[f].entries) :
               f \in {g \in Least(DOMAIN q.files, {q.main}, Includes) :
                        q.files[g].include = Nothing}}
ValuesMeant(entry, defaults, p) ==
  LET Map(e) == ProcessEntryParams(e.parameters)
      Of(map) == IF Given(map, p) THEN map[p] ELSE <<>>
      preset == UNION {{MergeParamValues(Of(Map(d)), <<>>)[1].values} : d \in defaults}
      before == IF preset = {} THEN <<>> ELSE CHOOSE v \in preset : TRUE
  IN  IF Of(Map(entry)) # <<>> /\ \A d \in defaults : ~ Given(Map(d), p)
      THEN First(Map(entry), p)
      ELSE MergeParamValues(Of(Map(entry)), before)[1].values
ItemsOfXinetd(q) ==
  LET entries  == EntriesRead(q)
      defaults == {e \in entries : e.name = Nothing}
      Says(e, p) == ValuesMeant(e, defaults, p)
  IN  {[name |-> e.name, protocol |-> Says(e, "protocol"), only_from |-> Says(e, "only_from")] :
         e \in {x \in entries \ defaults : /\ x.name \in q.object[1].matches
                  /\ Says(x, "protocol") # <<>>
                  /\ Says(x, "protocol")[1] \in q.object[2].matches}}
-----------------------------------------------------------------------------
\* Of a group, its members; those that have a number; with the group itself, if groups
\* are wanted; a group of which nothing is wanted is one that does not exist.
GroupsExact(p, q, items) ==
  LET shown == MembersBelow(q) \cup (IF q.include THEN {q.group} ELSE {})
  IN  CASE p = "group members" -> items = MembersBelow(q)
        [] p = "group numbers" -> items = MembersBelow(q) \cap q.accounts.text
        [] p = "sid accounts"  -> items = All("exists", Single(shown))
        [] p = "tokens"        -> items = IF shown = {} THEN {DoesNotExist(<<Nothing>>)}
                                          ELSE All("exists", Single(shown))

\* Every account that is listed, by itself or as a member of a local group, and can be
\* looked up.
TrusteesMeant(q) ==
  LET a == q.accounts
      listed == {g \in DOMAIN a.members : a.isLocal[g] \/ q.lists.global = "ok"}
      below  == UNION {a.members[g] : g \in {h \in DOMAIN a.members :
                                               a.isLocal[h] /\ a.listed[h] = "ok"}}
  IN  {n \in q.users \cup listed \cup below : a.lookup[n] = "ok"}
\* The three ways to write a name agree, so that a name of the object meets the name of
\* the item, but for domains, names without a domain and the accounts of this machine
\* (WindowsCommon.cpp:1155, 1457, 1608); what is split off is the name again.
TextsAgree(q, r) ==
  /\ \/ r.formatted = r.normal /\ r.normal = r.looked
     \/ q.type = "domain" \/ q.domain = ""
     \/ q.type = "user" /\ (q.builtin \/ q.domain \in {"BUILTIN", "NT AUTHORITY"})
  /\ q.type # "domain" =>
       \A n \in {r.formatted, r.normal, r.looked} : SplitTrusteeName(n).account = q.name
\* What a list audits of a trustee, if it has one entry of a kind.
AuditsTold(q, items) ==
  LET Entries(mode) == {i \in DOMAIN q.acl : /\ q.acl[i].trustee = q.trustee
                                             /\ q.acl[i].mode = mode}
      Of(mode) == UNION {q.acl[i].rights : i \in Entries(mode)}
  IN  (\A mode \in {"success", "failure"} : Cardinality(Entries(mode)) <= 1) =>
        \A r \in q.rights :
          {i[2] : i \in {j \in items : j[1] = r}} =
            CASE r \in Of("success") \cap Of("failure") -> {"AUDIT_SUCCESS_FAILURE"}
              [] r \in Of("success") \ Of("failure") -> {"AUDIT_SUCCESS"}
              [] r \in Of("failure") \ Of("success") -> {"AUDIT_FAILURE"}
              [] OTHER -> {"AUDIT_NONE"}
NamesExact(p, q, items) ==
  CASE p = "trustees"     -> items = TrusteesMeant(q)
    [] p = "trustee text" -> \A r \in items : TextsAgree(q, r)
    [] p = "access list"  -> \A t \in DOMAIN q.accounts.lookup :
         t \in items <=> \E i \in DOMAIN q.acl : q.acl[i].trustee = t /\ q.acl[i].type # "other"
    [] p = "audited"      -> AuditsTold(q, items)
    \* A domain has one controller, as long as the program runs.
    [] p = "domain controller" ->
         \A s \in items : \A i, j \in DOMAIN q : q[i].domain = q[j].domain => s[i] = s[j]

\* Lines that begin with text, each with those that continue it; all lines, or an
\* exception; parts that can be put together again; the instances by their place among
\* all matches; the first process that has the socket.
Ranges(r) ==
  LET Part(sensitivity, category) ==
        IF sensitivity = Nothing THEN <<>>
        ELSE <<IF category = Nothing THEN <<sensitivity>> ELSE <<sensitivity, category>>>>
  IN  Part(r.low_sensitivity, r.low_category) \o Part(r.high_sensitivity, r.high_category)
LinesExact(p, q, items) ==
  CASE p = "virtual lines" ->
         items = {{k \in i .. Len(q) : q[k] # "skip" /\ \A j \in i + 1 .. k : q[j] # "text"} :
                    i \in {h \in DOMAIN q : q[h] = "text"}}
    [] p = "netstat lines" -> items = Range(q) /\ Nothing \notin Range(q)
    [] p = "range" -> \A r \in items : Ranges(r) = q
    [] p = "package version" -> \A v \in items : LET whole == v.version \o <<v.release>> IN
         whole = IF Len(q) > 1 THEN q ELSE q \o <<"0">>
    [] p = "package sections" ->
         LET states == {s.installed : s \in {t \in Range(q.sections) : t.name = q.name}}
         IN  items \subseteq (IF states = {} THEN {FALSE} ELSE states)
    [] p = "instances" -> \A i \in DOMAIN q.texts :
         q.texts[i] # <<>> => (i \in items <=> i \in q.wanted)
    [] p = "inode owner" ->
         /\ items = {} <=> \A i \in DOMAIN q.fds : q.inode \notin q.fds[i]
         /\ \A i \in items : q.inode \in q.fds[i] /\ \A j \in 1 .. i - 1 :
              q.inode \notin q.fds[j] /\ q.fds[j] # Unread

\* A row says what is its own; where it lacks what a row before it had, it may say that
\* (RPMInfoProbe.cpp:297, SharedResourceProbe.cpp:189, PortProbe.cpp:326).
RowsExact(p, rows, said) ==
  CASE p = "package rows" -> \A i \in DOMAIN rows :
         \/ said[i] = rows[i]
         \/ /\ rows[i] = Nothing
            /\ said[i] \in {"0"} \cup {rows[j] : j \in 1 .. i - 1}
    [] p = "share rows" -> \A i \in DOMAIN rows :
         /\ rows[i] \subseteq said[i].granted
         /\ \/ said[i].granted = rows[i]
            \/ \E j \in 1 .. i - 1 : ~ rows[j] \subseteq rows[i]
         /\ said[i].all => said[i].granted = Permissions
    [] p = "port rows" -> \A i \in DOMAIN rows :
         \/ said[i] = IF rows[i].listening THEN Nothing ELSE rows[i].remote
         \/ /\ rows[i].listening
            /\ \E j \in 1 .. i - 1 : ~ rows[j].listening /\ said[i] = rows[j].remote

\* The bits make up the mode, the parts the time; the time of the day is shown for a
\* process of today, or of this day in another year (ProcessProbe.cpp:978).
NumbersExact(p, q, r) ==
  CASE p = "mode" ->
         /\ MapThenSumSet(LAMBDA i : r.bits[i] * 2 ^ (i - 1), DOMAIN r.bits) = q % 4096
         /\ r.type = "directory" <=> q \div 4096 = 4
         /\ r.type = "symbolic link" <=> q \div 4096 = 10
    [] p = "run time" ->
         /\ ((r.days * 24 + r.hours) * 60 + r.minutes) * 60 + r.seconds = q
         /\ r.hours < 24 /\ r.minutes < 60 /\ r.seconds < 60
    [] p = "start time" ->
         /\ q.start \div 86400 = q.now \div 86400 => r = "time"
         /\ r = "time" => \/ q.start \div 86400 = q.now \div 86400
                         \/ q.now - q.start > (DaysOfYear - 1) * 86400

\* A command runs if a module that fits has it, one that is loaded or, if modules are
\* asked for by name, one that can be loaded while no other of that name has it.
CmdletMeant(q) ==
  LET named == ~ q.object.module[1].nil
      Has(m, c) == c \in q.modules.commands[m]
      IsAsked(m) == named => m[1] \in q.object.module[1].values
      Run(c) == \E m \in q.modules.available :
        /\ Has(m, c) /\ IsAsked(m) /\ Fits(q.object.module, m)
        /\ \/ m \in q.modules.loaded
           \/ named /\ \A l \in q.modules.loaded : l[1] = m[1] => ~ Has(l, c)
      AnyOf(lists) == IF lists = <<>> THEN {<<>>} ELSE EveryChoice(lists)
  IN  {[status |-> IF c \in q.modules.failing THEN "error" ELSE "exists",
        thing |-> <<c, <<ps, cs>>>>] :
         c \in {x \in q.object.verbs \X q.object.nouns : x # <<"select", "object">> /\ Run(x)},
         ps \in AnyOf(q.object.parameters), cs \in AnyOf(q.object.columns)}

\* What each returns is exactly what it is for.
Exact(p, q, items) ==
  CASE p \in OfGroups  -> GroupsExact(p, q, items)
    [] p \in OfNames   -> NamesExact(p, q, items)
    [] p \in OfLines   -> LinesExact(p, q, items)
    [] p \in OfRows    -> \A said \in items : RowsExact(p, q, said)
    [] p \in OfNumbers -> \A r \in items : NumbersExact(p, q, r)
    [] p = "combinations" -> \A s \in items : Range(s) = EveryChoice(q) /\ IsInjective(s)
    [] p = "cmdlet"       -> items = CmdletMeant(q)
    [] p = "supersedence" -> items = Supersedes(q)
    [] p = "xinetd" ->
         {[name |-> i.name, protocol |-> <<i.protocol>>, only_from |-> i.only_from] :
            i \in items} = ItemsOfXinetd(q)
=============================================================================
