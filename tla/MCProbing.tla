----------------------------- MODULE MCProbing ------------------------------
(***************************************************************************)
(* Every probe on systems of up to three things, with objects of every      *)
(* operation; every item with up to two calls that do not answer; file      *)
(* systems with a link that leads back up and a directory that is closed.   *)
(***************************************************************************)
EXTENDS Probing

MCNames == {"a", "b"}

E(op, var, values, matches) ==
  [op |-> op, typed |-> TRUE, nil |-> FALSE, var |-> var, values |-> values,
   matches |-> matches]
\* Without a variable the one value and the operation say what matches; with one,
\* the check of the variable says which of its values count.
Nil == [E("equals", FALSE, {}, {}) EXCEPT !.nil = TRUE]
Few  == {E("equals", FALSE, {"a"}, {"a"}), E("equals", TRUE, {"a", "b"}, {"a", "b"}),
         E("pattern match", FALSE, {"a"}, {"a", "b"})}
Some == Few \cup {E("equals", FALSE, {"b"}, {"b"}), E("pattern match", TRUE, {"a"}, {"a"}),
                  E("not equal", FALSE, {"a"}, {"b"})}
Many == Some \cup
  {E("equals", TRUE, {"a", "b"}, {}), E("equals", TRUE, {"a"}, {"b"}),
   E("not equal", TRUE, {"a", "b"}, {}), E("other", FALSE, {"a"}, {"a"}),
   E("pattern match", FALSE, {"b"}, {"a"}),
   E("case insensitive equals", FALSE, {"a"}, {"a"}),
   [E("equals", FALSE, {"a"}, {"a"}) EXCEPT !.typed = FALSE]}

\* The entities of an object, and the names of a thing.
OneEntity == {"environmentvariable", "variable", "password", "shadow", "process",
  "macprocess", "dpkginfo", "rpminfo", "selinuxboolean", "sysctl",
  "selinuxcontext of pids", "accountinfo", "pwpolicy59", "dnscache", "group", "groupsid",
  "user", "usersid", "usersid55", "accesstoken", "sidsid", "sid", "volume", "wuaupdatesearcher",
  "services", "interface", "partition", "nvram", "wininterface", "sharedresource",
  "winprocess"}
\* The same of other permissions, and in other versions.
Siblings == (OnFiles \cup OnKeys) \ {"fileeffectiverights53", "regkeyeffectiverights"}

MCProbes == OneEntity \cup OfFile \cup TwoEntities \cup ThreeEntities \cup OnFiles \cup {"filehash58"}
              \cup OneItem \cup Finder \cup Algorithm

MCObjectsOf(p) ==
  CASE p \in OneEntity -> {<<e>> : e \in Many}
    [] p \in OfFile -> {<<e>> : e \in Some} \cup {<<e, f>> : e \in Some, f \in Some \cup {Nil}}
    [] p = "filehash58" -> {<<e, h>> : e \in Some, h \in Few} \cup
                           {<<e, f, h>> : e \in Few, f \in Few \cup {Nil}, h \in Few}
    [] p = "own environment" -> {<<Nil, e>> : e \in Many}
    [] p = "metabase" -> {<<e, f>> : e \in Some, f \in Some \cup {Nil}}
    [] p \in TwoEntities -> {<<e, f>> : e \in Many, f \in Some}
    [] p \in WithNil -> {<<e, f, g>> : e \in Few, f \in Some, g \in Few \cup {Nil}} \cup
                          {<<e, Nil, Nil>> : e \in Few}
    [] p \in Siblings -> {<<e, f, g>> : e \in Few, f \in Few, g \in Some}
    [] p \in ThreeEntities \cup OnFiles -> {<<e, f, g>> : e \in Some, f \in Some, g \in Few}
    [] OTHER -> {}

ThingsOf(p) ==
  CASE p \in {"process", "macprocess"} -> {<<"a", "a">>, <<"a", "b">>, <<"b", "b">>}
    [] p \in OneEntity -> {<<"a">>, <<"b">>}
    [] p \in OfFile \cup {"filehash58"} -> {<<"a", Nothing>>, <<"a", "b">>, <<"b", "a">>, <<"a">>}
    [] p \in TwoEntities -> {<<"a", "a">>, <<"a", "b">>, <<"b", "b">>}
    [] p \in ThreeEntities \cup OnFiles -> {<<"a", "a", "a">>, <<"a", "b", "b">>, <<"b", "a", "b">>}

\* Three directories, one below another, files, and a link to one directory, to a file
\* or back to the root.  A hive in the same way.
Place == {Root, <<1>>, <<1, 2>>, <<2>>}
FileSystems ==
  {[dirs |-> Place, files |-> {<<1, 3>>, <<1, 2, 3>>, <<2, 4>>, <<4>>}, links |-> l, closed |-> c,
    locked |-> k, hidden |-> h] :
     l \in {<<>>, [x \in {<<2, 1>>} |-> <<1>>], [x \in {<<2, 1>>} |-> <<1, 3>>],
            [x \in {<<1, 1>>} |-> Root]},
     c \in {{}, {<<1, 2>>}}, k \in {{}, {<<2>>}, {<<1, 3>>}}, h \in {{}, {2}}}
Hives ==
  {[keys |-> Place \cup {<<1, 2, 1>>}, closed |-> c, foreign |-> f] :
     c \in {{}, {<<1, 2>>}}, f \in {{}, {<<1, 2>>}}}

\* The accounts in the access lists are known.
MCSystemsOf(p) ==
  CASE p = "filefinder"     -> FileSystems
    [] p = "registryfinder" -> Hives
    [] p \in OneItem        -> {}
    [] p \in Algorithm      -> {[there |-> {<<"a">>}]}
    [] OTHER ->
       {s \in {[there |-> t, list |-> l, read |-> [n \in MCNames |-> IF n = "a" THEN a ELSE b],
         known |-> k, covered |-> c] :
          t \in SUBSET ThingsOf(p),
          l \in {"ok", "fails"} \cup (IF p \in KeepsNames THEN {"absent"} ELSE {}),
          a \in (IF p \in Listing THEN {"ok"} ELSE Answers), b \in {"ok"},
          k \in (IF FamilyOf(p) = "rights" THEN {{"a"}, {"a", "b"}} ELSE {{"a", "b"}}),
          c \in (IF p = "activedirectory" THEN {{"a"}, {"a", "b"}} ELSE {{"a", "b"}})} :
          FamilyOf(p) = "rights" => \A t \in s.there : t[Len(t)] \in s.known}

-----------------------------------------------------------------------------
\* The calls that fill the item of a probe.

\* What the things themselves have or do not have.
YesNo == {"ok", "no"}
RestOf(p) ==
  CASE p = "file"      -> [linux : YesNo]
    [] p = "shadow"    -> [mark : {"_", "none", "1", "2a", "md5", "5", "unknown"}]
    [] p = "interface" -> [ethernet : YesNo, broadcast : YesNo]
    [] p = "wininterface" -> [ethernet : YesNo, address : YesNo]
    [] p = "inetd"     -> [fields : YesNo, type : YesNo, wait : YesNo]
    [] p \in {"rpmverify", "rpmverifyfile"} -> [missingok : YesNo]
    [] p = "rpmverifypackage" -> [nodeps : YesNo, noscripts : YesNo]
    [] p = "partition" -> [options : YesNo]
    [] p = "selinuxcontext of pids" -> [low : YesNo, high : YesNo]
    [] p = "inetlisteningserver510" -> [fields : YesNo, colon : YesNo, port : {"80", "*"}]
    [] p = "nvram"     -> [fields : YesNo]
    [] p = "isainfo"   -> [isa : {"sparc", "amd64", "vax"}]
    [] p = "group"     -> [users : YesNo, subgroups : YesNo]
    [] p \in {"user", "usersid"} -> [members : {{}, {"a"}}]
    [] p = "sharedresource" -> [kind : {"disk", "unknown"}, special : BOOLEAN, temporary : BOOLEAN]
    [] p = "accesstoken" -> [privileges : {{"a", "b"}}, held : SUBSET {"a", "b"}]
    [] p = "wmi"       -> [rows : {<<>>, <<"lost">>, <<"value", "lost", "value">>,
                                   <<"unsupported", "value">>, <<"not found">>, <<"error">>}]
    [] p = "wmi57"     -> [records : {<<>>, <<LostRow>>, <<[x |-> "value"], LostRow>>,
                                      <<[x |-> "unsupported", y |-> "error"]>>,
                                      <<[x |-> "not found"], [x |-> "value"]>>}]
    [] p = "activedirectory" -> [values : {{}, {"text"}, {"octets", "number"}}]
    [] p = "services"  -> [bits : {{}, {1}, {1, 4}}]
    [] p = "xmlfilecontent" ->
         {[kind |-> k, nodes |-> n] : k \in {"boolean", "node-set", "point"},
                                      n \in {{}, {"text"}, {"text", "element"}}}
    [] p = "passwordpolicy" -> {[wmi |-> w, exported |-> e] :
                                  w, e \in {<<>>, [password_complexity |-> "1"]}}
    [] p = "auditeventpolicy" ->
         [auditing : BOOLEAN, elements : {2}, events : {<<{}, {"failure"}>>, <<{"success"}>>}]
    [] p = "auditsubcategories" ->
         [auditing : BOOLEAN, elements : {<<7, 8, 7>>}, events : {7 :> {"success"}}]
    [] p = "registry"  -> [type : {"text", "list", "unknown"}, values : {{}, {"a"}}]
    [] p = "winfile"   -> [directory : BOOLEAN]
    [] OTHER -> {<<>>}

\* At most two calls do not answer; access to a policy may also be denied.
MCAnswersOf(p) ==
  LET Of == Answers \cup (IF p \in {"lockoutpolicy", "passwordpolicy"} THEN {"denied"} ELSE {})
      two == {[c \in CallsOf(p) |-> IF c = x THEN v ELSE IF c = y THEN w ELSE "ok"] :
                x, y \in CallsOf(p), v, w \in Of}
  IN  {[answers |-> a, rest |-> r] :
         a \in (IF CallsOf(p) = {} THEN {<<>>} ELSE two), r \in RestOf(p)}

-----------------------------------------------------------------------------
\* Paths and keys: one by its name, through a link, twice by a variable, by patterns
\* with and without a constant beginning, by what it is not.
Q(text, start, constant, matches) ==
  [text |-> text, start |-> start, constant |-> constant, matches |-> matches,
   directories |-> {<<1>>, <<1, 2>>}]
P(op, var, queries, matches) ==
  [op |-> op, var |-> var, nil |-> FALSE, queries |-> queries, matches |-> matches]
Below1 == {<<1>>, <<1, 2>>, <<1, 2, 1>>}
PathEntities ==
  {P("equals", FALSE, <<Q(t, Root, FALSE, {t})>>, {t}) :
     t \in {<<1, 2>>, <<2, 1, 2>>, <<3>>}} \cup
  {P("equals", TRUE, <<Q(<<1>>, Root, FALSE, {<<1>>}), Q(<<1, 2>>, Root, FALSE, {<<1, 2>>})>>,
     {<<1>>, <<1, 2>>}),
   P("equals", TRUE, <<Q(<<1>>, Root, FALSE, {<<1>>}), Q(<<1>>, Root, FALSE, {<<1>>})>>, {<<1>>}),
   P("pattern match", FALSE, <<Q(Root, Root, FALSE, {<<1, 2>>, <<2>>})>>, {<<1, 2>>, <<2>>}),
   P("pattern match", TRUE, <<Q(Root, <<1>>, FALSE, Below1)>>, {<<1, 2>>}),
   P("pattern match", FALSE, <<Q(Root, <<1, 2>>, TRUE, {<<1, 2>>})>>, {<<1, 2>>}),
   P("not equal", FALSE, <<Q(<<1>>, Root, FALSE, (Place \cup Below1) \ {<<1>>})>>,
     (Place \cup Below1) \ {<<1>>})}
\* Only of files: without regard to case, a pattern that begins behind a link, a file
\* that is asked for as a path, and on Windows a constant that does not match itself.
MorePathEntities ==
  PathEntities \cup
  {P("equals", FALSE, <<Q(<<1, 3>>, Root, FALSE, {<<1, 3>>})>>, {<<1, 3>>}),
   P("case insensitive equals", FALSE, <<Q(<<1, 2>>, Root, FALSE, Below1)>>, Below1),
   P("case insensitive equals", FALSE, <<Q(<<1, 2>>, Root, FALSE, {<<1, 2>>})>>, {<<1, 2>>}),
   P("pattern match", FALSE, <<Q(Root, <<2, 1>>, FALSE, {<<2, 1>>, <<2, 1, 2>>})>>,
     {<<2, 1>>, <<2, 1, 2>>}),
   P("pattern match", FALSE, <<Q(Root, <<1>>, TRUE, {})>>, {})}
NameQuery(n) == [text |-> n, matches |-> {n}]
FileEntities ==
  {[op |-> "equals", var |-> FALSE, nil |-> TRUE, queries |-> <<>>, matches |-> {}],
   [op |-> "equals", var |-> FALSE, nil |-> FALSE, queries |-> <<NameQuery(3)>>, matches |-> {3}],
   [op |-> "equals", var |-> TRUE, nil |-> FALSE,
    queries |-> <<NameQuery(4), NameQuery(1)>>, matches |-> {1, 4}],
   [op |-> "case insensitive equals", var |-> FALSE, nil |-> FALSE,
    queries |-> <<[text |-> 4, matches |-> {1, 4}]>>, matches |-> {1, 4}],
   [op |-> "case insensitive equals", var |-> FALSE, nil |-> FALSE,
    queries |-> <<NameQuery(4)>>, matches |-> {4}],
   [op |-> "pattern match", var |-> TRUE, nil |-> FALSE,
    queries |-> <<NameQuery(4), [text |-> 0, matches |-> {1, 3}]>>, matches |-> {1, 4}]}
MCBehaviors ==
  {[direction |-> d, depth |-> n, supported |-> TRUE] :
     d \in {"up", "down"}, n \in {-1, 0, 1}} \cup
  {[direction |-> "none", depth |-> -1, supported |-> FALSE],
   [direction |-> "down", depth |-> -1, supported |-> FALSE]}
\* A filepath takes no behaviors.
FilepathEntities ==
  {P("equals", FALSE, <<Q(t, Root, FALSE, {})>>, {}) :
     t \in {<<1, 2, 3>>, <<1, 2>>, <<2, 1>>, <<2, 1, 3>>, <<3>>, <<1, 3, 4>>}} \cup
  {P("pattern match", TRUE, <<Q(Root, Root, FALSE, {<<1, 3>>, <<1, 2, 3>>})>>, {<<1, 3>>}),
   P("pattern match", FALSE, <<Q(Root, <<1>>, TRUE, {<<1, 1>>, <<1, 3>>})>>, {}),
   P("case insensitive equals", FALSE, <<Q(<<1, 3>>, Root, FALSE, {<<1, 1>>, <<1, 3>>})>>, {}),
   P("case insensitive equals", FALSE, <<Q(<<1, 3>>, Root, FALSE, {<<1, 3>>})>>, {}),
   P("not equal", FALSE, <<Q(<<1, 3>>, Root, FALSE, {<<1, 1>>, <<1, 2, 3>>})>>, {})}
NoFile == CHOOSE f \in FileEntities : f.nil
\* On Windows no two names differ in their case alone.
OnSystem(os, entities) ==
  {e \in entities : os = "windows" /\ e.op = "case insensitive equals" =>
                      \A r \in Range(e.queries) : r.matches = {r.text}}

-----------------------------------------------------------------------------
\* Inputs of the algorithms.
Lists == {<<>>, <<"a">>, <<"a", "b">>, <<"a", "b", "c">>}
Patch(b, v) == <<b, v>>
Obsoletes == {<<Patch("b", 1), Patch("a", 2)>>, <<Patch("c", 1), Patch("b", 1)>>,
              <<Patch("a", 1), Patch("c", 1)>>}
PatchFiles ==
  {[chosen |-> c, patches |-> p, obsoletes |-> o, later |-> {<<2, 1>>}] :
     <<c, p, o>> \in
       UNION {{<<{x}, q, o>> : x \in q} :
                <<q, o>> \in {<<Patches({Patch("a", 1)} \cup {y[1] : y \in o}, o), o>> :
                                o \in SUBSET Obsoletes}}}
\* A local group with a user, a global group with users, and a group in a group; the
\* code goes round for ever in one that is its own member.
GroupNames == {"local", "global", "u", "v"}
Groups ==
  {[group |-> "local", include |-> i,
    accounts |->
      [lookup |-> [n \in GroupNames |-> IF n = "u" THEN u ELSE "ok"],
       isGroup |-> [n \in GroupNames |-> n \in {"local", "global"}],
       isLocal |-> [n \in {"local", "global"} |-> n = "local"],
       listed |-> [n \in {"local", "global"} |-> "ok"],
       members |-> [local |-> l, global |-> {"u", "v"}],
       text |-> t]] :
     i \in BOOLEAN, u \in {"ok", "absent"}, t \in {GroupNames, {"global", "v"}},
     l \in {{"global"}, {"global", "v"}, {"u"}, {}}}
TrusteeLists ==
  {[users |-> u, lists |-> [users |-> x, groups |-> y, global |-> z],
    accounts |-> [g.accounts EXCEPT !.listed["local"] = l]] :
     u \in {{}, {"u"}}, x, y \in {"ok", "fails"}, z \in Answers, l \in {"ok", "fails"},
     g \in Groups}
TrusteeTexts ==
  [type : {"user", "group", "domain"}, domain : {"", "BUILTIN", "NT AUTHORITY", "d"},
   name : {"n"}, builtin : BOOLEAN]
AclEntries == [type : {"audit", "other"}, trustee : {"u", "v"}, mode : {"success", "failure"},
            rights : {{"r"}, {"r", "w"}}]
AccessListsOf(kinds) ==
  {[acl |-> l, trustee |-> "u", rights |-> {"r", "w", "x"},
    accounts |-> [lookup |-> [n \in {"u", "v"} |-> IF n = "u" THEN a ELSE "ok"]]] :
     l \in UNION {[1 .. n -> {e \in AclEntries : e.type \in kinds}] : n \in 0 .. 2},
     a \in {"ok", "absent"}}
DomainQuestions ==
  [1 .. 3 -> [domain : {"", "d"}, answer : {"ok", "fails"}, name : {"c1", "c2"}]]
NetstatLines == UNION {[1 .. n -> {"x", "y", Nothing}] : n \in 0 .. 3}
LevelRanges == UNION {[1 .. n -> {<<>>, <<"s0">>, <<"s1", "c0">>}] : n \in 1 .. 2}
Sections == [name : {"a"}, sections : UNION {[1 .. n -> [name : {"a", "b"}, installed : BOOLEAN]] :
                                               n \in 0 .. 3}]
MatchTexts == [wanted : {{1}, {2}, {1, 3}},
               texts : UNION {[1 .. n -> {<<>>, <<"t">>}] : n \in 0 .. 3}]
Sockets == [inode : {"i"}, fds : UNION {[1 .. n -> {{}, {"i"}, {"j"}, Unread}] : n \in 0 .. 3}]
Masks == {{}, {"read"}, {"read", "write"}, Permissions}
PortRows == [listening : BOOLEAN, remote : {"p", "q"}]
Modes == {t * 4096 + m : t \in 0 .. 15, m \in {0, 420, 493, 1023, 2541, 4095}}
Moments == {0, 1, 59, 60, 3599, 3600, 86399, 86400, 90061, 86400 * 366 - 1}
\* Two versions of a module, one of them loaded, and another module; a command by name
\* or by any module.
ModuleEntity(values) == [nil |-> values = {}, values |-> values, matches |-> values]
Modules == {<<"m", "i1", "1">>, <<"m", "i2", "2">>, <<"k", "i1", "1">>}
Get == <<"get", "x">>
CommandsOf == {[x \in Modules |-> IF x \in f THEN {Get} ELSE {<<"set", "x">>}] :
               f \in {{<<"m", "i1", "1">>}, {<<"m", "i1", "1">>, <<"m", "i2", "2">>}, Modules}}
Cmdlets ==
  {[object |-> [verbs |-> v, nouns |-> {"x", "object"},
                module |-> <<ModuleEntity(n), ModuleEntity({}), ModuleEntity(x)>>,
                parameters |-> ps, columns |-> cs],
    modules |-> [available |-> Modules, loaded |-> l, commands |-> c,
                 legal |-> {"get", "set", "select"}, failing |-> f]] :
     v \in {{"get"}, {"get", "select"}, {"frobnicate"}}, n \in {{}, {"m"}, {"m", "k"}},
     x \in {{}, {"2"}}, l \in {{}, {<<"m", "i1", "1">>}, {<<"k", "i1", "1">>}},
     c \in CommandsOf, f \in {{}, {Get}}, ps \in {<<>>, <<<<>>>>, <<<<"a", "b">>, <<"c">>>>},
     cs \in {<<>>, <<<<"a", "b">>>>}}
Lines == UNION {[1 .. n -> {"text", "more", "skip"}] : n \in 0 .. 5}

\* The main file includes another, or a directory, or has the entries itself.
Entry(name, parameters) == [name |-> name, parameters |-> parameters]
Tcp == <<"protocol", "=", <<"tcp">>>>
OnlyFrom(op, v) == <<"only_from", op, v>>
EntryLists ==
  {<<Entry(Nothing, d), Entry("a", <<Tcp>> \o p), Entry("b", <<OnlyFrom("=", <<"y">>)>>)>> :
     d \in {<<>>, <<OnlyFrom("=", <<"x">>)>>,
            <<OnlyFrom("+=", <<"y">>), OnlyFrom("=", <<"x">>)>>},
     p \in {<<>>, <<OnlyFrom("+=", <<"y">>)>>, <<OnlyFrom("-=", <<"x">>)>>,
            <<OnlyFrom("-=", <<"y">>), OnlyFrom("+=", <<"y", "z">>)>>}}
ConfigFiles ==
  {[main |-> [readable |-> TRUE, include |-> i, directories |-> d, entries |-> own],
    more |-> [readable |-> r, include |-> Nothing, directories |-> <<>>, entries |-> e]] :
     i \in {Nothing, "more", "main"}, d \in {<<>>, <<<<"more">>>>},
     own \in {<<>>, <<Entry("c", <<Tcp, OnlyFrom("=", <<"z">>)>>)>>},
     r \in BOOLEAN, e \in EntryLists}
XinetdObjects == {<<E("equals", FALSE, {"a"}, {"a"}), E("equals", FALSE, {"tcp"}, {"tcp"})>>,
                  <<E("not equal", FALSE, {"b"}, {"a", "c"}),
                    E("not equal", FALSE, {"udp"}, {"tcp"})>>}

InputsOf(p) ==
  CASE p = "combinations"  -> UNION {[1 .. n -> Lists] : n \in 0 .. 3}
    [] p = "supersedence"  -> PatchFiles
    [] p \in OfGroups -> Groups
    [] p = "trustees"      -> TrusteeLists
    [] p = "trustee text"  -> TrusteeTexts
    [] p = "access list"   -> AccessListsOf({"audit", "other"})
    [] p = "audited"       -> AccessListsOf({"audit"})
    [] p = "domain controller" -> DomainQuestions
    [] p = "virtual lines" -> Lines
    [] p = "netstat lines" -> NetstatLines
    [] p = "range"         -> LevelRanges
    [] p = "package version"  -> UNION {[1 .. n -> {"1", "2"}] : n \in 1 .. 3}
    [] p = "package sections" -> Sections
    [] p = "instances"     -> MatchTexts
    [] p = "inode owner"   -> Sockets
    [] p = "package rows"  -> [1 .. 3 -> {Nothing, "1", "2"}]
    [] p = "share rows"    -> [1 .. 3 -> Masks]
    [] p = "port rows"     -> [1 .. 3 -> PortRows]
    [] p = "mode"          -> Modes
    [] p = "run time"      -> Moments
    [] p = "start time"    -> {q \in [start : Moments, now : Moments] : q.start <= q.now}
    [] p = "cmdlet"        -> Cmdlets
    [] p = "xinetd" -> {[object |-> o, files |-> f, main |-> "main", ports |-> {"a"}] :
                          o \in XinetdObjects, f \in ConfigFiles}

FileSearches ==
  UNION {{[os |-> os, filepath |-> FALSE, entity |-> e, file |-> f, behaviors |-> b] :
            e \in OnSystem(os, MorePathEntities), f \in OnSystem(os, FileEntities),
            b \in MCBehaviors} \cup
         {[os |-> os, filepath |-> TRUE, entity |-> e, file |-> NoFile,
           behaviors |-> [direction |-> "none", depth |-> 0, supported |-> TRUE]] :
            e \in OnSystem(os, FilepathEntities)} :
           os \in {"unix", "windows"}}
KeySearches ==
  {[entity |-> e, behaviors |-> b] : e \in PathEntities, b \in MCBehaviors}
MCSearchesOf(p) ==
  CASE p = "filefinder"     -> FileSearches
    [] p = "registryfinder" -> KeySearches
    [] p \in Algorithm -> InputsOf(p)
    [] OTHER -> {}
=============================================================================
