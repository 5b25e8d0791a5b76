--------------------------- MODULE WindowsCommon ---------------------------
(***************************************************************************)
(* What the Windows probes ask of accounts, groups and access lists         *)
(* (src/windows/WindowsCommon.cpp).  `accounts' is what Windows knows:      *)
(* lookup, the answer to looking up a name; isGroup and isLocal, what the   *)
(* name is; listed, the answer to listing the members of a group; members,  *)
(* the groups with their members; text, the names whose number can be       *)
(* written down.                                                            *)
(***************************************************************************)
EXTENDS Naturals, Sequences, FiniteSets

\* A result that may be an exception; what was found before it stays found.
LOCAL Found(names)    == [thrown |-> FALSE, exists |-> TRUE, names |-> names]
LOCAL NotThere        == [thrown |-> FALSE, exists |-> FALSE, names |-> {}]
LOCAL Thrown(names)   == [thrown |-> TRUE, exists |-> FALSE, names |-> names]

-----------------------------------------------------------------------------
\* The name an item shows: without the domain if that says nothing.
GetFormattedTrusteeName(domain, name) ==
  IF domain \in {"", "BUILTIN", "NT AUTHORITY"} THEN <<name>> ELSE <<domain, name>>

\* The same from what the user wrote.  An administrator or a guest of this machine
\* has no domain, and a domain has nothing else.
NormalFormattedName(type, domain, name, builtin) ==
  CASE type = "user" -> IF builtin THEN <<name>> ELSE <<domain, name>>
    [] type = "domain" -> <<domain>>
    [] OTHER -> IF domain \in {"BUILTIN", "NT AUTHORITY"} THEN <<name>> ELSE <<domain, name>>

\* A user keeps the domain, others have it if it says something.
LookUpTrusteeName(type, domain, name) ==
  IF type = "domain" \/ domain = "" THEN <<name>>
  ELSE IF type = "user" \/ domain \notin {"BUILTIN", "NT AUTHORITY"} THEN <<domain, name>>
  ELSE <<name>>

SplitTrusteeName(name) ==
  IF Len(name) = 2 THEN [domain |-> name[1], account |-> name[2]]
  ELSE [domain |-> "", account |-> name[1]]

-----------------------------------------------------------------------------
\* Groups.  A member of a local group that cannot be looked up or expanded is left
\* out, one of a global group stops the list; one that is gone is passed over.
\* `each' are the members with what is below them.
LOCAL MemberOf(m, include, below, accounts) ==
  IF accounts.lookup[m] # "ok" THEN Thrown({})
  ELSE IF ~ accounts.isGroup[m] THEN Found({m})
  ELSE IF below.thrown THEN below
  ELSE Found(below.names \cup (IF include THEN {m} ELSE {}))
LOCAL LocalGroupMembers(group, each, accounts) ==
  CASE accounts.listed[group] = "fails" -> Thrown({})
    [] accounts.listed[group] = "absent" -> NotThere
    [] OTHER -> Found(UNION {r.names : r \in each})
LOCAL GlobalGroupMembers(group, each, accounts) ==
  LET names == UNION {r.names : r \in each}
  IN  CASE accounts.listed[group] = "fails" -> Thrown({})
        [] accounts.listed[group] = "absent" -> NotThere
        [] OTHER -> IF \E r \in each : r.thrown THEN Thrown(names) ELSE Found(names)

\* The groups below are resolved through, and shown if they are to be included; a
\* group that cannot be found is no group.
ExpandGroup(group, include, resolve, accounts) ==
  LET expand[g \in DOMAIN accounts.lookup] ==
        LET Each(members) ==
              {MemberOf(m, include, IF resolve THEN expand[m] ELSE Found({}), accounts) :
                 m \in members}
            members == accounts.members[g]
        IN  IF accounts.lookup[g] = "fails" THEN Thrown({})
            ELSE IF accounts.lookup[g] = "absent" THEN NotThere
            ELSE IF accounts.isLocal[g] THEN LocalGroupMembers(g, Each(members), accounts)
            ELSE GlobalGroupMembers(g, Each({m \in members : accounts.lookup[m] # "absent"}),
                                    accounts)
  IN  expand[group]

\* By number: what has no number is left out, what fails throws.
ConvertTrusteeNamesToSidStrings(names, accounts) ==
  IF \E n \in names : accounts.lookup[n] = "fails" THEN Thrown({})
  ELSE Found({n \in names : accounts.lookup[n] = "ok" /\ n \in accounts.text})
ExpandGroupBySID(group, include, resolve, accounts) ==
  LET members == ExpandGroup(group, include, resolve, accounts)
  IN  IF members.thrown \/ ~ members.exists THEN members
      ELSE ConvertTrusteeNamesToSidStrings(members.names, accounts)

-----------------------------------------------------------------------------
\* The list of all names, made once.  The set is kept from the start (line 755): if
\* a later list throws, the next caller finds what there was until then.  That the
\* members of a local group cannot be had, or the policy not be opened, is not told.
LOCAL Local(accounts) == {g \in DOMAIN accounts.members : accounts.isLocal[g]}
GetAllTrusteeNames(known, users, lists, accounts) ==
  LET groups  == Local(accounts)
      Shown(g) == {MemberOf(m, TRUE, Found({}), accounts) : m \in accounts.members[g]}
      members == UNION {LocalGroupMembers(g, Shown(g), accounts).names : g \in groups}
      global  == DOMAIN accounts.members \ groups
      most    == known \cup users \cup groups \cup members
  IN  CASE lists.users # "ok"  -> Thrown(known)
        [] lists.groups # "ok" -> Thrown(known \cup users)
        [] lists.global = "fails" -> Thrown(most)
        [] lists.global = "absent" -> Found(most)
        [] OTHER -> Found(most \cup global)
\* Each with its number: a name that has none is passed over, a number that cannot
\* be written down throws, and the numbers until then are kept.
GetAllTrusteeSIDs(names, accounts) ==
  LET has == {n \in names : accounts.lookup[n] # "absent"}
  IN  IF \E n \in has : accounts.lookup[n] = "fails" \/ n \notin accounts.text
      THEN Thrown({}) ELSE Found(has)

\* A user exists if either list of groups is there.
GetGroupsForUser(global, local, globalGroups, localGroups) ==
  IF "fails" \in {global, local} THEN Thrown({})
  ELSE IF {global, local} = {"absent"} THEN NotThere
  ELSE Found((IF global = "ok" THEN globalGroups ELSE {}) \cup
             (IF local = "ok" THEN localGroups ELSE {}))

\* The controller of a domain is asked for once; that there is none is kept too,
\* and means this machine.
GetDomainControllerName(domain, kept, answer, name) ==
  CASE domain = "" -> [kept |-> kept, name |-> ""]
    [] domain \in DOMAIN kept -> [kept |-> kept, name |-> kept[domain]]
    [] OTHER -> LET dc == IF answer = "ok" THEN name ELSE ""
                IN  [kept |-> [d \in DOMAIN kept \cup {domain} |->
                                 IF d = domain THEN dc ELSE kept[d]],
                     name |-> dc]

-----------------------------------------------------------------------------
\* Access lists: sequences of [type, trustee, mode, rights].
AceTypes == {"allowed", "denied", "audit", "label"}
GetTrusteesFromPACL(acl, accounts) ==
  LET named == {acl[i].trustee : i \in {j \in DOMAIN acl : acl[j].type \in AceTypes}}
  IN  IF \E n \in named : accounts.lookup[n] # "ok" THEN Thrown(named) ELSE Found(named)

\* What is audited of a trustee: each entry of the list overwrites the one before it
\* (lines 2255 and 2259).
LOCAL LastRights(acl, trustee, mode) ==
  LET hits == {i \in DOMAIN acl : acl[i].trustee = trustee /\ acl[i].mode = mode}
  IN  IF hits = {} THEN {} ELSE acl[CHOOSE i \in hits : \A j \in hits : j <= i].rights
GetAuditedPermissions(acl, trustee) ==
  [success |-> LastRights(acl, trustee, "success"), failure |-> LastRights(acl, trustee, "failure")]

\* The name of an audited right: in both masks, one or none.
AuditedValue(success, failure) ==
  CASE success /\ failure -> "AUDIT_SUCCESS_FAILURE"
    [] success -> "AUDIT_SUCCESS"
    [] failure -> "AUDIT_FAILURE"
    [] OTHER -> "AUDIT_NONE"

=============================================================================
