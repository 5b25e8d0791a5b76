------------------------- MODULE WindowsRightsProbes -------------------------
(***************************************************************************)
(* The probes of src/probes/windows that ask who may do what: the effective *)
(* rights and the audited permissions of files, services, printers and      *)
(* registry keys, the rights and the numbers of accounts.  See Probe.       *)
(*                                                                         *)
(* The last name of a thing is a trustee that stands in the access list of  *)
(* what the names before it name; a list may be empty, the trustee is then  *)
(* Nothing.  system.known are the accounts that can be looked up.           *)
(***************************************************************************)
EXTENDS Probe, WindowsCommon

Container(s) == SubSeq(s, 1, Len(s) - 1)
Final(s) == s[Len(s)]
Containers(things) == {Container(t) : t \in things}
AccessList(container, things) ==
  {Final(t) : t \in {u \in things : Container(u) = container}} \ {Nothing}

-----------------------------------------------------------------------------
\* GetTrusteesForWindowsObject.  A trustee that must be equal need not stand in the
\* list, it is enough that there is such an account; with a variable both are
\* candidates.
Trustees(e, list, known) ==
  CASE e.op = "equals" /\ ~ e.var -> e.values \cap known
    [] e.op = "equals" -> (list \cup (e.values \cap known)) \cap e.matches
    [] OTHER -> list \cap e.matches
\* Groups give way to their members, or stand beside them.
ResolvedTrustees(trustees, include, accounts) ==
  UNION {IF ~ accounts.isGroup[t] THEN {t}
         ELSE (IF include THEN {t} ELSE {}) \cup ExpandGroup(t, include, TRUE, accounts).names :
           t \in trustees}
ReportTrusteeDoesNotExist(e, known) == e.op = "equals" /\ ~ e.nil /\ e.values \ known # {}

\* What cannot be opened, and whose list cannot be read, is passed over with a
\* message in the log.
RightsOn(containers, e, system, report) ==
  UNION {LET found == Trustees(e, AccessList(c, system.there), system.known)
         IN  IF system.read[Final(c)] # "ok" THEN {}
             ELSE IF found # {} THEN {Exists(c \o <<t>>) : t \in found}
             ELSE IF report /\ ReportTrusteeDoesNotExist(e, system.known)
             THEN {DoesNotExist(c \o <<Nothing>>)} ELSE {} :
           c \in containers}

\* The services and the printers are listed for the first object.
Named(object, system, report) ==
  LET names == {c[1] : c \in Containers(system.there)}
  IN  IF \E i \in 1 .. 2 : ~ Accepts(object[i], ThreeOperations) THEN Throws
      ELSE IF system.list # "ok" THEN Throws
      ELSE Collects(RightsOn(Single(Chosen(object[1], names)), object[2], system, report))
\* The loop that reports a missing trustee goes over the trustees found, of which
\* there are none (ServiceEffectiveRightsProbe.cpp:170).
ServiceEffectiveRights(object, system) == Named(object, system, FALSE)
PrinterEffectiveRights(object, system) == Named(object, system, TRUE)

-----------------------------------------------------------------------------
\* Files: things are <<path, filename, trustee>>.  A path without a filename is
\* an item of its own; a missing path, or a missing filepath, is reported as the
\* other probes of files do.
FileThings(system) ==
  [there |-> Containers(system.there), list |-> system.list, read |-> system.read]
OfFiles(object, system) ==
  LET files == FileThings(system)
      inner == Container(object)
      found == SearchFiles(inner, files)
      items == IF found = {} THEN ReportMissing(inner, files)
               ELSE RightsOn(found, Final(object), system, TRUE)
  IN  IF ~ Accepts(Final(object), ThreeOperations) THEN Throws
      ELSE Collects({IF Len(i.thing) = Len(object) THEN i
                     ELSE [i EXCEPT !.thing = @ \o <<Nothing>>] : i \in items})
FileEffectiveRights53(object, system)   == OfFiles(object, system)
FileAuditedPermissions53(object, system) == OfFiles(object, system)
\* The older ones do not take a filepath.
FileEffectiveRights(object, system) ==
  IF Len(object) = 2 THEN Throws ELSE OfFiles(object, system)
FileAuditedPermissions(object, system) == FileEffectiveRights(object, system)

\* Registry keys: things are <<hive, key, trustee>>.  If no key is found, the hive is
\* missing, or each key that was named in a hive that is there.
MissingKeys(hives, keys, containers) ==
  LET there == {c[1] : c \in containers}
  IN  IF Missing(hives, there) # {} THEN {DoesNotExist(<<Nothing, Nothing, Nothing>>)}
      ELSE {DoesNotExist(<<h, Nothing, Nothing>>) :
              h \in {g \in Chosen(hives, there) : Missing(keys, Seconds(containers, g)) # {}}}
OfKeys(object, system) ==
  LET containers == Containers(system.there)
      found == UNION {{<<h, k>> : k \in Chosen(object[2], Seconds(containers, h))} :
                        h \in Chosen(object[1], {c[1] : c \in containers})}
  IN  IF \E i \in 1 .. 3 : ~ Accepts(object[i], ThreeOperations) THEN Throws
      ELSE Collects(IF found = {} THEN MissingKeys(object[1], object[2], containers)
                    ELSE RightsOn(found, object[3], system, TRUE))
RegKeyEffectiveRights(object, system)    == OfKeys(object, system)
RegKeyEffectiveRights53(object, system)  == OfKeys(object, system)
RegKeyAuditedPermissions(object, system) == OfKeys(object, system)
RegKeyAuditedPermissions53(object, system) == OfKeys(object, system)

\* One item: the rights come after the names, and what fails there makes the item an
\* error; an account that has no number any more has no item, and what fails before
\* is an exception that the caller puts in the log.
RightsItem(os) ==
  IF os.sid # "ok" THEN NoItem
  ELSE IF os.rights # "ok" THEN Item("error", [trustee |-> "exists"])
  ELSE Item("exists", [trustee |-> "exists", rights |-> "exists"])
AuditItem(os) == RightsItem(os)

-----------------------------------------------------------------------------
\* Accounts by name or number: a value without a variable is looked up, anything
\* else is compared with the names that are listed.
OfAccount(object, system) ==
  LET e == object[1]
      asked == IF e.op = "equals" /\ ~ e.var THEN e.values
               ELSE Firsts(system.there) \cap e.matches
  IN  IF ~ Accepts(e, ThreeOperations) THEN Throws
      ELSE IF (e.op # "equals" \/ e.var) /\ system.list # "ok" THEN Throws
      ELSE IF \E n \in asked : system.read[n] = "fails" THEN Throws
      ELSE Collects({IF n \in system.known THEN Exists(<<n>>) ELSE DoesNotExist(<<Nothing>>) :
                       n \in asked})
AccessToken(object, system) == OfAccount(object, system)
SidSid(object, system)      == OfAccount(object, system)

\* The accounts an item is made for.  A group of which neither the name nor any
\* member is wanted is one that does not exist (AccessTokenProbe.cpp:455).
TokensOf(name, resolve, include, accounts) ==
  IF ~ (accounts.isGroup[name] /\ resolve) THEN All("exists", {<<name>>})
  ELSE LET names == ResolvedTrustees({name}, include, accounts)
       IN  IF names = {} THEN {DoesNotExist(<<Nothing>>)}
           ELSE All("exists", Single({n \in names : accounts.lookup[n] # "absent"}))
\* The rights of an account: a call that fails counts none (line 228), and every
\* privilege is there with the value 0.
PrivilegesOf(answer, rights) == IF answer = "ok" THEN rights ELSE {}
AccessTokenItem(os) ==
  Item("exists",
       [r \in os.privileges |-> IF r \in PrivilegesOf(os.enumerate, os.held) THEN "1" ELSE "0"])

\* The members of a group, each with the members below it: first those that Windows
\* lists, then the same for each of them.
SidAccounts(name, resolve, include, accounts) ==
  LET below[n \in DOMAIN accounts.lookup] ==
        IF accounts.lookup[n] # "ok" THEN {DoesNotExist(<<Nothing>>)}
        ELSE IF ~ (accounts.isGroup[n] /\ resolve) THEN {Exists(<<n>>)}
        ELSE (IF include THEN {Exists(<<n>>)} ELSE {}) \cup
             UNION {below[m] : m \in ExpandGroup(n, include, resolve, accounts).names}
  IN  below[name]

\* By name, the values are brought into their normal form first; then every
\* candidate, value or listed, goes through Analyze.
Sid(object, system) ==
  LET e == object[1]
      looked == e.op \in {"equals", "case insensitive equals"}
      candidates == IF looked THEN e.values \cap system.known ELSE Firsts(system.there)
      missing == IF looked THEN e.values \ system.known ELSE {}
      chosen == candidates \cap e.matches
  IN  IF ~ e.typed \/ (~ looked /\ system.list # "ok") THEN Throws
      ELSE IF \E n \in missing \cup chosen : system.read[n] = "fails" THEN Throws
      ELSE Collects(All("exists", Single(chosen)) \cup
                    (IF missing = {} THEN {} ELSE {DoesNotExist(<<Nothing>>)}))

-----------------------------------------------------------------------------
=============================================================================
