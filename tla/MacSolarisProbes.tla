-------------------------- MODULE MacSolarisProbes --------------------------
(***************************************************************************)
(* The probes of src/probes/macos, which ask commands, and of               *)
(* src/probes/solaris.  See Probe.                                          *)
(***************************************************************************)
EXTENDS Probe

-----------------------------------------------------------------------------
\* CommandReader: a command that cannot be started throws; one that fails prints
\* nothing, and its exit status is not looked at.
GetResponse(answer, lines) ==
  CASE answer = "ok" -> [thrown |-> FALSE, lines |-> lines]
    [] answer = "absent" -> [thrown |-> FALSE, lines |-> {}]
    [] OTHER -> [thrown |-> TRUE, lines |-> {}]

\* The names are kept once there are any; each that matches is asked for again,
\* and has no item if the command prints nothing.
AccountInfo(object, system, kept) ==
  LET listed == GetResponse(system.list, Firsts(system.there))
      names  == IF kept # {} THEN kept ELSE listed.lines
  IN  IF ~ Accepts(object[1], StringOperations) THEN Throws
      ELSE IF kept = {} /\ listed.thrown THEN Throws
      ELSE ReadEach(Single(names \cap object[1].matches),
                    LAMBDA t : AnswerFor(t[1], Firsts(system.there), system),
                    ByAnswer("exists", "none", "throws"))
\* A field the command did not print exists, and is empty.
AccountInfoItem(os) ==
  CASE os.dscl = "fails" -> ItemThrows
    [] os.dscl = "absent" -> NoItem
    [] OTHER -> Item("exists", [uid |-> "exists", password |-> "exists"])

\* Things are <<protocol, local_address, local_port>>, kept from the first object
\* on; the port may be empty, and is compared as one that does not exist.
InetListeningServer510(object, snapshot) ==
  IF \/ \E i \in 1 .. 2 : ~ Accepts(object[i], StringOperations)
     \/ ~ object[3].typed
  THEN Throws
  ELSE Collects(All("exists", Matching(object, snapshot)))
\* An address as lsof writes it, cut at its last colon; a star is no port here and
\* 0 at the other end, and brackets come off.
LocalEnd(hasColon, port)   == IF ~ hasColon \/ port = "*" THEN Nothing ELSE port
ForeignEnd(hasColon, port) == IF ~ hasColon \/ port = "*" THEN "0" ELSE port
InetListeningServer510Item(os) ==
  IF os.fields # "ok" THEN NoItem
  ELSE Item("exists",
         [local_port |-> IF LocalEnd(os.colon = "ok", os.port) = Nothing
                         THEN "does not exist" ELSE "exists",
          foreign_port |-> IF ForeignEnd(os.colon = "ok", os.port) = Nothing
                           THEN "does not exist" ELSE "exists",
          program_name |-> "exists"])

\* The list is made before the command is asked (NvramProbe.cpp:129): if that
\* throws, the next object finds it empty.
Nvram(object, snapshot) ==
  IF ~ Accepts(object[1], StringOperations) THEN Throws
  ELSE Collects(All("exists", Matching(object, snapshot)))
NvramItem(os) ==
  IF os.fields # "ok" THEN NoItem ELSE Item("exists", [nvram_value |-> "exists"])

\* Only the first entity chooses; the policy of a user for whom the command prints
\* nothing has no property that exists.
PwPolicy59(object, system, kept) ==
  LET listed == GetResponse(system.list, Firsts(system.there))
      names  == IF kept # {} THEN kept ELSE listed.lines
  IN  IF \E i \in DOMAIN object : ~ Accepts(object[i], StringOperations) THEN Throws
      ELSE IF kept = {} /\ listed.thrown THEN Throws
      ELSE ReadEach(Single(names \cap object[1].matches),
                    LAMBDA t : AnswerFor(t[1], Firsts(system.there), system),
                    ByAnswer("exists", "exists", "throws"))
PwPolicy59Item(os) ==
  LET Property(answer) ==
        IF os.pwpolicy # "ok" THEN "does not exist"
        ELSE Element(answer, ByAnswer("exists", "does not exist", "error"))
  IN  IF os.pwpolicy = "fails" THEN ItemThrows
      ELSE Item("exists", [minChars |-> Property(os.integer),
                           requiresAlpha |-> Property(os.boolean),
                           username |-> "not collected"])

-----------------------------------------------------------------------------
\* Solaris: one item; the kernel may be silent.  Every architecture whose name
\* begins as "sparc" has 32 bits, sparcv9 too (IsainfoProbe.cpp:92).
Bits(isa) == CASE isa \in {"sparc", "sparcv9", "i386"} -> 32
               [] isa = "amd64" -> 64
               [] OTHER -> 0
IsainfoItem(os) ==
  LET Answer(a) == IF a = "ok" THEN "exists" ELSE "error"
      known == os.application = "ok" /\ Bits(os.isa) > 0
  IN  Item(IF known /\ os.kernel = "ok" THEN "exists" ELSE "error",
           [bits |-> IF known THEN "exists" ELSE "error",
            kernel_isa |-> Answer(os.kernel), application_isa |-> Answer(os.application)])
-----------------------------------------------------------------------------
\* Patches <<base, version>> found in the package files when the probe is made.  A
\* package that cannot be looked at throws, one without a pkginfo is passed over.
PatchPackage(os) ==
  IF "fails" \in {os.stat, os.pkginfo, os.read} \/ os.stat = "absent" THEN ItemThrows
  ELSE IF os.pkginfo = "absent" THEN NoItem
  ELSE Item("exists", [base |-> "exists", version |-> "exists"])

\* The patches of the file, with what each makes obsolete; a patch that is obsolete
\* is there as well.
Patches(listed, obsoletes) == listed \cup {pair[2] : pair \in obsoletes}

\* By base: the patches of one value replace those of the values before it
\* (Patch54Probe.cpp:120), so that the last value that is there decides.  The
\* values are in the order of the entity.
PatchesOfBases(bases, patches) ==
  LET present == {i \in DOMAIN bases : \E p \in patches : p[1] = bases[i]}
  IN  IF present = {} THEN {}
      ELSE {p \in patches : p[1] = bases[CHOOSE i \in present :
                                           \A j \in present : j <= i]}
ChosenPatches(object, bases, patches) ==
  LET found == IF object[1].op = "equals" THEN PatchesOfBases(bases, patches)
               ELSE patches
  IN  Matching(object, found)

\* What supersedes a patch: a later version, or a patch that makes it obsolete.
\* `later' says which of two versions is the later.
GetSupersedingPatches(patch, patches, obsoletes, later) ==
  {p \in patches : p[1] = patch[1] /\ <<p[2], patch[2]>> \in later} \cup
  {pair[1] : pair \in {o \in obsoletes : o[2] = patch}}

\* The rounds of the loop: what supersedes the patches found last and was not found
\* before is found next.
Rounds(chosen, patches, obsoletes, later) ==
  LET Next(found, last) ==
        UNION {GetSupersedingPatches(p, patches, obsoletes, later) : p \in last} \ found
      round[n \in Nat] ==
        IF n = 0 THEN [found |-> chosen, last |-> chosen]
        ELSE LET new == Next(round[n - 1].found, round[n - 1].last)
             IN  [found |-> round[n - 1].found \cup new, last |-> new]
  IN  round
Supersedence(chosen, patches, obsoletes, later) ==
  LET all == patches \cup {pair[1] : pair \in obsoletes}
  IN  Rounds(chosen, patches, obsoletes, later)[Cardinality(all) + 1].found

Patch54(object, bases, patches, obsoletes, later, supersedence) ==
  LET chosen == ChosenPatches(object, bases, patches)
  IN  Collects(All("exists", IF supersedence
                             THEN Supersedence(chosen, patches, obsoletes, later)
                             ELSE chosen))
=============================================================================
