------------------------------- MODULE Finders ------------------------------
(***************************************************************************)
(* How the probes of files and of the registry find what an object means:   *)
(* AbsFileFinder, FileFinder of unix and of windows, RegistryFinder.  A     *)
(* path, or a registry key, is the sequence of its names, which are         *)
(* positive numbers; the root, "/" or the one fixed drive with its          *)
(* separator, is the empty sequence.  Paths are texts: a path through a     *)
(* symbolic link is another path to the same directory.                     *)
(*                                                                         *)
(* A file system: its directories, by their real path, the files and links  *)
(* in them, `closed' the directories that cannot be listed, `locked' the    *)
(* places that no handle is given for, `hidden' the names that begin with   *)
(* a dot.                                                                   *)
(***************************************************************************)
EXTENDS Naturals, SequencesExt

CONSTANT LinkLimit      \* symbolic links the system follows in one path
ASSUME LinkLimitAssumption == LinkLimit \in Nat

\* What is left of a path at the top when its name is cut off: on unix the empty
\* text, on Windows the drive, "C:", to which a separator is added wherever it is used.
Root      == <<>>
TopParent == <<0>>
Within(path) == IF path = TopParent THEN Root ELSE path

FinderThrows == [thrown |-> TRUE, paths |-> <<>>]
Finds(paths) == [thrown |-> FALSE, paths |-> paths]

-----------------------------------------------------------------------------
\* The system's own resolution of a path: links in front of the last name are
\* always followed, the last one by stat and not by lstat.
FollowName(fs, place, name) ==
  LET child == Append(place.at, name)
  IN  IF child \in DOMAIN fs.links
      THEN [at |-> fs.links[child], hops |-> place.hops + 1]
      ELSE [at |-> child, hops |-> place.hops]
Resolve(fs, path) ==
  FoldLeft(LAMBDA place, name : FollowName(fs, place, name),
           [at |-> Root, hops |-> 0], path)

Lstat(fs, path) ==
  LET place == Resolve(fs, IF path = Root THEN Root ELSE Front(path))
      at    == IF path = Root THEN Root ELSE Append(place.at, Last(path))
  IN  CASE path = TopParent        -> "absent"
        [] place.hops > LinkLimit  -> "fails"
        [] at \in DOMAIN fs.links  -> "link"
        [] at \in fs.dirs          -> "directory"
        [] at \in fs.files         -> "file"
        [] OTHER                   -> "absent"

Stat(fs, path) ==
  LET place == Resolve(fs, path)
  IN  CASE path = TopParent        -> "absent"
        [] place.hops > LinkLimit  -> "fails"
        [] place.at \in fs.dirs    -> "directory"
        [] place.at \in fs.files   -> "file"
        [] OTHER                   -> "absent"

Entries(fs, directory) ==
  {Last(p) : p \in {q \in (fs.dirs \cup fs.files \cup DOMAIN fs.links) \ {Root} :
                      Front(q) = directory}}

\* opendir or FindFirstFile, and readdir or FindNextFile of everything.
Open(fs, path) ==
  LET place == Resolve(fs, path)
  IN  IF Stat(fs, path) # "directory" THEN Stat(fs, path)
      ELSE IF place.at \in fs.closed THEN "fails" ELSE "open"
Children(fs, path) == {Append(path, n) : n \in Entries(fs, Resolve(fs, path).at)}
Unhidden(fs, path)  == {c \in Children(fs, path) : Last(c) \notin fs.hidden}

\* CreateFile: every link is followed, and a directory needs its flag.
Handle(fs, path, ofDirectories) ==
  LET is == Stat(fs, path)
      refused == \/ is = "fails"
                 \/ Resolve(fs, path).at \in fs.locked
                 \/ is = "directory" /\ ~ ofDirectories
  IN  IF is = "absent" THEN "no" ELSE IF refused THEN "throws" ELSE "yes"

-----------------------------------------------------------------------------
\* Is there such a directory: unix asks lstat.  Windows asks for a handle, which there
\* is for a file too, and for what a link leads to; when it is refused for another
\* reason than that there is no such thing, that is an exception.
UnixPathExists(fs, path) == IF Lstat(fs, path) = "directory" THEN "yes" ELSE "no"
WinPathExists(fs, path)  == Handle(fs, path, TRUE)
PathExists(fs, os, path) ==
  IF os = "unix" THEN UnixPathExists(fs, path) ELSE WinPathExists(fs, path)

\* Is there such a file.  BuildFilePath refuses the empty text.
UnixFileNameExists(fs, path, name) ==
  IF path = TopParent THEN "throws"
  ELSE IF Lstat(fs, Append(path, name)) \in {"file", "link"} THEN "yes" ELSE "no"
WinFileNameExists(fs, path, name) == Handle(fs, Append(Within(path), name), FALSE)
FileNameExists(fs, os, path, name) ==
  IF os = "unix" THEN UnixFileNameExists(fs, path, name)
  ELSE WinFileNameExists(fs, path, name)

ThatExists(answer, path) ==
  CASE answer = "yes"    -> Finds(<<path>>)
    [] answer = "no"     -> Finds(<<>>)
    [] answer = "throws" -> FinderThrows

-----------------------------------------------------------------------------
\* The walk over everything below a directory, links not followed.  Unix leaves a
\* directory it cannot open, windows throws, and passes over hidden names.
WalkedFrom(path, found) == [thrown |-> \E f \in found : f.thrown,
                            paths  |-> {path} \cup UNION {f.paths : f \in found}]
NothingWalked == [thrown |-> FALSE, paths |-> {}]
UnixWalk(fs, start) ==
  LET walk[path \in Seq(Nat)] ==
        IF UnixPathExists(fs, path) = "no" THEN NothingWalked
        ELSE WalkedFrom(path, IF Open(fs, path) # "open" THEN {}
                              ELSE {walk[c] : c \in Children(fs, path)})
  IN  walk[start]
WinWalk(fs, start) ==
  LET walk[path \in Seq(Nat)] ==
        IF WinPathExists(fs, path) = "no" THEN NothingWalked
        ELSE IF WinPathExists(fs, path) = "throws" \/ Open(fs, path) # "open"
        THEN [thrown |-> TRUE, paths |-> {}]
        ELSE WalkedFrom(path, {walk[c] : c \in {d \in Unhidden(fs, path) :
                                                  Lstat(fs, d) = "directory"}})
  IN  walk[start]

\* One value of a path entity: its text, what the operation says with it, and for
\* a pattern the directory its constant part names.
\* FindPaths: an anchored pattern starts there, or is looked up when it is
\* constant; every other operation starts at the root.
StartOf(op, query) == IF op = "pattern match" THEN query.start ELSE Root
Constant(op, query) == op = "pattern match" /\ query.constant
OfWalk(walk, query) ==
  IF walk.thrown THEN FinderThrows ELSE Finds(SetToSeq(walk.paths \cap query.matches))
UnixFindPaths(fs, op, query) ==
  IF Constant(op, query) THEN ThatExists(UnixPathExists(fs, query.start), query.start)
  ELSE OfWalk(UnixWalk(fs, StartOf(op, query)), query)
WinFindPaths(fs, op, query) ==
  IF ~ Constant(op, query) THEN OfWalk(WinWalk(fs, StartOf(op, query)), query)
  ELSE IF WinPathExists(fs, query.start) = "yes" /\ query.start \notin query.matches
  THEN Finds(<<>>)
  ELSE ThatExists(WinPathExists(fs, query.start), query.start)
FindPaths(fs, os, op, query) ==
  IF os = "unix" THEN UnixFindPaths(fs, op, query) ELSE WinFindPaths(fs, op, query)

\* Without regard to case: unix compares only directories every ancestor of which can
\* be opened; on Windows every comparison is one, and the path is looked up.
UnixPathExistsCaseInsensitive(fs, length, matches) ==
  Finds(SetToSeq({p \in UnixWalk(fs, Root).paths : p \in matches /\ Len(p) = length}))
WinPathExistsCaseInsensitive(fs, path) == ThatExists(WinPathExists(fs, path), path)

PathsOfValue(fs, os, op, query) ==
  CASE op = "equals" -> ThatExists(PathExists(fs, os, query.text), query.text)
    [] op = "case insensitive equals" /\ os = "unix" ->
         UnixPathExistsCaseInsensitive(fs, Len(query.text), query.matches)
    [] op = "case insensitive equals" /\ os = "windows" ->
         WinPathExistsCaseInsensitive(fs, query.text)
    [] OTHER -> FindPaths(fs, os, op, query)

-----------------------------------------------------------------------------
\* Recursion.  Depth -1 has no bound.  Unix takes a link that leads to a directory for
\* one, and has nothing below a directory that is not there.
UnixGetChildDirectories(fs, path) ==
  IF Open(fs, path) = "absent" THEN Finds(<<>>)
  ELSE IF Open(fs, path) # "open" \/ \E c \in Children(fs, path) : Stat(fs, c) = "fails"
  THEN FinderThrows
  ELSE Finds(SetToSeq({c \in Children(fs, path) : Stat(fs, c) = "directory"}))
WinGetChildDirectories(fs, path) ==
  IF Open(fs, path) # "open" THEN FinderThrows
  ELSE Finds(SetToSeq({c \in Unhidden(fs, path) : Lstat(fs, c) = "directory"}))
GetChildDirectories(fs, os, path) ==
  IF os = "unix" THEN UnixGetChildDirectories(fs, path) ELSE WinGetChildDirectories(fs, path)

\* A slip: the depth that is left stays the same.
FaultyDeeper(depth) == depth
Deeper(depth) == IF depth = -1 THEN -1 ELSE depth - 1

Concat(finds) ==
  IF \E i \in DOMAIN finds : finds[i].thrown THEN FinderThrows
  ELSE Finds(FlattenSeq([i \in DOMAIN finds |-> finds[i].paths]))

Depths == Nat \cup {-1}
DownwardPathRecursion(fs, os, path, depth) ==
  LET down[p \in Seq(Nat), left \in Depths] ==
        LET children == GetChildDirectories(fs, os, p)
            deeper   == [i \in DOMAIN children.paths |-> down[children.paths[i], Deeper(left)]]
        IN  IF left = 0 THEN Finds(<<>>)
            ELSE IF children.thrown THEN FinderThrows
            ELSE Concat(<<children>> \o deeper)
  IN  down[path, depth]

\* The parent of a path at the top is not the root.
Parent(path) == IF Len(path) = 1 THEN TopParent ELSE Front(path)
UpwardPathRecursion(path, depth) ==
  LET up[p \in Seq(Nat), left \in Depths] ==
        IF left = 0 \/ p \in {Root, TopParent} THEN <<>>
        ELSE <<Parent(p)>> \o up[Parent(p), Deeper(left)]
  IN  up[path, depth]

\* behaviors: direction, depth, and whether recurse and recurse_file_system have
\* the values unix supports, "symlinks and directories" and "all".
WinProcessPathBehaviors(fs, os, paths, behaviors) ==
  CASE behaviors.direction = "none" -> Finds(<<>>)
    [] behaviors.direction = "up" ->
         Finds(FlattenSeq([i \in DOMAIN paths |->
                             UpwardPathRecursion(paths[i], behaviors.depth)]))
    [] behaviors.direction = "down" ->
         Concat([i \in DOMAIN paths |->
                   DownwardPathRecursion(fs, os, paths[i], behaviors.depth)])
UnixProcessPathBehaviors(fs, os, paths, behaviors) ==
  IF behaviors.direction # "none" /\ ~ behaviors.supported THEN FinderThrows
  ELSE WinProcessPathBehaviors(fs, os, paths, behaviors)
ProcessPathBehaviors(fs, os, paths, behaviors) ==
  IF os = "unix" THEN UnixProcessPathBehaviors(fs, os, paths, behaviors)
  ELSE WinProcessPathBehaviors(fs, os, paths, behaviors)

-----------------------------------------------------------------------------
\* The order of the texts: what is left at the top comes before everything else.
Before(p, q) ==
  /\ q # TopParent
  /\ \/ p = TopParent
     \/ \E k \in 0 .. Len(p) : /\ k < Len(q) /\ SubSeq(p, 1, k) = SubSeq(q, 1, k)
                               /\ (k = Len(p) \/ p[k + 1] < q[k + 1])

\* std::unique moves the distinct elements of a sorted vector to its front and
\* leaves the rest as it was; it returns where the rest begins, which GetPaths
\* does not use.
Unique(sorted) ==
  LET distinct == SelectSeq([i \in DOMAIN sorted |-> i],
                    LAMBDA i : i = 1 \/ sorted[i] # sorted[i - 1])
      front    == [i \in DOMAIN distinct |-> sorted[distinct[i]]]
  IN  front \o SubSeq(sorted, Len(front) + 1, Len(sorted))

\* What a variable's check leaves of what its values found.
KeepPaths(entity, found) ==
  IF found.thrown \/ ~ entity.var THEN found
  ELSE Finds(SelectSeq(found.paths, LAMBDA p : p \in entity.matches))
AndBelow(fs, os, found, behaviors) ==
  IF found.thrown THEN FinderThrows
  ELSE Concat(<<found, ProcessPathBehaviors(fs, os, found.paths, behaviors)>>)
InOrder(found) ==
  IF found.thrown THEN FinderThrows ELSE Finds(Unique(SortSeq(found.paths, Before)))
GetPaths(fs, os, entity, behaviors) ==
  LET found == Concat([i \in DOMAIN entity.queries |->
                         PathsOfValue(fs, os, entity.op, entity.queries[i])])
  IN  InOrder(AndBelow(fs, os, KeepPaths(entity, found), behaviors))

-----------------------------------------------------------------------------
\* The files of a directory: on unix everything that is not a directory, links
\* included.  A link to a directory has the attribute of one on Windows.
UnixGetFilesForOperation(fs, path, matches) ==
  IF Open(fs, path) # "open" THEN FinderThrows
  ELSE Finds(SetToSeq({c \in Children(fs, path) \cap matches :
                         Lstat(fs, c) \in {"file", "link"}}))
WinGetFilesForOperation(fs, path, matches) ==
  LET names == {Last(c) : c \in {d \in Unhidden(fs, Within(path)) : Stat(fs, d) = "file"}}
  IN  CASE Open(fs, Within(path)) = "absent" -> Finds(<<>>)
        [] Open(fs, Within(path)) = "open" ->
             Finds(SetToSeq({Append(path, n) : n \in names} \cap matches))
        [] OTHER -> FinderThrows
GetFilesForOperation(fs, os, path, matches) ==
  IF os = "unix" THEN UnixGetFilesForOperation(fs, path, matches)
  ELSE WinGetFilesForOperation(fs, path, matches)

\* On Windows equals is a comparison without regard to case as well.
LooksUp(os, op) ==
  op = "equals" \/ (os = "windows" /\ op = "case insensitive equals")
KeepNames(entity, found) ==
  IF found.thrown \/ ~ entity.var THEN found
  ELSE Finds(SelectSeq(found.paths, LAMBDA p : Last(p) \in entity.matches))
GetFileNames(fs, os, path, entity) ==
  LET Paths(query) == {Append(path, n) : n \in query.matches}
      OfValue(query) ==
        IF LooksUp(os, entity.op)
        THEN ThatExists(FileNameExists(fs, os, path, query.text), Append(path, query.text))
        ELSE GetFilesForOperation(fs, os, path, Paths(query))
      found == Concat([i \in DOMAIN entity.queries |-> OfValue(entity.queries[i])])
  IN  KeepNames(entity, found)

\* A path and a filename: each path with each of its files, or alone.
FilesBelow(fs, os, found, file) ==
  IF found.thrown \/ file.nil THEN found
  ELSE Concat([i \in DOMAIN found.paths |-> GetFileNames(fs, os, found.paths[i], file)])
SearchFilesOf(fs, os, entity, file, behaviors) ==
  FilesBelow(fs, os, GetPaths(fs, os, entity, behaviors), file)

\* A filepath.  A value is looked up, or looked for below the directories that match
\* its first part, and compared as a whole.
FilePathExists(fs, os, path) ==
  IF PathExists(fs, os, Front(path)) # "yes" THEN PathExists(fs, os, Front(path))
  ELSE FileNameExists(fs, os, Front(path), Last(path))
FilesOfEach(fs, os, found, matches) ==
  IF found.thrown THEN FinderThrows
  ELSE Concat([i \in DOMAIN found.paths |->
                 GetFilesForOperation(fs, os, found.paths[i], matches)])
UnixFilePathExistsCaseInsensitive(fs, query) ==
  FilesOfEach(fs, "unix",
              UnixPathExistsCaseInsensitive(fs, Len(query.text) - 1, query.directories),
              query.matches)
FilePathsForOperation(fs, os, op, query) ==
  FilesOfEach(fs, os, FindPaths(fs, os, op, [query EXCEPT !.matches = query.directories]),
              query.matches)
GetFilePaths(fs, os, entity) ==
  LET OfValue(query) ==
        IF LooksUp(os, entity.op) THEN ThatExists(FilePathExists(fs, os, query.text), query.text)
        ELSE IF entity.op = "case insensitive equals"
        THEN UnixFilePathExistsCaseInsensitive(fs, query)
        ELSE FilePathsForOperation(fs, os, entity.op, query)
  IN  KeepPaths(entity, Concat([i \in DOMAIN entity.queries |-> OfValue(entity.queries[i])]))

-----------------------------------------------------------------------------
\* The registry below one hive: its keys, `closed' those that cannot be opened,
\* `foreign' those with a name outside of ASCII.  The set of keys that are found
\* has no order and no duplicate.  The keys below a closed one are not there.
HiveName == <<0>>       \* the name of the hive, which is no key

KeyExists(hive, key) == key \in hive.keys \ hive.closed
SubKeys(hive, key) ==
  IF ~ KeyExists(hive, key) THEN {}
  ELSE {k \in hive.keys \ {Root} : Front(k) = key}

GetRegistriesForPattern(hive, key) ==
  LET walk[k \in Seq(Nat)] ==
        (IF KeyExists(hive, k) /\ k # Root THEN {k} ELSE {}) \cup
        UNION {walk[below] : below \in SubKeys(hive, k) \ hive.foreign}
  IN  walk[key]

FindKeys(hive, op, query) ==
  IF op = "pattern match" /\ query.constant
  THEN {query.start} \cap (hive.keys \ hive.closed)
  ELSE query.matches \cap GetRegistriesForPattern(hive,
                            IF op = "pattern match" THEN query.start ELSE Root)

DownwardRegistryRecursion(hive, key, depth) ==
  LET down[k \in Seq(Nat), left \in Depths] ==
        IF left = 0 THEN {}
        ELSE SubKeys(hive, k) \cup UNION {down[below, Deeper(left)] : below \in SubKeys(hive, k)}
  IN  down[key, depth]

UpwardRegistryRecursion(key, depth) ==
  LET up[k \in Seq(Nat), left \in Depths] ==
        CASE left = 0 \/ k = Root -> {}
          [] left # 0 /\ Len(k) = 1 -> {HiveName}
          [] OTHER -> {Front(k)} \cup up[Front(k), Deeper(left)]
  IN  up[key, depth]

ProcessKeyBehaviors(hive, keys, behaviors) ==
  CASE behaviors.direction = "up" ->
         UNION {UpwardRegistryRecursion(k, behaviors.depth) : k \in keys}
    [] behaviors.direction = "down" ->
         UNION {DownwardRegistryRecursion(hive, k, behaviors.depth) : k \in keys}
    [] OTHER -> {}

\* Operations other than these three find nothing, unless a variable is there, when
\* they are taken for a pattern; and with a variable what is found is analyzed,
\* but for equals.
GetKeys(hive, entity, behaviors) ==
  LET queries == {entity.queries[i] : i \in DOMAIN entity.queries}
      walked  == UNION {FindKeys(hive, IF entity.op = "not equal" THEN entity.op
                                       ELSE "pattern match", q) : q \in queries}
      found   == CASE entity.op = "equals" ->
                        {q.text : q \in {r \in queries : KeyExists(hive, r.text)}}
                   [] entity.var -> walked \cap entity.matches
                   [] entity.op \in {"not equal", "pattern match"} -> walked
                   [] OTHER -> {}
  IN  IF entity.nil THEN {Root}
      ELSE found \cup ProcessKeyBehaviors(hive, found, behaviors)
=============================================================================
