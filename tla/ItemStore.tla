----------------------------- MODULE ItemStore -----------------------------
(***************************************************************************)
(* What the items of a run are for: the things a probe reported for an      *)
(* object, minus those its filters remove, are the things the analysis      *)
(* later reads for that object, no more and no fewer, and for an object     *)
(* without a readable flag it reads nothing.  What comes back of a thing is *)
(* a function of the thing alone, ReadBack.  Nothing is said here of ids,    *)
(* of sharing, of the document in between: that is ItemCache, which         *)
(* implements this specification.                                           *)
(***************************************************************************)
CONSTANTS
  Objects,     \* ids of the collected objects
  Contents,    \* what an item says: its name, status and elements
  Inputs,      \* what the probes answer, which objects have a readable flag
  ReadBack     \* what reading gives back of a thing that was written

VARIABLES
  input,       \* the answers of this run
  collected,   \* the objects that have been collected
  reread,      \* the objects whose items the analysis has read
  seen         \* what it has read for them

storeVars == <<input, collected, reread, seen>>

\* What an object stands for: the answer of its probe or, for a set with one
\* reference, the things of that object; in both cases without the rejected.
Reported(o) == {input.answer[o][i] : i \in DOMAIN input.answer[o]}
Meaning(o) ==
  (IF input.from[o] = o THEN Reported(o)
   ELSE Reported(input.from[o]) \ input.rejects[input.from[o]]) \ input.rejects[o]

StoreInit ==
  /\ input \in Inputs
  /\ collected = {}
  /\ reread = {}
  /\ seen = [o \in Objects |-> {}]

Collect(o) ==
  /\ o \notin collected
  /\ reread = {}
  /\ collected' = collected \cup {o}
  /\ UNCHANGED <<input, reread, seen>>

Reread(o) ==
  /\ collected = Objects
  /\ o \in input.readable \ reread
  /\ reread' = reread \cup {o}
  /\ seen' = [seen EXCEPT ![o] = {ReadBack[x] : x \in Meaning(o)}]
  /\ UNCHANGED <<input, collected>>

StoreNext == \E o \in Objects : Collect(o) \/ Reread(o)

StoreSpec == StoreInit /\ [][StoreNext]_storeVars
=============================================================================
