----------------------------- MODULE ItemCache -----------------------------
(***************************************************************************)
(* The items of a run, from a probe to the analysis.  AbsProbe::Run filters *)
(* what a probe found and replaces each item by an equal one of a global    *)
(* set, numbering those that are new; a set object takes over the items of  *)
(* the object it refers to; CollectedObject::Write puts every item once     *)
(* into the system_data element and the ids into the object elements; the   *)
(* global caches are cleared; ObjectReader finds the items again by id.     *)
(*                                                                         *)
(* Texts are numbers here, of which only the order matters.                *)
(***************************************************************************)
EXTENDS Integers, Sequences, FiniteSets

CONSTANTS
  Objects,     \* ids of the objects
  Contents,    \* the items that can be built, see ItemLess
  Inputs       \* what the probes answer, which items filters reject

\* What an object's flag is, ObjectCollector says; here any object may have the
\* flag complete or incomplete, which makes its items readable.
\* from[o] is o itself for an object with a probe, else the object a set object
\* refers to (the operators on two references are in SetOperators).
Input ==
  [answer   : [Objects -> Seq(Contents)],
   rejects  : [Objects -> SUBSET Contents],
   from     : [Objects -> Objects],
   readable : SUBSET Objects]

ASSUME InputsAssumption ==
  \A in \in Inputs : /\ in \in Input
                     /\ \A o \in Objects : in.from[in.from[o]] = in.from[o]

VARIABLES
  input,
  phase,            \* "collecting", "writing", "reading"
  object,           \* the object in work, Nobody between two objects
  todo,             \* what is left of the items of that object
  cachedItems,      \* the vector CacheAllItems, or a reader, is filling
  references,       \* CollectedObject::references of each object
  collected,        \* the objects in CollectedObject::collectedObjectsMap
  globalItemCache,  \* AbsProbe::globalItemCache
  idCounter,        \* Item::idCounter
  systemData,       \* the item elements of the system_data element, in order
  itemRefs,         \* the item_ref attributes below each object element
  processedItems,   \* Item::processedItemsMap: the items read so far
  reread,           \* the objects GetItemsForObject has been called for
  seen              \* what it returned

vars == <<input, phase, object, todo, cachedItems, references, collected,
          globalItemCache, idCounter, systemData, itemRefs, processedItems,
          reread, seen>>

Nobody == 0
ASSUME NobodyAssumption == Nobody \notin Objects

ItemOf(id, content) == [id |-> id, content |-> content]
Elements(seq) == {seq[i] : i \in DOMAIN seq}

-----------------------------------------------------------------------------
\* What can be an item: OvalEnum::SCStatus, the position of DATATYPE_RECORD in
\* OvalEnum::Datatype, and values of one kind in one entity.  A value is <<text>>,
\* or <<datatype, status, name, text>> for a field; a record that does not exist
\* has a text where others have fields.  Only records have more than one value.
Statuses == {"error", "exists", "does not exist", "not collected"}
Record   == 8
Width(e) == IF e.datatype = Record /\ e.status # "does not exist" THEN 4 ELSE 1

ItemEntity ==
  {e \in [name : Int, datatype : 0 .. 10, status : Statuses, nil : 0 .. 1,
           values : Seq(Seq(Int))] :
     /\ e.datatype # Record => Len(e.values) = 1
     /\ \A i \in DOMAIN e.values : Len(e.values[i]) = Width(e)}
ItemContent ==
  [name : Int, xmlns : Int, status : Statuses, elements : Seq(ItemEntity)]
ASSUME ContentsAssumption == Contents \subseteq ItemContent

\* What comes back of an item that was written: ItemEntity::Write leaves out the
\* values of a record whose status is not exists, so ItemEntity::Parse finds none.
AsRead(e) ==
  IF e.datatype = Record /\ e.status # "exists" THEN [e EXCEPT !.values = <<>>]
  ELSE e
ReadBack ==
  [x \in Contents |-> [x EXCEPT !.elements = [i \in DOMAIN @ |-> AsRead(@[i])]]]

-----------------------------------------------------------------------------
\* std::less of items.  Neither the id nor the messages take part in it.
LexLess(a, b) ==
  \E i \in DOMAIN a \cap DOMAIN b :
    a[i] < b[i] /\ \A j \in 1 .. i - 1 : a[j] = b[j]

StatusRank(status) ==
  CASE status = "error" -> 0 [] status = "exists" -> 1
    [] status = "does not exist" -> 2 [] OTHER -> 3

EntityHead(e) ==
  <<Len(e.values), e.datatype, StatusRank(e.status), e.nil, e.name>>
FaultyEntityLess(e, f) ==
  \/ LexLess(<<Len(e.values), e.name>>, <<Len(f.values), f.name>>)
  \/ /\ <<Len(e.values), e.name>> = <<Len(f.values), f.name>>
     /\ \E i \in DOMAIN e.values :
          /\ LexLess(e.values[i], f.values[i])
          /\ \A j \in 1 .. i - 1 : e.values[j] = f.values[j]
EntityLess(e, f) ==
  \/ LexLess(EntityHead(e), EntityHead(f))
  \/ /\ EntityHead(e) = EntityHead(f)
     /\ \E i \in DOMAIN e.values :
          /\ LexLess(e.values[i], f.values[i])
          /\ \A j \in 1 .. i - 1 : e.values[j] = f.values[j]

ItemHead(x) == <<Len(x.elements), StatusRank(x.status), x.name, x.xmlns>>
ItemLess(x, y) ==
  \/ LexLess(ItemHead(x), ItemHead(y))
  \/ /\ ItemHead(x) = ItemHead(y)
     /\ \E i \in DOMAIN x.elements :
          /\ EntityLess(x.elements[i], y.elements[i])
          /\ \A j \in 1 .. i - 1 : /\ ~ EntityLess(x.elements[j], y.elements[j])
                                   /\ ~ EntityLess(y.elements[j], x.elements[j])

\* What a std::set with this order takes for the same item.
Same(x, y) == ~ ItemLess(x, y) /\ ~ ItemLess(y, x)

-----------------------------------------------------------------------------
Init ==
  /\ input \in Inputs
  /\ phase = "collecting"
  /\ object = Nobody
  /\ todo = <<>>
  /\ cachedItems = <<>>
  /\ references = [o \in Objects |-> <<>>]
  /\ collected = {}
  /\ globalItemCache = {}
  /\ idCounter = 1
  /\ systemData = <<>>
  /\ itemRefs = [o \in Objects |-> <<>>]
  /\ processedItems = {}
  /\ reread = {}
  /\ seen = [o \in Objects |-> {}]

document == <<systemData, itemRefs>>
reader   == <<processedItems, reread, seen>>

Begin(o, items) == object' = o /\ todo' = items /\ cachedItems' = <<>>
End             == object' = Nobody /\ todo' = <<>> /\ cachedItems' = <<>>

\* AbsProbe::Run has what the probe found; a set object has the references of
\* the object it refers to.
RunProbe(o) ==
  /\ phase = "collecting" /\ object = Nobody
  /\ o \notin collected
  /\ input.from[o] = o
  /\ Begin(o, input.answer[o])
  /\ UNCHANGED <<input, phase, references, collected, globalItemCache,
                 idCounter, document, reader>>

CollectSet(o) ==
  /\ phase = "collecting" /\ object = Nobody
  /\ o \notin collected
  /\ input.from[o] # o /\ input.from[o] \in collected
  /\ Begin(o, references[input.from[o]])
  /\ UNCHANGED <<input, phase, references, collected, globalItemCache,
                 idCounter, document, reader>>

\* Both loops below filter as they go.  The code filters the whole vector before
\* the next loop; nothing else runs in between.
ProbeRuns == phase = "collecting" /\ object # Nobody /\ input.from[object] = object
SetRuns   == phase = "collecting" /\ object # Nobody /\ input.from[object] # object

\* CacheAllItems, one candidate (the slip: the candidate is handed on, not the
\* item of the cache, so it has no id; or every candidate gets a new id).
FaultyCacheItem ==
  /\ ProbeRuns
  /\ todo # <<>> /\ Head(todo) \notin input.rejects[object]
  /\ LET new == ItemOf(idCounter, Head(todo)) IN
       /\ globalItemCache' = globalItemCache \cup {new}
       /\ cachedItems' = Append(cachedItems, new)
       /\ idCounter' = IF \E x \in globalItemCache : Same(x.content, Head(todo))
                       THEN idCounter ELSE idCounter + 1
  /\ todo' = Tail(todo)
  /\ UNCHANGED <<input, phase, object, references, collected, document, reader>>
CacheItem ==
  /\ ProbeRuns
  /\ todo # <<>> /\ Head(todo) \notin input.rejects[object]
  /\ LET known == {x \in globalItemCache : Same(x.content, Head(todo))}
         new   == ItemOf(idCounter, Head(todo))
     IN  IF known # {}
         THEN /\ \E x \in known : cachedItems' = Append(cachedItems, x)
              /\ UNCHANGED <<globalItemCache, idCounter>>
         ELSE /\ globalItemCache' = globalItemCache \cup {new}
              /\ cachedItems' = Append(cachedItems, new)
              /\ idCounter' = idCounter + 1
  /\ todo' = Tail(todo)
  /\ UNCHANGED <<input, phase, object, references, collected, document, reader>>

\* AbsProbe::ApplyFilters, one candidate that does not stay.
DropItem ==
  /\ ProbeRuns
  /\ todo # <<>> /\ Head(todo) \in input.rejects[object]
  /\ todo' = Tail(todo)
  /\ UNCHANGED <<input, phase, object, cachedItems, references, collected,
                 globalItemCache, idCounter, document, reader>>

\* Filter::DoFilter over the references of the other object: no candidate, no
\* new id.
FilterReference ==
  /\ SetRuns
  /\ todo # <<>>
  /\ cachedItems' = IF Head(todo).content \in input.rejects[object]
                    THEN cachedItems ELSE Append(cachedItems, Head(todo))
  /\ todo' = Tail(todo)
  /\ UNCHANGED <<input, phase, object, references, collected, globalItemCache,
                 idCounter, document, reader>>

\* CollectedObject::AppendReferences, with the vector that was filled.
AppendReferences ==
  /\ phase = "collecting" /\ object # Nobody
  /\ todo = <<>>
  /\ references' = [references EXCEPT ![object] = cachedItems]
  /\ collected' = collected \cup {object}
  /\ End
  /\ UNCHANGED <<input, phase, globalItemCache, idCounter, document, reader>>

-----------------------------------------------------------------------------
\* CollectedObject::WriteCollectedObjects.
StartWriting ==
  /\ phase = "collecting" /\ object = Nobody
  /\ collected = Objects
  /\ phase' = "writing"
  /\ UNCHANGED <<input, object, todo, cachedItems, references, collected,
                 globalItemCache, idCounter, document, reader>>

WriteObject(o) ==
  /\ phase = "writing" /\ object = Nobody
  /\ o \in collected
  /\ Begin(o, references[o])
  /\ UNCHANGED <<input, phase, references, collected, globalItemCache,
                 idCounter, document, reader>>

\* One reference: an id that is not below the object yet, an item that is not in
\* the document yet (Item::isWritten).
WriteReference ==
  /\ phase = "writing" /\ object # Nobody
  /\ todo # <<>>
  /\ LET item == Head(todo) IN
       IF item.id \in Elements(itemRefs[object])
       THEN UNCHANGED document
       ELSE /\ itemRefs' = [itemRefs EXCEPT ![object] = Append(@, item.id)]
            /\ systemData' = IF item \in Elements(systemData) THEN systemData
                             ELSE Append(systemData, item)
  /\ todo' = Tail(todo)
  /\ UNCHANGED <<input, phase, object, cachedItems, references, collected,
                 globalItemCache, idCounter, reader>>

\* The collected object is deleted once it is written.
ObjectWritten ==
  /\ phase = "writing" /\ object # Nobody
  /\ todo = <<>>
  /\ collected' = collected \ {object}
  /\ references' = [references EXCEPT ![object] = <<>>]
  /\ End
  /\ UNCHANGED <<input, phase, globalItemCache, idCounter, document, reader>>

\* The end of AbsDataCollector::Run: the items are deleted (the slip: and the
\* numbering starts below 1 again).
LateClearGlobalCache ==
  /\ phase = "writing" /\ object = Nobody
  /\ collected = {}
  /\ phase' = "reading"
  /\ globalItemCache' = {}
  /\ processedItems' = {}
  /\ idCounter' = -1
  /\ UNCHANGED <<input, object, todo, cachedItems, references, collected,
                 document, reread, seen>>
ClearGlobalCache ==
  /\ phase = "writing" /\ object = Nobody
  /\ collected = {}
  /\ phase' = "reading"
  /\ globalItemCache' = {}
  /\ processedItems' = {}
  /\ UNCHANGED <<input, object, todo, cachedItems, references, collected,
                 idCounter, document, reread, seen>>

-----------------------------------------------------------------------------
\* The item element with an id, the first one in document order.  An element is
\* represented by the item it was written from; ItemsRead has what comes back.
ItemElement(id) ==
  LET at == {i \in DOMAIN systemData : systemData[i].id = id}
  IN  systemData[CHOOSE i \in at : \A j \in at : i <= j]

\* The flag attribute of the object decides whether its items may be read.  For any
\* other object the code raises (ObjectReader.cpp:102-104): nothing changes here.
GetItemsForObject(o) ==
  /\ phase = "reading" /\ object = Nobody
  /\ o \notin reread
  /\ o \in input.readable
  /\ Begin(o, itemRefs[o])
  /\ UNCHANGED <<input, phase, references, collected, globalItemCache,
                 idCounter, document, reader>>

\* Item::GetItemById (the slip: the cache is searched with the next id).
FaultyGetItemById ==
  /\ phase = "reading" /\ object # Nobody
  /\ todo # <<>>
  /\ LET cached == {x \in processedItems : x.id \in {Head(todo), Head(todo) + 1}}
         item   == IF cached # {} THEN CHOOSE x \in cached : TRUE
                   ELSE ItemElement(Head(todo))
     IN  /\ processedItems' = processedItems \cup {item}
         /\ cachedItems' = Append(cachedItems, item)
  /\ todo' = Tail(todo)
  /\ UNCHANGED <<input, phase, object, references, collected, globalItemCache,
                 idCounter, document, reread, seen>>
GetItemById ==
  /\ phase = "reading" /\ object # Nobody
  /\ todo # <<>>
  /\ LET cached == {x \in processedItems : x.id = Head(todo)}
         item   == IF cached # {} THEN CHOOSE x \in cached : TRUE
                   ELSE ItemElement(Head(todo))
     IN  /\ processedItems' = processedItems \cup {item}
         /\ cachedItems' = Append(cachedItems, item)
  /\ todo' = Tail(todo)
  /\ UNCHANGED <<input, phase, object, references, collected, globalItemCache,
                 idCounter, document, reread, seen>>

ItemsRead ==
  /\ phase = "reading" /\ object # Nobody
  /\ todo = <<>>
  /\ reread' = reread \cup {object}
  /\ seen' = [seen EXCEPT ![object] =
                {ReadBack[cachedItems[i].content] : i \in DOMAIN cachedItems}]
  /\ End
  /\ UNCHANGED <<input, phase, references, collected, globalItemCache,
                 idCounter, document, processedItems>>

Collecting == \/ \E o \in Objects : RunProbe(o) \/ CollectSet(o)
              \/ CacheItem \/ DropItem \/ FilterReference \/ AppendReferences
Writing    == \/ StartWriting \/ ClearGlobalCache
              \/ \E o \in Objects : WriteObject(o)
              \/ WriteReference \/ ObjectWritten
Reading    == \/ \E o \in Objects : GetItemsForObject(o)
              \/ GetItemById \/ ItemsRead

Next == Collecting \/ Writing \/ Reading

Spec == Init /\ [][Next]_vars

-----------------------------------------------------------------------------
\* Correctness.

\* What is read of an item: an id and what the item says.
StoredItem == [id : Nat, content : Contents]

TypeOK ==
  /\ input \in Inputs
  /\ phase \in {"collecting", "writing", "reading"}
  /\ object \in Objects \cup {Nobody}
  /\ ProbeRuns => todo \in Seq(Contents)
  /\ SetRuns \/ phase = "writing" => todo \in Seq(StoredItem)
  /\ phase = "reading" => todo \in Seq(Nat)
  /\ cachedItems \in Seq(StoredItem)
  /\ references \in [Objects -> Seq(StoredItem)]
  /\ collected \subseteq Objects
  /\ globalItemCache \subseteq StoredItem
  /\ idCounter \in Nat
  /\ systemData \in Seq(StoredItem)
  /\ itemRefs \in [Objects -> Seq(Nat)]
  /\ processedItems \subseteq StoredItem
  /\ reread \subseteq Objects
  /\ seen \in [Objects -> SUBSET {ReadBack[x] : x \in Contents}]

\* The order is strict, and only items that say the same are the same to the
\* set: two things of the system that differ in one place of one element are
\* never reported as one item (std::less<const Item*>, Item.cpp).
Things == {x.content : x \in globalItemCache} \cup
          (IF ProbeRuns THEN Elements(todo) ELSE {})
ItemsAreOrdered ==
  /\ \A x, y \in Things : Same(x, y) <=> x = y
  /\ \A x, y, z \in Things : ItemLess(x, y) /\ ItemLess(y, z) => ItemLess(x, z)

\* Every reference of a written object names exactly one item element, no id
\* and no thing has two elements, and no object names an item twice, however
\* many probes and sets handed the item on (CollectedObject::Write, Item::Write).
ReferencesResolve ==
  /\ \A i, j \in DOMAIN systemData :
       \/ systemData[i].id = systemData[j].id
       \/ systemData[i].content = systemData[j].content
       => i = j
  /\ \A o \in Objects :
       /\ \A n \in DOMAIN itemRefs[o] :
            \E i \in DOMAIN systemData : systemData[i].id = itemRefs[o][n]
       /\ \A m, n \in DOMAIN itemRefs[o] :
            itemRefs[o][m] = itemRefs[o][n] => m = n

\* The analysis reads for every object what its probe and filters left, as far as
\* the document holds it, though the items went through the global cache, the
\* numbering, the document and the reader's cache of items: see ItemStore.
Store == INSTANCE ItemStore
         WITH collected <- IF phase = "collecting" THEN collected ELSE Objects
StoresItems == Store!StoreSpec

=============================================================================
