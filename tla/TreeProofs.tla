----------------------------- MODULE TreeProofs -----------------------------
(***************************************************************************)
(* The DB is one tree, of which the scan only adds leaves: on top of the   *)
(* invariant of EemsProofs, that each batch of put_items publishes objects *)
(* the DB does not have yet, each once, below a container it has.          *)
(***************************************************************************)
EXTENDS EemsProofs

(* Every composed resource is used by one item of the batch. *)
OwnedBatch(items, resources) ==
    \A k \in Keys(resources) : \E i \in DOMAIN items :
        \A j \in DOMAIN items : k \in UsesOf(items[j]) <=> j = i

(* What the scan writes to the root is the first Movies folder. *)
PlacedBatch(parent, items) ==
    parent = Root => /\ db[Root].objects = <<>>
                     /\ Len(items) = 1
                     /\ items[1].dc_title = MoviesFolderName
                     /\ items[1].data_type = "MediaContainer"

FreshItems(items) ==
    /\ \A i \in DOMAIN items : \A k \in ObjectKeys(db) : k.id < items[i].id.id
    /\ \A i, j \in DOMAIN items : items[i].id = items[j].id => i = j

FreshBatch(parent, items, resources) ==
    /\ parent \in ObjectKeys(db) /\ db[parent].data_type = "MediaContainer"
    /\ items \in Seq(MediaObject) /\ items # <<>>
    /\ resources \in SUBSET StoredResource
    /\ FreshItems(items)
    /\ \A i \in DOMAIN items : items[i].parent_id = parent /\ Covered(items[i], resources)
    /\ Keys(resources) \intersect DOMAIN db = {}
    /\ PlacedBatch(parent, items)
    /\ OwnedBatch(items, resources)

-----------------------------------------------------------------------------
(***************************************************************************)
(* The DB after such a batch: what it had, but for the parent, and the     *)
(* items under their own keys.                                             *)
(***************************************************************************)
IdSeq(items) == [i \in DOMAIN items |-> items[i].id]

LEMMA ObjectsTyped ==
    ASSUME NEW d, DbTypeOK(d), NEW k \in ObjectKeys(d)
    PROVE  /\ k \in ObjectKeySet /\ k \in DOMAIN d /\ k.id \in Nat /\ d[k] \in MediaObject
           /\ d[k].objects \in Seq(ObjectKeySet)
           /\ DOMAIN d[k].objects = 1 .. Len(d[k].objects) /\ Len(d[k].objects) \in Nat
<1>1. k \in ObjectKeySet /\ k \in DOMAIN d /\ d[k] \in MediaObject
  BY DEF DbTypeOK, ObjectKeys, ObjectKeySet
<1>2. k.id \in Nat
  BY <1>1, KeyTypesApart, MaxIdAssumption
<1>3. d[k].objects \in Seq(ObjectKeySet)
  BY <1>1 DEF MediaObject
<1> QED
  BY <1>1, <1>2, <1>3, LenProperties

LEMMA FreshIds ==
    ASSUME DbTypeOK(db), NEW items \in Seq(MediaObject), FreshItems(items), NEW i \in DOMAIN items
    PROVE  /\ items[i] \in MediaObject /\ items[i].id \in ObjectKeySet
           /\ items[i].id \notin DOMAIN db
           /\ items[i].id \in Ids(items)
<1>1. items[i] \in MediaObject
  BY ElementOfSeq, LenProperties
<1>2. items[i].id \in ObjectKeySet
  BY <1>1 DEF MediaObject
<1>3. ASSUME items[i].id \in DOMAIN db PROVE FALSE
  <2>1. items[i].id \in ObjectKeys(db) /\ items[i].id.id \in Int
    BY <1>2, <1>3, KeyTypesApart DEF ObjectKeys
  <2> QED
    BY <2>1 DEF FreshItems
<1> QED
  BY <1>1, <1>2, <1>3 DEF Ids

Published(new, parent, items, resources) ==
    /\ DbTypeOK(new)
    /\ DOMAIN new = DOMAIN db \union Keys(resources) \union Ids(items)
    /\ ObjectKeys(new) = ObjectKeys(db) \union Ids(items)
    /\ Ids(items) \intersect DOMAIN db = {}
    /\ \A k \in DOMAIN db : k # parent => new[k] = db[k]
    /\ new[parent] = AppendObjects(parent, items)
    /\ \A i \in DOMAIN items : new[items[i].id] = items[i]

LEMMA BatchPublishes ==
    ASSUME DbTypeOK(db), NEW parent, NEW items, NEW resources,
           FreshBatch(parent, items, resources)
    PROVE  Published(Batch(parent, items, resources), parent, items, resources)
<1> DEFINE new == Batch(parent, items, resources)
<1>0. /\ parent \in ObjectKeySet /\ parent \in DOMAIN db /\ items \in Seq(MediaObject)
      /\ resources \in SUBSET StoredResource /\ FreshItems(items)
      /\ Keys(resources) \intersect DOMAIN db = {}
  BY ObjectsTyped DEF FreshBatch
<1>1. /\ DbTypeOK(new)
      /\ DOMAIN new = DOMAIN db \union Keys(resources) \union Ids(items)
  BY <1>0, BatchKeepsTypes
<1>2. Ids(items) \subseteq ObjectKeySet /\ Keys(resources) \subseteq ResourceKeySet
  BY <1>0, IdsTyped, KeysOfResources
<1>3. ObjectKeys(new) = ObjectKeys(db) \union Ids(items)
  BY <1>1, <1>2, KeyTypesApart DEF ObjectKeys
<1>4. Ids(items) \intersect DOMAIN db = {}
  BY <1>0, FreshIds DEF Ids
<1>5. \A k \in DOMAIN db : k # parent => new[k] = db[k]
  BY <1>0, <1>4 DEF Batch
<1>6. new[parent] = AppendObjects(parent, items)
  BY <1>0 DEF Batch
<1>7. ASSUME NEW i \in DOMAIN items PROVE new[items[i].id] = items[i]
  <2> DEFINE k == items[i].id
  <2>1. k # parent /\ k \in Ids(items) /\ k \in DOMAIN new
    BY <1>0, <1>1, FreshIds
  <2>2. new[k] = items[CHOOSE j \in DOMAIN items : items[j].id = k]
    BY <2>1 DEF Batch
  <2>3. (CHOOSE j \in DOMAIN items : items[j].id = k) = i
    BY <1>0 DEF FreshItems
  <2> QED
    BY <2>2, <2>3
<1> QED
  BY <1>1, <1>3, <1>4, <1>5, <1>6, <1>7 DEF Published

(***************************************************************************)
(* The lists after the batch: those of before, the parent's followed by    *)
(* the items'.                                                             *)
(***************************************************************************)
Extended(object, parent, items) ==
    LET old == db[parent].objects
    IN  /\ object = [db[parent] EXCEPT !.objects = old \o IdSeq(items)]
        /\ object.objects = old \o IdSeq(items)
        /\ object.id = db[parent].id /\ object.parent_id = db[parent].parent_id
        /\ object.data_type = "MediaContainer" /\ object.dc_title = db[parent].dc_title
        /\ UsesOf(object) = UsesOf(db[parent])
        /\ old \in Seq(ObjectKeySet) /\ Len(old) \in Nat /\ DOMAIN old = 1 .. Len(old)
        /\ IdSeq(items) \in Seq(ObjectKeySet) /\ Len(IdSeq(items)) = Len(items)
        /\ Len(items) \in Nat \ {0} /\ DOMAIN items = 1 .. Len(items)
        /\ DOMAIN object.objects = 1 .. Len(old) + Len(items)
        /\ \A i \in DOMAIN old : object.objects[i] = old[i]
        /\ \A i \in DOMAIN items : object.objects[Len(old) + i] = items[i].id

LEMMA ParentExtended ==
    ASSUME DbTypeOK(db), NEW parent, NEW items, NEW resources,
           FreshBatch(parent, items, resources)
    PROVE  Extended(AppendObjects(parent, items), parent, items)
<1> DEFINE object == AppendObjects(parent, items)
           old == db[parent].objects
           ids == IdSeq(items)
<1>1. db[parent] \in MediaObject /\ items \in Seq(MediaObject) /\ items # <<>>
  BY ObjectsTyped DEF FreshBatch
<1>2. old \in Seq(ObjectKeySet) /\ Len(old) \in Nat /\ DOMAIN old = 1 .. Len(old)
  BY <1>1, LenProperties DEF MediaObject
<1>3. /\ ids \in Seq(ObjectKeySet) /\ Len(ids) = Len(items) /\ DOMAIN ids = 1 .. Len(items)
      /\ DOMAIN items = 1 .. Len(items) /\ Len(items) \in Nat \ {0}
      /\ \A i \in DOMAIN items : ids[i] = items[i].id
  BY <1>1, IdsTyped, LenProperties, EmptySeq DEF IdSeq
<1>4. object = [db[parent] EXCEPT !.objects = old \o ids]
  BY DEF AppendObjects, IdSeq
<1> HIDE DEF ids, object, old
<1>5. /\ object.objects = old \o ids
      /\ object.id = db[parent].id /\ object.parent_id = db[parent].parent_id
      /\ object.data_type = db[parent].data_type /\ object.dc_title = db[parent].dc_title
      /\ object.resources = db[parent].resources /\ object.artwork = db[parent].artwork
  BY <1>1, <1>4 DEF MediaObject
<1>6. /\ Len(old \o ids) = Len(old) + Len(items)
      /\ \A i \in 1 .. Len(old) + Len(items) :
            (old \o ids)[i] = IF i <= Len(old) THEN old[i] ELSE ids[i - Len(old)]
      /\ old \o ids \in Seq(ObjectKeySet)
  <2>1. old \in Seq(ObjectKeySet) /\ ids \in Seq(ObjectKeySet)
    BY <1>2, <1>3
  <2>2. Len(ids) = Len(items)
    BY <1>3
  <2>3. /\ old \o ids \in Seq(ObjectKeySet)
        /\ Len(old \o ids) = Len(old) + Len(ids)
        /\ \A i \in 1 .. Len(old) + Len(ids) :
              (old \o ids)[i] = IF i <= Len(old) THEN old[i] ELSE ids[i - Len(old)]
    BY ONLY <2>1, ConcatProperties
  <2> QED
    BY ONLY <2>2, <2>3
<1>7. DOMAIN (old \o ids) = 1 .. Len(old) + Len(items)
  BY <1>6, LenProperties
<1>8. \A i \in DOMAIN old : (old \o ids)[i] = old[i]
  BY <1>2, <1>3, <1>6
<1>9. ASSUME NEW i \in DOMAIN items PROVE (old \o ids)[Len(old) + i] = items[i].id
  <2>1. Len(old) + i \in 1 .. Len(old) + Len(items) /\ ~(Len(old) + i <= Len(old))
        /\ (Len(old) + i) - Len(old) = i
    BY <1>2, <1>3
  <2> QED
    BY <2>1, <1>3, <1>6
<1>10. UsesOf(object) = UsesOf(db[parent]) /\ object.data_type = "MediaContainer"
  BY <1>5 DEF UsesOf, FreshBatch
<1> QED
  BY <1>2, <1>3, <1>4, <1>5, <1>7, <1>8, <1>9, <1>10 DEF Extended, object, ids, old

(* An entry of a list after the batch is one of before, or that of an item. *)
Listed(new, parent, items) ==
    LET n == Len(db[parent].objects)
    IN  /\ \A p \in ObjectKeys(db) : \A j \in DOMAIN db[p].objects :
               j \in DOMAIN new[p].objects /\ new[p].objects[j] = db[p].objects[j]
        /\ \A i \in DOMAIN items :
               n + i \in DOMAIN new[parent].objects /\ new[parent].objects[n + i] = items[i].id
        /\ \A p \in ObjectKeys(new) : \A j \in DOMAIN new[p].objects :
               \/ /\ p \in ObjectKeys(db) /\ j \in DOMAIN db[p].objects
                  /\ new[p].objects[j] = db[p].objects[j]
               \/ /\ p = parent
                  /\ \E i \in DOMAIN items : j = n + i /\ new[p].objects[j] = items[i].id

LEMMA PublishedIsListed ==
    ASSUME DbTypeOK(db), NEW parent, NEW items, NEW resources, NEW new,
           FreshBatch(parent, items, resources), Published(new, parent, items, resources)
    PROVE  Listed(new, parent, items)
<1> DEFINE n == Len(db[parent].objects)
<1>1. /\ parent \in ObjectKeys(db)
      /\ \A i \in DOMAIN items : items[i].objects = <<>>
  BY DEF FreshBatch, Covered
<1>2. /\ ObjectKeys(new) = ObjectKeys(db) \union Ids(items)
      /\ \A k \in DOMAIN db : k # parent => new[k] = db[k]
      /\ new[parent] = AppendObjects(parent, items)
      /\ \A i \in DOMAIN items : new[items[i].id] = items[i]
  BY DEF Published
<1>3. /\ n \in Nat /\ DOMAIN db[parent].objects = 1 .. n
      /\ Len(items) \in Nat /\ DOMAIN items = 1 .. Len(items)
      /\ DOMAIN new[parent].objects = 1 .. n + Len(items)
      /\ \A i \in 1 .. n : new[parent].objects[i] = db[parent].objects[i]
      /\ \A i \in DOMAIN items : new[parent].objects[n + i] = items[i].id
  BY <1>2, ParentExtended DEF Extended
<1> HIDE DEF n
<1>4. ASSUME NEW p \in ObjectKeys(db), NEW j \in DOMAIN db[p].objects
      PROVE  j \in DOMAIN new[p].objects /\ new[p].objects[j] = db[p].objects[j]
  <2>1. CASE p = parent
    BY <2>1, <1>3
  <2>2. CASE p # parent
    BY <2>2, <1>2 DEF ObjectKeys
  <2> QED
    BY <2>1, <2>2
<1>5. \A i \in DOMAIN items : n + i \in DOMAIN new[parent].objects
  BY <1>3
<1>6. ASSUME NEW p \in ObjectKeys(new), NEW j \in DOMAIN new[p].objects
      PROVE  \/ /\ p \in ObjectKeys(db) /\ j \in DOMAIN db[p].objects
                /\ new[p].objects[j] = db[p].objects[j]
             \/ /\ p = parent
                /\ \E i \in DOMAIN items : j = n + i /\ new[p].objects[j] = items[i].id
  <2>1. CASE p = parent
    <3>1. CASE j \in 1 .. n
      BY <2>1, <3>1, <1>1, <1>3
    <3>2. CASE j \notin 1 .. n
      <4>1. j - n \in DOMAIN items /\ j = n + (j - n)
        BY <2>1, <3>2, <1>3
      <4> QED
        BY <4>1, <2>1, <1>3
    <3> QED
      BY <3>1, <3>2
  <2>2. CASE p # parent /\ p \in ObjectKeys(db)
    BY <2>2, <1>2 DEF ObjectKeys
  <2>3. CASE p \in Ids(items)
    <3>1. DOMAIN new[p].objects = {}
      BY <2>3, <1>1, <1>2, EmptySeq, LenProperties DEF Ids
    <3> QED
      BY <3>1
  <2> QED
    BY <2>1, <2>2, <2>3, <1>2
<1> QED
  BY <1>3, <1>4, <1>5, <1>6 DEF Listed, n

-----------------------------------------------------------------------------
(***************************************************************************)
(* What such a batch preserves of a DB: its tree, in which a list only     *)
(* names larger identifiers, the one Movies folder below the root, and the *)
(* owner of each resource.                                                 *)
(***************************************************************************)
Downward(d) ==
    \A p \in ObjectKeys(d) : \A j \in DOMAIN d[p].objects : p.id < d[p].objects[j].id

MoviesOnly(d) ==
    Root \in DOMAIN d =>
        /\ Len(d[Root].objects) <= 1
        /\ \A i \in DOMAIN d[Root].objects :
              LET child == d[d[Root].objects[i]]
              IN  child.dc_title = MoviesFolderName /\ child.data_type = "MediaContainer"

TreeIn(d) == TreeShapedIn(d) /\ Downward(d) /\ MoviesOnly(d) /\ ResourcesOwnedIn(d)

(* An object that was there before has got at most more children. *)
LEMMA OldObjects ==
    ASSUME DbTypeOK(db), NEW parent, NEW items, NEW resources, NEW new,
           FreshBatch(parent, items, resources), Published(new, parent, items, resources),
           NEW k \in ObjectKeys(db)
    PROVE  /\ k \in ObjectKeys(new)
           /\ new[k].id = db[k].id /\ new[k].parent_id = db[k].parent_id
           /\ new[k].data_type = db[k].data_type /\ new[k].dc_title = db[k].dc_title
           /\ UsesOf(new[k]) = UsesOf(db[k])
<1>1. k \in ObjectKeys(new) /\ k \in DOMAIN db
  BY DEF Published, ObjectKeys
<1>2. CASE k # parent
  <2>1. new[k] = db[k]
    BY <1>1, <1>2 DEF Published
  <2> QED
    BY <2>1, <1>1
<1>3. CASE k = parent
  <2>1. new[k] = AppendObjects(parent, items) /\ db[k].data_type = "MediaContainer"
    BY <1>3 DEF Published, FreshBatch
  <2>2. Extended(AppendObjects(parent, items), parent, items)
    BY ParentExtended
  <2> QED
    BY <1>1, <1>3, <2>1, <2>2 DEF Extended
<1> QED
  BY <1>2, <1>3

LEMMA NewObjects ==
    ASSUME DbTypeOK(db), NEW parent, NEW items, NEW resources, NEW new,
           FreshBatch(parent, items, resources), Published(new, parent, items, resources),
           NEW i \in DOMAIN items
    PROVE  /\ items[i].id \in ObjectKeys(new) /\ items[i].id \notin DOMAIN db
           /\ new[items[i].id] = items[i]
           /\ items[i].parent_id = parent /\ items[i].objects = <<>>
           /\ UsesOf(items[i]) \subseteq Keys(resources)
           /\ \A k \in ObjectKeys(db) : k.id < items[i].id.id
           /\ items[i].id # Root
<1>1. FreshItems(items) /\ parent \in ObjectKeys(db) /\ items \in Seq(MediaObject)
  BY DEF FreshBatch
<1>2. items[i].id \in Ids(items) /\ items[i].id \notin DOMAIN db
  BY <1>1, FreshIds
<1>3. \A k \in ObjectKeys(db) : k.id < items[i].id.id
  BY <1>1 DEF FreshItems
<1>4. items[i].id # Root
  <2>1. parent.id \in Nat /\ parent.id < items[i].id.id
    BY <1>1, <1>3, ObjectsTyped
  <2> QED
    BY <2>1, RootIsKey
<1>5. items[i].parent_id = parent /\ Covered(items[i], resources)
  BY DEF FreshBatch
<1>6. new[items[i].id] = items[i] /\ items[i].id \in ObjectKeys(new)
  BY <1>2 DEF Published
<1> QED
  BY <1>2, <1>3, <1>4, <1>5, <1>6 DEF Covered, UsesOf

LEMMA PublishedIsTree ==
    ASSUME DbTypeOK(db), RefsResolveIn(db), TreeShapedIn(db),
           NEW parent, NEW items, NEW resources, NEW new,
           FreshBatch(parent, items, resources), Published(new, parent, items, resources)
    PROVE  TreeShapedIn(new)
<1> DEFINE n == Len(db[parent].objects)
<1>1. Listed(new, parent, items)
  BY PublishedIsListed
<1>2. /\ ObjectKeys(new) = ObjectKeys(db) \union Ids(items)
      /\ parent \in ObjectKeys(db) /\ parent \in ObjectKeys(new)
      /\ db[parent].data_type = "MediaContainer" /\ new[parent].data_type = "MediaContainer"
      /\ \A i, j \in DOMAIN items : items[i].id = items[j].id => i = j
  <2>1. parent \in ObjectKeys(db) /\ db[parent].data_type = "MediaContainer" /\ FreshItems(items)
    BY DEF FreshBatch
  <2>2. parent \in ObjectKeys(new) /\ new[parent].data_type = "MediaContainer"
    BY <2>1, OldObjects
  <2> QED
    BY <2>1, <2>2 DEF Published, FreshItems
<1>3. Extended(AppendObjects(parent, items), parent, items)
  BY ParentExtended
<1>4. n \in Nat /\ DOMAIN db[parent].objects = 1 .. n /\ DOMAIN items = 1 .. Len(items) /\ Len(items) \in Nat
  BY <1>3 DEF Extended
<1>5. \A p \in ObjectKeys(db) : \A j \in DOMAIN db[p].objects : db[p].objects[j] \in DOMAIN db
  BY DEF RefsResolveIn
<1> HIDE DEF n
<1>6. ASSUME NEW k \in ObjectKeys(db), k # Root
      PROVE  ProperlyListed(new, k)
  <2> DEFINE p0 == db[k].parent_id
  <2>1. /\ p0 \in ObjectKeys(db) /\ db[p0].data_type = "MediaContainer" /\ p0.id < k.id
        /\ \E i \in DOMAIN db[p0].objects :
              \A p \in ObjectKeys(db) : \A j \in DOMAIN db[p].objects :
                  db[p].objects[j] = k <=> p = p0 /\ j = i
    BY <1>6 DEF TreeShapedIn, ProperlyListed
  <2>2. /\ new[k].parent_id = p0 /\ p0 \in ObjectKeys(new)
        /\ new[p0].data_type = "MediaContainer"
    BY <2>1, OldObjects
  <2>3. k \in DOMAIN db
    BY DEF ObjectKeys
  <2> HIDE DEF p0
  <2>4. PICK i \in DOMAIN db[p0].objects :
            \A p \in ObjectKeys(db) : \A j \in DOMAIN db[p].objects :
                db[p].objects[j] = k <=> p = p0 /\ j = i
    BY <2>1
  <2>5. i \in DOMAIN new[p0].objects
    BY <1>1, <2>1 DEF Listed
  <2>6. ASSUME NEW p \in ObjectKeys(new), NEW j \in DOMAIN new[p].objects
        PROVE  new[p].objects[j] = k <=> p = p0 /\ j = i
    <3>1. CASE /\ p \in ObjectKeys(db) /\ j \in DOMAIN db[p].objects
               /\ new[p].objects[j] = db[p].objects[j]
      BY <3>1, <2>4
    <3>2. ASSUME p = parent, NEW m \in DOMAIN items, j = n + m, new[p].objects[j] = items[m].id
          PROVE  new[p].objects[j] = k <=> p = p0 /\ j = i
      <4>1. new[p].objects[j] # k
        BY <2>3, <3>2, NewObjects
      <4>2. ~(p = p0 /\ j = i)
        BY <3>2, <1>4
      <4> QED
        BY <4>1, <4>2
    <3> QED
      BY <3>1, <3>2, <1>1 DEF Listed, n
  <2> QED
    BY <2>1, <2>2, <2>5, <2>6 DEF ProperlyListed
<1>7. ASSUME NEW i \in DOMAIN items
      PROVE  ProperlyListed(new, items[i].id)
  <2> DEFINE k == items[i].id
  <2>1. /\ new[k].parent_id = parent /\ parent.id < k.id /\ k \notin DOMAIN db
    BY <1>2, NewObjects
  <2>2. n + i \in DOMAIN new[parent].objects
    BY <1>1 DEF Listed, n
  <2> HIDE DEF k
  <2>3. ASSUME NEW p \in ObjectKeys(new), NEW j \in DOMAIN new[p].objects
        PROVE  new[p].objects[j] = k <=> p = parent /\ j = n + i
    <3>1. CASE /\ p \in ObjectKeys(db) /\ j \in DOMAIN db[p].objects
               /\ new[p].objects[j] = db[p].objects[j]
      <4>1. new[p].objects[j] # k
        BY <3>1, <2>1, <1>5
      <4>2. ~(p = parent /\ j = n + i)
        BY <3>1, <1>4
      <4> QED
        BY <4>1, <4>2
    <3>2. ASSUME p = parent, NEW m \in DOMAIN items, j = n + m, new[p].objects[j] = items[m].id
          PROVE  new[p].objects[j] = k <=> p = parent /\ j = n + i
      <4>1. items[m].id = k <=> m = i
        BY <1>2 DEF k
      <4>2. n + m = n + i <=> m = i
        BY <1>4
      <4> QED
        BY <4>1, <4>2, <3>2
    <3> QED
      BY <3>1, <3>2, <1>1 DEF Listed, n
  <2> QED
    BY <1>2, <2>1, <2>2, <2>3 DEF ProperlyListed, k
<1>8. ASSUME NEW k \in ObjectKeys(new)
      PROVE  new[k].id = k /\ (k = Root \/ ProperlyListed(new, k))
  <2>1. CASE k \in ObjectKeys(db)
    BY <2>1, <1>6, OldObjects DEF TreeShapedIn
  <2>2. CASE k \in Ids(items)
    <3>1. PICK i \in DOMAIN items : k = items[i].id
      BY <2>2 DEF Ids
    <3> QED
      BY <3>1, <1>7, NewObjects
  <2> QED
    BY <2>1, <2>2, <1>2
<1> QED
  BY <1>8 DEF TreeShapedIn

LEMMA PublishedGoesDown ==
    ASSUME DbTypeOK(db), Downward(db),
           NEW parent, NEW items, NEW resources, NEW new,
           FreshBatch(parent, items, resources), Published(new, parent, items, resources)
    PROVE  Downward(new)
<1>1. Listed(new, parent, items)
  BY PublishedIsListed
<1>2. parent \in ObjectKeys(db)
  BY DEF FreshBatch
<1>3. ASSUME NEW p \in ObjectKeys(new), NEW j \in DOMAIN new[p].objects
      PROVE  p.id < new[p].objects[j].id
  <2>1. CASE /\ p \in ObjectKeys(db) /\ j \in DOMAIN db[p].objects
             /\ new[p].objects[j] = db[p].objects[j]
    BY <2>1 DEF Downward
  <2>2. ASSUME p = parent, NEW m \in DOMAIN items, new[p].objects[j] = items[m].id
        PROVE  p.id < new[p].objects[j].id
    BY <2>2, <1>2, NewObjects
  <2> QED
    BY <2>1, <2>2, <1>1 DEF Listed
<1> QED
  BY <1>3 DEF Downward

LEMMA PublishedMovies ==
    ASSUME DbTypeOK(db), RefsResolveIn(db), Downward(db), MoviesOnly(db),
           NEW parent, NEW items, NEW resources, NEW new,
           FreshBatch(parent, items, resources), Published(new, parent, items, resources)
    PROVE  MoviesOnly(new)
<1> SUFFICES ASSUME Root \in DOMAIN new
             PROVE  /\ Len(new[Root].objects) <= 1
                    /\ \A i \in DOMAIN new[Root].objects :
                          LET child == new[new[Root].objects[i]]
                          IN  child.dc_title = MoviesFolderName /\ child.data_type = "MediaContainer"
  BY DEF MoviesOnly
<1>1. Root \in ObjectKeys(new)
  BY RootIsKey, KeyTypesApart DEF ObjectKeys
<1>2. Root \in ObjectKeys(db) /\ Root \in DOMAIN db
  <2>1. Root \notin Ids(items)
    BY NewObjects DEF Ids
  <2> QED
    BY <1>1, <2>1 DEF Published, ObjectKeys
<1>3. CASE parent = Root
  <2>1. /\ db[Root].objects = <<>> /\ Len(items) = 1
        /\ items[1].dc_title = MoviesFolderName /\ items[1].data_type = "MediaContainer"
    BY <1>3 DEF FreshBatch, PlacedBatch
  <2>2. Extended(new[Root], Root, items)
    BY <1>3, ParentExtended DEF Published
  <2>3. /\ Len(db[Root].objects) = 0 /\ DOMAIN items = 1 .. 1
        /\ DOMAIN new[Root].objects = 1 .. 1
        /\ \A i \in DOMAIN items : new[Root].objects[0 + i] = items[i].id
    BY <2>1, <2>2, EmptySeq DEF Extended
  <2>4. new[Root].objects[1] = items[1].id /\ new[items[1].id] = items[1]
    BY <2>3 DEF Published
  <2>5. Len(new[Root].objects) = 1
    <3>1. new[Root].objects = db[Root].objects \o IdSeq(items) /\ Len(IdSeq(items)) = 1
      BY <2>1, <2>2 DEF Extended
    <3>2. db[Root].objects \in Seq(ObjectKeySet) /\ IdSeq(items) \in Seq(ObjectKeySet)
      BY <2>2 DEF Extended
    <3> HIDE DEF IdSeq
    <3> QED
      BY <3>1, <3>2, <2>3, ConcatProperties
  <2> QED
    BY <2>1, <2>3, <2>4, <2>5
<1>4. CASE parent # Root
  <2>1. new[Root] = db[Root]
    BY <1>2, <1>4 DEF Published
  <2>2. ASSUME NEW i \in DOMAIN db[Root].objects
        PROVE  /\ new[db[Root].objects[i]].dc_title = MoviesFolderName
               /\ new[db[Root].objects[i]].data_type = "MediaContainer"
    <3> DEFINE c == db[Root].objects[i]
    <3>1. c \in DOMAIN db /\ c \in ObjectKeySet
      BY <1>2, ObjectsTyped, ElementOfSeq DEF RefsResolveIn
    <3>2. c \in ObjectKeys(db)
      BY <3>1, KeyTypesApart DEF ObjectKeys
    <3> QED
      BY <1>2, <3>2, OldObjects DEF MoviesOnly
  <2> QED
    BY <1>2, <2>1, <2>2 DEF MoviesOnly
<1> QED
  BY <1>3, <1>4

LEMMA PublishedOwned ==
    ASSUME DbTypeOK(db), RefsResolveIn(db), ResourcesOwnedIn(db),
           NEW parent, NEW items, NEW resources, NEW new,
           FreshBatch(parent, items, resources), Published(new, parent, items, resources)
    PROVE  ResourcesOwnedIn(new)
<1>1. /\ ObjectKeys(new) = ObjectKeys(db) \union Ids(items)
      /\ DOMAIN new = DOMAIN db \union Keys(resources) \union Ids(items)
      /\ Keys(resources) \intersect DOMAIN db = {}
      /\ OwnedBatch(items, resources)
      /\ \A i, j \in DOMAIN items : items[i].id = items[j].id => i = j
  BY DEF Published, FreshBatch, FreshItems
<1>2. \A d, k : Uses(d, k) = UsesOf(d[k])
  BY DEF Uses, UsesOf
<1>3. \A k \in ObjectKeys(db) : Uses(new, k) = Uses(db, k) /\ Uses(db, k) \subseteq DOMAIN db
  <2>1. ASSUME NEW k \in ObjectKeys(db) PROVE UsesOf(new[k]) = UsesOf(db[k])
    BY OldObjects
  <2>2. \A k \in ObjectKeys(db) : UsesOf(db[k]) \subseteq DOMAIN db
    BY DEF RefsResolveIn, UsesOf
  <2> QED
    BY <1>2, <2>1, <2>2
<1>4. \A i \in DOMAIN items : /\ Uses(new, items[i].id) = UsesOf(items[i])
                              /\ UsesOf(items[i]) \subseteq Keys(resources)
                              /\ items[i].id \notin DOMAIN db
                              /\ items[i].id \in ObjectKeys(new)
  BY <1>2, NewObjects
<1>5. \A k \in ObjectKeys(new) : k \in ObjectKeys(db) \/ \E i \in DOMAIN items : k = items[i].id
  BY <1>1 DEF Ids
<1>6. ASSUME NEW r \in DOMAIN new \ ObjectKeys(new)
      PROVE  \E owner \in ObjectKeys(new) :
                \A k \in ObjectKeys(new) : r \in Uses(new, k) <=> k = owner
  <2>1. CASE r \in DOMAIN db
    <3>1. r \in DOMAIN db \ ObjectKeys(db)
      BY <2>1, <1>1
    <3>2. PICK owner \in ObjectKeys(db) :
              \A k \in ObjectKeys(db) : r \in Uses(db, k) <=> k = owner
      BY <3>1 DEF ResourcesOwnedIn
    <3>3. owner \in DOMAIN db /\ owner \in ObjectKeys(new)
      BY <1>1 DEF ObjectKeys
    <3>4. \A i \in DOMAIN items : r \notin Uses(new, items[i].id) /\ items[i].id # owner
      BY <2>1, <3>3, <1>1, <1>4
    <3>5. \A k \in ObjectKeys(new) : r \in Uses(new, k) <=> k = owner
      BY <3>2, <3>4, <1>3, <1>5
    <3> QED
      BY <3>3, <3>5
  <2>2. CASE r \in Keys(resources) /\ r \notin DOMAIN db
    <3>1. PICK i \in DOMAIN items : \A j \in DOMAIN items : r \in UsesOf(items[j]) <=> j = i
      BY <2>2, <1>1 DEF OwnedBatch
    <3>2. ASSUME NEW k \in ObjectKeys(new) PROVE r \in Uses(new, k) <=> k = items[i].id
      <4>1. CASE k \in ObjectKeys(db)
        BY <4>1, <2>2, <1>3, <1>4 DEF ObjectKeys
      <4>2. ASSUME NEW j \in DOMAIN items, k = items[j].id
            PROVE  r \in Uses(new, k) <=> k = items[i].id
        BY <4>2, <3>1, <1>1, <1>4
      <4> QED
        BY <4>1, <4>2, <1>5
    <3> QED
      BY <3>2, <1>4
  <2> QED
    BY <2>1, <2>2, <1>1
<1> QED
  BY <1>6 DEF ResourcesOwnedIn

-----------------------------------------------------------------------------
(***************************************************************************)
(* The invariant.  Emptiness: open_db creates the root of an empty DB.     *)
(* ItemsFresh: what is composed can be published.  The keys the scanner    *)
(* holds as parents, of folders on the stack and of composed items, are    *)
(* never the root's, and are containers of the DB as long as no write has  *)
(* failed.                                                                 *)
(***************************************************************************)
Emptiness ==
    /\ db_files = "absent" => pc \in {"down", "stopped", "open"} /\ DOMAIN db = {}
    /\ pc = "root" => DOMAIN db = {}

ItemsFresh ==
    /\ FreshItems(composer.items)
    /\ Keys(composer.resources) \intersect DOMAIN db = {}
    /\ OwnedBatch(composer.items, composer.resources)
    /\ \A i \in DOMAIN composer.items : composer.items[i].parent_id = composer.parent_id

HeldBy(stack) == {stack[i].parent : i \in DOMAIN stack}

ParentsHeld ==
    {k \in {movies_folder_, composer.parent_id} : k # NoFolder}
        \union HeldBy(directories) \union HeldBy(composer.subs)

IsContainer(d, k) == k \in DOMAIN d /\ d[k].data_type = "MediaContainer"

ParentsStored ==
    faults = 0 => /\ pc \in {"libraries", "scan"} => IsContainer(db, Root)
                  /\ \A k \in ParentsHeld : IsContainer(db, k)

ParentsInv == (\A k \in ParentsHeld : k.id > 0) /\ ParentsStored

TreeInv == Inv /\ TreeIn(db) /\ TreeIn(durable) /\ Emptiness /\ ItemsFresh /\ ParentsInv

(***************************************************************************)
(* What a step does to the DB.                                             *)
(***************************************************************************)
Formats == DOMAIN db = {} /\ db' = [k \in {Root} |-> RootContainer]

PublishesUnder(parent) ==
    \E items, resources : /\ FreshBatch(parent, items, resources)
                          /\ db' = Batch(parent, items, resources)

Publishes == \E parent : PublishesUnder(parent)

DbStep == \/ db' = db /\ durable' = durable
          \/ Formats /\ durable' = durable
          \/ Publishes /\ durable' = durable
          \/ durable' = db /\ db' = db
          \/ db' = durable /\ durable' = durable /\ pc' = "down"

(* Without a fault, containers stay, and what the scanner comes to hold is one. *)
ScannerHolds ==
    /\ faults' = 0 => faults = 0 /\ \A k : IsContainer(db, k) => IsContainer(db', k)
    /\ \A k \in ParentsHeld' : \/ k \in ParentsHeld
                               \/ k.id > 0 /\ (faults' = 0 => IsContainer(db', k))

-----------------------------------------------------------------------------
LEMMA FormattedTree ==
    LET d == [k \in {Root} |-> RootContainer]
    IN  TreeIn(d) /\ ObjectKeys(d) = {Root} /\ DOMAIN d = {Root} /\ d[Root] = RootContainer
<1> DEFINE d == [k \in {Root} |-> RootContainer]
<1>1. DOMAIN d = {Root} /\ d[Root] = RootContainer
  OBVIOUS
<1>2. ObjectKeys(d) = {Root}
  BY <1>1, RootIsKey, KeyTypesApart DEF ObjectKeys
<1>3. RootContainer.id = Root /\ RootContainer.objects = <<>>
  BY DEF RootContainer, Container
<1>4. Len(<<>>) = 0 /\ DOMAIN <<>> = {}
  BY EmptySeq, LenProperties
<1> HIDE DEF d
<1>5. TreeShapedIn(d)
  BY <1>1, <1>2, <1>3 DEF TreeShapedIn
<1>6. Downward(d) /\ MoviesOnly(d)
  BY <1>1, <1>2, <1>3, <1>4 DEF Downward, MoviesOnly
<1>7. ResourcesOwnedIn(d)
  BY <1>1, <1>2 DEF ResourcesOwnedIn
<1> QED
  BY <1>1, <1>2, <1>5, <1>6, <1>7 DEF TreeIn, d

LEMMA EmptyTree ==
    ASSUME NEW d, DOMAIN d = {}
    PROVE  TreeIn(d)
<1>1. ObjectKeys(d) = {} /\ Root \notin DOMAIN d
  BY DEF ObjectKeys
<1> QED
  BY <1>1 DEF TreeIn, TreeShapedIn, Downward, MoviesOnly, ResourcesOwnedIn

LEMMA DbStepKeepsTree ==
    ASSUME TreeInv, DbStep
    PROVE  TreeIn(db)' /\ TreeIn(durable)'
<1>1. TreeIn(db) /\ TreeIn(durable) /\ DbTypeOK(db) /\ RefsResolveIn(db)
  BY DEF TreeInv, Inv, StoreInv, DbInv
<1>2. ASSUME Formats PROVE TreeIn(db)'
  BY <1>2, FormattedTree DEF Formats
<1>3. ASSUME Publishes PROVE TreeIn(db)'
  <2>1. PICK parent, items, resources : /\ FreshBatch(parent, items, resources)
                                        /\ db' = Batch(parent, items, resources)
    BY <1>3 DEF Publishes, PublishesUnder
  <2> DEFINE new == Batch(parent, items, resources)
  <2>2. Published(new, parent, items, resources)
    BY <1>1, <2>1, BatchPublishes
  <2> HIDE DEF new
  <2>3. TreeShapedIn(new) /\ Downward(new) /\ MoviesOnly(new) /\ ResourcesOwnedIn(new)
    BY <1>1, <2>1, <2>2, PublishedIsTree, PublishedGoesDown, PublishedMovies, PublishedOwned
       DEF TreeIn
  <2>4. db' = new
    BY <2>1 DEF new
  <2> QED
    BY <2>3, <2>4 DEF TreeIn
<1>4. TreeIn(db)'
  BY <1>1, <1>2, <1>3 DEF DbStep
<1>5. TreeIn(durable)'
  BY <1>1 DEF DbStep
<1> QED
  BY <1>4, <1>5

(* put_items, of items that can be published under a container it finds. *)
Outcome(parent, items, resources) ==
    \/ PutFails
    \/ FreshBatch(parent, items, resources) /\ PutCommits(parent, items, resources)

LEMMA PutPublishes ==
    ASSUME DbTypeOK(db), faults \in Nat,
           NEW parent \in ObjectKeySet, NEW items \in Seq(MediaObject), items # <<>>,
           NEW resources \in SUBSET StoredResource,
           FreshItems(items), \A i \in DOMAIN items : Covered(items[i], resources),
           Keys(resources) \intersect DOMAIN db = {},
           ContainerFound(parent) => PlacedBatch(parent, items),
           OwnedBatch(items, resources),
           PutItems(parent, items, resources)
    PROVE  /\ DbStep
           /\ Outcome(parent, items, resources)
           /\ faults' = 0 => /\ faults = 0
                             /\ \A k : IsContainer(db, k) => IsContainer(db', k)
                             /\ \A i \in DOMAIN items : items[i].data_type = "MediaContainer"
                                    => IsContainer(db', items[i].id)
<1>1. CASE PutFails
  BY <1>1 DEF PutFails, DbStep, Outcome
<1>2. CASE PutCommits(parent, items, resources)
  <2> DEFINE new == Batch(parent, items, resources)
  <2>1. db' = new /\ durable' = durable /\ faults' = faults
    BY <1>2 DEF PutCommits
  <2>2. /\ ContainerFound(parent) /\ parent \in DOMAIN db
        /\ \A i \in DOMAIN items : items[i].parent_id = parent
    BY ContainerFoundInDb DEF PutItems, PutRefused
  <2>3. FreshBatch(parent, items, resources)
    BY <2>2, KeyTypesApart DEF FreshBatch, ContainerFound, ObjectKeys
  <2>4. Published(new, parent, items, resources)
    BY <2>3, BatchPublishes
  <2>5. DbStep
    BY <2>1, <2>3 DEF DbStep, Publishes, PublishesUnder
  <2>8. Outcome(parent, items, resources)
    BY <1>2, <2>3 DEF Outcome
  <2> HIDE DEF new
  <2>6. ASSUME NEW k, IsContainer(db, k) PROVE IsContainer(db', k)
    <3>1. k \in DOMAIN db /\ db[k].data_type = "MediaContainer" /\ k \in DOMAIN new
      BY <2>4, <2>6 DEF IsContainer, Published
    <3>2. CASE k \in ObjectKeys(db)
      BY <2>1, <2>3, <2>4, <3>1, <3>2, OldObjects DEF IsContainer
    <3>3. CASE k \notin ObjectKeys(db)
      <4>1. k # parent
        BY <2>3, <3>3 DEF FreshBatch
      <4> QED
        BY <4>1, <2>1, <2>4, <3>1 DEF IsContainer, Published
    <3> QED
      BY <3>2, <3>3
  <2>7. ASSUME NEW i \in DOMAIN items, items[i].data_type = "MediaContainer"
        PROVE  IsContainer(db', items[i].id)
    <3>1. new[items[i].id] = items[i] /\ items[i].id \in DOMAIN new
      BY <2>3, <2>4, NewObjects DEF ObjectKeys
    <3> QED
      BY <2>1, <2>7, <3>1 DEF IsContainer
  <2> QED
    BY <2>1, <2>5, <2>6, <2>7, <2>8
<1> QED
  BY <1>1, <1>2 DEF PutItems

-----------------------------------------------------------------------------
(***************************************************************************)
(* What the scanner holds, action by action.                               *)
(***************************************************************************)
ActionKeeps == DbStep /\ ItemsFresh' /\ ScannerHolds

LEMMA EmptyComposerFresh ==
    ASSUME composer'.items = <<>>, composer'.resources = {}
    PROVE  ItemsFresh'
<1>1. DOMAIN composer'.items = {} /\ Keys(composer'.resources) = {}
  BY EmptySeq, LenProperties DEF Keys
<1> QED
  BY <1>1 DEF ItemsFresh, FreshItems, OwnedBatch

LEMMA TopHeld ==
    ASSUME ScannerTypeOK, directories # <<>>
    PROVE  Top.parent \in ParentsHeld
<1>1. Len(directories) \in DOMAIN directories
  BY EmptySeq, LenProperties DEF ScannerTypeOK
<1> QED
  BY <1>1 DEF Top, ParentsHeld, HeldBy

LEMMA UnderHolds ==
    ASSUME NEW paths, NEW parent
    PROVE  HeldBy(Under(paths, parent)) \subseteq {parent}
  BY DEF HeldBy, Under

LEMMA StartComposingHolds ==
    ASSUME NEW l, NEW parent, NEW subs, StartComposing(l, parent, subs)
    PROVE  /\ ItemsFresh'
           /\ ParentsHeld' \subseteq ParentsHeld \union {parent} \union HeldBy(subs)
<1>1. /\ composer' = [parent_id |-> parent, folder_name |-> FolderNameOf(l),
                      subs |-> subs, items |-> <<>>, resources |-> {}]
      /\ movies_folder_' = movies_folder_ /\ directories' = directories
  BY DEF StartComposing
<1>2. /\ composer'.parent_id = parent /\ composer'.subs = subs
      /\ composer'.items = <<>> /\ composer'.resources = {}
  BY <1>1
<1>3. ItemsFresh'
  BY <1>2, EmptyComposerFresh
<1>4. ParentsHeld' \subseteq ParentsHeld \union {parent} \union HeldBy(subs)
  BY <1>1, <1>2 DEF ParentsHeld
<1> QED
  BY <1>3, <1>4

(* The stack after scan_directory: that of before without its top, and the subfolders. *)
LEMMA PushedEntries ==
    ASSUME ScannerTypeOK, directories # <<>>
    PROVE  LET n == Len(directories) - 1
           IN  /\ n \in Nat /\ n + 1 \in DOMAIN directories /\ Top = directories[n + 1]
               /\ \A i \in DOMAIN PopThenPush :
                     \/ /\ i \in 1 .. n /\ i \in DOMAIN directories
                        /\ PopThenPush[i] = directories[i]
                     \/ /\ i \notin 1 .. n /\ i - n \in DOMAIN composer.subs /\ i = n + (i - n)
                        /\ PopThenPush[i] = composer.subs[i - n]
               /\ \A i \in 1 .. n : i \in DOMAIN PopThenPush /\ PopThenPush[i] = directories[i]
               /\ \A i \in DOMAIN composer.subs :
                     n + i \in DOMAIN PopThenPush /\ PopThenPush[n + i] = composer.subs[i]
               /\ \A i \in DOMAIN directories : i \in 1 .. n \/ i = n + 1
<1> DEFINE n == Len(directories) - 1
           rest == SubSeq(directories, 1, n)
<1>1. /\ directories \in Seq(StackEntry) /\ composer.subs \in Seq(StackEntry)
      /\ DOMAIN directories = 1 .. n + 1 /\ n \in Nat
      /\ Len(composer.subs) \in Nat /\ DOMAIN composer.subs = 1 .. Len(composer.subs)
  BY LenProperties, EmptySeq DEF ScannerTypeOK, Composer
<1>2. n + 1 \in DOMAIN directories /\ Top = directories[n + 1]
  BY <1>1 DEF Top
<1> HIDE DEF n
<1>3. \A i \in 1 .. n : i \in DOMAIN directories /\ directories[i] \in StackEntry
  BY <1>1, ElementOfSeq
<1>4. /\ rest \in Seq(StackEntry) /\ Len(rest) = n
      /\ \A i \in 1 .. n : rest[i] = directories[i]
  <2>1. /\ rest \in Seq(StackEntry)
        /\ Len(rest) = IF 1 <= n THEN n - 1 + 1 ELSE 0
        /\ \A i \in 1 .. n - 1 + 1 : rest[i] = directories[1 + i - 1]
    BY <1>1, <1>3, SubSeqProperties
  <2> HIDE DEF rest
  <2>2. Len(rest) = n
    BY <1>1, <2>1
  <2>3. ASSUME NEW i \in 1 .. n PROVE rest[i] = directories[i]
    <3>1. i \in 1 .. n - 1 + 1 /\ 1 + i - 1 = i
      BY <1>1
    <3> QED
      BY <3>1, <2>1
  <2> QED
    BY <2>1, <2>2, <2>3
<1>5. PopThenPush = rest \o composer.subs
  BY DEF PopThenPush, rest, n
<1> HIDE DEF rest
<1>6. /\ DOMAIN PopThenPush = 1 .. n + Len(composer.subs)
      /\ \A i \in 1 .. n + Len(composer.subs) :
            PopThenPush[i] = IF i <= n THEN rest[i] ELSE composer.subs[i - n]
  BY <1>1, <1>4, <1>5, ConcatProperties, LenProperties
<1> HIDE DEF PopThenPush
<1>7. ASSUME NEW i \in DOMAIN PopThenPush
      PROVE  \/ /\ i \in 1 .. n /\ i \in DOMAIN directories
                /\ PopThenPush[i] = directories[i]
             \/ /\ i \notin 1 .. n /\ i - n \in DOMAIN composer.subs /\ i = n + (i - n)
                /\ PopThenPush[i] = composer.subs[i - n]
  <2>1. CASE i <= n
    BY <2>1, <1>1, <1>3, <1>4, <1>6
  <2>2. CASE ~(i <= n)
    BY <2>2, <1>1, <1>6
  <2> QED
    BY <2>1, <2>2
<1>8. ASSUME NEW i \in 1 .. n PROVE i \in DOMAIN PopThenPush /\ PopThenPush[i] = directories[i]
  BY <1>1, <1>4, <1>6
<1>9. ASSUME NEW i \in DOMAIN composer.subs
      PROVE  n + i \in DOMAIN PopThenPush /\ PopThenPush[n + i] = composer.subs[i]
  <2>1. n + i \in 1 .. n + Len(composer.subs) /\ ~(n + i <= n) /\ (n + i) - n = i
    BY <1>1
  <2> QED
    BY <2>1, <1>6
<1>10. \A i \in DOMAIN directories : i \in 1 .. n \/ i = n + 1
  BY <1>1
<1> QED
  BY <1>1, <1>2, <1>7, <1>8, <1>9, <1>10 DEF n

(* It holds nothing that was not held before. *)
LEMMA NextDirectoryHolds ==
    ASSUME ScannerTypeOK, directories # <<>>, NextDirectory
    PROVE  ItemsFresh' /\ ParentsHeld' \subseteq ParentsHeld
<1>1. /\ directories' = PopThenPush /\ movies_folder_' = movies_folder_
      /\ composer' = NoComposer
  BY DEF NextDirectory
<1>2. /\ composer'.items = <<>> /\ composer'.resources = {}
      /\ composer'.parent_id = NoFolder /\ HeldBy(composer'.subs) = {}
  <2>1. NoComposer.subs = <<>> /\ DOMAIN <<>> = {}
    BY EmptySeq, LenProperties DEF NoComposer
  <2>2. HeldBy(NoComposer.subs) = {}
    BY <2>1 DEF HeldBy
  <2> QED
    BY <1>1, <2>2 DEF NoComposer
<1>3. ItemsFresh'
  BY <1>2, EmptyComposerFresh
<1>4. ASSUME NEW i \in DOMAIN PopThenPush
      PROVE  PopThenPush[i].parent \in HeldBy(directories) \union HeldBy(composer.subs)
  BY PushedEntries DEF HeldBy
<1>5. HeldBy(PopThenPush) \subseteq HeldBy(directories) \union HeldBy(composer.subs)
  <2> HIDE DEF PopThenPush
  <2>1. \A x \in HeldBy(PopThenPush) : \E i \in DOMAIN PopThenPush : x = PopThenPush[i].parent
    BY DEF HeldBy
  <2> QED
    BY <2>1, <1>4
<1>6. ParentsHeld' \subseteq ParentsHeld
  BY <1>1, <1>2, <1>5 DEF ParentsHeld
<1> QED
  BY <1>3, <1>6

LEMMA UnchangedDbHolds ==
    ASSUME db' = db, durable' = durable, faults' = faults, ParentsHeld' \subseteq ParentsHeld
    PROVE  DbStep /\ ScannerHolds
<1>1. DbStep
  BY DEF DbStep
<1>2. ScannerHolds
  BY DEF ScannerHolds
<1> QED
  BY <1>1, <1>2

LEMMA ListDirectoryHolds ==
    ASSUME TreeInv, ListDirectory
    PROVE  ActionKeeps
<1>1. /\ directories # <<>>
      /\ db' = db /\ durable' = durable /\ faults' = faults
  BY DEF ListDirectory, storeVars
<1>2. Top.parent \in ParentsHeld
  BY <1>1, TopHeld DEF TreeInv, Inv, ScannerInv
<1>3. PICK paths : StartComposing(tree[Top.path], Top.parent, Under(paths, Top.parent))
  BY DEF ListDirectory
<1>4. /\ ItemsFresh'
      /\ ParentsHeld' \subseteq ParentsHeld \union {Top.parent} \union HeldBy(Under(paths, Top.parent))
  BY <1>3, StartComposingHolds
<1>5. ParentsHeld' \subseteq ParentsHeld
  BY <1>2, <1>4, UnderHolds
<1> QED
  BY <1>1, <1>4, <1>5, UnchangedDbHolds DEF ActionKeeps

(* The identifiers of the DB are below the counters. *)
LEMMA CountersAbove ==
    ASSUME Inv, step # "idle"
    PROVE  /\ next_object_id_ \in 0 .. MaxId /\ next_resource_id_ \in 0 .. MaxId
           /\ \A k \in ObjectKeys(db) : k.id \in Nat /\ k.id < next_object_id_
           /\ \A k \in DOMAIN db : k \in ResourceKeySet => k.id < next_resource_id_
           /\ \A k \in Ids(composer.items) : k.id \in Nat /\ k.id < next_object_id_
           /\ \A k \in Keys(composer.resources) : k.id \in Nat /\ k.id < next_resource_id_
<1>1. ScannerTypeOK /\ StepInv /\ DbTypeOK(db)
  BY DEF Inv, ScannerInv, StoreInv, DbInv
<1>2. next_object_id_ \in 0 .. MaxId /\ next_resource_id_ \in 0 .. MaxId
  BY <1>1 DEF ScannerTypeOK, StepInv
<1>3. \A k \in KeysSeen : Below(k)
  BY CountersFreshBelow DEF Inv
<1>4. composer.items \in Seq(MediaObject) /\ composer.resources \in SUBSET StoredResource
  BY <1>1 DEF ScannerTypeOK, Composer
<1>5. Ids(composer.items) \subseteq ObjectKeySet /\ Keys(composer.resources) \subseteq ResourceKeySet
  BY <1>4, IdsTyped, KeysOfResources
<1>6. \A k \in ObjectKeys(db) : k \in ObjectKeySet /\ k.id \in Nat
  BY <1>1, ObjectsTyped
<1>7. \A k \in ObjectKeySet \union ResourceKeySet : k.id \in Nat
  BY KeyTypesApart, MaxIdAssumption
<1> QED
  BY <1>2, <1>3, <1>5, <1>6, <1>7, KeyTypesApart DEF KeysSeen, Below, ObjectKeys

LEMMA ListCollectionHolds ==
    ASSUME TreeInv, ListCollection
    PROVE  /\ ActionKeeps
           /\ Outcome(Top.parent, <<CollectionOf(tree[Top.path])>>,
                      CollectionResources(tree[Top.path]))
<1> DEFINE l == tree[Top.path]
           items == <<CollectionOf(l)>>
           resources == CollectionResources(l)
           key == ResourceKey(next_resource_id_)
<1>1. /\ step = "list" /\ directories # <<>> /\ PutItems(Top.parent, items, resources)
      /\ next_object_id_ < MaxId /\ next_resource_id_ < MaxId
  BY DEF ListCollection
<1>2. PICK paths : StartComposing(l, CollectionKey, Under(paths, SubsParent(l)))
  BY DEF ListCollection
<1>3. Inv /\ ScannerTypeOK /\ DbTypeOK(db) /\ ParentsInv /\ faults \in Nat
  BY MaxFaultsAssumption DEF TreeInv, Inv, ScannerInv, StoreInv, DbInv
<1>4. Top.parent \in ParentsHeld /\ Top.parent \in ObjectKeySet
  BY <1>1, <1>3, TopHeld, TopTyped
<1>5. /\ next_object_id_ \in 0 .. MaxId /\ next_resource_id_ \in 0 .. MaxId
      /\ \A k \in ObjectKeys(db) : k.id \in Nat /\ k.id < next_object_id_
      /\ \A k \in DOMAIN db : k \in ResourceKeySet => k.id < next_resource_id_
  BY <1>1, <1>3, CountersAbove
<1>6. /\ CollectionKey \in ObjectKeySet /\ CollectionKey.id = next_object_id_
      /\ key \in ResourceKeySet /\ key.id = next_resource_id_
  BY <1>5, KeysTyped DEF CollectionKey
<1>7. /\ items \in Seq(MediaObject) /\ resources \in SUBSET StoredResource
      /\ \A i \in DOMAIN items : Covered(items[i], resources)
      /\ Keys(resources) \subseteq {key}
      /\ FolderArtwork(l) = {} => Keys(resources) = {}
  BY <1>1, <1>3, <1>5, CollectionTyped
<1>8. /\ CollectionOf(l).id = CollectionKey /\ CollectionOf(l).data_type = "MediaContainer"
      /\ CollectionOf(l).artwork = {[ref |-> key, type |-> a.type] : a \in FolderArtwork(l)}
  BY DEF CollectionOf, Container, CollectionKey
<1>9. DOMAIN items = {1} /\ items[1] = CollectionOf(l) /\ items # <<>>
  BY EmptySeq
<1>10. FolderArtwork(l) # {} => key \in UsesOf(CollectionOf(l))
  <2>1. ASSUME NEW a \in FolderArtwork(l) PROVE key \in UsesOf(CollectionOf(l))
    <3>1. [ref |-> key, type |-> a.type] \in CollectionOf(l).artwork
      BY <1>8
    <3>2. [ref |-> key, type |-> a.type].ref = key
      OBVIOUS
    <3> HIDE DEF key
    <3> QED
      BY <3>1, <3>2 DEF UsesOf
  <2> QED
    BY <2>1
<1> HIDE DEF items, resources, key, l
<1>11. FreshItems(items)
  BY <1>5, <1>6, <1>8, <1>9 DEF FreshItems
<1>12. Keys(resources) \intersect DOMAIN db = {}
  BY <1>5, <1>6, <1>7
<1>13. OwnedBatch(items, resources)
  BY <1>7, <1>9, <1>10 DEF OwnedBatch
<1>14. PlacedBatch(Top.parent, items)
  BY <1>3, <1>4, RootIsKey DEF PlacedBatch, ParentsInv
<1>15. /\ DbStep
       /\ Outcome(Top.parent, items, resources)
       /\ faults' = 0 => /\ faults = 0
                         /\ \A k : IsContainer(db, k) => IsContainer(db', k)
                         /\ IsContainer(db', items[1].id)
  BY <1>1, <1>3, <1>4, <1>7, <1>8, <1>9, <1>11, <1>12, <1>13, <1>14, PutPublishes
<1>16. CollectionKey.id > 0
  <2>1. Top.parent \in ObjectKeys(db)
    BY <1>1, <1>3, <1>4, ContainerFoundInDb, KeyTypesApart DEF PutItems, PutRefused, ObjectKeys
  <2> QED
    BY <2>1, <1>5, <1>6
<1>17. /\ ItemsFresh'
       /\ ParentsHeld' \subseteq ParentsHeld \union {CollectionKey} \union HeldBy(Under(paths, SubsParent(l)))
  BY <1>2, StartComposingHolds
<1>18. ParentsHeld' \subseteq ParentsHeld \union {CollectionKey}
  BY <1>4, <1>17, UnderHolds DEF SubsParent
<1>19. ScannerHolds
  BY <1>8, <1>9, <1>15, <1>16, <1>18 DEF ScannerHolds
<1> QED
  BY <1>15, <1>17, <1>19 DEF ActionKeeps, items, resources, l

(* One more item, numbered from the counters on, under the composer's parent. *)
LEMMA ComposeVideoHolds ==
    ASSUME TreeInv, ComposeVideo
    PROVE  ActionKeeps
<1> DEFINE l == tree[Top.path]
           v == Len(composer.items) + 1
           name == composer.folder_name
           prefix == ResourcePrefix(l, name, v)
           count == ResourceCount(l, prefix)
           r == next_resource_id_
           id == ObjectKey(next_object_id_)
           item == ComposeItem(l, name, v, id, composer.parent_id, r)
           more == ItemResources(l, Top.path, prefix, v, r)
           old == composer.items
           items == Append(old, item)
           resources == composer.resources \union more
<1>1. /\ step = "compose" /\ v <= Len(l.videos) /\ r + count <= MaxId
      /\ composer' = [composer EXCEPT !.items = items, !.resources = resources]
      /\ movies_folder_' = movies_folder_ /\ directories' = directories
      /\ db' = db /\ durable' = durable /\ faults' = faults
  BY DEF ComposeVideo, scanConfigVars, storeVars
<1>2. Inv /\ ScannerTypeOK /\ StepInv /\ ItemsCovered /\ DbTypeOK(db) /\ ItemsFresh
  BY DEF TreeInv, Inv, ScannerInv, StoreInv, DbInv
<1>3. /\ next_object_id_ \in 0 .. MaxId /\ r \in 0 .. MaxId /\ r \in Nat
      /\ \A k \in ObjectKeys(db) : k.id \in Nat /\ k.id < next_object_id_
      /\ \A k \in DOMAIN db : k \in ResourceKeySet => k.id < r
      /\ \A k \in Ids(old) : k.id \in Nat /\ k.id < next_object_id_
      /\ \A k \in Keys(composer.resources) : k.id \in Nat /\ k.id < r
  BY <1>1, <1>2, CountersAbove
<1>4. directories # <<>> /\ composer.parent_id \in ObjectKeySet
  BY <1>1, <1>2 DEF StepInv
<1>5. Top.path \in Directory /\ l \in Listing
  BY <1>2, <1>4, TopTyped
<1>6. /\ composer \in Composer /\ name \in Name /\ old \in Seq(MediaObject)
      /\ composer.resources \in SUBSET StoredResource
      /\ Len(old) \in Nat /\ DOMAIN old = 1 .. Len(old)
  BY <1>2, LenProperties DEF ScannerTypeOK, Composer
<1>7. v \in DOMAIN l.videos
  BY <1>1, <1>5, <1>6, LenProperties, ListingTyped
<1>8. id \in ObjectKeySet /\ id.id = next_object_id_
  BY <1>3, KeysTyped
<1>9. /\ count \in Nat \ {0}
      /\ item \in MediaObject /\ item.id = id /\ item.parent_id = composer.parent_id
      /\ more \in SUBSET StoredResource /\ UsesOf(item) = Keys(more)
      /\ \A k \in Keys(more) : k.id \in r .. r + count - 1
  BY <1>1, <1>3, <1>4, <1>5, <1>6, <1>7, <1>8, ComposedTyped
<1>10. Keys(more) \subseteq ResourceKeySet /\ Keys(resources) = Keys(composer.resources) \union Keys(more)
  BY <1>9, KeysOfResources DEF Keys
<1>11. \A k \in Keys(more) : k.id \in Nat /\ r <= k.id
  BY <1>3, <1>9
<1> HIDE DEF l, name, prefix, count, item, more, r, id
<1>12. /\ items \in Seq(MediaObject) /\ DOMAIN items = 1 .. v /\ v \in Nat
       /\ items[v] = item
       /\ \A i \in DOMAIN old : i \in DOMAIN items /\ i # v /\ items[i] = old[i]
       /\ \A i \in DOMAIN items : i = v \/ i \in DOMAIN old
  <2>1. /\ items \in Seq(MediaObject) /\ Len(items) = Len(old) + 1
        /\ \A i \in 1 .. Len(old) : items[i] = old[i]
        /\ items[Len(old) + 1] = item
    BY <1>6, <1>9, AppendProperties
  <2>2. DOMAIN items = 1 .. Len(items)
    BY <2>1, LenProperties
  <2> QED
    BY <1>6, <2>1, <2>2
<1> HIDE DEF items, v
<1>13. \A i \in DOMAIN old : old[i].id \in Ids(old)
  BY DEF Ids
<1>14. FreshItems(items)
  <2>1. FreshItems(old)
    BY <1>2 DEF ItemsFresh
  <2>2. ASSUME NEW i \in DOMAIN items, NEW k \in ObjectKeys(db) PROVE k.id < items[i].id.id
    BY <1>3, <1>8, <1>9, <1>12, <2>1 DEF FreshItems
  <2>3. ASSUME NEW i \in DOMAIN old PROVE items[i].id # id
    BY <1>3, <1>8, <1>12, <1>13
  <2>4. ASSUME NEW i \in DOMAIN items, NEW j \in DOMAIN items, items[i].id = items[j].id
        PROVE  i = j
    BY <1>9, <1>12, <2>1, <2>3, <2>4 DEF FreshItems
  <2> QED
    BY <2>2, <2>4 DEF FreshItems
<1>15. Keys(resources) \intersect DOMAIN db = {}
  <2>1. ASSUME NEW k \in Keys(more) PROVE k \notin DOMAIN db
    BY <1>3, <1>10, <1>11
  <2> QED
    BY <1>2, <1>10, <2>1 DEF ItemsFresh
<1>16. OwnedBatch(items, resources)
  <2>1. \A i \in DOMAIN old : UsesOf(old[i]) \subseteq Keys(composer.resources)
    BY <1>2 DEF ItemsCovered, Covered, UsesOf
  <2>2. \A k \in Keys(composer.resources) : k \notin Keys(more)
    BY <1>3, <1>11
  <2>3. ASSUME NEW k \in Keys(resources)
        PROVE  \E i \in DOMAIN items : \A j \in DOMAIN items : k \in UsesOf(items[j]) <=> j = i
    <3>1. CASE k \in Keys(composer.resources)
      <4>1. PICK i \in DOMAIN old : \A j \in DOMAIN old : k \in UsesOf(old[j]) <=> j = i
        BY <1>2, <3>1 DEF ItemsFresh, OwnedBatch
      <4>2. \A j \in DOMAIN items : k \in UsesOf(items[j]) <=> j = i
        BY <1>9, <1>12, <2>2, <3>1, <4>1
      <4> QED
        BY <1>12, <4>2
    <3>2. CASE k \in Keys(more)
      <4>1. \A j \in DOMAIN items : k \in UsesOf(items[j]) <=> j = v
        BY <1>9, <1>12, <2>1, <2>2, <3>2
      <4>2. v \in DOMAIN items
        BY <1>6, <1>12 DEF v
      <4> QED
        BY <4>1, <4>2
    <3> QED
      BY <1>10, <3>1, <3>2
  <2> QED
    BY <2>3 DEF OwnedBatch
<1>17. \A i \in DOMAIN items : items[i].parent_id = composer.parent_id
  BY <1>2, <1>9, <1>12 DEF ItemsFresh
<1> HIDE DEF resources
<1>18. /\ composer'.items = items /\ composer'.resources = resources
       /\ composer'.parent_id = composer.parent_id /\ composer'.subs = composer.subs
  BY <1>1, <1>6 DEF Composer
<1>19. ItemsFresh'
  BY <1>1, <1>14, <1>15, <1>16, <1>17, <1>18 DEF ItemsFresh, FreshItems
<1>20. ParentsHeld' = ParentsHeld
  BY <1>1, <1>18 DEF ParentsHeld
<1> QED
  BY <1>1, <1>19, <1>20, UnchangedDbHolds DEF ActionKeeps

LEMMA StoreVideosHolds ==
    ASSUME TreeInv, StoreVideos
    PROVE  ActionKeeps /\ Outcome(composer.parent_id, composer.items, composer.resources)
<1> DEFINE parent == composer.parent_id
           items == composer.items
           resources == composer.resources
<1>1. /\ step = "compose" /\ items # <<>>
      /\ PutItems(parent, items, resources) /\ NextDirectory
  BY DEF StoreVideos
<1>2. /\ Inv /\ ScannerTypeOK /\ DbTypeOK(db) /\ faults \in Nat /\ ItemsCovered
      /\ ItemsFresh /\ ParentsInv
  BY MaxFaultsAssumption DEF TreeInv, Inv, ScannerInv, StoreInv, DbInv
<1>3. /\ parent \in ObjectKeySet /\ items \in Seq(MediaObject)
      /\ resources \in SUBSET StoredResource
      /\ \A i \in DOMAIN items : Covered(items[i], resources)
  BY <1>1, <1>2 DEF Inv, ScannerInv, ScannerTypeOK, StepInv, ItemsCovered, Composer
<1>4. parent \in ParentsHeld
  BY <1>3, NoFolderIsNoKey DEF ParentsHeld
<1>5. PlacedBatch(parent, items)
  BY <1>2, <1>4, RootIsKey DEF PlacedBatch, ParentsInv
<1>6. /\ FreshItems(items) /\ OwnedBatch(items, resources)
      /\ Keys(resources) \intersect DOMAIN db = {}
  BY <1>2 DEF ItemsFresh
<1> HIDE DEF items, parent, resources
<1>7. /\ DbStep
      /\ Outcome(parent, items, resources)
      /\ faults' = 0 => faults = 0 /\ \A k : IsContainer(db, k) => IsContainer(db', k)
  BY <1>1, <1>2, <1>3, <1>5, <1>6, PutPublishes
<1>8. ItemsFresh' /\ ParentsHeld' \subseteq ParentsHeld
  BY <1>1, <1>2, NextDirectoryHolds DEF Inv, ScannerInv, StepInv
<1>9. ScannerHolds
  BY <1>7, <1>8 DEF ScannerHolds
<1> QED
  BY <1>7, <1>8, <1>9 DEF ActionKeeps, items, parent, resources

LEMMA SkipFolderHolds ==
    ASSUME TreeInv, SkipFolder
    PROVE  ActionKeeps
<1>1. /\ NextDirectory /\ step = "compose"
      /\ db' = db /\ durable' = durable /\ faults' = faults
  BY DEF SkipFolder, storeVars
<1>2. ItemsFresh' /\ ParentsHeld' \subseteq ParentsHeld
  BY <1>1, NextDirectoryHolds DEF TreeInv, Inv, ScannerInv, StepInv
<1> QED
  BY <1>1, <1>2, UnchangedDbHolds DEF ActionKeeps

LEMMA ScannerUnchangedHolds ==
    ASSUME TreeInv, db' = db, durable' = durable, faults' = faults, movies_folder_' = movies_folder_,
           directories' = directories, composer' = composer
    PROVE  ActionKeeps
<1>1. ItemsFresh'
  BY DEF TreeInv, ItemsFresh, FreshItems
<1>2. ParentsHeld' = ParentsHeld
  BY DEF ParentsHeld
<1> QED
  BY <1>1, <1>2, UnchangedDbHolds DEF ActionKeeps

-----------------------------------------------------------------------------
(* The Movies folder that is found: the one remembered, or a child of the root. *)
LEMMA KnownMoviesFolderHolds ==
    ASSUME TreeInv, NEW folder \in KnownMoviesFolder
    PROVE  /\ folder # NoFolder /\ folder.id > 0
           /\ folder \in ParentsHeld \/ IsContainer(db, folder)
<1>1. CASE movies_folder_.id > 0
  <2>1. folder = movies_folder_ /\ folder.id > 0
    BY <1>1 DEF KnownMoviesFolder
  <2>2. folder # NoFolder
    BY <2>1, NoFolderIsNoKey
  <2> QED
    BY <2>1, <2>2 DEF ParentsHeld
<1>2. CASE ~(movies_folder_.id > 0)
  <2>1. ContainerFound(Root) /\ \E i \in DOMAIN List(Root) : folder = List(Root)[i]
    BY <1>2 DEF KnownMoviesFolder
  <2>2. PICK i \in DOMAIN db[Root].objects : folder = db[Root].objects[i]
    BY <2>1 DEF List
  <2>3. /\ DbTypeOK(db) /\ RefsResolveIn(db) /\ Downward(db) /\ MoviesOnly(db)
    BY DEF TreeInv, Inv, StoreInv, DbInv, TreeIn
  <2>4. Root \in DOMAIN db /\ Root \in ObjectKeys(db)
    BY <2>1, <2>3, RootIsKey, ContainerFoundInDb, KeyTypesApart DEF ObjectKeys
  <2>5. folder \in DOMAIN db /\ folder.id > 0
    BY <2>2, <2>3, <2>4, RootIsKey DEF RefsResolveIn, Downward
  <2>6. IsContainer(db, folder)
    BY <2>2, <2>3, <2>4, <2>5 DEF MoviesOnly, IsContainer
  <2> QED
    BY <2>5, <2>6, NoFolderIsNoKey
<1> QED
  BY <1>1, <1>2

LEMMA EnterLibraryHolds ==
    ASSUME TreeInv, step = "idle", NEW path, NEW folder, EnterLibrary(path, folder)
    PROVE  ItemsFresh' /\ ParentsHeld' \subseteq ParentsHeld \union {folder}
<1>1. /\ directories' = <<[path |-> path, parent |-> folder]>>
      /\ movies_folder_' = folder /\ composer' = composer /\ composer = NoComposer
  BY DEF EnterLibrary, TreeInv, Inv, ScannerInv, StepInv
<1>2. ItemsFresh'
  BY <1>1, NoComposerIsEmpty, EmptyComposerFresh
<1>3. HeldBy(directories') = {folder}
  BY <1>1 DEF HeldBy
<1>4. ParentsHeld' \subseteq ParentsHeld \union {folder}
  BY <1>1, <1>3 DEF ParentsHeld
<1> QED
  BY <1>2, <1>4

LEMMA ScanKnownFolderHolds ==
    ASSUME TreeInv, NEW path, NEW folder_names, ScanKnownFolder(path, folder_names)
    PROVE  ActionKeeps
<1>1. step = "idle" /\ db' = db /\ durable' = durable /\ faults' = faults
  BY DEF ScanKnownFolder, storeVars
<1>2. PICK folder \in KnownMoviesFolder : EnterLibrary(path, folder)
  BY DEF ScanKnownFolder
<1>3. ItemsFresh' /\ ParentsHeld' \subseteq ParentsHeld \union {folder}
  BY <1>1, <1>2, EnterLibraryHolds
<1>4. folder.id > 0 /\ (folder \in ParentsHeld \/ IsContainer(db, folder))
  BY KnownMoviesFolderHolds
<1>5. ScannerHolds
  BY <1>1, <1>3, <1>4 DEF ScannerHolds
<1> QED
  BY <1>1, <1>3, <1>5 DEF ActionKeeps, DbStep

(* A new Movies folder is the first child of the root. *)
LEMMA ScanNewFolderHolds ==
    ASSUME TreeInv, NEW path, NEW folder_names, ScanNewFolder(path, folder_names)
    PROVE  /\ ActionKeeps
           /\ \E folder \in MediaObject :
                  /\ folder.data_type = "MediaContainer" /\ UsesOf(folder) = {}
                  /\ Outcome(Root, <<folder>>, {})
<1> DEFINE id == NextId(ObjectKeyType)
           folder == Container(ObjectKey(id), Root, MoviesFolderName, {})
           items == <<folder>>
<1>1. /\ step = "idle" /\ KnownMoviesFolder = {} /\ PutItems(Root, items, {})
      /\ EnterLibrary(path, folder.id)
  BY DEF ScanNewFolder
<1>2. /\ Inv /\ DbInv(db) /\ DbTypeOK(db) /\ faults \in Nat /\ MoviesOnly(db)
  BY MaxFaultsAssumption DEF TreeInv, Inv, StoreInv, DbInv, TreeIn
<1>3. /\ id \in 0 .. MaxId
      /\ \A k \in DOMAIN db : k.key_type = ObjectKeyType => k.id < id
  BY <1>2, NextIdTyped DEF KeyTypes
<1> HIDE DEF id
<1>4. ObjectKey(id) \in ObjectKeySet /\ ObjectKey(id).id = id /\ MoviesFolderName \in Name
  BY <1>3, KeysTyped, WordAssumption DEF MoviesFolderName, Name
<1>5. /\ folder \in MediaObject /\ folder.id = ObjectKey(id) /\ folder.dc_title = MoviesFolderName
      /\ folder.data_type = "MediaContainer"
      /\ folder.objects = <<>> /\ folder.artwork = {} /\ folder.resources = {}
  BY <1>4, RootIsKey, ContainerTyped DEF Container
<1> HIDE DEF folder
<1>6. items \in Seq(MediaObject) /\ DOMAIN items = {1} /\ items[1] = folder /\ items # <<>> /\ Len(items) = 1
  BY <1>5, EmptySeq
<1> HIDE DEF items
<1>7. Root \in ObjectKeys(db) /\ Root \in DOMAIN db /\ ContainerFound(Root)
  BY <1>1, <1>2, RootIsKey, ContainerFoundInDb, KeyTypesApart DEF PutItems, PutRefused, ObjectKeys
<1>8. FreshItems(items)
  BY <1>3, <1>4, <1>5, <1>6 DEF FreshItems, ObjectKeys
<1>9. Keys({}) = {} /\ Covered(items[1], {})
  BY <1>5, <1>6 DEF Keys, Covered
<1>10. db[Root].objects = <<>>
  <2> DEFINE s == db[Root].objects
  <2>1. s \in Seq(ObjectKeySet) /\ Len(s) \in Nat /\ DOMAIN s = 1 .. Len(s)
    BY <1>2, <1>7, ObjectsTyped
  <2>2. Len(s) <= 1 /\ \A i \in DOMAIN s : db[s[i]].dc_title = MoviesFolderName
    BY <1>2, <1>7 DEF MoviesOnly
  <2>3. ASSUME 1 \in DOMAIN s PROVE FALSE
    <3>1. ~(movies_folder_.id > 0)
      BY <1>1 DEF KnownMoviesFolder
    <3>2. IsMoviesFolder(List(Root)[1]) /\ 1 \in DOMAIN List(Root)
      BY <2>2, <2>3 DEF IsMoviesFolder, List
    <3>3. List(Root)[1] \in KnownMoviesFolder
      BY <1>7, <3>1, <3>2 DEF KnownMoviesFolder
    <3> QED
      BY <1>1, <3>3
  <2>4. Len(s) = 0
    BY <2>1, <2>2, <2>3
  <2> QED
    BY <2>1, <2>4, EmptySeq
<1>11. PlacedBatch(Root, items) /\ OwnedBatch(items, {})
  BY <1>5, <1>6, <1>9, <1>10 DEF PlacedBatch, OwnedBatch
<1>12. /\ DbStep
       /\ Outcome(Root, items, {})
       /\ faults' = 0 => /\ faults = 0
                         /\ \A k : IsContainer(db, k) => IsContainer(db', k)
                         /\ IsContainer(db', items[1].id)
  BY <1>1, <1>2, <1>5, <1>6, <1>8, <1>9, <1>11, RootIsKey, PutPublishes
<1>13. ItemsFresh' /\ ParentsHeld' \subseteq ParentsHeld \union {folder.id}
  BY <1>1, EnterLibraryHolds
<1>14. folder.id.id > 0
  BY <1>3, <1>4, <1>5, <1>7, RootIsKey DEF ObjectKeys
<1>15. ScannerHolds
  BY <1>6, <1>12, <1>13, <1>14 DEF ScannerHolds
<1>16. UsesOf(folder) = {}
  BY <1>5 DEF UsesOf
<1> QED
  BY <1>5, <1>12, <1>13, <1>15, <1>16 DEF ActionKeeps, items

LEMMA ScanHolds ==
    ASSUME TreeInv, ScanStep
    PROVE  ActionKeeps
<1>1. CASE LibraryScanned
  BY <1>1, ScannerUnchangedHolds DEF LibraryScanned, storeVars
<1> QED
  BY <1>1, ListDirectoryHolds, ListCollectionHolds, ComposeVideoHolds, StoreVideosHolds,
     SkipFolderHolds DEF ScanStep

LEMMA ScanLibraryHolds ==
    ASSUME TreeInv, ScanLibrary
    PROVE  ActionKeeps
  BY ScanKnownFolderHolds, ScanNewFolderHolds DEF ScanLibrary

LEMMA DieHolds ==
    ASSUME NEW state, Die(state)
    PROVE  ItemsFresh' /\ ParentsHeld' = {}
<1>1. directories' = <<>> /\ movies_folder_' = NoFolder /\ composer' = NoComposer
  BY DEF Die, NewScanner
<1>2. NoComposer.parent_id = NoFolder /\ NoComposer.subs = <<>>
  BY DEF NoComposer
<1>3. HeldBy(<<>>) = {}
  BY EmptySeq, LenProperties DEF HeldBy
<1> QED
  BY <1>1, <1>2, <1>3, NoComposerIsEmpty, EmptyComposerFresh DEF ParentsHeld

-----------------------------------------------------------------------------
(***************************************************************************)
(* The invariant, step by step.                                            *)
(***************************************************************************)
StepKeeps == DbStep /\ ItemsFresh' /\ ParentsInv' /\ Emptiness'

LEMMA HeldParents ==
    ASSUME TreeInv, ScannerHolds,
           pc' \in {"libraries", "scan"} => pc \in {"libraries", "scan"}
    PROVE  ParentsInv'
<1>1. ASSUME NEW k \in ParentsHeld' PROVE k.id > 0 /\ (faults' = 0 => IsContainer(db', k))
  BY DEF ScannerHolds, TreeInv, ParentsInv, ParentsStored
<1>2. faults' = 0 /\ pc' \in {"libraries", "scan"} => IsContainer(db', Root)
  BY DEF ScannerHolds, TreeInv, ParentsInv, ParentsStored
<1> QED
  BY <1>1, <1>2 DEF ParentsInv, ParentsStored

LEMMA KeepsUnlessCreating ==
    ASSUME TreeInv, ActionKeeps, db_files' = db_files, pc' # "root",
           pc' \in {"libraries", "scan"} => pc \in {"libraries", "scan"},
           db_files = "absent" => pc' \in {"down", "stopped", "open"} /\ db' = db
    PROVE  StepKeeps
<1>1. ParentsInv'
  BY HeldParents DEF ActionKeeps
<1>2. Emptiness'
  BY DEF TreeInv, Emptiness
<1> QED
  BY <1>1, <1>2 DEF ActionKeeps, StepKeeps

LEMMA DieKeeps ==
    ASSUME TreeInv, NEW state \in {"down", "stopped", "serve"}, Die(state), DbStep,
           db' = db \/ db' = durable, db_files' = db_files,
           state = "serve" => db_files # "absent"
    PROVE  StepKeeps
<1>1. ItemsFresh' /\ ParentsHeld' = {} /\ pc' = state
  BY DieHolds DEF Die
<1>2. ParentsInv'
  BY <1>1 DEF ParentsInv, ParentsStored
<1>3. Emptiness'
  BY <1>1 DEF TreeInv, Emptiness, Inv, StoreInv
<1> QED
  BY <1>1, <1>2, <1>3 DEF StepKeeps

LEMMA CreateRootKeeps ==
    ASSUME TreeInv, CreateRoot
    PROVE  StepKeeps
<1>1. /\ pc = "root" /\ pc' = "libraries" /\ DOMAIN db = {} /\ db_files # "absent"
      /\ db' = [k \in DOMAIN db \union {Root} |-> IF k = Root THEN RootContainer ELSE db[k]]
      /\ durable' = durable /\ db_files' = db_files /\ faults' = faults
  BY DEF CreateRoot, PutRoot, TreeInv, Emptiness
<1>2. movies_folder_' = movies_folder_ /\ directories' = directories /\ composer' = composer
  BY DEF CreateRoot, scannerVars
<1>3. db' = [k \in {Root} |-> RootContainer] /\ DOMAIN db' = {Root} /\ db'[Root] = RootContainer
  BY <1>1
<1>4. composer = NoComposer
  BY <1>1 DEF TreeInv, Inv, ScannerInv, StepInv, MainInv
<1>5. ItemsFresh'
  BY <1>2, <1>4, NoComposerIsEmpty, EmptyComposerFresh
<1>6. ParentsHeld' = ParentsHeld
  BY <1>2 DEF ParentsHeld
<1>7. IsContainer(db', Root)
  BY <1>3 DEF IsContainer, RootContainer, Container
<1>8. ParentsInv'
  BY <1>1, <1>6, <1>7 DEF TreeInv, ParentsInv, ParentsStored, IsContainer
<1>9. DbStep /\ Emptiness'
  BY <1>1, <1>3 DEF DbStep, Formats, Emptiness
<1> QED
  BY <1>5, <1>8, <1>9 DEF StepKeeps

LEMMA NextKeeps ==
    ASSUME TreeInv, [Next]_vars
    PROVE  StepKeeps
<1>a. /\ Emptiness /\ db_files \in {"absent", "present"}
      /\ pc # "scan" => step = "idle"
  BY DEF TreeInv, Inv, StoreInv, MainInv
<1>1. CASE Start
  <2>1. ActionKeeps /\ db_files' = db_files /\ pc' = "open" /\ db' = db
    BY <1>1, ScannerUnchangedHolds DEF Start, storeVars, scannerVars
  <2> QED
    BY <2>1, KeepsUnlessCreating
<1>2. CASE Reopen
  <2>1. ActionKeeps /\ db_files' = db_files /\ pc' = "serve" /\ db_files = "present"
    BY <1>2, ScannerUnchangedHolds DEF Reopen, OpenExisting, storeVars, scannerVars
  <2> QED
    BY <2>1, KeepsUnlessCreating
<1>3. CASE Create
  <2>1. /\ ActionKeeps /\ db_files' = "present" /\ pc' = "root" /\ db_files = "absent" /\ db' = db
    BY <1>3, ScannerUnchangedHolds DEF Create, CreateDb, scannerVars
  <2>2. ParentsInv' /\ Emptiness'
    BY <2>1, <1>a, HeldParents DEF ActionKeeps, Emptiness
  <2> QED
    BY <2>1, <2>2 DEF ActionKeeps, StepKeeps
<1>4. CASE CreateRoot
  BY <1>4, CreateRootKeeps
<1>5. CASE CreateRootFails
  <2>1. Die("down") /\ db' = db /\ durable' = durable /\ db_files' = db_files
    BY <1>5 DEF CreateRootFails, PutFails
  <2> QED
    BY <2>1, DieKeeps DEF DbStep
<1>6. CASE ScanLibrary
  <2>1. ActionKeeps /\ pc = "libraries" /\ pc' = "scan"
    BY <1>6, ScanLibraryHolds DEF ScanLibrary
  <2>2. db_files' = db_files
    BY <1>6 DEF ScanLibrary, ScanKnownFolder, ScanNewFolder, PutItems, PutCommits, PutFails, storeVars
  <2> QED
    BY <2>1, <2>2, <1>a, KeepsUnlessCreating DEF Emptiness
<1>7. CASE Scan
  <2>1. ActionKeeps /\ pc = "scan" /\ pc' \in {"libraries", "scan"}
    BY <1>7, ScanHolds DEF Scan
  <2>2. db_files' = db_files
    BY <1>7 DEF Scan, ScanStep, ListDirectory, ListCollection, ComposeVideo, StoreVideos, SkipFolder,
                LibraryScanned, PutItems, PutCommits, PutFails, storeVars
  <2> QED
    BY <2>1, <2>2, <1>a, KeepsUnlessCreating DEF Emptiness
<1>8. CASE Throw
  <2>1. Die("down") /\ db' = db /\ durable' = durable /\ db_files' = db_files
    BY <1>8 DEF Throw, storeVars
  <2> QED
    BY <2>1, DieKeeps DEF DbStep
<1>9. CASE Serve
  <2>1. Die("serve") /\ db' = db /\ durable' = durable /\ db_files' = db_files /\ pc = "libraries"
    BY <1>9 DEF Serve, Die, storeVars
  <2> QED
    BY <2>1, <1>a, DieKeeps DEF DbStep, Emptiness
<1>10. CASE Stop
  <2>1. Die("stopped") /\ db' = db /\ durable' = durable /\ db_files' = db_files
    BY <1>10 DEF Stop, storeVars
  <2> QED
    BY <2>1, DieKeeps DEF DbStep
<1>11. CASE Crash
  <2>1. Die("down") /\ db' = db /\ durable' = durable /\ db_files' = db_files
    BY <1>11 DEF Crash
  <2> QED
    BY <2>1, DieKeeps DEF DbStep
<1>12. CASE PowerLoss
  <2>1. /\ Die("down") /\ db' = durable /\ durable' = durable /\ db_files' = db_files
        /\ pc' = "down"
    BY <1>12 DEF PowerLoss, LoseUnflushed, Die
  <2> QED
    BY <2>1, DieKeeps DEF DbStep
<1>13. CASE WriteBack
  <2>1. /\ durable' = db /\ db' = db /\ db_files' = db_files /\ faults' = faults /\ pc' = pc
        /\ composer' = composer /\ directories' = directories /\ movies_folder_' = movies_folder_
    BY <1>13 DEF WriteBack, Flush, scannerVars, mainVars
  <2>2. ItemsFresh'
    BY <2>1 DEF TreeInv, ItemsFresh, FreshItems
  <2>3. ParentsHeld' = ParentsHeld
    BY <2>1 DEF ParentsHeld
  <2>4. ParentsInv' /\ Emptiness'
    BY <2>1, <2>3, <1>a DEF TreeInv, ParentsInv, ParentsStored, Emptiness
  <2> QED
    BY <2>1, <2>2, <2>4 DEF StepKeeps, DbStep
<1>14. CASE UNCHANGED vars
  <2>1. /\ ActionKeeps /\ db_files' = db_files /\ db' = db /\ pc' = pc
    BY <1>14, ScannerUnchangedHolds DEF vars, storeVars, scannerVars, mainVars
  <2>2. ParentsInv' /\ Emptiness'
    BY <2>1, <1>a, HeldParents DEF ActionKeeps, Emptiness
  <2> QED
    BY <2>1, <2>2 DEF ActionKeeps, StepKeeps
<1> QED
  BY <1>1, <1>2, <1>3, <1>4, <1>5, <1>6, <1>7, <1>8, <1>9, <1>10, <1>11, <1>12, <1>13, <1>14
     DEF Next, Process

LEMMA InitTree == Init => TreeInv
<1> SUFFICES ASSUME Init PROVE TreeInv
  OBVIOUS
<1>1. Inv
  BY InitInv
<1>2. /\ db_files = "absent" /\ db = EmptyDb /\ durable = EmptyDb /\ pc = "down"
      /\ movies_folder_ = NoFolder /\ directories = <<>> /\ composer = NoComposer
  BY DEF Init, StoreInit, ScannerInit
<1>3. TreeIn(db) /\ TreeIn(durable) /\ Emptiness
  BY <1>2, EmptyDbInv, EmptyTree DEF Emptiness
<1>4. ItemsFresh
  BY <1>2, NoComposerIsEmpty, EmptySeq, LenProperties DEF ItemsFresh, FreshItems, OwnedBatch
<1>5. ParentsHeld = {}
  BY <1>2, EmptySeq, LenProperties DEF ParentsHeld, HeldBy, NoComposer
<1>6. ParentsInv
  BY <1>2, <1>5 DEF ParentsInv, ParentsStored
<1> QED
  BY <1>1, <1>3, <1>4, <1>6 DEF TreeInv

THEOREM NextTree == TreeInv /\ [Next]_vars => TreeInv' /\ DbStep
<1> SUFFICES ASSUME TreeInv, [Next]_vars PROVE TreeInv' /\ DbStep
  OBVIOUS
<1>1. StepKeeps
  BY NextKeeps
<1>2. Inv'
  BY NextInv DEF TreeInv
<1>3. TreeIn(db)' /\ TreeIn(durable)'
  BY <1>1, DbStepKeepsTree DEF StepKeeps
<1> QED
  BY <1>1, <1>2, <1>3 DEF StepKeeps, TreeInv

LEMMA TreeHolds == Spec => []TreeInv
  BY InitTree, NextTree, PTL DEF Spec

-----------------------------------------------------------------------------
(***************************************************************************)
(* The objects of the DB, and those of what a power loss leaves of it,     *)
(* form one tree, whatever was interrupted, lost or not written            *)
(* (put_items, create_container).                                          *)
(***************************************************************************)
THEOREM AlwaysTreeShaped == Spec => []TreeShaped
<1>1. TreeInv => TreeShaped
  BY DEF TreeInv, TreeIn, TreeShaped
<1> QED
  BY <1>1, TreeHolds, PTL

(***************************************************************************)
(* No resource is left over, and none belongs to two objects               *)
(* (store_resource, put_items).                                            *)
(***************************************************************************)
THEOREM ResourcesAlwaysOwned == Spec => []ResourcesOwned
<1>1. TreeInv => ResourcesOwned
  BY DEF TreeInv, TreeIn, ResourcesOwned
<1> QED
  BY <1>1, TreeHolds, PTL

(***************************************************************************)
(* The root never gets a second Movies folder, nor anything else           *)
(* (get_movies_folder_id).                                                 *)
(***************************************************************************)
THEOREM MoviesFolderAlwaysOne == Spec => []OneMoviesFolder
<1>1. TreeInv => OneMoviesFolder
  BY DEF TreeInv, TreeIn, MoviesOnly, OneMoviesFolder, List, IsMoviesFolder
<1> QED
  BY <1>1, TreeHolds, PTL

(* The store finds every container of the DB. *)
LEMMA ContainersFound ==
    ASSUME DbTypeOK(db), NEW k \in ObjectKeySet, IsContainer(db, k)
    PROVE  ContainerFound(k)
  BY LookupExact, KeyTypesApart DEF ContainerFound, DbTypeOK, IsContainer

(***************************************************************************)
(* Whatever is on disk, list and put_items do not throw in a scan without  *)
(* a fault.                                                                *)
(***************************************************************************)
THEOREM ThrowsAlwaysNeedFault == Spec => []ThrowNeedsFault
<1>1. ASSUME TreeInv, Refuses, faults = 0 PROVE FALSE
  <2>1. /\ DbTypeOK(db) /\ ScannerTypeOK /\ StepInv /\ ItemsFresh
        /\ pc \in {"libraries", "scan"} => IsContainer(db, Root)
        /\ \A k \in ParentsHeld : IsContainer(db, k)
    BY <1>1 DEF TreeInv, Inv, StoreInv, DbInv, ScannerInv, ParentsInv, ParentsStored
  <2>2. CASE pc = "libraries" /\ EnterThrows
    BY <2>1, <2>2, RootIsKey, ContainersFound DEF EnterThrows
  <2>3. CASE /\ directories # <<>>
             /\ PutRefused(Top.parent, <<CollectionOf(tree[Top.path])>>)
    <3>1. Top.parent \in ParentsHeld /\ Top.parent \in ObjectKeySet
      BY <2>1, <2>3, TopHeld, TopTyped
    <3>2. ContainerFound(Top.parent)
      BY <2>1, <3>1, ContainersFound
    <3>3. CollectionOf(tree[Top.path]).parent_id = Top.parent
      BY DEF CollectionOf, Container
    <3> QED
      BY <2>3, <3>2, <3>3 DEF PutRefused
  <2>4. CASE step = "compose" /\ PutRefused(composer.parent_id, composer.items)
    <3>1. composer.parent_id \in ObjectKeySet /\ composer.parent_id \in ParentsHeld
      BY <2>1, <2>4, NoFolderIsNoKey DEF StepInv, ParentsHeld
    <3>2. ContainerFound(composer.parent_id)
      BY <2>1, <3>1, ContainersFound
    <3> QED
      BY <2>1, <2>4, <3>2 DEF PutRefused, ItemsFresh
  <2> QED
    BY <1>1, <2>2, <2>3, <2>4 DEF Refuses, PutThrows
<1>2. TreeInv => ThrowNeedsFault
  <2>1. TreeInv => faults \in Nat
    BY MaxFaultsAssumption DEF TreeInv, Inv, StoreInv
  <2> QED
    BY <1>1, <2>1 DEF ThrowNeedsFault
<1> QED
  BY <1>2, TreeHolds, PTL

-----------------------------------------------------------------------------
(* What a list gained is what was appended to it. *)
LEMMA GainedIsAppended ==
    ASSUME DbTypeOK(db), NEW parent, NEW items, NEW resources,
           FreshBatch(parent, items, resources)
    PROVE  LET old == db[parent].objects
               new == AppendObjects(parent, items).objects
           IN  /\ new = old \o IdSeq(items)
               /\ Len(old) < Len(new)
               /\ SubSeq(new, Len(old) + 1, Len(new)) = IdSeq(items)
<1> DEFINE old == db[parent].objects
<1>1. Extended(AppendObjects(parent, items), parent, items)
  BY ParentExtended
<1>2. /\ AppendObjects(parent, items).objects = old \o IdSeq(items)
      /\ old \in Seq(ObjectKeySet) /\ IdSeq(items) \in Seq(ObjectKeySet)
      /\ Len(old) \in Nat /\ Len(IdSeq(items)) \in Nat \ {0}
  BY <1>1 DEF Extended
<1> HIDE DEF old, IdSeq
<1>3. Len(old \o IdSeq(items)) = Len(old) + Len(IdSeq(items))
  BY <1>2, ConcatProperties
<1>4. SubSeq(old \o IdSeq(items), Len(old) + 1, Len(old \o IdSeq(items))) = IdSeq(items)
  BY <1>2, <1>3, SubSeqOfConcat2
<1> DEFINE new == AppendObjects(parent, items).objects
<1>5. new = old \o IdSeq(items)
  BY <1>2
<1> HIDE DEF new
<1>6. Len(old) < Len(new) /\ SubSeq(new, Len(old) + 1, Len(new)) = IdSeq(items)
  BY <1>2, <1>3, <1>4, <1>5
<1> QED
  BY <1>5, <1>6 DEF old, new

(***************************************************************************)
(* An entry of the DB, once written, only ever gains children, except that *)
(* a power loss brings back the durable DB.                                *)
(***************************************************************************)
THEOREM AlwaysAppendOnly == Spec => AppendOnly
<1>1. ASSUME TreeInv, Publishes PROVE \A k \in DOMAIN db : Kept(k)
  <2>1. PICK parent, items, resources : /\ FreshBatch(parent, items, resources)
                                        /\ db' = Batch(parent, items, resources)
    BY <1>1 DEF Publishes, PublishesUnder
  <2>2. DbTypeOK(db)
    BY <1>1 DEF TreeInv, Inv, StoreInv, DbInv
  <2>3. Published(db', parent, items, resources)
    BY <2>1, <2>2, BatchPublishes
  <2> SUFFICES ASSUME NEW k \in DOMAIN db PROVE Kept(k)
    OBVIOUS
  <2>4. k \in DOMAIN db'
    BY <2>3 DEF Published
  <2>5. CASE k # parent
    BY <2>3, <2>4, <2>5 DEF Published, Kept
  <2>6. CASE k = parent
    <3> DEFINE old == db[k].objects
               new == db'[k].objects
    <3>1. /\ db'[k] = AppendObjects(parent, items)
          /\ k.key_type = ObjectKeyType /\ db[k].data_type = "MediaContainer"
      BY <2>1, <2>3, <2>6 DEF Published, FreshBatch, ObjectKeys
    <3>2. /\ new = old \o IdSeq(items) /\ Len(old) < Len(new)
          /\ SubSeq(new, Len(old) + 1, Len(new)) = IdSeq(items)
      BY <2>1, <2>2, <2>6, <3>1, GainedIsAppended
    <3>3. db'[k] = [db[k] EXCEPT !.objects = old \o IdSeq(items)]
      <4>1. FreshBatch(parent, items, resources)
        BY <2>1
      <4>2. Extended(AppendObjects(parent, items), parent, items)
        BY <2>2, <4>1, ParentExtended
      <4>3. AppendObjects(parent, items)
              = [db[parent] EXCEPT !.objects = db[parent].objects \o IdSeq(items)]
        BY <4>2 DEF Extended
      <4> QED
        BY <2>6, <3>1, <4>3
    <3>4. db'[k] = [db[k] EXCEPT !.objects = old \o SubSeq(new, Len(old) + 1, Len(new))]
      BY <3>2, <3>3
    <3> QED
      BY <2>4, <3>1, <3>2, <3>4 DEF Kept
  <2> QED
    BY <2>5, <2>6
<1>2. ASSUME TreeInv, [Next]_vars
      PROVE  (\A k \in DOMAIN db : Kept(k)) \/ (db' = durable /\ pc' = "down")
  <2>1. DbStep
    BY <1>2, NextTree
  <2>2. db' = db \/ DOMAIN db = {} => \A k \in DOMAIN db : Kept(k)
    BY DEF Kept
  <2> QED
    BY <1>1, <1>2, <2>1, <2>2 DEF DbStep, Formats
<1> QED
  BY <1>2, TreeHolds, PTL DEF Spec, AppendOnly

-----------------------------------------------------------------------------
LEMMA FormatsLibrary ==
    ASSUME Formats, durable' = durable
    PROVE  Library!Format
<1>1. ObjectKeys(db) = {}
  BY DEF Formats, ObjectKeys
<1>2. DOMAIN ChildrenIn(db) = {}
  BY <1>1 DEF ChildrenIn
<1>3. ObjectKeys(db') = {Root} /\ db'[Root].objects = <<>>
  BY FormattedTree DEF Formats, RootContainer, Container
<1>4. ChildrenIn(db') = [n \in {Root} |-> <<>>]
  BY <1>3 DEF ChildrenIn
<1> QED
  BY <1>2, <1>4 DEF Library!Format

LEMMA PublishesLibrary ==
    ASSUME TreeInv, Publishes, durable' = durable
    PROVE  Library!Publish
<1>1. PICK parent, items, resources : /\ FreshBatch(parent, items, resources)
                                      /\ db' = Batch(parent, items, resources)
  BY DEF Publishes, PublishesUnder
<1>2. DbTypeOK(db)
  BY DEF TreeInv, Inv, StoreInv, DbInv
<1>3. Published(db', parent, items, resources)
  BY <1>1, <1>2, BatchPublishes
<1> DEFINE c == ChildrenIn(db)
           e == ChildrenIn(db')
           ids == IdSeq(items)
           added == {ids[i] : i \in DOMAIN ids}
<1>4. /\ parent \in ObjectKeys(db) /\ parent \in ObjectKeys(db')
      /\ ObjectKeys(db') = ObjectKeys(db) \union Ids(items)
      /\ Ids(items) \intersect DOMAIN db = {} /\ Ids(items) \subseteq ObjectKeySet
      /\ items \in Seq(MediaObject) /\ FreshItems(items)
  BY <1>1, <1>3, IdsTyped DEF FreshBatch, Published
<1>5. /\ DOMAIN c = ObjectKeys(db) /\ \A k \in ObjectKeys(db) : c[k] = db[k].objects
      /\ DOMAIN e = ObjectKeys(db') /\ \A k \in ObjectKeys(db') : e[k] = db'[k].objects
  BY DEF ChildrenIn
<1>6. added = Ids(items)
  BY DEF IdSeq, Ids
<1>7. e[parent] = c[parent] \o ids /\ SubSeq(e[parent], Len(c[parent]) + 1, Len(e[parent])) = ids
  <2>1. db'[parent] = AppendObjects(parent, items)
    BY <1>3 DEF Published
  <2>2. e[parent] = AppendObjects(parent, items).objects /\ c[parent] = db[parent].objects
    BY <2>1, <1>4, <1>5
  <2> QED
    BY <2>2, <1>1, <1>2, GainedIsAppended
<1>8. added \subseteq ObjectKeySet \ DOMAIN c
  BY <1>4, <1>5, <1>6 DEF ObjectKeys
<1>9. \A i, j \in DOMAIN ids : ids[i] = ids[j] => i = j
  BY <1>4 DEF IdSeq, FreshItems
<1>10. ASSUME NEW n \in DOMAIN c, n # parent PROVE e[n] = c[n]
  BY <1>3, <1>4, <1>5, <1>10 DEF Published, ObjectKeys
<1>11. ASSUME NEW n \in added PROVE e[n] = <<>> /\ n # parent
  <2>1. PICK i \in DOMAIN items : n = items[i].id
    BY <1>6 DEF Ids
  <2> QED
    BY <2>1, <1>1, <1>2, <1>3, <1>4, <1>5, NewObjects DEF ObjectKeys
<1>12. DOMAIN e = DOMAIN c \union added
  BY <1>4, <1>5, <1>6
<1>13. e = [n \in DOMAIN e |-> e[n]]
  BY DEF ChildrenIn
<1> DEFINE new == SubSeq(e[parent], Len(c[parent]) + 1, Len(e[parent]))
           gained == {new[i] : i \in DOMAIN new}
<1> HIDE DEF c, e, ids
<1>14. new = ids /\ e[parent] = c[parent] \o new
  BY <1>7
<1> HIDE DEF new
<1>15. gained = added
  BY <1>14
<1> HIDE DEF gained, added
<1>16. /\ gained \subseteq ObjectKeySet \ DOMAIN c
       /\ \A i, j \in DOMAIN new : new[i] = new[j] => i = j
  BY <1>8, <1>9, <1>14, <1>15
<1>17. e = [n \in DOMAIN c \union gained |-> IF n = parent THEN e[parent]
                                             ELSE IF n \in gained THEN <<>> ELSE c[n]]
  BY <1>10, <1>11, <1>12, <1>13, <1>15
<1>18. Library!PublishUnder(parent)
  BY <1>14, <1>16, <1>17 DEF Library!PublishUnder, Library!Gained, c, e, new, gained
<1>19. DOMAIN c \subseteq DOMAIN e /\ parent \in DOMAIN c
  BY <1>4, <1>5, <1>12
<1> QED
  BY <1>18, <1>19 DEF Library!Publish, c, e

(***************************************************************************)
(* The scan over its DB, with its faults, implements the library that the  *)
(* services read: a tree that only grows, by whole folders of new objects. *)
(***************************************************************************)
THEOREM LibraryImplemented == Spec => LibrarySpec
<1>1. Init => Library!Init
  <2>1. ObjectKeys(EmptyDb) = {}
    BY EmptyDbInv DEF ObjectKeys
  <2>2. ChildrenIn(EmptyDb) = [n \in {} |-> <<>>]
    BY <2>1 DEF ChildrenIn
  <2> QED
    BY <2>2 DEF Init, StoreInit, Library!Init, Library!NoTree
<1>2. ASSUME TreeInv, [Next]_vars PROVE [Library!Next]_Library!vars
  <2>1. DbStep
    BY <1>2, NextTree
  <2>2. CASE db' = db /\ durable' = durable
    BY <2>2 DEF Library!vars
  <2>3. CASE Formats /\ durable' = durable
    BY <2>3, FormatsLibrary DEF Library!Next
  <2>4. CASE Publishes /\ durable' = durable
    BY <1>2, <2>4, PublishesLibrary DEF Library!Next
  <2>5. CASE durable' = db /\ db' = db
    BY <2>5 DEF Library!Next, Library!Save
  <2>6. CASE db' = durable /\ durable' = durable
    BY <2>6 DEF Library!Next, Library!Lose
  <2> QED
    BY <2>1, <2>2, <2>3, <2>4, <2>5, <2>6 DEF DbStep
<1> QED
  BY <1>1, <1>2, TreeHolds, PTL DEF Spec, LibrarySpec, Library!Spec
=============================================================================
