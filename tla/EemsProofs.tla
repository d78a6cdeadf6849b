----------------------------- MODULE EemsProofs -----------------------------
(***************************************************************************)
(* The scan under faults keeps the DB well typed and closed, and never     *)
(* hands out an identifier twice, for every media tree, every              *)
(* configuration and any number of faults.                                 *)
(***************************************************************************)
EXTENDS EemsProperties, KeyLemmas, FiniteSetTheorems, SequenceTheorems, TLAPS

(***************************************************************************)
(* What the operators of the store and the scanner return: types of keys,  *)
(* the batch of put_items, and the objects and resources that              *)
(* object_composer makes of a listing.                                     *)
(***************************************************************************)
LEMMA KeyTypesApart ==
    /\ KeySet = ObjectKeySet \union ResourceKeySet
    /\ ObjectKeySet \intersect ResourceKeySet = {}
    /\ \A k \in ObjectKeySet : k.key_type = ObjectKeyType /\ k.id \in 0 .. MaxId
    /\ \A k \in ResourceKeySet : k.key_type = ResourceKeyType /\ k.id \in 0 .. MaxId
    /\ ObjectKeyType # ResourceKeyType
<1>1. \A k \in KeySet : /\ k.key_type = ObjectKeyType \/ k.key_type = ResourceKeyType
                        /\ k.id \in 0 .. MaxId
  BY DEF KeySet, KeyTypes
<1>2. ObjectKeyType # ResourceKeyType
  BY DEF ObjectKeyType, ResourceKeyType
<1> QED
  BY <1>1, <1>2 DEF ObjectKeySet, ResourceKeySet

LEMMA KeysTyped ==
    ASSUME NEW id \in 0 .. MaxId
    PROVE  /\ ObjectKey(id) \in ObjectKeySet /\ ObjectKey(id).id = id
           /\ ResourceKey(id) \in ResourceKeySet /\ ResourceKey(id).id = id
  BY DEF ObjectKey, ResourceKey, LibraryKey, KeySet, ObjectKeySet, ResourceKeySet, KeyTypes,
         ObjectKeyType, ResourceKeyType

LEMMA RootIsKey == Root \in ObjectKeySet /\ Root.id = 0 /\ 0 < MaxId
  BY KeysTyped, MaxIdAssumption DEF Root

LEMMA NoFolderIsNoKey == NoFolder.id = -1 /\ NoFolder \notin ObjectKeySet
  BY DEF NoFolder, ObjectKey, LibraryKey, ObjectKeySet, KeySet

(* A container is a media object, with or without artwork. *)
LEMMA ContainerTyped ==
    ASSUME NEW id \in ObjectKeySet, NEW parent \in ObjectKeySet \union {NoParent},
           NEW title \in Name, NEW art \in SUBSET Artwork
    PROVE  Container(id, parent, title, art) \in MediaObject
<1>1. <<>> \in Seq(ObjectKeySet)
  BY EmptySeq
<1> QED
  BY <1>1 DEF Container, MediaObject

LEMMA RootTyped == RootContainer \in MediaObject
  BY RootIsKey, ContainerTyped, EmptySeq DEF RootContainer, Name

-----------------------------------------------------------------------------
(***************************************************************************)
(* put_items: what the items name is among the resources of the same       *)
(* batch, so that the batch keeps every reference of the DB resolved.      *)
(***************************************************************************)
Covered(item, resources) ==
    /\ item.objects = <<>>
    /\ item.resources \subseteq Keys(resources)
    /\ \A a \in item.artwork : a.ref \in Keys(resources)

UsesOf(object) == object.resources \union {a.ref : a \in object.artwork}

LEMMA IdsTyped ==
    ASSUME NEW items \in Seq(MediaObject)
    PROVE  /\ [i \in DOMAIN items |-> items[i].id] \in Seq(ObjectKeySet)
           /\ DOMAIN [i \in DOMAIN items |-> items[i].id] = 1 .. Len(items)
           /\ Len([i \in DOMAIN items |-> items[i].id]) = Len(items)
           /\ Ids(items) \subseteq ObjectKeySet
<1>1. Len(items) \in Nat /\ DOMAIN items = 1 .. Len(items)
  BY LenProperties
<1>2. \A i \in DOMAIN items : items[i] \in MediaObject
  BY ElementOfSeq, <1>1
<1>3. \A i \in 1 .. Len(items) : items[i].id \in ObjectKeySet
  BY <1>1, <1>2 DEF MediaObject
<1>4. [i \in 1 .. Len(items) |-> items[i].id] \in Seq(ObjectKeySet)
  BY <1>1, <1>3
<1> QED
  BY <1>1, <1>3, <1>4, LenProperties DEF Ids

LEMMA KeysOfResources ==
    ASSUME NEW resources \in SUBSET StoredResource
    PROVE  Keys(resources) \subseteq ResourceKeySet
  BY DEF Keys, StoredResource

LEMMA BatchKeepsTypes ==
    ASSUME DbTypeOK(db), NEW parent \in ObjectKeySet, parent \in DOMAIN db,
           NEW items \in Seq(MediaObject), NEW resources \in SUBSET StoredResource
    PROVE  /\ DOMAIN Batch(parent, items, resources) =
                  DOMAIN db \union Keys(resources) \union Ids(items)
           /\ DbTypeOK(Batch(parent, items, resources))
           /\ AppendObjects(parent, items) \in MediaObject
<1> DEFINE new == Batch(parent, items, resources)
           ids == [i \in DOMAIN items |-> items[i].id]
<1>1. DOMAIN new = DOMAIN db \union Keys(resources) \union Ids(items)
  BY DEF Batch
<1>2. DOMAIN new \subseteq KeySet
  BY <1>1, IdsTyped, KeysOfResources, KeyTypesApart DEF DbTypeOK
<1>3. AppendObjects(parent, items) \in MediaObject
  <2>1. db[parent] \in MediaObject
    BY KeyTypesApart DEF DbTypeOK
  <2>2. db[parent].objects \o ids \in Seq(ObjectKeySet)
    BY <2>1, IdsTyped, ConcatProperties DEF MediaObject
  <2> HIDE DEF ids
  <2>3. [db[parent] EXCEPT !.objects = @ \o ids] \in MediaObject
    BY <2>1, <2>2 DEF MediaObject
  <2> QED
    BY <2>3 DEF AppendObjects, ids
<1>4. ASSUME NEW k \in DOMAIN new
      PROVE  new[k] \in IF k.key_type = ObjectKeyType THEN MediaObject ELSE Resource
  <2>1. CASE k = parent
    BY <2>1, <1>1, <1>3, KeyTypesApart DEF Batch
  <2>2. CASE k # parent /\ k \in Ids(items)
    <3>1. PICK i \in DOMAIN items :
              new[k] = items[i] /\ items[i].id = k
      BY <2>2, <1>1 DEF Batch, Ids
    <3>2. new[k] \in MediaObject
      BY <3>1, ElementOfSeq, LenProperties
    <3> QED
      BY <3>2, <2>2, IdsTyped, KeyTypesApart
  <2>3. CASE k # parent /\ k \notin Ids(items) /\ k \in Keys(resources)
    <3>1. PICK r \in resources : new[k] = [location |-> r.location]
      BY <2>3, <1>1 DEF Batch, Keys
    <3>2. new[k] \in Resource
      BY <3>1 DEF Resource, StoredResource
    <3> QED
      BY <3>2, <2>3, KeysOfResources, KeyTypesApart
  <2>4. CASE k # parent /\ k \notin Ids(items) /\ k \notin Keys(resources)
    BY <2>4, <1>1 DEF Batch, DbTypeOK
  <2> QED
    BY <2>1, <2>2, <2>3, <2>4
<1> QED
  BY <1>1, <1>2, <1>3, <1>4 DEF DbTypeOK

LEMMA BatchKeepsRefs ==
    ASSUME DbTypeOK(db), RefsResolveIn(db),
           NEW parent \in ObjectKeySet, parent \in DOMAIN db,
           NEW items \in Seq(MediaObject), NEW resources \in SUBSET StoredResource,
           \A i \in DOMAIN items : Covered(items[i], resources)
    PROVE  RefsResolveIn(Batch(parent, items, resources))
<1> DEFINE new == Batch(parent, items, resources)
           ids == [i \in DOMAIN items |-> items[i].id]
           Resolved(object) ==
               /\ \A i \in DOMAIN object.objects : object.objects[i] \in DOMAIN new
               /\ object.resources \subseteq DOMAIN new
               /\ \A a \in object.artwork : a.ref \in DOMAIN new
<1>1. DOMAIN new = DOMAIN db \union Keys(resources) \union Ids(items)
  BY BatchKeepsTypes
<1>2. ASSUME NEW k \in ObjectKeys(db) PROVE Resolved(db[k])
  BY <1>1, <1>2 DEF RefsResolveIn
<1>3. Resolved(AppendObjects(parent, items))
  <2> DEFINE old == db[parent]
  <2>1. parent \in ObjectKeys(db) /\ old \in MediaObject
    BY KeyTypesApart DEF DbTypeOK, ObjectKeys
  <2>2. old.objects \in Seq(ObjectKeySet) /\ ids \in Seq(ObjectKeySet)
    BY <2>1, IdsTyped DEF MediaObject
  <2>3. \A i \in DOMAIN old.objects : old.objects[i] \in DOMAIN new
    BY <2>1, <1>2
  <2>4. \A i \in DOMAIN ids : ids[i] \in DOMAIN new
    BY <1>1 DEF Ids
  <2> HIDE DEF ids, new
  <2>5. ASSUME NEW i \in DOMAIN (old.objects \o ids)
        PROVE  (old.objects \o ids)[i] \in DOMAIN new
    <3> DEFINE n == Len(old.objects)
    <3>1. n \in Nat /\ Len(ids) \in Nat /\ DOMAIN ids = 1 .. Len(ids) /\ DOMAIN old.objects = 1 .. n
      BY <2>2, LenProperties
    <3>2. i \in 1 .. n + Len(ids)
      BY <2>2, <2>5, ConcatProperties, LenProperties
    <3>3. (old.objects \o ids)[i] = IF i <= n THEN old.objects[i] ELSE ids[i - n]
      BY <2>2, <3>2, ConcatProperties
    <3>4. i <= n \/ i - n \in 1 .. Len(ids)
      BY <3>1, <3>2
    <3> QED
      BY <3>1, <3>2, <3>3, <3>4, <2>3, <2>4
  <2>6. AppendObjects(parent, items) = [old EXCEPT !.objects = old.objects \o ids]
    BY DEF AppendObjects, ids
  <2>7. /\ AppendObjects(parent, items).objects = old.objects \o ids
        /\ AppendObjects(parent, items).resources = old.resources
        /\ AppendObjects(parent, items).artwork = old.artwork
    BY <2>1, <2>6 DEF MediaObject
  <2>8. Resolved(old)
    BY <2>1, <1>2 DEF new
  <2> QED
    BY <2>5, <2>7, <2>8
<1>4. ASSUME NEW k \in ObjectKeys(new) PROVE Resolved(new[k])
  <2>0. k \in DOMAIN new /\ k.key_type = ObjectKeyType
    BY DEF ObjectKeys
  <2>1. CASE k = parent
    <3>1. new[k] = AppendObjects(parent, items)
      BY <2>0, <2>1, <1>1 DEF Batch
    <3> QED
      BY <3>1, <1>3
  <2>2. CASE k # parent /\ k \in Ids(items)
    <3>1. PICK i \in DOMAIN items : new[k] = items[i]
      BY <2>2, <1>1 DEF Batch, Ids
    <3>2. Covered(items[i], resources)
      OBVIOUS
    <3> QED
      BY <3>1, <3>2, <1>1 DEF Covered
  <2>3. CASE k # parent /\ k \notin Ids(items)
    <3>1. k \notin Keys(resources)
      BY <2>0, KeysOfResources, KeyTypesApart
    <3>2. k \in ObjectKeys(db) /\ new[k] = db[k]
      BY <2>0, <2>3, <3>1, <1>1 DEF Batch, ObjectKeys
    <3> QED
      BY <3>2, <1>2
  <2> QED
    BY <2>1, <2>2, <2>3
<1> QED
  BY <1>4 DEF RefsResolveIn

(* put_items finds a container exactly if it is in the DB. *)
LEMMA ContainerFoundInDb ==
    ASSUME DbTypeOK(db), NEW key \in ObjectKeySet, ContainerFound(key)
    PROVE  key \in DOMAIN db
  BY LookupExact, KeyTypesApart DEF ContainerFound, DbTypeOK

-----------------------------------------------------------------------------
(***************************************************************************)
(* The numbers store_resource hands out within one object.                 *)
(***************************************************************************)
LEMMA RankInside ==
    ASSUME NEW n \in Nat, NEW I \in SUBSET (1 .. n)
    PROVE  /\ Cardinality(I) \in Nat
           /\ \A i \in I : Rank(i, I) \in 0 .. Cardinality(I) - 1
<1>1. IsFiniteSet(I)
  <2>1. IsFiniteSet(1 .. n)
    BY FS_Interval
  <2> QED
    BY <2>1, FS_Subset
<1>2. Cardinality(I) \in Nat
  BY <1>1, FS_CardinalityType
<1>3. ASSUME NEW i \in I PROVE Rank(i, I) \in 0 .. Cardinality(I) - 1
  <2> DEFINE J == {j \in I : j < i}
  <2>1. J \in SUBSET I /\ i \notin J
    OBVIOUS
  <2>2. IsFiniteSet(J) /\ Cardinality(J) <= Cardinality(I) /\ Cardinality(J) # Cardinality(I)
    BY <1>1, <2>1, FS_Subset
  <2>3. Cardinality(J) \in Nat
    BY <2>2, FS_CardinalityType
  <2> QED
    BY <1>2, <2>2, <2>3 DEF Rank
<1> QED
  BY <1>2, <1>3

LEMMA NormalizedTyped ==
    ASSUME NEW title \in Name
    PROVE  NormalizeTitle(title) \in Name
<1> DEFINE I == {i \in DOMAIN title : \A j \in 1 .. i : title[j] \notin Year}
           c == Cardinality(I)
<1>1. title \in Seq(Word) /\ Len(title) \in Nat /\ DOMAIN title = 1 .. Len(title)
  BY LenProperties DEF Name
<1>2. I \in SUBSET (1 .. Len(title))
  BY <1>1
<1>3. c \in Nat /\ c <= Len(title)
  <2>1. IsFiniteSet(1 .. Len(title)) /\ Cardinality(1 .. Len(title)) = Len(title)
    BY <1>1, FS_Interval
  <2>2. IsFiniteSet(I) /\ c <= Len(title)
    BY <2>1, <1>2, FS_Subset
  <2> QED
    BY <2>2, FS_CardinalityType
<1> HIDE DEF c
<1>4. \A i \in 1 .. c : title[i] \in Word
  BY <1>1, <1>3, ElementOfSeq
<1>5. SubSeq(title, 1, c) \in Seq(Word)
  BY <1>3, <1>4, SubSeqProperties
<1> QED
  BY <1>5 DEF NormalizeTitle, Name, c

LEMMA ListingTyped ==
    ASSUME NEW l \in Listing
    PROVE  /\ l.stem \in Name /\ l.dirs \in SUBSET Directory
           /\ l.videos \in Seq(Name) /\ l.images \in Seq(Name) /\ l.texts \in Seq(Name)
           /\ \E n \in Nat : DOMAIN l.images = 1 .. n
           /\ \E n \in Nat : DOMAIN l.texts = 1 .. n
           /\ \A v \in DOMAIN l.videos : v \in Nat /\ l.videos[v] \in Name
<1>1. /\ l.stem \in Name /\ l.dirs \in SUBSET Directory
      /\ l.videos \in Seq(Name) /\ l.images \in Seq(Name) /\ l.texts \in Seq(Name)
  BY DEF Listing
<1>2. \A s \in Seq(Name) : Len(s) \in Nat /\ DOMAIN s = 1 .. Len(s) /\ \A i \in DOMAIN s : s[i] \in Name
  BY LenProperties, ElementOfSeq
<1> QED
  BY <1>1, <1>2

LEMMA ArtworkOfListing ==
    ASSUME NEW l, NEW prefix
    PROVE  /\ FolderArtwork(l) \subseteq ImageWithType(l)
           /\ ItemArtwork(l, prefix) \subseteq ImageWithType(l)
  BY DEF FolderArtwork, ItemArtwork, OwnArtwork

LEMMA ResourceKeysOfItem ==
    ASSUME NEW l \in Listing, NEW prefix, NEW r \in Nat,
           r + ResourceCount(l, prefix) <= MaxId
    PROVE  LET art == ItemArtwork(l, prefix)
               subs == Subtitles(l, prefix)
               Numbered(key) == key \in ResourceKeySet /\ key.id \in r .. r + ResourceCount(l, prefix) - 1
           IN  /\ ResourceCount(l, prefix) \in Nat \ {0}
               /\ Numbered(MainKey(r))
               /\ \A i \in Images(art) : i \in Nat /\ Numbered(ArtworkKey(art, i, r))
               /\ \A i \in subs : i \in Nat /\ Numbered(SubtitleKey(art, subs, i, r))
<1> DEFINE art == ItemArtwork(l, prefix)
           subs == Subtitles(l, prefix)
           a == Cardinality(Images(art))
           s == Cardinality(subs)
<1>1. PICK n \in Nat : DOMAIN l.images = 1 .. n
  BY ListingTyped
<1>2. PICK m \in Nat : DOMAIN l.texts = 1 .. m
  BY ListingTyped
<1>3. Images(art) \in SUBSET (1 .. n) /\ subs \in SUBSET (1 .. m)
  BY <1>1, <1>2, ArtworkOfListing DEF Images, ImageWithType, Subtitles
<1>4. /\ a \in Nat /\ \A i \in Images(art) : Rank(i, Images(art)) \in 0 .. a - 1
      /\ s \in Nat /\ \A i \in subs : Rank(i, subs) \in 0 .. s - 1
  BY <1>3, RankInside
<1>5. ResourceCount(l, prefix) = 1 + a + s /\ r + 1 + a + s <= MaxId
  BY <1>4 DEF ResourceCount
<1> HIDE DEF a, s, art, subs
<1>6. ASSUME NEW k \in 0 .. a + s
      PROVE  ResourceKey(r + k) \in ResourceKeySet /\ ResourceKey(r + k).id = r + k
  BY <1>4, <1>5, KeysTyped, MaxIdAssumption
<1>7. \A i \in Images(art) : ArtworkKey(art, i, r) = ResourceKey(r + (1 + Rank(i, Images(art))))
  BY <1>4 DEF ArtworkKey
<1>8. \A i \in subs : SubtitleKey(art, subs, i, r) = ResourceKey(r + (1 + a + Rank(i, subs)))
  BY <1>4 DEF SubtitleKey, a
<1>9. MainKey(r) = ResourceKey(r + 0)
  BY DEF MainKey
<1>10. \A i \in Images(art) : i \in Nat /\ 1 + Rank(i, Images(art)) \in 1 .. a + s
  BY <1>3, <1>4
<1>11. \A i \in subs : i \in Nat /\ 1 + a + Rank(i, subs) \in 1 .. a + s
  BY <1>3, <1>4
<1>12. ResourceCount(l, prefix) \in Nat \ {0} /\ \A k \in 0 .. a + s : r + k \in r .. r + ResourceCount(l, prefix) - 1
  BY <1>4, <1>5
<1> DEFINE Numbered(key) == key \in ResourceKeySet /\ key.id \in r .. r + ResourceCount(l, prefix) - 1
<1>13. \A k \in 0 .. a + s : Numbered(ResourceKey(r + k))
  BY <1>6, <1>12
<1>14. 0 \in 0 .. a + s /\ 1 .. a + s \subseteq 0 .. a + s
  BY <1>4
<1> HIDE DEF Numbered
<1>15. Numbered(MainKey(r))
  BY <1>9, <1>13, <1>14
<1>16. \A i \in Images(art) : i \in Nat /\ Numbered(ArtworkKey(art, i, r))
  BY <1>7, <1>10, <1>13, <1>14
<1>17. \A i \in subs : i \in Nat /\ Numbered(SubtitleKey(art, subs, i, r))
  BY <1>8, <1>11, <1>13, <1>14
<1> QED
  BY <1>12, <1>15, <1>16, <1>17 DEF Numbered, art, subs

(***************************************************************************)
(* object_composer::operator(): a media object and the resources that      *)
(* cover it, all of them used by it, numbered from r without going past    *)
(* the count.                                                              *)
(***************************************************************************)
LEMMA ComposedTyped ==
    ASSUME NEW l \in Listing, NEW dir \in Directory, NEW folder_name \in Name,
           NEW v \in DOMAIN l.videos, NEW id \in ObjectKeySet, NEW parent \in ObjectKeySet,
           NEW r \in Nat,
           r + ResourceCount(l, ResourcePrefix(l, folder_name, v)) <= MaxId
    PROVE  LET prefix == ResourcePrefix(l, folder_name, v)
               count == ResourceCount(l, prefix)
               item == ComposeItem(l, folder_name, v, id, parent, r)
               resources == ItemResources(l, dir, prefix, v, r)
           IN  /\ count \in Nat \ {0}
               /\ item \in MediaObject /\ item.id = id /\ item.parent_id = parent
               /\ resources \in SUBSET StoredResource
               /\ UsesOf(item) = Keys(resources)
               /\ \A k \in Keys(resources) : k.id \in r .. r + count - 1
               /\ Covered(item, resources)
<1> DEFINE prefix == ResourcePrefix(l, folder_name, v)
           art == ItemArtwork(l, prefix)
           subs == Subtitles(l, prefix)
           count == ResourceCount(l, prefix)
           item == ComposeItem(l, folder_name, v, id, parent, r)
           resources == ItemResources(l, dir, prefix, v, r)
           Numbered(key) == key \in ResourceKeySet /\ key.id \in r .. r + count - 1
<1>1. prefix \in Name /\ v \in Nat
  BY ListingTyped, EmptySeq DEF ResourcePrefix, Name
<1> HIDE DEF prefix
<1>2. /\ count \in Nat \ {0}
      /\ Numbered(MainKey(r))
      /\ \A i \in Images(art) : i \in Nat /\ Numbered(ArtworkKey(art, i, r))
      /\ \A i \in subs : i \in Nat /\ Numbered(SubtitleKey(art, subs, i, r))
  BY ResourceKeysOfItem DEF prefix
<1> HIDE DEF art, subs, count
<1>3. \A kind \in FileKinds : \A i \in Nat : At(dir, kind, i) \in Location
  BY DEF At, Location
<1>4. resources =
          {[key |-> MainKey(r), location |-> At(dir, "video", v)]}
              \union {[key |-> ArtworkKey(art, i, r), location |-> At(dir, "image", i)]
                          : i \in Images(art)}
              \union {[key |-> SubtitleKey(art, subs, i, r), location |-> At(dir, "text", i)]
                          : i \in subs}
  BY DEF ItemResources, art, subs
<1> HIDE DEF resources
<1>5. resources \in SUBSET StoredResource
  BY <1>1, <1>2, <1>3, <1>4 DEF StoredResource, FileKinds
<1>6. Keys(resources) = {MainKey(r)} \union {ArtworkKey(art, i, r) : i \in Images(art)}
                            \union {SubtitleKey(art, subs, i, r) : i \in subs}
  <2> DEFINE Entry(key, location) == [key |-> key, location |-> location]
             rhs == {MainKey(r)} \union {ArtworkKey(art, i, r) : i \in Images(art)}
                        \union {SubtitleKey(art, subs, i, r) : i \in subs}
  <2>1. \A x \in resources :
            \/ x = Entry(MainKey(r), At(dir, "video", v))
            \/ \E i \in Images(art) : x = Entry(ArtworkKey(art, i, r), At(dir, "image", i))
            \/ \E i \in subs : x = Entry(SubtitleKey(art, subs, i, r), At(dir, "text", i))
    BY <1>4
  <2>2. /\ Entry(MainKey(r), At(dir, "video", v)) \in resources
        /\ \A i \in Images(art) : Entry(ArtworkKey(art, i, r), At(dir, "image", i)) \in resources
        /\ \A i \in subs : Entry(SubtitleKey(art, subs, i, r), At(dir, "text", i)) \in resources
    BY <1>4
  <2>3. \A key, location : Entry(key, location).key = key
    OBVIOUS
  <2> HIDE DEF Entry
  <2>4. \A x \in resources : x.key \in rhs
    BY <2>1, <2>3
  <2>5. \A key \in rhs : \E x \in resources : x.key = key
    BY <2>2, <2>3
  <2> QED
    BY <2>4, <2>5 DEF Keys
<1>7. \A k \in Keys(resources) : k.id \in r .. r + count - 1
  BY <1>2, <1>6
<1> DEFINE title == NormalizeTitle(IF folder_name = <<>> THEN prefix ELSE folder_name)
           refs == {[ref |-> ArtworkKey(art, a.image, r), type |-> a.type] : a \in art}
           files == {MainKey(r)} \union {SubtitleKey(art, subs, i, r) : i \in subs}
<1>8. title \in Name
  BY <1>1, NormalizedTyped
<1>9. \A a \in art : a.image \in Images(art) /\ a.type \in ArtworkTypes
  BY ArtworkOfListing DEF Images, ImageWithType, art
<1>10. refs \in SUBSET Artwork /\ \A a \in refs : a.ref \in Keys(resources)
  BY <1>2, <1>6, <1>9 DEF Artwork
<1>11. files \in SUBSET ResourceKeySet /\ files \subseteq Keys(resources)
  BY <1>2, <1>6
<1>12. item = [id |-> id, parent_id |-> parent, data_type |-> "MediaItem", dc_title |-> title,
               artwork |-> refs, objects |-> <<>>, resources |-> files]
  BY DEF ComposeItem, art, subs, prefix
<1>13. {a.ref : a \in refs} = {ArtworkKey(art, i, r) : i \in Images(art)}
  <2>1. \A a \in art : [ref |-> ArtworkKey(art, a.image, r), type |-> a.type] \in refs
    OBVIOUS
  <2>2. \A x \in refs : \E a \in art : x.ref = ArtworkKey(art, a.image, r)
    OBVIOUS
  <2>3. \A a \in art : \E x \in refs : x.ref = ArtworkKey(art, a.image, r)
    BY <2>1
  <2> HIDE DEF refs
  <2> QED
    BY <2>2, <2>3 DEF Images
<1> HIDE DEF title, refs, files, item
<1>14. UsesOf(item) = Keys(resources) /\ item.parent_id = parent
  BY <1>6, <1>12, <1>13 DEF UsesOf, files
<1>15. <<>> \in Seq(ObjectKeySet)
  BY EmptySeq
<1>16. item \in MediaObject /\ item.id = id
  BY <1>8, <1>10, <1>11, <1>12, <1>15 DEF MediaObject
<1>17. Covered(item, resources)
  BY <1>10, <1>11, <1>12 DEF Covered
<1> QED
  BY <1>2, <1>5, <1>7, <1>14, <1>16, <1>17 DEF prefix, count, item, resources

-----------------------------------------------------------------------------
(***************************************************************************)
(* The invariant of the specification, action by action.                   *)
(***************************************************************************)

(* No identifier of the DB is the last one, so get_next_id has one left. *)
IdsInside(d) == \A k \in DOMAIN d : k.id < MaxId

DbInv(d) == DbTypeOK(d) /\ RefsResolveIn(d) /\ IdsInside(d)

StoreInv == /\ db_files \in {"absent", "present"}
            /\ faults \in 0 .. MaxFaults
            /\ DbInv(db)
            /\ DbInv(durable)
            /\ DOMAIN durable \subseteq DOMAIN db

(***************************************************************************)
(* The locals of scan_directory exist only while it composes, and what the *)
(* composed items name is among the composed resources: the batch that     *)
(* stores both at once closes the DB.                                      *)
(***************************************************************************)
StepInv ==
    /\ step # "compose" => composer = NoComposer
    /\ step = "compose" => directories # <<>> /\ composer.parent_id \in ObjectKeySet
    /\ step # "idle" => next_object_id_ >= 0 /\ next_resource_id_ >= 0

ItemsCovered ==
    \A i \in DOMAIN composer.items : Covered(composer.items[i], composer.resources)

ScannerInv == ScannerTypeOK /\ StepInv /\ ItemsCovered

MainInv == MainTypeOK /\ (pc # "scan" => step = "idle")

Inv == StoreInv /\ ScannerInv /\ MainInv /\ CountersFresh

-----------------------------------------------------------------------------
(***************************************************************************)
(* What CountersFresh says of one key.                                     *)
(***************************************************************************)
Below(k) == /\ k.key_type = ObjectKeyType => k.id < next_object_id_
            /\ k.key_type = ResourceKeyType => k.id < next_resource_id_

KeysSeen == DOMAIN db \union DOMAIN durable \union Ids(composer.items)
                \union Keys(composer.resources)

LEMMA CountersFreshBelow ==
    CountersFresh <=> (step # "idle" => \A k \in KeysSeen : Below(k))
  BY DEF CountersFresh, KeysTaken, KeysSeen, Below

LEMMA NoComposerIsEmpty ==
    /\ NoComposer \in Composer
    /\ NoComposer.items = <<>> /\ Ids(NoComposer.items) = {}
    /\ NoComposer.resources = {} /\ Keys(NoComposer.resources) = {}
<1>1. /\ <<>> \in Seq(MediaObject) /\ <<>> \in Seq(StackEntry) /\ <<>> \in Name
      /\ DOMAIN <<>> = {}
  BY EmptySeq, LenProperties DEF Name
<1> QED
  BY <1>1 DEF NoComposer, Composer, Ids, Keys

LEMMA EmptyDbInv == DbInv(EmptyDb) /\ DOMAIN EmptyDb = {}
  BY DEF EmptyDb, DbInv, DbTypeOK, RefsResolveIn, ObjectKeys, IdsInside

(* put_items, whether its write commits or fails. *)
LEMMA PutKeepsStore ==
    ASSUME StoreInv,
           NEW parent \in ObjectKeySet, NEW items \in Seq(MediaObject),
           NEW resources \in SUBSET StoredResource,
           \A i \in DOMAIN items : Covered(items[i], resources),
           \A k \in Ids(items) \union Keys(resources) : k.id < MaxId,
           PutItems(parent, items, resources)
    PROVE  /\ StoreInv'
           /\ DOMAIN db' \subseteq DOMAIN db \union Keys(resources) \union Ids(items)
           /\ durable' = durable
<1>1. CASE PutCommits(parent, items, resources)
  <2> DEFINE new == Batch(parent, items, resources)
  <2>1. parent \in DOMAIN db
    BY ContainerFoundInDb DEF PutItems, PutRefused, StoreInv, DbInv
  <2>2. DbTypeOK(new) /\ DOMAIN new = DOMAIN db \union Keys(resources) \union Ids(items)
    BY <2>1, BatchKeepsTypes DEF StoreInv, DbInv
  <2>3. RefsResolveIn(new)
    BY <2>1, BatchKeepsRefs DEF StoreInv, DbInv
  <2>4. IdsInside(new)
    BY <2>2 DEF IdsInside, StoreInv, DbInv
  <2> HIDE DEF new
  <2>5. db' = new /\ durable' = durable /\ db_files' = db_files /\ faults' = faults
    BY <1>1 DEF PutCommits, new
  <2> QED
    BY <2>2, <2>3, <2>4, <2>5 DEF StoreInv, DbInv
<1>2. CASE PutFails
  <2>1. db' = db /\ durable' = durable /\ db_files' = db_files /\ faults' \in 0 .. MaxFaults
    BY <1>2, MaxFaultsAssumption DEF PutFails, StoreInv
  <2> QED
    BY <2>1 DEF StoreInv
<1> QED
  BY <1>1, <1>2 DEF PutItems

(* The end of the process, whatever became of the DB. *)
LEMMA DieKeepsScanner ==
    ASSUME Inv, NEW state \in ProgramCounters, Die(state)
    PROVE  ScannerInv' /\ MainInv' /\ CountersFresh'
<1>1. /\ step' = "idle" /\ next_object_id_' = -1 /\ next_resource_id_' = -1
      /\ movies_folder_' = NoFolder /\ directories' = <<>> /\ use_collections' = "no"
      /\ use_folder_names' = "no" /\ composer' = NoComposer /\ tree' = tree
      /\ pc' = state /\ lib' = 0 /\ content' = content
  BY DEF Die, NewScanner
<1>2. ScannerTypeOK'
  BY <1>1, NoComposerIsEmpty, EmptySeq, MaxIdAssumption DEF ScannerTypeOK, Inv, ScannerInv
<1>3. StepInv' /\ ItemsCovered'
  BY <1>1, NoComposerIsEmpty DEF StepInv, ItemsCovered, Ids
<1>4. Len(content) \in Nat
  BY LenProperties DEF Inv, MainInv, MainTypeOK, Content
<1>5. MainInv'
  BY <1>1, <1>4 DEF MainInv, MainTypeOK, Inv
<1>6. CountersFresh'
  BY <1>1 DEF CountersFresh
<1> QED
  BY <1>2, <1>3, <1>5, <1>6 DEF ScannerInv

(* A step that leaves the DB and the scanner alone. *)
LEMMA IdleMove ==
    ASSUME Inv, StoreInv', UNCHANGED <<db, durable, scannerVars>>, MainInv'
    PROVE  Inv'
  BY DEF Inv, ScannerInv, ScannerTypeOK, StepInv, ItemsCovered, CountersFresh, KeysTaken,
         scannerVars, Top

THEOREM InitInv == Init => Inv
<1> SUFFICES ASSUME Init PROVE Inv
  OBVIOUS
<1>1. PICK input \in Inputs : tree = input.tree /\ content = input.content
  BY DEF Init
<1>2. tree \in [Directory -> Listing] /\ content \in Content /\ Len(content) \in Nat
  BY <1>1, InputsAssumption, LenProperties DEF Content
<1>3. StoreInv
  BY EmptyDbInv, MaxFaultsAssumption DEF Init, StoreInit, StoreInv
<1>4. ScannerTypeOK
  BY <1>2, NoComposerIsEmpty, EmptySeq, MaxIdAssumption DEF Init, ScannerInit, ScannerTypeOK
<1>5. StepInv /\ ItemsCovered /\ CountersFresh
  BY NoComposerIsEmpty DEF Init, ScannerInit, StepInv, ItemsCovered, CountersFresh, Ids
<1>6. MainInv
  BY <1>2 DEF Init, ScannerInit, MainInv, MainTypeOK, ProgramCounters
<1> QED
  BY <1>3, <1>4, <1>5, <1>6 DEF Inv, ScannerInv

-----------------------------------------------------------------------------
(***************************************************************************)
(* What the folder on top of the stack is, and the stack after it.         *)
(***************************************************************************)
LEMMA TopTyped ==
    ASSUME ScannerTypeOK, directories # <<>>
    PROVE  /\ Top.path \in Directory /\ Top.parent \in ObjectKeySet
           /\ tree[Top.path] \in Listing
<1>1. Len(directories) \in 1 .. Len(directories)
  BY EmptySeq DEF ScannerTypeOK
<1>2. Top \in StackEntry
  BY <1>1, ElementOfSeq DEF ScannerTypeOK, Top
<1> QED
  BY <1>2 DEF StackEntry, ScannerTypeOK

LEMMA UnderTyped ==
    ASSUME NEW D \in SUBSET Directory, NEW paths \in Orders(D), NEW parent \in ObjectKeySet
    PROVE  Under(paths, parent) \in Seq(StackEntry)
<1>1. Cardinality(D) \in Nat
  BY DirectoryAssumption, FS_Subset, FS_CardinalityType
<1>2. paths \in [1 .. Cardinality(D) -> D]
  BY DEF Orders
<1>3. Under(paths, parent) \in [1 .. Cardinality(D) -> StackEntry]
  BY <1>2 DEF Under, StackEntry
<1> QED
  BY <1>1, <1>3, SeqDef

LEMMA PopThenPushTyped ==
    ASSUME ScannerTypeOK
    PROVE  PopThenPush \in Seq(StackEntry)
<1> DEFINE n == Len(directories) - 1
<1>1. directories \in Seq(StackEntry) /\ composer.subs \in Seq(StackEntry)
  BY DEF ScannerTypeOK, Composer
<1>2. n \in Int /\ \A i \in 1 .. n : directories[i] \in StackEntry
  BY <1>1, LenProperties, ElementOfSeq
<1>3. SubSeq(directories, 1, n) \in Seq(StackEntry)
  BY <1>2, SubSeqProperties
<1> QED
  BY <1>1, <1>3, ConcatProperties DEF PopThenPush

(***************************************************************************)
(* The start of scan_directory: nothing is composed yet.                   *)
(***************************************************************************)
LEMMA StartComposingKeeps ==
    ASSUME ScannerInv, directories # <<>>, NEW l \in Listing,
           NEW parent \in ObjectKeySet, NEW subs \in Seq(StackEntry),
           StartComposing(l, parent, subs),
           next_object_id_' \in 0 .. MaxId, next_resource_id_' \in 0 .. MaxId
    PROVE  /\ ScannerInv'
           /\ Ids(composer.items)' = {} /\ Keys(composer.resources)' = {}
<1>1. FolderNameOf(l) \in Name
  BY ListingTyped, EmptySeq DEF FolderNameOf, Name
<1>2. /\ <<>> \in Seq(MediaObject) /\ DOMAIN <<>> = {}
  BY EmptySeq, LenProperties
<1>3. /\ composer' \in Composer
      /\ composer'.items = <<>> /\ composer'.resources = {} /\ composer'.parent_id = parent
  BY <1>1, <1>2 DEF StartComposing, Composer
<1>4. /\ step' = "compose" /\ tree' = tree /\ movies_folder_' = movies_folder_
      /\ directories' = directories
      /\ use_collections' = use_collections /\ use_folder_names' = use_folder_names
  BY DEF StartComposing, scanConfigVars
<1>5. ScannerTypeOK'
  BY <1>3, <1>4, MaxIdAssumption DEF ScannerInv, ScannerTypeOK
<1>6. StepInv'
  BY <1>3, <1>4 DEF StepInv
<1>7. Ids(composer.items)' = {} /\ Keys(composer.resources)' = {} /\ ItemsCovered'
  BY <1>2, <1>3 DEF Ids, Keys, ItemsCovered
<1> QED
  BY <1>5, <1>6, <1>7 DEF ScannerInv

LEMMA ListDirectoryKeeps ==
    ASSUME Inv, ListDirectory
    PROVE  StoreInv' /\ ScannerInv' /\ CountersFresh' /\ step' = "compose"
<1> DEFINE l == tree[Top.path]
<1>1. directories # <<>> /\ step = "list" /\ next_object_id_' = next_object_id_
      /\ next_resource_id_' = next_resource_id_
      /\ db' = db /\ durable' = durable /\ db_files' = db_files /\ faults' = faults
  BY DEF ListDirectory, storeVars
<1>2. ScannerInv /\ ScannerTypeOK
  BY DEF Inv, ScannerInv
<1>3. Top.path \in Directory /\ Top.parent \in ObjectKeySet /\ l \in Listing
  BY <1>1, <1>2, TopTyped
<1>4. next_object_id_' \in 0 .. MaxId /\ next_resource_id_' \in 0 .. MaxId
  BY <1>1, <1>2 DEF ScannerInv, ScannerTypeOK, StepInv
<1>5. PICK paths \in Orders(l.dirs) :
          StartComposing(l, Top.parent, Under(paths, Top.parent))
  BY DEF ListDirectory
<1>6. Under(paths, Top.parent) \in Seq(StackEntry)
  BY <1>3, UnderTyped, ListingTyped
<1>7. ScannerInv' /\ Ids(composer.items)' = {} /\ Keys(composer.resources)' = {}
  BY <1>1, <1>2, <1>3, <1>4, <1>5, <1>6, StartComposingKeeps
<1>8. StoreInv'
  BY <1>1 DEF Inv, StoreInv
<1>9. CountersFresh'
  BY <1>1, <1>7 DEF Inv, CountersFresh, KeysTaken
<1>10. step' = "compose"
  BY <1>5 DEF StartComposing
<1> QED
  BY <1>7, <1>8, <1>9, <1>10

(* create_container: the container and its artwork are a batch of their own. *)
LEMMA CollectionTyped ==
    ASSUME ScannerTypeOK, directories # <<>>,
           next_object_id_ \in 0 .. MaxId, next_resource_id_ \in 0 .. MaxId
    PROVE  LET l == tree[Top.path]
               items == <<CollectionOf(l)>>
               resources == CollectionResources(l)
           IN  /\ items \in Seq(MediaObject)
               /\ resources \in SUBSET StoredResource
               /\ \A i \in DOMAIN items : Covered(items[i], resources)
               /\ Ids(items) = {CollectionKey}
               /\ Keys(resources) \subseteq {ResourceKey(next_resource_id_)}
               /\ FolderArtwork(l) = {} => Keys(resources) = {}
               /\ SubsParent(l) \in ObjectKeySet
<1> DEFINE l == tree[Top.path]
           items == <<CollectionOf(l)>>
           resources == CollectionResources(l)
           key == ResourceKey(next_resource_id_)
           art == FolderArtwork(l)
           refs == {[ref |-> key, type |-> a.type] : a \in art}
<1>1. Top.path \in Directory /\ Top.parent \in ObjectKeySet /\ l \in Listing
  BY TopTyped
<1>2. CollectionKey \in ObjectKeySet /\ key \in ResourceKeySet
  BY KeysTyped DEF CollectionKey
<1>3. ASSUME NEW a \in art
      PROVE  a.type \in ArtworkTypes /\ At(Top.path, "image", a.image) \in Location
  <2>1. a \in ImageWithType(l)
    BY ArtworkOfListing
  <2>2. PICK n \in Nat : DOMAIN l.images = 1 .. n
    BY <1>1, ListingTyped
  <2>3. a.type \in ArtworkTypes /\ a.image \in Nat
    BY <2>1, <2>2 DEF ImageWithType
  <2> QED
    BY <1>1, <2>3 DEF At, Location, FileKinds
<1> HIDE DEF key, art
<1>4. refs \in SUBSET Artwork
  BY <1>2, <1>3 DEF Artwork
<1>5. CollectionOf(l) = Container(CollectionKey, Top.parent, l.stem, refs)
  BY DEF CollectionOf, CollectionKey, key, art
<1>6. /\ CollectionOf(l) \in MediaObject
      /\ CollectionOf(l).id = CollectionKey /\ CollectionOf(l).objects = <<>>
      /\ CollectionOf(l).artwork = refs /\ CollectionOf(l).resources = {}
  <2>1. l.stem \in Name
    BY <1>1, ListingTyped
  <2>2. Container(CollectionKey, Top.parent, l.stem, refs) \in MediaObject
    BY <2>1, <1>1, <1>2, <1>4, ContainerTyped
  <2> QED
    BY <2>2, <1>5 DEF Container
<1>7. resources = {[key |-> key, location |-> At(Top.path, "image", a.image)] : a \in art}
  BY DEF CollectionResources, key, art
<1>8. resources \in SUBSET StoredResource
  BY <1>2, <1>3, <1>7 DEF StoredResource
<1>9. /\ Keys(resources) \subseteq {key}
      /\ art = {} => Keys(resources) = {}
      /\ art # {} => key \in Keys(resources)
  <2>1. \A r \in resources : r.key = key
    BY <1>7
  <2>2. art = {} => resources = {}
    BY <1>7
  <2>3. art # {} => resources # {}
    BY <1>7
  <2> QED
    BY <2>1, <2>2, <2>3 DEF Keys
<1>10. /\ items \in Seq(MediaObject)
       /\ DOMAIN items = {1} /\ items[1] = CollectionOf(l)
  BY <1>6
<1>11. Covered(CollectionOf(l), resources)
  BY <1>6, <1>9 DEF Covered
<1>12. Ids(items) = {CollectionKey}
  BY <1>6, <1>10 DEF Ids
<1>13. SubsParent(l) \in ObjectKeySet
  BY <1>1, <1>2 DEF SubsParent
<1> QED
  BY <1>8, <1>9, <1>10, <1>11, <1>12, <1>13 DEF key, art

LEMMA ListCollectionKeeps ==
    ASSUME Inv, ListCollection
    PROVE  StoreInv' /\ ScannerInv' /\ CountersFresh' /\ step' = "compose"
<1> DEFINE l == tree[Top.path]
           items == <<CollectionOf(l)>>
           resources == CollectionResources(l)
<1>1. /\ directories # <<>> /\ step = "list"
      /\ next_object_id_ < MaxId /\ next_resource_id_ < MaxId
      /\ PutItems(Top.parent, items, resources)
      /\ next_object_id_' = next_object_id_ + 1
      /\ next_resource_id_' = next_resource_id_ + ArtworkIds(l)
  BY DEF ListCollection
<1>2. ScannerInv /\ ScannerTypeOK /\ StoreInv
  BY DEF Inv, ScannerInv
<1>3. /\ next_object_id_ \in 0 .. MaxId /\ next_resource_id_ \in 0 .. MaxId
      /\ next_object_id_' \in 0 .. MaxId /\ next_resource_id_' \in 0 .. MaxId
      /\ next_resource_id_ <= next_resource_id_'
      /\ FolderArtwork(l) # {} => next_resource_id_' = next_resource_id_ + 1
  <2>1. next_object_id_ \in 0 .. MaxId /\ next_resource_id_ \in 0 .. MaxId
    BY <1>1, <1>2 DEF ScannerInv, ScannerTypeOK, StepInv
  <2>2. /\ ArtworkIds(l) \in {0, 1}
        /\ FolderArtwork(l) # {} => ArtworkIds(l) = 1
    BY DEF ArtworkIds
  <2> QED
    BY <1>1, <2>1, <2>2, MaxIdAssumption
<1>4. Top.path \in Directory /\ Top.parent \in ObjectKeySet /\ l \in Listing
  BY <1>1, <1>2, TopTyped
<1>5. /\ items \in Seq(MediaObject)
      /\ resources \in SUBSET StoredResource
      /\ \A i \in DOMAIN items : Covered(items[i], resources)
      /\ Ids(items) = {CollectionKey}
      /\ Keys(resources) \subseteq {ResourceKey(next_resource_id_)}
      /\ FolderArtwork(l) = {} => Keys(resources) = {}
      /\ SubsParent(l) \in ObjectKeySet
  BY <1>1, <1>2, <1>3, CollectionTyped
<1>6. /\ CollectionKey \in ObjectKeySet /\ CollectionKey.id = next_object_id_
      /\ ResourceKey(next_resource_id_) \in ResourceKeySet
      /\ ResourceKey(next_resource_id_).id = next_resource_id_
  BY <1>3, KeysTyped DEF CollectionKey
<1>7. \A k \in Ids(items) \union Keys(resources) : k.id < MaxId
  BY <1>1, <1>5, <1>6
<1>8. PICK paths \in Orders(l.dirs) :
          StartComposing(l, CollectionKey, Under(paths, SubsParent(l)))
  BY DEF ListCollection
<1> HIDE DEF l, items, resources
<1>9. /\ StoreInv'
      /\ DOMAIN db' \subseteq DOMAIN db \union Keys(resources) \union Ids(items)
      /\ durable' = durable
  BY <1>1, <1>2, <1>4, <1>5, <1>7, PutKeepsStore
<1>10. Under(paths, SubsParent(l)) \in Seq(StackEntry)
  BY <1>4, <1>5, UnderTyped, ListingTyped
<1>11. ScannerInv' /\ Ids(composer.items)' = {} /\ Keys(composer.resources)' = {}
  BY <1>1, <1>2, <1>3, <1>4, <1>6, <1>8, <1>10, StartComposingKeeps
<1>12. CountersFresh'
  <2>1. ASSUME NEW k \in DOMAIN db \union DOMAIN durable PROVE Below(k)'
    <3>1. Below(k) /\ k \in KeySet
      BY <1>1, <1>2, CountersFreshBelow DEF Inv, KeysSeen, StoreInv, DbInv, DbTypeOK
    <3> QED
      BY <3>1, <1>1, <1>3 DEF Below, KeySet
  <2>2. \A k \in Ids(items) \union Keys(resources) : Below(k)'
    BY <1>1, <1>3, <1>5, <1>6, KeyTypesApart DEF Below
  <2>3. KeysSeen' \subseteq DOMAIN db \union DOMAIN durable \union Ids(items) \union Keys(resources)
    BY <1>9, <1>11 DEF KeysSeen
  <2>4. \A k \in KeysSeen' : Below(k)'
    BY <2>1, <2>2, <2>3
  <2> QED
    BY <2>4 DEF CountersFresh, KeysTaken, KeysSeen, Below
<1>13. step' = "compose"
  BY <1>8 DEF StartComposing
<1> QED
  BY <1>9, <1>11, <1>12, <1>13

(* One more item with its resources, numbered from the counters on. *)
LEMMA ComposeVideoKeeps ==
    ASSUME Inv, ComposeVideo
    PROVE  StoreInv' /\ ScannerInv' /\ CountersFresh' /\ step' = "compose"
<1> DEFINE l == tree[Top.path]
           v == Len(composer.items) + 1
           name == composer.folder_name
           prefix == ResourcePrefix(l, name, v)
           count == ResourceCount(l, prefix)
           r == next_resource_id_
           id == ObjectKey(next_object_id_)
           item == ComposeItem(l, name, v, id, composer.parent_id, r)
           more == ItemResources(l, Top.path, prefix, v, r)
<1>1. /\ step = "compose" /\ v <= Len(l.videos)
      /\ next_object_id_ < MaxId /\ r + count <= MaxId
      /\ composer' = [composer EXCEPT !.items = Append(@, item), !.resources = @ \union more]
      /\ next_object_id_' = next_object_id_ + 1 /\ next_resource_id_' = r + count
      /\ tree' = tree /\ step' = step /\ movies_folder_' = movies_folder_
      /\ directories' = directories
      /\ use_collections' = use_collections /\ use_folder_names' = use_folder_names
      /\ db' = db /\ durable' = durable /\ db_files' = db_files /\ faults' = faults
  BY DEF ComposeVideo, scanConfigVars, storeVars
<1>2. ScannerInv /\ ScannerTypeOK /\ StoreInv /\ StepInv /\ ItemsCovered
  BY DEF Inv, ScannerInv
<1>3. next_object_id_ \in 0 .. MaxId /\ r \in 0 .. MaxId /\ r \in Nat
  BY <1>1, <1>2 DEF ScannerTypeOK, StepInv
<1>4. directories # <<>> /\ composer.parent_id \in ObjectKeySet
  BY <1>1, <1>2 DEF StepInv
<1>5. Top.path \in Directory /\ l \in Listing
  BY <1>2, <1>4, TopTyped
<1>6. /\ composer \in Composer /\ name \in Name
      /\ composer.items \in Seq(MediaObject)
      /\ composer.resources \in SUBSET StoredResource
  BY <1>2 DEF ScannerTypeOK, Composer
<1>7. v \in DOMAIN l.videos
  BY <1>1, <1>5, <1>6, LenProperties, ListingTyped
<1>8. id \in ObjectKeySet /\ id.id = next_object_id_
  BY <1>3, KeysTyped
<1>9. /\ count \in Nat \ {0}
      /\ item \in MediaObject /\ item.id = id
      /\ more \in SUBSET StoredResource
      /\ \A k \in Keys(more) : k.id \in r .. r + count - 1
      /\ Covered(item, more)
  BY <1>1, <1>3, <1>4, <1>5, <1>6, <1>7, <1>8, ComposedTyped
<1> HIDE DEF l, v, name, prefix, count, item, more
<1> DEFINE items == Append(composer.items, item)
           resources == composer.resources \union more
<1>10. composer' = [composer EXCEPT !.items = items, !.resources = resources]
  BY <1>1
<1>11. items \in Seq(MediaObject) /\ resources \in SUBSET StoredResource
  BY <1>6, <1>9
<1>12. \A i \in DOMAIN items : \/ i \in DOMAIN composer.items /\ items[i] = composer.items[i]
                               \/ items[i] = item
  BY <1>6, <1>9, LenProperties
<1>13. Keys(resources) = Keys(composer.resources) \union Keys(more)
  BY DEF Keys
<1>14. Ids(items) \subseteq Ids(composer.items) \union {id}
  BY <1>9, <1>12 DEF Ids
<1> HIDE DEF items, resources
<1>15. /\ composer' \in Composer /\ composer'.items = items /\ composer'.resources = resources
       /\ composer'.parent_id = composer.parent_id
  BY <1>6, <1>10, <1>11 DEF Composer
<1>16. ScannerTypeOK'
  BY <1>1, <1>2, <1>3, <1>9, <1>15, MaxIdAssumption DEF ScannerTypeOK
<1>17. StepInv'
  BY <1>1, <1>2, <1>3, <1>4, <1>9, <1>15 DEF StepInv
<1>18. \A i \in DOMAIN items : Covered(items[i], resources)
  BY <1>2, <1>9, <1>12, <1>13 DEF ItemsCovered, Covered
<1>19. ItemsCovered'
  BY <1>15, <1>18 DEF ItemsCovered
<1>20. StoreInv'
  BY <1>1, <1>2 DEF StoreInv
<1>21. CountersFresh'
  <2>1. ASSUME NEW k \in KeysSeen PROVE Below(k)'
    <3>1. Below(k)
      BY <1>1, CountersFreshBelow DEF Inv
    <3>2. k \in KeySet
      BY <1>2, <1>6, IdsTyped, KeysOfResources, KeyTypesApart
         DEF KeysSeen, StoreInv, DbInv, DbTypeOK
    <3> QED
      BY <3>1, <3>2, <1>1, <1>3, <1>9 DEF Below, KeySet
  <2>2. \A k \in {id} : Below(k)'
    BY <1>1, <1>3, <1>8, KeyTypesApart DEF Below
  <2>3. \A k \in Keys(more) : Below(k)'
    BY <1>1, <1>3, <1>9, KeysOfResources, KeyTypesApart DEF Below
  <2>4. KeysSeen' \subseteq KeysSeen \union {id} \union Keys(more)
    BY <1>1, <1>13, <1>14, <1>15 DEF KeysSeen
  <2>5. \A k \in KeysSeen' : Below(k)'
    BY <2>1, <2>2, <2>3, <2>4
  <2> QED
    BY <2>5 DEF CountersFresh, KeysTaken, KeysSeen, Below
<1> QED
  BY <1>1, <1>16, <1>17, <1>19, <1>20, <1>21 DEF ScannerInv

(***************************************************************************)
(* The end of scan_directory: the folder is popped, and its locals are     *)
(* gone.                                                                   *)
(***************************************************************************)
LEMMA NextDirectoryKeeps ==
    ASSUME ScannerInv, step # "idle", NextDirectory
    PROVE  /\ ScannerInv' /\ step' = "list"
           /\ Ids(composer.items)' = {} /\ Keys(composer.resources)' = {}
           /\ next_object_id_' = next_object_id_ /\ next_resource_id_' = next_resource_id_
<1>1. /\ step' = "list" /\ directories' = PopThenPush /\ use_collections' = "yes"
      /\ composer' = NoComposer /\ tree' = tree
      /\ next_object_id_' = next_object_id_ /\ next_resource_id_' = next_resource_id_
      /\ movies_folder_' = movies_folder_ /\ use_folder_names' = use_folder_names
  BY DEF NextDirectory
<1>2. ScannerTypeOK'
  BY <1>1, NoComposerIsEmpty, PopThenPushTyped DEF ScannerInv, ScannerTypeOK
<1>3. /\ Ids(composer.items)' = {} /\ Keys(composer.resources)' = {}
      /\ composer'.items = <<>>
  BY <1>1, NoComposerIsEmpty
<1>4. StepInv' /\ ItemsCovered'
  BY <1>1, <1>3 DEF StepInv, ItemsCovered, Ids, ScannerInv
<1> QED
  BY <1>1, <1>2, <1>3, <1>4 DEF ScannerInv

(* The items of a folder and what covers them go into the DB together. *)
LEMMA StoreVideosKeeps ==
    ASSUME Inv, StoreVideos
    PROVE  StoreInv' /\ ScannerInv' /\ CountersFresh' /\ step' = "list"
<1> DEFINE parent == composer.parent_id
           items == composer.items
           resources == composer.resources
<1>1. step = "compose" /\ PutItems(parent, items, resources) /\ NextDirectory
  BY DEF StoreVideos
<1>2. ScannerInv /\ ScannerTypeOK /\ StoreInv
  BY DEF Inv, ScannerInv
<1>3. /\ parent \in ObjectKeySet /\ items \in Seq(MediaObject)
      /\ resources \in SUBSET StoredResource
      /\ \A i \in DOMAIN items : Covered(items[i], resources)
  BY <1>1, <1>2 DEF ScannerInv, ScannerTypeOK, StepInv, ItemsCovered, Composer
<1>4. \A k \in KeysSeen : Below(k)
  BY <1>1, CountersFreshBelow DEF Inv
<1>5. /\ next_object_id_ \in 0 .. MaxId /\ next_resource_id_ \in 0 .. MaxId
  BY <1>1, <1>2 DEF ScannerInv, ScannerTypeOK, StepInv
<1>6. \A k \in Ids(items) \union Keys(resources) : k.id < MaxId
  <2>1. \A k \in Ids(items) \union Keys(resources) : Below(k) /\ k \in KeySet
    BY <1>3, <1>4, IdsTyped, KeysOfResources, KeyTypesApart DEF KeysSeen
  <2> QED
    BY <2>1, <1>5, MaxIdAssumption DEF Below, KeySet, KeyTypes
<1>7. /\ StoreInv'
      /\ DOMAIN db' \subseteq DOMAIN db \union Keys(resources) \union Ids(items)
      /\ durable' = durable
  BY <1>1, <1>2, <1>3, <1>6, PutKeepsStore
<1>8. /\ ScannerInv' /\ step' = "list"
      /\ Ids(composer.items)' = {} /\ Keys(composer.resources)' = {}
      /\ next_object_id_' = next_object_id_ /\ next_resource_id_' = next_resource_id_
  BY <1>1, <1>2, NextDirectoryKeeps
<1>9. CountersFresh'
  <2>1. KeysSeen' \subseteq KeysSeen
    BY <1>7, <1>8 DEF KeysSeen
  <2>2. \A k \in KeysSeen' : Below(k)'
    BY <2>1, <1>4, <1>8 DEF Below
  <2> QED
    BY <2>2 DEF CountersFresh, KeysTaken, KeysSeen, Below
<1> QED
  BY <1>7, <1>8, <1>9

LEMMA SkipFolderKeeps ==
    ASSUME Inv, SkipFolder
    PROVE  StoreInv' /\ ScannerInv' /\ CountersFresh' /\ step' = "list"
<1>1. /\ step = "compose" /\ NextDirectory
      /\ db' = db /\ durable' = durable /\ db_files' = db_files /\ faults' = faults
  BY DEF SkipFolder, storeVars
<1>2. StoreInv'
  BY <1>1 DEF Inv, StoreInv
<1>3. /\ ScannerInv' /\ step' = "list"
      /\ Ids(composer.items)' = {} /\ Keys(composer.resources)' = {}
      /\ next_object_id_' = next_object_id_ /\ next_resource_id_' = next_resource_id_
  BY <1>1, NextDirectoryKeeps DEF Inv
<1>4. CountersFresh'
  BY <1>1, <1>3 DEF Inv, CountersFresh, KeysTaken
<1> QED
  BY <1>2, <1>3, <1>4

LEMMA LibraryScannedKeeps ==
    ASSUME Inv, LibraryScanned
    PROVE  StoreInv' /\ ScannerInv' /\ CountersFresh' /\ step' = "idle"
<1>1. /\ step = "list" /\ step' = "idle"
      /\ db' = db /\ durable' = durable /\ db_files' = db_files /\ faults' = faults
      /\ tree' = tree /\ next_object_id_' = next_object_id_
      /\ next_resource_id_' = next_resource_id_ /\ movies_folder_' = movies_folder_
      /\ directories' = directories /\ composer' = composer
      /\ use_collections' = use_collections /\ use_folder_names' = use_folder_names
  BY DEF LibraryScanned, storeVars, scanConfigVars
<1>2. StoreInv'
  BY <1>1 DEF Inv, StoreInv
<1>3. ScannerTypeOK' /\ StepInv' /\ ItemsCovered'
  BY <1>1 DEF Inv, ScannerInv, ScannerTypeOK, StepInv, ItemsCovered
<1> QED
  BY <1>1, <1>2, <1>3 DEF ScannerInv, CountersFresh

-----------------------------------------------------------------------------
(***************************************************************************)
(* scan_all reads the counters from the DB: they are fresh because         *)
(* get_next_id is, and because nothing durable is missing from the DB.     *)
(***************************************************************************)
LEMMA NextIdTyped ==
    ASSUME DbInv(db), NEW type \in KeyTypes
    PROVE  /\ NextId(type) \in 0 .. MaxId
           /\ \A k \in DOMAIN db : k.key_type = type => k.id < NextId(type)
<1>1. DOMAIN db \in SUBSET KeySet /\ \A k \in DOMAIN db : k.id < MaxId
  BY DEF DbInv, DbTypeOK, IdsInside
<1> QED
  BY <1>1, NextIdFresh DEF NextId

LEMMA KnownMoviesFolderTyped ==
    ASSUME StoreInv, ScannerTypeOK
    PROVE  KnownMoviesFolder \subseteq ObjectKeySet
<1>1. CASE movies_folder_.id > 0
  BY <1>1, NoFolderIsNoKey DEF KnownMoviesFolder, ScannerTypeOK
<1>2. CASE ~(movies_folder_.id > 0) /\ ~ContainerFound(Root)
  BY <1>2 DEF KnownMoviesFolder
<1>3. CASE ~(movies_folder_.id > 0) /\ ContainerFound(Root)
  <2>1. Root \in ObjectKeySet /\ Root \in DOMAIN db
    BY <1>3, RootIsKey, ContainerFoundInDb DEF StoreInv, DbInv
  <2>2. db[Root] \in MediaObject
    BY <2>1, KeyTypesApart DEF StoreInv, DbInv, DbTypeOK
  <2>3. \A n \in DOMAIN List(Root) : List(Root)[n] \in ObjectKeySet
    BY <2>2, LenProperties, ElementOfSeq DEF List, MediaObject
  <2> QED
    BY <2>3, <1>3 DEF KnownMoviesFolder
<1> QED
  BY <1>1, <1>2, <1>3

LEMMA EnterLibraryKeeps ==
    ASSUME Inv, step = "idle", StoreInv', durable' = durable,
           NEW path \in Directory, NEW folder \in ObjectKeySet,
           EnterLibrary(path, folder),
           next_object_id_' \in 0 .. MaxId,
           use_folder_names' \in {"yes", "no"},
           \A k \in DOMAIN db' : k.key_type = ObjectKeyType => k.id < next_object_id_',
           \A k \in DOMAIN db' : k.key_type = ResourceKeyType => k \in DOMAIN db
    PROVE  ScannerInv' /\ CountersFresh' /\ step' = "list"
<1>1. /\ step' = "list" /\ directories' = <<[path |-> path, parent |-> folder]>>
      /\ movies_folder_' = folder /\ next_resource_id_' = FirstResourceId
      /\ use_collections' = "no" /\ tree' = tree /\ composer' = composer
  BY DEF EnterLibrary
<1>2. /\ FirstResourceId \in 0 .. MaxId
      /\ \A k \in DOMAIN db : k.key_type = ResourceKeyType => k.id < FirstResourceId
  BY NextIdTyped DEF FirstResourceId, Inv, StoreInv, KeyTypes
<1>3. composer = NoComposer
  BY DEF Inv, ScannerInv, StepInv
<1>4. directories' \in Seq(StackEntry)
  <2>1. [path |-> path, parent |-> folder] \in StackEntry
    BY DEF StackEntry
  <2> QED
    BY <2>1, <1>1
<1>5. ScannerTypeOK'
  BY <1>1, <1>2, <1>4, MaxIdAssumption DEF Inv, ScannerInv, ScannerTypeOK
<1>6. StepInv' /\ ItemsCovered'
  BY <1>1, <1>2, <1>3 DEF Inv, ScannerInv, StepInv, ItemsCovered
<1>7. CountersFresh'
  <2>1. KeysSeen' \subseteq DOMAIN db'
    BY <1>1, <1>3, NoComposerIsEmpty DEF KeysSeen, StoreInv
  <2>2. \A k \in KeysSeen' : Below(k)'
    BY <2>1, <1>1, <1>2 DEF Below
  <2> QED
    BY <2>2 DEF CountersFresh, KeysTaken, KeysSeen, Below
<1> QED
  BY <1>1, <1>5, <1>6, <1>7 DEF ScannerInv

LEMMA ScanKnownFolderKeeps ==
    ASSUME Inv, NEW path \in Directory, NEW folder_names \in {"yes", "no"},
           ScanKnownFolder(path, folder_names)
    PROVE  StoreInv' /\ ScannerInv' /\ CountersFresh' /\ step' = "list"
<1>1. /\ step = "idle" /\ next_object_id_' = NextId(ObjectKeyType)
      /\ use_folder_names' = folder_names
      /\ db' = db /\ durable' = durable /\ db_files' = db_files /\ faults' = faults
  BY DEF ScanKnownFolder, storeVars
<1>2. PICK folder \in KnownMoviesFolder : EnterLibrary(path, folder)
  BY DEF ScanKnownFolder
<1>3. folder \in ObjectKeySet
  BY KnownMoviesFolderTyped DEF Inv, ScannerInv
<1>4. StoreInv'
  BY <1>1 DEF Inv, StoreInv
<1>5. /\ next_object_id_' \in 0 .. MaxId
      /\ \A k \in DOMAIN db : k.key_type = ObjectKeyType => k.id < next_object_id_'
  BY <1>1, NextIdTyped DEF Inv, StoreInv, KeyTypes
<1> QED
  BY <1>1, <1>2, <1>3, <1>4, <1>5, EnterLibraryKeeps

(* The new Movies folder has the next identifier, written or not. *)
LEMMA ScanNewFolderKeeps ==
    ASSUME Inv, NEW path \in Directory, NEW folder_names \in {"yes", "no"},
           ScanNewFolder(path, folder_names)
    PROVE  StoreInv' /\ ScannerInv' /\ CountersFresh' /\ step' = "list"
<1> DEFINE id == NextId(ObjectKeyType)
           folder == Container(ObjectKey(id), Root, MoviesFolderName, {})
           items == <<folder>>
<1>1. /\ step = "idle" /\ id < MaxId
      /\ PutItems(Root, items, {}) /\ EnterLibrary(path, folder.id)
      /\ next_object_id_' = id + 1 /\ use_folder_names' = folder_names
  BY DEF ScanNewFolder
<1>2. /\ id \in 0 .. MaxId
      /\ \A k \in DOMAIN db : k.key_type = ObjectKeyType => k.id < id
  BY NextIdTyped DEF Inv, StoreInv, KeyTypes
<1> HIDE DEF id
<1>3. ObjectKey(id) \in ObjectKeySet /\ ObjectKey(id).id = id
  BY <1>2, KeysTyped
<1>4. MoviesFolderName \in Name
  BY WordAssumption DEF MoviesFolderName, Name
<1>5. /\ folder \in MediaObject /\ folder.id = ObjectKey(id)
      /\ folder.objects = <<>> /\ folder.artwork = {} /\ folder.resources = {}
  BY <1>3, <1>4, RootIsKey, ContainerTyped DEF Container
<1> HIDE DEF folder
<1>6. items \in Seq(MediaObject) /\ DOMAIN items = {1} /\ items[1] = folder
  BY <1>5
<1>7. Covered(items[1], {}) /\ Ids(items) = {ObjectKey(id)} /\ Keys({}) = {}
  BY <1>5, <1>6 DEF Covered, Ids, Keys
<1>8. /\ \A i \in DOMAIN items : Covered(items[i], {})
      /\ \A k \in Ids(items) \union Keys({}) : k.id < MaxId
  BY <1>1, <1>3, <1>6, <1>7
<1> HIDE DEF items
<1>9. /\ StoreInv'
      /\ DOMAIN db' \subseteq DOMAIN db \union Keys({}) \union Ids(items)
      /\ durable' = durable
  BY <1>1, <1>6, <1>8, RootIsKey, PutKeepsStore DEF Inv
<1>10. DOMAIN db' \subseteq DOMAIN db \union {ObjectKey(id)}
  BY <1>7, <1>9
<1>11. ASSUME NEW k \in DOMAIN db'
       PROVE  /\ k.key_type = ObjectKeyType => k.id < next_object_id_'
              /\ k.key_type = ResourceKeyType => k \in DOMAIN db
  <2>1. CASE k \in DOMAIN db
    <3>1. k.id \in 0 .. MaxId
      BY <2>1 DEF Inv, StoreInv, DbInv, DbTypeOK, KeySet
    <3> QED
      BY <2>1, <3>1, <1>1, <1>2
  <2>2. CASE k = ObjectKey(id)
    BY <2>2, <1>1, <1>2, <1>3, KeyTypesApart
  <2> QED
    BY <2>1, <2>2, <1>10
<1>12. next_object_id_' \in 0 .. MaxId
  BY <1>1, <1>2, MaxIdAssumption
<1>13. folder.id \in ObjectKeySet
  BY <1>3, <1>5
<1> QED
  BY <1>1, <1>9, <1>11, <1>12, <1>13, EnterLibraryKeeps

-----------------------------------------------------------------------------
LEMMA PutRootKeepsStore ==
    ASSUME StoreInv, PutRoot
    PROVE  StoreInv'
<1> DEFINE new == [k \in DOMAIN db \union {Root} |-> IF k = Root THEN RootContainer ELSE db[k]]
<1>1. db' = new /\ durable' = durable /\ db_files' = db_files /\ faults' = faults
  BY DEF PutRoot
<1>2. DbTypeOK(new) /\ IdsInside(new)
  BY RootIsKey, RootTyped, KeyTypesApart DEF DbTypeOK, IdsInside, StoreInv, DbInv
<1>3. RefsResolveIn(new)
  <2>1. /\ RootContainer.objects = <<>> /\ RootContainer.resources = {}
        /\ RootContainer.artwork = {}
    BY DEF RootContainer, Container
  <2>2. \A k \in ObjectKeys(new) : k # Root => k \in ObjectKeys(db) /\ new[k] = db[k]
    BY DEF ObjectKeys
  <2>3. new[Root] = RootContainer /\ DOMAIN db \subseteq DOMAIN new /\ DOMAIN <<>> = {}
    OBVIOUS
  <2>4. RefsResolveIn(db)
    BY DEF StoreInv, DbInv
  <2> HIDE DEF new
  <2> QED
    BY <2>1, <2>2, <2>3, <2>4 DEF RefsResolveIn
<1> HIDE DEF new
<1>4. DOMAIN new = DOMAIN db \union {Root}
  BY DEF new
<1> QED
  BY <1>1, <1>2, <1>3, <1>4 DEF StoreInv, DbInv

LEMMA ScanLibraryKeeps ==
    ASSUME Inv, ScanLibrary
    PROVE  Inv'
<1>1. /\ pc = "libraries" /\ lib < Len(content) /\ lib' = lib + 1 /\ pc' = "scan"
      /\ content' = content
      /\ \/ ScanKnownFolder(content[lib'].path, content[lib'].use_folder_names)
         \/ ScanNewFolder(content[lib'].path, content[lib'].use_folder_names)
  BY DEF ScanLibrary
<1>2. content \in Content /\ lib \in 0 .. Len(content) /\ Len(content) \in Nat
  BY LenProperties DEF Inv, MainInv, MainTypeOK, Content
<1>3. lib' \in 1 .. Len(content)
  BY <1>1, <1>2
<1>4. content[lib'] \in [path : Directory, use_folder_names : {"yes", "no"}]
  BY <1>2, <1>3, ElementOfSeq DEF Content
<1>5. content[lib'].path \in Directory /\ content[lib'].use_folder_names \in {"yes", "no"}
  BY <1>4
<1>6. StoreInv' /\ ScannerInv' /\ CountersFresh'
  BY <1>1, <1>5, ScanKnownFolderKeeps, ScanNewFolderKeeps
<1>7. MainInv'
  BY <1>1, <1>2, <1>3 DEF MainInv, MainTypeOK, ProgramCounters
<1> QED
  BY <1>6, <1>7 DEF Inv

LEMMA ScanKeeps ==
    ASSUME Inv, Scan
    PROVE  Inv'
<1>1. /\ ScanStep /\ pc' = IF step' = "idle" THEN "libraries" ELSE "scan"
      /\ content' = content /\ lib' = lib
  BY DEF Scan
<1>2. StoreInv' /\ ScannerInv' /\ CountersFresh' /\ step' \in {"idle", "list", "compose"}
  BY <1>1, ListDirectoryKeeps, ListCollectionKeeps, ComposeVideoKeeps, StoreVideosKeeps,
     SkipFolderKeeps, LibraryScannedKeeps DEF ScanStep
<1>3. MainInv'
  BY <1>1 DEF Inv, MainInv, MainTypeOK, ProgramCounters
<1> QED
  BY <1>2, <1>3 DEF Inv

THEOREM NextInv == Inv /\ [Next]_vars => Inv'
<1> SUFFICES ASSUME Inv, [Next]_vars PROVE Inv'
  OBVIOUS
<1>a. MainTypeOK /\ (pc # "scan" => step = "idle") /\ StoreInv
  BY DEF Inv, MainInv
<1>1. CASE Start
  <2>1. StoreInv' /\ UNCHANGED <<db, durable, scannerVars>>
    BY <1>1, <1>a DEF Start, storeVars, StoreInv
  <2>2. MainInv'
    BY <1>1, <1>a DEF Start, Running, MainInv, MainTypeOK, ProgramCounters, scannerVars
  <2> QED
    BY <2>1, <2>2, IdleMove
<1>2. CASE Reopen
  <2>1. StoreInv' /\ UNCHANGED <<db, durable, scannerVars>>
    BY <1>2, <1>a DEF Reopen, OpenExisting, storeVars, StoreInv
  <2>2. MainInv'
    BY <1>2, <1>a DEF Reopen, MainInv, MainTypeOK, ProgramCounters, scannerVars
  <2> QED
    BY <2>1, <2>2, IdleMove
<1>3. CASE Create
  <2>1. StoreInv' /\ UNCHANGED <<db, durable, scannerVars>>
    BY <1>3, <1>a DEF Create, CreateDb, storeVars, StoreInv
  <2>2. MainInv'
    BY <1>3, <1>a DEF Create, MainInv, MainTypeOK, ProgramCounters, scannerVars
  <2> QED
    BY <2>1, <2>2, IdleMove
<1>4. CASE CreateRoot
  <2>1. StoreInv' /\ UNCHANGED <<durable, scannerVars>>
    BY <1>4, <1>a, PutRootKeepsStore DEF CreateRoot, PutRoot
  <2>2. MainInv' /\ step' = "idle"
    BY <1>4, <1>a DEF CreateRoot, MainInv, MainTypeOK, ProgramCounters, scannerVars
  <2>3. ScannerInv'
    BY <2>1 DEF Inv, ScannerInv, ScannerTypeOK, StepInv, ItemsCovered, scannerVars
  <2> QED
    BY <2>1, <2>2, <2>3 DEF Inv, CountersFresh
<1>5. CASE CreateRootFails
  <2>1. StoreInv'
    BY <1>5, <1>a, MaxFaultsAssumption DEF CreateRootFails, PutFails, StoreInv
  <2>2. Die("down") /\ "down" \in ProgramCounters
    BY <1>5 DEF CreateRootFails, ProgramCounters
  <2> QED
    BY <2>1, <2>2, DieKeepsScanner DEF Inv
<1>6. CASE ScanLibrary
  BY <1>6, ScanLibraryKeeps
<1>7. CASE Scan
  BY <1>7, ScanKeeps
<1>8. CASE Throw
  <2>1. StoreInv'
    BY <1>8, <1>a DEF Throw, storeVars, StoreInv
  <2>2. Die("down") /\ "down" \in ProgramCounters
    BY <1>8 DEF Throw, ProgramCounters
  <2> QED
    BY <2>1, <2>2, DieKeepsScanner DEF Inv
<1>9. CASE Serve
  <2>1. StoreInv'
    BY <1>9, <1>a DEF Serve, storeVars, StoreInv
  <2>2. Die("serve") /\ "serve" \in ProgramCounters
    BY <1>9 DEF Serve, Die, ProgramCounters
  <2> QED
    BY <2>1, <2>2, DieKeepsScanner DEF Inv
<1>10. CASE Stop
  <2>1. StoreInv'
    BY <1>10, <1>a DEF Stop, storeVars, StoreInv
  <2>2. Die("stopped") /\ "stopped" \in ProgramCounters
    BY <1>10 DEF Stop, ProgramCounters
  <2> QED
    BY <2>1, <2>2, DieKeepsScanner DEF Inv
<1>11. CASE Crash
  <2>1. StoreInv'
    BY <1>11, <1>a, MaxFaultsAssumption DEF Crash, StoreInv
  <2>2. Die("down") /\ "down" \in ProgramCounters
    BY <1>11 DEF Crash, ProgramCounters
  <2> QED
    BY <2>1, <2>2, DieKeepsScanner DEF Inv
<1>12. CASE PowerLoss
  <2>1. StoreInv'
    BY <1>12, <1>a, MaxFaultsAssumption DEF PowerLoss, LoseUnflushed, StoreInv
  <2>2. Die("down") /\ "down" \in ProgramCounters
    BY <1>12 DEF PowerLoss, ProgramCounters
  <2> QED
    BY <2>1, <2>2, DieKeepsScanner DEF Inv
<1>13. CASE WriteBack
  <2>1. /\ durable' = db /\ db' = db /\ db_files' = db_files /\ faults' = faults
        /\ UNCHANGED scannerVars /\ UNCHANGED mainVars
    BY <1>13 DEF WriteBack, Flush
  <2>2. StoreInv'
    BY <2>1, <1>a DEF StoreInv
  <2>3. ScannerInv' /\ MainInv'
    BY <2>1, <1>a DEF Inv, ScannerInv, ScannerTypeOK, StepInv, ItemsCovered, scannerVars,
                      MainInv, MainTypeOK, mainVars
  <2>4. CountersFresh'
    BY <2>1 DEF Inv, CountersFresh, KeysTaken, scannerVars
  <2> QED
    BY <2>2, <2>3, <2>4 DEF Inv
<1>14. CASE UNCHANGED vars
  <2>1. StoreInv' /\ UNCHANGED <<db, durable, scannerVars>>
    BY <1>14, <1>a DEF vars, storeVars, StoreInv
  <2>2. MainInv'
    BY <1>14, <1>a DEF vars, mainVars, MainInv, MainTypeOK, scannerVars
  <2> QED
    BY <2>1, <2>2, IdleMove
<1> QED
  BY <1>1, <1>2, <1>3, <1>4, <1>5, <1>6, <1>7, <1>8, <1>9, <1>10, <1>11, <1>12, <1>13, <1>14
     DEF Next, Process

LEMMA InvHolds == Spec => []Inv
  BY InitInv, NextInv, PTL DEF Spec

(***************************************************************************)
(* What is stored and what the scanner holds is always of its type: in     *)
(* particular every value of the DB is of the table its key says.          *)
(***************************************************************************)
THEOREM TypesAlwaysOK == Spec => []TypeOK
<1>1. Inv => TypeOK
  BY DEF Inv, TypeOK, StoreInv, DbInv, StoreTypeOK, ScannerInv, MainInv
<1> QED
  BY <1>1, InvHolds, PTL

(***************************************************************************)
(* Every reference of the DB, and of what a power loss leaves of it,       *)
(* resolves: a listing never meets a missing child (cursor::read), and the *)
(* content service finds every resource it is asked for by a listed url.   *)
(***************************************************************************)
THEOREM RefsAlwaysResolve == Spec => []RefsResolve
<1>1. Inv => RefsResolve
  BY DEF Inv, StoreInv, DbInv, RefsResolve
<1> QED
  BY <1>1, InvHolds, PTL

(***************************************************************************)
(* No identifier is handed out that the DB or an object being composed     *)
(* already has (next_object_id_, next_resource_id_).                       *)
(***************************************************************************)
THEOREM CountersAlwaysFresh == Spec => []CountersFresh
<1>1. Inv => CountersFresh
  BY DEF Inv
<1> QED
  BY <1>1, InvHolds, PTL
=============================================================================
