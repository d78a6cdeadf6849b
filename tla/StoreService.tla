---------------------------- MODULE StoreService ----------------------------
(***************************************************************************)
(* store_service: the LevelDB database of media objects and resources.     *)
(*                                                                         *)
(* db is the content every reader sees, a partial function from keys to    *)
(* values.  Writes are not synced, so a machine that loses power comes     *)
(* back with durable, an earlier value of db; a process that merely dies   *)
(* loses nothing.  db_files says whether the database directory exists,    *)
(* which is all that open_db asks of it.  faults counts the faults of the  *)
(* environment so far (failed writes here, crashes and power losses in     *)
(* EemsMain); MaxFaults bounds them.                                       *)
(***************************************************************************)
EXTENDS LibraryKeys, Sequences

CONSTANTS Directory,  \* the folders of the media tree
          Word,       \* the words file and folder names are made of
          MaxFaults   \* how many faults the environment may cause

ASSUME MaxFaultsAssumption == MaxFaults \in Nat

VARIABLES db_files, db, durable, faults
storeVars == <<db_files, db, durable, faults>>

(***************************************************************************)
(* The tables of schema.fbs.  The artwork and resource vectors are sets:   *)
(* keys are handed out in vector order, and artwork is sorted by type.     *)
(***************************************************************************)
Name == Seq(Word)
FileKinds == {"video", "image", "text"}
Location == [dir : Directory, kind : FileKinds, index : Nat]
Resource == [location : Location]

ArtworkTypes == {"Poster", "Thumbnail"}
Artwork == [ref : ResourceKeySet, type : ArtworkTypes]

Root == ObjectKey(0)
NoParent == ObjectKey(-1)

MediaObject == [id : ObjectKeySet, parent_id : ObjectKeySet \union {NoParent},
                data_type : {"MediaContainer", "MediaItem"}, dc_title : Name,
                artwork : SUBSET Artwork, objects : Seq(ObjectKeySet),
                resources : SUBSET ResourceKeySet]

Container(id, parent, title, art) ==
    [id |-> id, parent_id |-> parent, data_type |-> "MediaContainer",
     dc_title |-> title, artwork |-> art, objects |-> <<>>, resources |-> {}]

RootContainer == Container(Root, NoParent, <<>>, {})

EmptyDb == [k \in {} |-> RootContainer]

StoreInit == /\ db_files = "absent"
             /\ db = EmptyDb
             /\ durable = EmptyDb
             /\ faults = 0

-----------------------------------------------------------------------------
(***************************************************************************)
(* Lookups.  deserialize_container throws unless ContainerFound; a cursor  *)
(* reads the listed keys one by one and throws at one that is missing.     *)
(***************************************************************************)
ContainerFound(key) == /\ Found(DOMAIN db, key)
                       /\ db[key].data_type = "MediaContainer"

List(key) == db[key].objects
GetResource(key) == IF Found(DOMAIN db, key) THEN {db[key]} ELSE {}

NextId(type) == GetNextId(DOMAIN db, type)

(***************************************************************************)
(* open_db: an existing database is taken as it is.  A new one is created  *)
(* empty, and the root container is a separate write after it.             *)
(***************************************************************************)
OpenExisting == /\ db_files = "present"
                /\ UNCHANGED storeVars

CreateDb == /\ db_files = "absent"
            /\ db_files' = "present"
            /\ UNCHANGED <<db, durable, faults>>

PutRoot == /\ db' = [k \in DOMAIN db \union {Root} |->
                        IF k = Root THEN RootContainer ELSE db[k]]
           /\ UNCHANGED <<db_files, durable, faults>>

-----------------------------------------------------------------------------
Ids(items) == {items[i].id : i \in DOMAIN items}
Keys(resources) == {r.key : r \in resources}

(***************************************************************************)
(* Variants of the two definitions below with a seeded fault: the          *)
(* container rewritten with the new objects only, and the resources or the *)
(* items left out of the batch.                                            *)
(***************************************************************************)
ReplaceObjects(parent, items) ==
    [db[parent] EXCEPT !.objects = [i \in DOMAIN items |-> items[i].id]]
BatchWithoutResources(parent, items, resources) ==
    [k \in DOMAIN db \union Ids(items) |->
        IF k = parent
        THEN [db[parent] EXCEPT !.objects = @ \o [i \in DOMAIN items |-> items[i].id]]
        ELSE IF k \in Ids(items)
             THEN items[CHOOSE i \in DOMAIN items : items[i].id = k] ELSE db[k]]
BatchWithoutItems(parent, items, resources) ==
    [k \in DOMAIN db \union Keys(resources) |->
        IF k = parent
        THEN [db[parent] EXCEPT !.objects = @ \o [i \in DOMAIN items |-> items[i].id]]
        ELSE IF k \in Keys(resources)
             THEN [location |-> (CHOOSE r \in resources : r.key = k).location] ELSE db[k]]

(* The container put_items writes back, its new objects appended. *)
AppendObjects(parent, items) ==
    [db[parent] EXCEPT !.objects = @ \o [i \in DOMAIN items |-> items[i].id]]

(***************************************************************************)
(* The DB after the batch of put_items.  Later entries of a batch win: the *)
(* resources come first, then the items, then the container.               *)
(***************************************************************************)
Batch(parent, items, resources) ==
    [k \in DOMAIN db \union Keys(resources) \union Ids(items) |->
        IF k = parent THEN AppendObjects(parent, items)
        ELSE IF k \in Ids(items)
             THEN items[CHOOSE i \in DOMAIN items : items[i].id = k]
        ELSE IF k \in Keys(resources)
             THEN [location |-> (CHOOSE r \in resources : r.key = k).location]
        ELSE db[k]]

(***************************************************************************)
(* put_items throws before it writes when the parent is not a container of *)
(* the DB or an item names another parent.                                 *)
(***************************************************************************)
PutRefused(parent, items) ==
    \/ ~ContainerFound(parent)
    \/ \E i \in DOMAIN items : items[i].parent_id # parent

PutCommits(parent, items, resources) ==
    /\ db' = Batch(parent, items, resources)
    /\ UNCHANGED <<db_files, durable, faults>>

(* A write that fails is logged and nothing else: the caller goes on. *)
PutFails == /\ faults < MaxFaults
            /\ faults' = faults + 1
            /\ UNCHANGED <<db_files, db, durable>>

PutItems(parent, items, resources) ==
    /\ ~PutRefused(parent, items)
    /\ \/ PutCommits(parent, items, resources)
       \/ PutFails

-----------------------------------------------------------------------------
(* The operating system writes back the log up to the present. *)
Flush == /\ durable # db
         /\ durable' = db
         /\ UNCHANGED <<db_files, db, faults>>

LoseUnflushed == /\ db' = durable
                 /\ UNCHANGED <<db_files, durable>>

DbTypeOK(d) ==
    /\ DOMAIN d \subseteq KeySet
    /\ \A k \in DOMAIN d : d[k] \in IF k.key_type = ObjectKeyType
                                    THEN MediaObject ELSE Resource

StoreTypeOK ==
    /\ db_files \in {"absent", "present"}
    /\ DbTypeOK(db)
    /\ DbTypeOK(durable)
    /\ faults \in 0 .. MaxFaults
=============================================================================
