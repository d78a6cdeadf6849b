--------------------------- MODULE EemsProperties ---------------------------
(***************************************************************************)
(* What makes the database and its scan correct, over the states of        *)
(* EemsMain.  A property of the DB is stated for its durable part too: it  *)
(* is what a power loss leaves to serve.                                   *)
(***************************************************************************)
EXTENDS EemsMain

StackEntry == [path : Directory, parent : ObjectKeySet]

Composer == [parent_id : ObjectKeySet \union {NoFolder}, folder_name : Name,
             subs : Seq(StackEntry), items : Seq(MediaObject),
             resources : SUBSET StoredResource]

ScannerTypeOK ==
    /\ tree \in [Directory -> Listing]
    /\ step \in {"idle", "list", "compose"}
    /\ next_object_id_ \in -1 .. MaxId
    /\ next_resource_id_ \in -1 .. MaxId
    /\ movies_folder_ \in ObjectKeySet \union {NoFolder}
    /\ directories \in Seq(StackEntry)
    /\ use_collections \in {"yes", "no"}
    /\ use_folder_names \in {"yes", "no"}
    /\ composer \in Composer

MainTypeOK ==
    /\ pc \in ProgramCounters
    /\ content \in Content
    /\ lib \in 0 .. Len(content)

(***************************************************************************)
(* Every variable has its type; the entries of the DB are what schema.fbs  *)
(* says the values of their keys are, and no identifier passes MaxId.      *)
(***************************************************************************)
TypeOK == StoreTypeOK /\ ScannerTypeOK /\ MainTypeOK

-----------------------------------------------------------------------------
(***************************************************************************)
(* A listing never meets "Inconsistent directory: non-existing element"    *)
(* (store_service.cpp, cursor::read), and every artwork or file the DB     *)
(* names can be looked up by the content service, whatever was             *)
(* interrupted, lost or not written on the way.                            *)
(***************************************************************************)
RefsResolveIn(d) ==
    \A k \in ObjectKeys(d) :
        /\ \A i \in DOMAIN d[k].objects : d[k].objects[i] \in DOMAIN d
        /\ d[k].resources \subseteq DOMAIN d
        /\ \A a \in d[k].artwork : a.ref \in DOMAIN d

RefsResolve == RefsResolveIn(db) /\ RefsResolveIn(durable)

(***************************************************************************)
(* The objects form one tree: an object is stored under its own id, its    *)
(* parent is a container with a smaller id that lists it exactly once, and *)
(* no other object lists it.  Browsing up or down therefore ends, and a    *)
(* renderer sees every object in one place (put_items, create_container).  *)
(***************************************************************************)
ProperlyListed(d, k) ==
    LET parent == d[k].parent_id
    IN  /\ parent \in ObjectKeys(d)
        /\ d[parent].data_type = "MediaContainer"
        /\ parent.id < k.id
        /\ \E i \in DOMAIN d[parent].objects :
              \A p \in ObjectKeys(d) : \A j \in DOMAIN d[p].objects :
                  d[p].objects[j] = k <=> p = parent /\ j = i

TreeShapedIn(d) ==
    \A k \in ObjectKeys(d) :
        /\ d[k].id = k
        /\ k = Root \/ ProperlyListed(d, k)

TreeShaped == TreeShapedIn(db) /\ TreeShapedIn(durable)

(***************************************************************************)
(* Every stored resource belongs to exactly one object: none is left over  *)
(* from a folder whose objects were not written, and no two objects share  *)
(* one because an id was handed out twice (store_resource, put_items).     *)
(***************************************************************************)
Uses(d, k) == d[k].resources \union {a.ref : a \in d[k].artwork}

ResourcesOwnedIn(d) ==
    \A r \in DOMAIN d \ ObjectKeys(d) :
        \E owner \in ObjectKeys(d) :
            \A k \in ObjectKeys(d) : r \in Uses(d, k) <=> k = owner

ResourcesOwned == ResourcesOwnedIn(db) /\ ResourcesOwnedIn(durable)

(***************************************************************************)
(* list and put_items refuse ("Container not found", "Parent mismatch")    *)
(* only after a write has failed: whatever is on disk, an undisturbed scan *)
(* ends in no exception but that of a folder which cannot be listed.       *)
(***************************************************************************)
Refuses == \/ pc = "libraries" /\ lib < Len(content) /\ EnterThrows
           \/ pc = "scan" /\ PutThrows

ThrowNeedsFault == Refuses => faults > 0

(***************************************************************************)
(* While a library is scanned the counters are above every id of the DB    *)
(* and of the objects being composed, although each library reads them     *)
(* again and a failed write leaves its ids unused.                         *)
(***************************************************************************)
KeysTaken(type) ==
    {k \in DOMAIN db \union DOMAIN durable \union Ids(composer.items)
            \union Keys(composer.resources) : k.key_type = type}

CountersFresh ==
    step # "idle" =>
        /\ \A k \in KeysTaken(ObjectKeyType) : k.id < next_object_id_
        /\ \A k \in KeysTaken(ResourceKeyType) : k.id < next_resource_id_

(***************************************************************************)
(* The root holds the Movies folder and nothing else, however often        *)
(* libraries are scanned (get_movies_folder_id).                           *)
(***************************************************************************)
OneMoviesFolder ==
    Root \in DOMAIN db =>
        /\ Len(List(Root)) <= 1
        /\ \A i \in DOMAIN List(Root) : IsMoviesFolder(List(Root)[i])

-----------------------------------------------------------------------------
(***************************************************************************)
(* An entry of the DB is written once; after that only a container changes *)
(* and only by objects appended to it.  A power loss alone goes back, and  *)
(* then to the durable DB.                                                 *)
(***************************************************************************)
Kept(k) ==
    /\ k \in DOMAIN db'
    /\ \/ db'[k] = db[k]
       \/ /\ k.key_type = ObjectKeyType
          /\ db[k].data_type = "MediaContainer"
          /\ Len(db[k].objects) < Len(db'[k].objects)
          /\ db'[k] = [db[k] EXCEPT !.objects =
                          @ \o SubSeq(db'[k].objects, Len(@) + 1, Len(db'[k].objects))]

AppendOnly == [][\/ \A k \in DOMAIN db : Kept(k)
                 \/ db' = durable /\ pc' = "down"]_vars

(***************************************************************************)
(* The DB, seen as the tree of its objects, implements MediaLibrary.       *)
(***************************************************************************)
LibrarySpec == Library!Spec

-----------------------------------------------------------------------------
(***************************************************************************)
(* When main() leaves its loop over the libraries, with no fault since the *)
(* DB was created, each video of a library has been published once for     *)
(* each library it can be reached from.                                    *)
(***************************************************************************)
LibrariesOf(dir) == {n \in DOMAIN content : Reaches(tree, content[n].path, dir)}

ItemsIn(d, location) ==
    {k \in ObjectKeys(d) : \E r \in d[k].resources : d[r].location = location}

VideosPublished ==
    \A dir \in Directory : \A v \in DOMAIN tree[dir].videos :
        Cardinality(ItemsIn(db, At(dir, "video", v))) = Cardinality(LibrariesOf(dir))

ScanComplete == pc = "libraries" /\ lib = Len(content) /\ faults = 0 => VideosPublished

(***************************************************************************)
(* However a scan was cut short, by a fault or by a folder that cannot be  *)
(* listed, no video is published more often than libraries reach it: what  *)
(* is started again does not scan into a DB that has something already     *)
(* (main, scan_all).                                                       *)
(***************************************************************************)
NotPublishedTwice ==
    \A k \in ObjectKeys(db) : \A r \in db[k].resources :
        LET location == db[r].location
        IN  location.kind = "video" =>
                Cardinality(ItemsIn(db, location)) <= Cardinality(LibrariesOf(location.dir))

(***************************************************************************)
(* An item plays one video: of the files it lists exactly one is a video,  *)
(* and it has the smallest key, so that it is the first res a renderer is  *)
(* offered; the others are subtitles and its artwork are images, each file *)
(* once, all from the folder of the video (object_composer).               *)
(***************************************************************************)
LocationsOf(keys) == {db[r].location : r \in keys}

ItemPlaysItsVideo ==
    \A k \in ObjectKeys(db) : db[k].data_type = "MediaItem" =>
        LET art == {a.ref : a \in db[k].artwork}
        IN  \E main \in db[k].resources :
              /\ db[main].location.kind = "video"
              /\ \A r \in db[k].resources \ {main} :
                    r.id > main.id /\ db[r].location.kind = "text"
              /\ \A r \in art : db[r].location.kind = "image"
              /\ \A r \in Uses(db, k) : db[r].location.dir = db[main].location.dir
              /\ Cardinality(LocationsOf(Uses(db, k))) = Cardinality(Uses(db, k))

(***************************************************************************)
(* A folder with a poster.jpg or folder.jpg gives artwork to each of its   *)
(* videos, with artwork of their own or not (get_folder_artwork).          *)
(***************************************************************************)
CoverShown ==
    \A k \in ObjectKeys(db) : \A r \in db[k].resources :
        FolderArtwork(tree[db[r].location.dir]) # {} => db[k].artwork # {}

(***************************************************************************)
(* Each step of a scan brings its library nearer to its end, faults or     *)
(* not.  The folder on top of the stack is entered, its videos are         *)
(* composed one by one, and it leaves for good: what is ahead afterwards   *)
(* is what was, without this folder, whatever the order of its subfolders  *)
(* (scan_all, scan_directory).                                             *)
(***************************************************************************)
FoldersAhead ==
    LET closed == ClosedFolders(tree)
    IN  {dir \in Directory : \E i \in DOMAIN directories :
             \A S \in closed : directories[i].path \in S => dir \in S}

ScanAdvances ==
    [][Scan => \/ step = "list" /\ step' = "idle" /\ FoldersAhead = {}
               \/ /\ step = "list" /\ step' = "compose"
                  /\ FoldersAhead' = FoldersAhead
                  /\ Len(composer'.items) = 0
               \/ /\ step = "compose" /\ step' = "compose"
                  /\ FoldersAhead' = FoldersAhead
                  /\ Len(composer'.items) = Len(composer.items) + 1
                  /\ Len(composer'.items) <= Len(tree[Top.path].videos)
               \/ /\ step = "compose" /\ step' = "list"
                  /\ Top.path \in FoldersAhead
                  /\ FoldersAhead' = FoldersAhead \ {Top.path}]_vars

(***************************************************************************)
(* A service that died serves again, unless it is stopped on purpose: no   *)
(* fault sends it into a loop of exceptions, and every scan ends.          *)
(***************************************************************************)
Restarted == (pc = "down") ~> (pc \in {"serve", "stopped"})

-----------------------------------------------------------------------------
(***************************************************************************)
(* Two things the code intends and does not achieve.  main.cpp: "Fresh DB, *)
(* scan." -- what is served has been scanned.  open_db: "Failed to create  *)
(* root container" ends the process -- a DB without a root is not served.  *)
(***************************************************************************)
FreshDbIsScanned == pc = "serve" => VideosPublished

ServesWithRoot == pc = "serve" => ContainerFound(Root)
=============================================================================
