---------------------------- MODULE MovieScanner ----------------------------
(***************************************************************************)
(* movie_scanner: walks the folders of one library depth first and stores  *)
(* what object_composer makes of them.  scan_all runs to its end before    *)
(* anything else, but each of its put_items calls is a write of its own,   *)
(* so a step here ends where the database has changed: entering the        *)
(* library, listing a folder (with the container of a collection),         *)
(* composing one video, and storing the folder's videos.                   *)
(***************************************************************************)
EXTENDS ObjectComposer

VARIABLES tree,             \* the folders on disk, a function to Listing
          step,             \* "idle", "list" (a folder is next) or "compose"
          next_object_id_,
          next_resource_id_,
          movies_folder_,
          directories,      \* scan_all's stack: [path, parent] records
          use_collections,  \* "no" for the library's own folder, then "yes"
          use_folder_names, \* "yes" or "no", from the library's configuration
          composer          \* the locals of scan_directory while it composes

scanConfigVars == <<use_collections, use_folder_names>>
scannerVars == <<tree, step, next_object_id_, next_resource_id_, movies_folder_,
                 directories, use_collections, use_folder_names, composer>>

NoFolder == ObjectKey(-1)
Top == directories[Len(directories)]

(* What the constructor of movie_scanner and an idle scanner start from. *)
NoComposer == [parent_id |-> NoFolder, folder_name |-> <<>>, subs |-> <<>>,
               items |-> <<>>, resources |-> {}]

NewScanner == /\ step' = "idle"
              /\ next_object_id_' = -1
              /\ next_resource_id_' = -1
              /\ movies_folder_' = NoFolder
              /\ directories' = <<>>
              /\ use_collections' = "no"
              /\ use_folder_names' = "no"
              /\ composer' = NoComposer

ScannerInit == /\ step = "idle"
               /\ next_object_id_ = -1
               /\ next_resource_id_ = -1
               /\ movies_folder_ = NoFolder
               /\ directories = <<>>
               /\ use_collections = "no"
               /\ use_folder_names = "no"
               /\ composer = NoComposer

-----------------------------------------------------------------------------
(* get_movies_folder_id: the first child of the root with the right title. *)
MoviesFolderName == <<"Movies">>

IsMoviesFolder(key) == db[key].dc_title = MoviesFolderName

(* A variant with a seeded fault: every library makes a folder of its own. *)
FolderForEach == {}

KnownMoviesFolder ==
    IF movies_folder_.id > 0 THEN {movies_folder_}
    ELSE IF ~ContainerFound(Root) THEN {}
    ELSE {List(Root)[i] : i \in {n \in DOMAIN List(Root) :
              /\ IsMoviesFolder(List(Root)[n])
              /\ \A m \in 1 .. n - 1 : ~IsMoviesFolder(List(Root)[m])}}

(***************************************************************************)
(* scan_all, up to its loop: the counters are read from the DB again, and  *)
(* the Movies folder is found, or created and remembered even if its write *)
(* fails.                                                                  *)
(***************************************************************************)
(* A variant with a seeded fault: the counter is not read from the DB. *)
NextResourceIdKept == next_resource_id_

FirstResourceId == NextId(ResourceKeyType)

EnterLibrary(path, folder) ==
    /\ step' = "list"
    /\ directories' = <<[path |-> path, parent |-> folder]>>
    /\ movies_folder_' = folder
    /\ next_resource_id_' = FirstResourceId
    /\ use_collections' = "no"
    /\ UNCHANGED <<tree, composer>>

ScanKnownFolder(path, folder_names) ==
    /\ step = "idle"
    /\ \E folder \in KnownMoviesFolder : EnterLibrary(path, folder)
    /\ next_object_id_' = NextId(ObjectKeyType)
    /\ use_folder_names' = folder_names
    /\ UNCHANGED storeVars

ScanNewFolder(path, folder_names) ==
    LET id == NextId(ObjectKeyType)
        folder == Container(ObjectKey(id), Root, MoviesFolderName, {})
    IN  /\ step = "idle"
        /\ KnownMoviesFolder = {}
        /\ id < MaxId
        /\ PutItems(Root, <<folder>>, {})
        /\ EnterLibrary(path, folder.id)
        /\ next_object_id_' = id + 1
        /\ use_folder_names' = folder_names

(* list throws when the root is not there to be searched. *)
EnterThrows == movies_folder_.id <= 0 /\ ~ContainerFound(Root)

-----------------------------------------------------------------------------
(* scan_directory: whether the folder becomes a collection of its own. *)
AddCollection(l) ==
    /\ use_collections = "yes"
    /\ \/ Len(l.videos) > 1
       \/ /\ Len(l.videos) = 0
          /\ FolderArtwork(l) # {}
          /\ l.dirs # {}

FolderNameOf(l) ==
    IF use_folder_names = "yes" /\ Len(l.videos) = 1 THEN l.stem ELSE <<>>

(* directory_iterator lists the subfolders in an order of its own. *)
Orders(S) == {s \in [1 .. Cardinality(S) -> S] :
                 \A i, j \in DOMAIN s : s[i] = s[j] => i = j}

Under(paths, parent) ==
    [i \in DOMAIN paths |-> [path |-> paths[i], parent |-> parent]]

StartComposing(l, parent, subs) ==
    /\ step' = "compose"
    /\ composer' = [parent_id |-> parent, folder_name |-> FolderNameOf(l),
                    subs |-> subs, items |-> <<>>, resources |-> {}]
    /\ UNCHANGED <<tree, movies_folder_, directories, scanConfigVars>>

ListDirectory ==
    LET l == tree[Top.path]
    IN  /\ step = "list"
        /\ directories # <<>>
        /\ l.error = "no"
        /\ ~AddCollection(l)
        /\ \E paths \in Orders(l.dirs) :
              StartComposing(l, Top.parent, Under(paths, Top.parent))
        /\ UNCHANGED <<next_object_id_, next_resource_id_, storeVars>>

(* create_container: the container of a collection with its artwork. *)
CollectionOf(l) ==
    Container(ObjectKey(next_object_id_), Top.parent, l.stem,
              {[ref |-> ResourceKey(next_resource_id_), type |-> a.type]
                   : a \in FolderArtwork(l)})

CollectionResources(l) ==
    {[key |-> ResourceKey(next_resource_id_), location |-> At(Top.path, "image", a.image)]
         : a \in FolderArtwork(l)}

(* Variants with a seeded fault: the id of the artwork is not counted, and *)
(* the key of the collection is taken after the counter has moved on.      *)
NoArtworkIds(l) == 0
KeyAfterCollection == ObjectKey(next_object_id_ + 1)

CollectionKey == ObjectKey(next_object_id_)

ArtworkIds(l) == IF FolderArtwork(l) = {} THEN 0 ELSE 1

(***************************************************************************)
(* The subfolders go under the collection only if it has artwork.  Both    *)
(* hold whether or not the container could be written.                     *)
(***************************************************************************)
SubsParent(l) ==
    IF FolderArtwork(l) = {} THEN Top.parent ELSE CollectionKey

ListCollection ==
    LET l == tree[Top.path]
    IN  /\ step = "list"
        /\ directories # <<>>
        /\ l.error = "no"
        /\ AddCollection(l)
        /\ next_object_id_ < MaxId
        /\ next_resource_id_ < MaxId
        /\ PutItems(Top.parent, <<CollectionOf(l)>>, CollectionResources(l))
        /\ \E paths \in Orders(l.dirs) :
              StartComposing(l, CollectionKey, Under(paths, SubsParent(l)))
        /\ next_object_id_' = next_object_id_ + 1
        /\ next_resource_id_' = next_resource_id_ + ArtworkIds(l)

(* One call of object_composer::operator(), for the next video. *)
ComposeVideo ==
    LET l == tree[Top.path]
        v == Len(composer.items) + 1
        prefix == ResourcePrefix(l, composer.folder_name, v)
    IN  /\ step = "compose"
        /\ v <= Len(l.videos)
        /\ next_object_id_ < MaxId
        /\ next_resource_id_ + ResourceCount(l, prefix) <= MaxId
        /\ composer' = [composer EXCEPT
              !.items = Append(@, ComposeItem(l, composer.folder_name, v,
                                              ObjectKey(next_object_id_),
                                              composer.parent_id, next_resource_id_)),
              !.resources = @ \union ItemResources(l, Top.path, prefix, v,
                                                   next_resource_id_)]
        /\ next_object_id_' = next_object_id_ + 1
        /\ next_resource_id_' = next_resource_id_ + ResourceCount(l, prefix)
        /\ UNCHANGED <<tree, step, movies_folder_, directories, scanConfigVars, storeVars>>

AllComposed == Len(composer.items) = Len(tree[Top.path].videos)

(***************************************************************************)
(* scan_all pops the folder that was listed and pushes its subfolders.     *)
(***************************************************************************)
(* Variants with a seeded fault: the stack is replaced, and a folder with  *)
(* nothing to store is passed over before it is popped.                    *)
ReplaceStack == composer.subs
PopIfStored ==
    IF composer.items = <<>> THEN directories
    ELSE SubSeq(directories, 1, Len(directories) - 1) \o composer.subs

PopThenPush == SubSeq(directories, 1, Len(directories) - 1) \o composer.subs

NextDirectory ==
    /\ step' = "list"
    /\ directories' = PopThenPush
    /\ use_collections' = "yes"
    /\ composer' = NoComposer
    /\ UNCHANGED <<tree, next_object_id_, next_resource_id_, movies_folder_, use_folder_names>>

StoreVideos ==
    /\ step = "compose"
    /\ AllComposed
    /\ composer.items # <<>>
    /\ PutItems(composer.parent_id, composer.items, composer.resources)
    /\ NextDirectory

SkipFolder ==
    /\ step = "compose"
    /\ AllComposed
    /\ composer.items = <<>>
    /\ NextDirectory
    /\ UNCHANGED storeVars

LibraryScanned ==
    /\ step = "list"
    /\ directories = <<>>
    /\ step' = "idle"
    /\ UNCHANGED <<tree, next_object_id_, next_resource_id_, movies_folder_, directories,
                   scanConfigVars, composer, storeVars>>

(* directory_iterator, or is_directory of one of its entries, throws. *)
ListThrows == step = "list" /\ directories # <<>> /\ tree[Top.path].error = "yes"

(* put_items throws out of scan_all. *)
PutThrows ==
    \/ /\ step = "list"
       /\ directories # <<>>
       /\ tree[Top.path].error = "no"
       /\ AddCollection(tree[Top.path])
       /\ PutRefused(Top.parent, <<CollectionOf(tree[Top.path])>>)
    \/ /\ step = "compose"
       /\ AllComposed
       /\ composer.items # <<>>
       /\ PutRefused(composer.parent_id, composer.items)

ScanStep == \/ ListDirectory
            \/ ListCollection
            \/ ComposeVideo
            \/ StoreVideos
            \/ SkipFolder
            \/ LibraryScanned
=============================================================================
