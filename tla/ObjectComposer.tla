--------------------------- MODULE ObjectComposer ---------------------------
(***************************************************************************)
(* object_composer: from the files of one folder, the media object of each *)
(* video with the resources it refers to.                                  *)
(*                                                                         *)
(* A name is the sequence of its words, without the extension.  A listing  *)
(* holds the folder's own stem and its files by mime type, each in the     *)
(* order of the std::map the scanner keeps them in; images are all .jpg,   *)
(* so <<"poster">> stands for the file poster.jpg.  With an error the      *)
(* folder cannot be listed: it may not be read, it is gone since its name  *)
(* was seen, or it has an entry at the end of too many symbolic links.     *)
(***************************************************************************)
EXTENDS StoreService, FiniteSets

LOCAL INSTANCE SequencesExt

CONSTANT Year \* the words that re_year of normalize_title matches

ASSUME DirectoryAssumption == IsFiniteSet(Directory)

ASSUME WordAssumption == {"Movies", "poster", "thumb", "folder"} \subseteq Word

Listing == [stem : Name, videos : Seq(Name), images : Seq(Name),
            texts : Seq(Name), dirs : SUBSET Directory, error : {"no", "yes"}]

StoredResource == [key : ResourceKeySet, location : Location]

(* normalize_title: the year and everything after it are dropped. *)
NormalizeTitle(title) ==
    SubSeq(title, 1,
           Cardinality({i \in DOMAIN title : \A j \in 1 .. i : title[j] \notin Year}))

(* classify_artwork: the type of an artwork with this name, if it has one. *)
ClassifyArtwork(name) ==
    LET has(word) == \E i \in DOMAIN name : name[i] = word
    IN  IF has("poster") THEN {"Poster"}
        ELSE IF has("thumb") THEN {"Thumbnail"} ELSE {}

Suffix(name, prefix) == SubSeq(name, Len(prefix) + 1, Len(name))

(***************************************************************************)
(* An artwork of a folder is one of its images with a type.                *)
(* get_folder_artwork: poster.jpg if there is one, else folder.jpg.        *)
(***************************************************************************)
ImageWithType(l) == [image : DOMAIN l.images, type : ArtworkTypes]

HasImage(l, name) == \E i \in DOMAIN l.images : l.images[i] = name

FolderArtwork(l) ==
    {a \in ImageWithType(l) :
        \/ l.images[a.image] = <<"poster">> /\ a.type = "Poster"
        \/ /\ l.images[a.image] = <<"folder">>
           /\ a.type = "Thumbnail"
           /\ ~HasImage(l, <<"poster">>)}

(* The artwork of a video: its own, or else the folder's. *)
OwnArtwork(l, prefix) ==
    {a \in ImageWithType(l) :
        /\ IsPrefix(prefix, l.images[a.image])
        /\ a.type \in ClassifyArtwork(Suffix(l.images[a.image], prefix))}

ItemArtwork(l, prefix) ==
    IF OwnArtwork(l, prefix) = {} THEN FolderArtwork(l) ELSE OwnArtwork(l, prefix)

Subtitles(l, prefix) == {i \in DOMAIN l.texts : IsPrefix(prefix, l.texts[i])}

(* With a folder name every file of the folder belongs to its one video. *)
ResourcePrefix(l, folder_name, v) == IF folder_name = <<>> THEN l.videos[v] ELSE <<>>

-----------------------------------------------------------------------------
(***************************************************************************)
(* operator(): store_resource hands out consecutive resource identifiers,  *)
(* the video first, then the artwork and the subtitles in name order.      *)
(***************************************************************************)
Rank(i, I) == Cardinality({j \in I : j < i})
Images(art) == {a.image : a \in art}

ResourceCount(l, prefix) ==
    1 + Cardinality(Images(ItemArtwork(l, prefix))) + Cardinality(Subtitles(l, prefix))

MainKey(r) == ResourceKey(r)
ArtworkKey(art, i, r) == ResourceKey(r + 1 + Rank(i, Images(art)))
(* A variant with a seeded fault: the artwork before it is not counted. *)
SubtitleKeyNoArtwork(art, subs, i, r) == ResourceKey(r + 1 + Rank(i, subs))

SubtitleKey(art, subs, i, r) ==
    ResourceKey(r + 1 + Cardinality(Images(art)) + Rank(i, subs))

(* The location of a file of folder dir: its kind and its place in the listing. *)
At(dir, kind, i) == [dir |-> dir, kind |-> kind, index |-> i]

ItemResources(l, dir, prefix, v, r) ==
    LET art == ItemArtwork(l, prefix)
        subs == Subtitles(l, prefix)
    IN  {[key |-> MainKey(r), location |-> At(dir, "video", v)]}
        \union {[key |-> ArtworkKey(art, i, r), location |-> At(dir, "image", i)]
                    : i \in Images(art)}
        \union {[key |-> SubtitleKey(art, subs, i, r), location |-> At(dir, "text", i)]
                    : i \in subs}

ComposeItem(l, folder_name, v, id, parent, r) ==
    LET prefix == ResourcePrefix(l, folder_name, v)
        art == ItemArtwork(l, prefix)
        subs == Subtitles(l, prefix)
    IN  [id |-> id, parent_id |-> parent, data_type |-> "MediaItem",
         dc_title |-> NormalizeTitle(IF folder_name = <<>> THEN prefix ELSE folder_name),
         artwork |-> {[ref |-> ArtworkKey(art, a.image, r), type |-> a.type] : a \in art},
         objects |-> <<>>,
         resources |-> {MainKey(r)} \union {SubtitleKey(art, subs, i, r) : i \in subs}]
=============================================================================
