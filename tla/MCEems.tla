------------------------------- MODULE MCEems -------------------------------
(***************************************************************************)
(* Values of the constants of EemsProperties for TLC: small media trees,   *)
(* as sets of inputs that the .cfg files choose from.                      *)
(***************************************************************************)
EXTENDS EemsProperties

Alien  == <<"alien">>
Alien2 == <<"alien", "two">>
Poster == <<"poster">>
FolderJpg == <<"folder">>
AlienThumb == <<"alien", "thumb">>

Folder(stem, videos, images, texts, dirs) ==
    [stem |-> stem, videos |-> videos, images |-> images, texts |-> texts, dirs |-> dirs,
     error |-> "no"]

(* The folder, when it has become one that cannot be listed. *)
Unlistable(folder) == [folder EXCEPT !.error = "yes"]

(* A table of the content array, and what the program makes of the tables. *)
ContentDir(path, folder_names) ==
    [type |-> "movies", path |-> path, use_folder_names |-> folder_names]

Config == INSTANCE Configuration WITH PortModulus <- 65536

OnDisk(trees, tables) ==
    {[tree |-> t, content |-> c] : t \in trees, c \in UNION {Config!LoadDataConfig(s) : s \in tables}}

Words == {"Movies", "poster", "thumb", "folder", "alien", "two", "1979",
          "lib", "saga", "extra", "new"}
Years == {"1979"}
Directories == {"lib", "saga", "extra", "new", "lib2", "saga2", "lib3", "saga3"}

NoFiles == Folder(<<"new">>, <<>>, <<>>, <<>>, {})

(***************************************************************************)
(* A library with a folder of two videos, which becomes a collection with  *)
(* artwork and passes its parenthood on to a folder with one video; and a  *)
(* second library, whose one folder is a video without subfolders.         *)
(***************************************************************************)
NestedTree ==
    [d \in Directories |->
        CASE d = "lib"   -> Folder(<<"lib">>, <<>>, <<>>, <<>>, {"saga"})
          [] d = "saga"  -> Folder(<<"saga">>, <<Alien, Alien2>>, <<Poster>>,
                                   <<Alien2>>, {"extra"})
          [] d = "extra" -> Folder(<<"extra">>, <<Alien>>, <<>>, <<>>, {})
          [] d = "new"   -> Folder(<<"new">>, <<Alien>>, <<>>, <<Alien>>, {})
          [] OTHER       -> NoFiles]

TwoLibraries ==
    OnDisk({NestedTree}, {<<ContentDir("lib", ""), ContentDir("new", "no")>>})

(***************************************************************************)
(* A link in the collection saga leads back to lib.  is_directory follows  *)
(* it, so that each folder of the cycle has one more path, here the name   *)
(* with a number, until one passes too many links (Linux follows 40): the  *)
(* last folder cannot list its link.  A folder that may not be readable    *)
(* is met before the cycle or after it.                                    *)
(***************************************************************************)
Cycle == <<"lib", "saga", "lib2", "saga2", "lib3", "saga3">>

OnCycle(n) ==
    LET below == {Cycle[i] : i \in {n + 1} \intersect DOMAIN Cycle}
        saga == Folder(<<"saga">>, <<Alien, Alien2>>, <<Poster>>, <<>>, below)
    IN  IF n % 2 = 1 THEN Folder(<<"lib">>, <<Alien>>, <<>>, <<>>, below)
        ELSE IF n < Len(Cycle) THEN saga ELSE Unlistable(saga)

LinkedTree(extra) ==
    [d \in Directories |->
        CASE d = "new"   -> Folder(<<"new">>, <<>>, <<FolderJpg>>, <<>>, {"extra", "lib"})
          [] d = "extra" -> extra
          [] OTHER       -> OnCycle(CHOOSE n \in DOMAIN Cycle : Cycle[n] = d)]

Extra == Folder(<<"extra">>, <<Alien>>, <<>>, <<>>, {})

LinkedOrNested ==
    TwoLibraries
        \union OnDisk({LinkedTree(Extra), LinkedTree(Unlistable(Extra))},
                      {<<ContentDir("new", "yes")>>, <<ContentDir("lib", "no")>>})

(***************************************************************************)
(* Every combination of files in a folder of a library, with subfolders    *)
(* that give a collection something to adopt, and overlapping libraries.   *)
(***************************************************************************)
VideoLists == {<<>>, <<Alien>>, <<Alien, Alien2>>, <<<<"1979", "two">>, Alien>>}
ImageLists == {<<>>, <<Poster>>, <<FolderJpg>>, <<FolderJpg, Poster>>,
               <<AlienThumb, Poster>>, <<AlienThumb, <<"alien", "two", "poster">>>>}
TextLists  == {<<>>, <<Alien, Alien2>>}

VariedTree(folder, sub) ==
    [d \in Directories |->
        CASE d = "lib"   -> Folder(<<>>, <<Alien>>, <<Poster>>, <<>>, {"saga", "new"})
          [] d = "saga"  -> folder
          [] d = "extra" -> sub
          [] d = "new"   -> Folder(<<"new">>, <<>>, <<FolderJpg>>, <<>>, {})
          [] OTHER       -> NoFiles]

VariedTrees ==
    {VariedTree(Folder(<<"saga">>, videos, images, texts, dirs),
                Folder(<<"extra">>, more, <<>>, <<>>, {})) :
        videos \in VideoLists, images \in ImageLists, texts \in TextLists,
        dirs \in {{}, {"extra"}}, more \in {<<Alien>>, <<Alien, Alien2>>}}

VariedInputs ==
    OnDisk(VariedTrees,
           {<<ContentDir("lib", "yes")>>, <<ContentDir("lib", "no"), ContentDir("saga", "")>>})
=============================================================================
