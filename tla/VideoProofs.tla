---------------------------- MODULE VideoProofs ----------------------------
(***************************************************************************)
(* What is published is right: on top of the tree of TreeProofs, that an   *)
(* item of the DB plays one video with files of its folder, and that a scan*)
(* publishes each video once for each library that reaches it.             *)
(***************************************************************************)
EXTENDS TreeProofs

(***************************************************************************)
(* The files that the keys of resources stand for, in the DB and in what   *)
(* is composed.                                                            *)
(***************************************************************************)
FilesIn(d) == [k \in DOMAIN d \ ObjectKeys(d) |-> d[k].location]

FilesOf(resources) ==
    [k \in Keys(resources) |-> (CHOOSE r \in resources : r.key = k).location]

(* The object plays the file of the key main, and has a cover if there is one. *)
Plays(object, files, main) ==
    /\ files[main].kind = "video"
    /\ \A k \in object.resources \ {main} : k.id > main.id /\ files[k].kind = "text"
    /\ \A a \in object.artwork : files[a.ref].kind = "image"
    /\ \A k \in UsesOf(object) : files[k].dir = files[main].dir
    /\ \A j, k \in UsesOf(object) : files[j] = files[k] => j = k

Covers(t, object, files, main) ==
    FolderArtwork(t[files[main].dir]) # {} => object.artwork # {}

(* A container offers nothing to play. *)
OnlyImages(object, files) ==
    /\ object.resources = {}
    /\ \A a \in object.artwork : files[a.ref].kind = "image"

Good(t, object, files) ==
    IF object.data_type = "MediaContainer" THEN OnlyImages(object, files)
    ELSE \E main \in object.resources : Plays(object, files, main) /\ Covers(t, object, files, main)

AllGood(t, d) == \A k \in ObjectKeys(d) : Good(t, d[k], FilesIn(d))

(* The i-th composed item plays the i-th video of the folder. *)
KeyedOnce(resources) == \A q, r \in resources : q.key = r.key => q = r

PlaysVideo(t, item, files, video) ==
    /\ item.data_type = "MediaItem"
    /\ \E main \in item.resources :
          Plays(item, files, main) /\ Covers(t, item, files, main) /\ files[main] = video

ComposedGood ==
    /\ KeyedOnce(composer.resources)
    /\ \A i \in DOMAIN composer.items :
          PlaysVideo(tree, composer.items[i], FilesOf(composer.resources), At(Top.path, "video", i))

FilesInv == AllGood(tree, db) /\ AllGood(tree, durable) /\ ComposedGood

-----------------------------------------------------------------------------
(***************************************************************************)
(* The stack while a library is scanned: its folders are of the library,   *)
(* and no folder is below two of them.                                     *)
(***************************************************************************)
PathsInput(t) ==
    \A dir \in Directory : \A sub \in t[dir].dirs :
        /\ ~Reaches(t, sub, dir)
        /\ \A other \in Directory : sub \in t[other].dirs => other = dir

Apart(stack) ==
    \A i, j \in DOMAIN stack : \A dir \in Directory :
        /\ Reaches(tree, stack[i].path, dir)
        /\ Reaches(tree, stack[j].path, dir)
        => i = j

SubsListed ==
    /\ {composer.subs[i].path : i \in DOMAIN composer.subs} = tree[Top.path].dirs
    /\ \A i, j \in DOMAIN composer.subs : composer.subs[i].path = composer.subs[j].path => i = j

FromLibrary(path, stack) == \A i \in DOMAIN stack : Reaches(tree, path, stack[i].path)

StackInv ==
    /\ PathsInput(tree)
    /\ Apart(directories)
    /\ step = "compose" => SubsListed
    /\ pc = "scan" =>
           /\ step # "idle"
           /\ lib > 0
           /\ FromLibrary(content[lib].path, directories)

(* The libraries that have been scanned as far as the folder. *)
Ahead(stack, dir) == \E i \in DOMAIN stack : Reaches(tree, stack[i].path, dir)

Pending(dir) == pc = "scan" /\ Ahead(directories, dir)

ScannedIn(dir) ==
    {n \in 1 .. lib : Reaches(tree, content[n].path, dir) /\ (n = lib => ~Pending(dir))}

TimesPublished(d, dir, v) == Cardinality(ItemsIn(d, At(dir, "video", v)))

(***************************************************************************)
(* No video is published more often than libraries reach it, and while a   *)
(* scan is under way, not more often than those that have reached it yet;  *)
(* without a fault, just as often.                                         *)
(***************************************************************************)
Bounded(d) ==
    \A dir \in Directory : \A v \in Nat :
        TimesPublished(d, dir, v) <= Cardinality(LibrariesOf(dir))

Counted ==
    \A dir \in Directory : \A v \in Nat :
        /\ TimesPublished(db, dir, v) <= Cardinality(ScannedIn(dir))
        /\ faults = 0 /\ v \in DOMAIN tree[dir].videos =>
              TimesPublished(db, dir, v) = Cardinality(ScannedIn(dir))

Scanning == pc \in {"libraries", "scan"}

CountInv == Bounded(db) /\ Bounded(durable) /\ (Scanning => Counted)

LibInv == ~Scanning => lib = 0

PublishedInv == StackInv /\ CountInv /\ LibInv

-----------------------------------------------------------------------------
(***************************************************************************)
(* What is reached in a tree, from the sets closed under its subfolders.   *)
(***************************************************************************)
LEMMA ReachedBelow ==
    ASSUME NEW t \in [Directory -> Listing], NEW dir \in Directory
    PROVE  /\ t[dir].dirs \subseteq Directory
           /\ Reaches(t, dir, dir)
           /\ \A sub \in t[dir].dirs : Reaches(t, dir, sub)
           /\ \A path, other : Reaches(t, path, dir) /\ Reaches(t, dir, other) => Reaches(t, path, other)
<1>1. t[dir].dirs \subseteq Directory
  BY ListingTyped
<1> QED
  BY <1>1 DEF Reaches, ClosedFolders

(* A folder below another is it, or below one of its subfolders. *)
LEMMA ReachedThroughSub ==
    ASSUME NEW t \in [Directory -> Listing], NEW path \in Directory, NEW dir \in Directory,
           Reaches(t, path, dir)
    PROVE  dir = path \/ \E sub \in t[path].dirs : Reaches(t, sub, dir)
<1> DEFINE S == {path} \union {x \in Directory : \E sub \in t[path].dirs : Reaches(t, sub, x)}
<1>1. ASSUME NEW x \in S, NEW y \in t[x].dirs PROVE y \in S
  <2>1. x \in Directory /\ y \in Directory /\ Reaches(t, x, y) /\ Reaches(t, y, y)
    BY <1>1, ReachedBelow
  <2>2. CASE x = path
    BY <2>1, <2>2, <1>1
  <2>3. CASE x # path
    <3>1. PICK sub \in t[path].dirs : Reaches(t, sub, x)
      BY <2>3, <1>1
    <3>2. Reaches(t, sub, y)
      BY <2>1, <3>1, ReachedBelow
    <3> QED
      BY <2>1, <3>2
  <2> QED
    BY <2>2, <2>3
<1>2. S \in ClosedFolders(t)
  BY <1>1 DEF ClosedFolders
<1>3. dir \in S
  BY <1>2 DEF Reaches
<1> QED
  BY <1>3

(* And it is it, or a subfolder of one below it. *)
LEMMA ReachedAsSub ==
    ASSUME NEW t \in [Directory -> Listing], NEW path \in Directory, NEW dir \in Directory,
           Reaches(t, path, dir)
    PROVE  dir = path \/ \E over \in Directory : Reaches(t, path, over) /\ dir \in t[over].dirs
<1> DEFINE S == {path} \union {x \in Directory :
                    \E over \in Directory : Reaches(t, path, over) /\ x \in t[over].dirs}
<1>1. ASSUME NEW x \in S, NEW y \in t[x].dirs PROVE y \in S
  <2>1. x \in Directory /\ y \in Directory /\ Reaches(t, x, x) /\ Reaches(t, path, path)
    BY <1>1, ReachedBelow
  <2>2. Reaches(t, path, x)
    <3>1. CASE x = path
      BY <3>1, <2>1
    <3>2. CASE x # path
      <4>1. PICK over \in Directory : Reaches(t, path, over) /\ x \in t[over].dirs
        BY <3>2, <1>1
      <4> QED
        BY <4>1, ReachedBelow
    <3> QED
      BY <3>1, <3>2
  <2> QED
    BY <2>1, <2>2, <1>1
<1>2. S \in ClosedFolders(t)
  BY <1>1 DEF ClosedFolders
<1>3. dir \in S
  BY <1>2 DEF Reaches
<1> QED
  BY <1>3

(* Of two folders above a third, one is above the other. *)
LEMMA ReachedFromBoth ==
    ASSUME NEW t \in [Directory -> Listing], PathsInput(t),
           NEW p \in Directory, NEW q \in Directory, NEW dir \in Directory,
           Reaches(t, p, dir), Reaches(t, q, dir)
    PROVE  Reaches(t, p, q) \/ Reaches(t, q, p)
<1> SUFFICES ASSUME ~Reaches(t, p, q), ~Reaches(t, q, p) PROVE FALSE
  OBVIOUS
<1> DEFINE S == {x \in Directory : Reaches(t, p, x) /\ ~Reaches(t, q, x)}
<1>1. p \in S
  BY ReachedBelow
<1>2. ASSUME NEW x \in S, NEW y \in t[x].dirs PROVE y \in S
  <2>1. y \in Directory /\ x \in Directory /\ Reaches(t, p, y)
    BY <1>2, ReachedBelow
  <2>2. ASSUME Reaches(t, q, y) PROVE FALSE
    <3>1. y # q
      BY <2>1
    <3>2. PICK over \in Directory : Reaches(t, q, over) /\ y \in t[over].dirs
      BY <2>1, <2>2, <3>1, ReachedAsSub
    <3>3. over = x
      BY <1>2, <2>1, <3>2 DEF PathsInput
    <3> QED
      BY <3>2, <3>3
  <2> QED
    BY <2>1, <2>2
<1>3. S \in ClosedFolders(t)
  BY <1>2 DEF ClosedFolders
<1>4. dir \in S
  BY <1>1, <1>3 DEF Reaches
<1> QED
  BY <1>4

(* Nothing is below two subfolders of a folder, nor above it and below one. *)
LEMMA SubsApart ==
    ASSUME NEW t \in [Directory -> Listing], PathsInput(t), NEW over \in Directory,
           NEW p \in t[over].dirs, NEW q \in t[over].dirs, NEW dir \in Directory,
           Reaches(t, p, dir), Reaches(t, q, dir)
    PROVE  p = q
<1>1. ASSUME NEW a \in t[over].dirs, NEW b \in t[over].dirs, Reaches(t, a, b), a # b PROVE FALSE
  <2>1. a \in Directory /\ b \in Directory
    BY ReachedBelow
  <2>2. PICK above \in Directory : Reaches(t, a, above) /\ b \in t[above].dirs
    BY <1>1, <2>1, ReachedAsSub
  <2>3. above = over
    BY <2>2 DEF PathsInput
  <2> QED
    BY <2>2, <2>3 DEF PathsInput
<1>2. p \in Directory /\ q \in Directory
  BY ReachedBelow
<1>3. Reaches(t, p, q) \/ Reaches(t, q, p)
  BY <1>2, ReachedFromBoth
<1> QED
  BY <1>1, <1>3

-----------------------------------------------------------------------------
(***************************************************************************)
(* The stack, when its top is popped and the subfolders are pushed.        *)
(***************************************************************************)
LEMMA OrdersCover ==
    ASSUME NEW S \in SUBSET Directory, NEW paths \in Orders(S)
    PROVE  /\ {paths[i] : i \in DOMAIN paths} = S
           /\ \A i, j \in DOMAIN paths : paths[i] = paths[j] => i = j
<1>1. IsFiniteSet(S)
  BY DirectoryAssumption, FS_Subset
<1>2. /\ paths \in [1 .. Cardinality(S) -> S] /\ DOMAIN paths = 1 .. Cardinality(S)
      /\ \A i, j \in 1 .. Cardinality(S) : paths[i] = paths[j] => i = j
  BY DEF Orders
<1>3. \A d \in S : \E i \in 1 .. Cardinality(S) : paths[i] = d
  BY <1>1, <1>2, NumberingComplete
<1> QED
  BY <1>2, <1>3

LEMMA UnderCovers ==
    ASSUME NEW S \in SUBSET Directory, NEW paths \in Orders(S), NEW parent, NEW subs,
           subs = Under(paths, parent)
    PROVE  /\ {subs[i].path : i \in DOMAIN subs} = S
           /\ \A i, j \in DOMAIN subs : subs[i].path = subs[j].path => i = j
<1>1. DOMAIN subs = DOMAIN paths /\ \A i \in DOMAIN paths : subs[i].path = paths[i]
  BY DEF Under
<1> QED
  BY <1>1, OrdersCover

LEMMA StackTyped ==
    ASSUME ScannerTypeOK
    PROVE  /\ tree \in [Directory -> Listing]
           /\ \A i \in DOMAIN directories : directories[i].path \in Directory
           /\ \A i \in DOMAIN composer.subs : composer.subs[i].path \in Directory
<1>1. /\ directories \in Seq(StackEntry) /\ composer.subs \in Seq(StackEntry)
      /\ \A entry \in StackEntry : entry.path \in Directory
  BY DEF ScannerTypeOK, Composer, StackEntry
<1> QED
  BY <1>1, ElementOfSeq, LenProperties DEF ScannerTypeOK

(* An entry of the new stack is one of before, or a subfolder of the top. *)
LEMMA PushedBelow ==
    ASSUME ScannerTypeOK, directories # <<>>, SubsListed
    PROVE  LET n == Len(directories) - 1
           IN  /\ n + 1 \in DOMAIN directories /\ directories[n + 1].path = Top.path
               /\ Top.path \in Directory
               /\ \A i \in DOMAIN PopThenPush :
                     /\ PopThenPush[i].path \in Directory
                     /\ \/ /\ i \in DOMAIN directories /\ i # n + 1
                           /\ PopThenPush[i].path = directories[i].path
                        \/ /\ i - n \in DOMAIN composer.subs /\ i = n + (i - n)
                           /\ PopThenPush[i].path = composer.subs[i - n].path
                           /\ PopThenPush[i].path \in tree[Top.path].dirs
<1> DEFINE n == Len(directories) - 1
<1>1. /\ n \in Nat /\ n + 1 \in DOMAIN directories /\ Top = directories[n + 1]
      /\ \A i \in DOMAIN PopThenPush :
             \/ /\ i \in 1 .. n /\ i \in DOMAIN directories /\ PopThenPush[i] = directories[i]
             \/ /\ i \notin 1 .. n /\ i - n \in DOMAIN composer.subs /\ i = n + (i - n)
                /\ PopThenPush[i] = composer.subs[i - n]
  BY PushedEntries
<1> HIDE DEF n
<1>2. \A i \in 1 .. n : i # n + 1
  BY <1>1
<1>3. \A i \in DOMAIN composer.subs : composer.subs[i].path \in tree[Top.path].dirs
  BY DEF SubsListed
<1> QED
  BY <1>1, <1>2, <1>3, StackTyped DEF n

LEMMA PushKeepsApart ==
    ASSUME ScannerTypeOK, directories # <<>>, PathsInput(tree), Apart(directories), SubsListed
    PROVE  Apart(PopThenPush)
<1> DEFINE n == Len(directories) - 1
<1>1. tree \in [Directory -> Listing] /\ Top.path \in Directory
  BY StackTyped, PushedBelow
<1> SUFFICES ASSUME NEW i \in DOMAIN PopThenPush, NEW j \in DOMAIN PopThenPush,
                    NEW dir \in Directory,
                    Reaches(tree, PopThenPush[i].path, dir), Reaches(tree, PopThenPush[j].path, dir)
             PROVE  i = j
  BY DEF Apart
<1> DEFINE Old(m) == /\ m \in DOMAIN directories /\ m # n + 1
                     /\ Reaches(tree, directories[m].path, dir)
           New(m) == /\ m - n \in DOMAIN composer.subs /\ m = n + (m - n)
                     /\ composer.subs[m - n].path \in tree[Top.path].dirs
                     /\ Reaches(tree, composer.subs[m - n].path, dir)
<1>2. (Old(i) \/ New(i)) /\ (Old(j) \/ New(j))
  BY PushedBelow
<1>3. n + 1 \in DOMAIN directories /\ directories[n + 1].path = Top.path
  BY PushedBelow
<1> HIDE DEF n
<1>4. ASSUME NEW a, NEW b, Old(a), New(b) PROVE FALSE
  <2>1. Reaches(tree, Top.path, dir)
    BY <1>1, <1>4, ReachedBelow
  <2> QED
    BY <1>3, <1>4, <2>1 DEF Apart
<1>5. CASE Old(i) /\ Old(j)
  BY <1>5 DEF Apart
<1>6. CASE New(i) /\ New(j)
  <2>1. composer.subs[i - n].path = composer.subs[j - n].path
    BY <1>1, <1>6, SubsApart
  <2>2. i - n = j - n
    BY <1>6, <2>1 DEF SubsListed
  <2> QED
    BY <1>6, <2>2
<1> QED
  BY <1>2, <1>4, <1>5, <1>6

(* The top is done with, and no other folder. *)
LEMMA PushedAhead ==
    ASSUME ScannerTypeOK, directories # <<>>, PathsInput(tree), Apart(directories), SubsListed
    PROVE  /\ Ahead(directories, Top.path)
           /\ ~Ahead(PopThenPush, Top.path)
           /\ \A dir \in Directory \ {Top.path} :
                 Ahead(PopThenPush, dir) <=> Ahead(directories, dir)
<1> DEFINE n == Len(directories) - 1
<1>1. /\ tree \in [Directory -> Listing] /\ Top.path \in Directory
      /\ n + 1 \in DOMAIN directories /\ directories[n + 1].path = Top.path
      /\ Reaches(tree, Top.path, Top.path)
  BY StackTyped, PushedBelow, ReachedBelow
<1>2. Ahead(directories, Top.path)
  BY <1>1 DEF Ahead
<1>3. ASSUME Ahead(PopThenPush, Top.path) PROVE FALSE
  <2>1. PICK i \in DOMAIN PopThenPush : Reaches(tree, PopThenPush[i].path, Top.path)
    BY <1>3 DEF Ahead
  <2>2. CASE /\ i \in DOMAIN directories /\ i # n + 1
             /\ PopThenPush[i].path = directories[i].path
    BY <2>1, <2>2, <1>1 DEF Apart
  <2>3. CASE PopThenPush[i].path \in tree[Top.path].dirs
    BY <2>1, <2>3, <1>1 DEF PathsInput
  <2> QED
    BY <2>2, <2>3, PushedBelow
<1>4. ASSUME NEW dir \in Directory, dir # Top.path, Ahead(PopThenPush, dir)
      PROVE  Ahead(directories, dir)
  <2>1. PICK i \in DOMAIN PopThenPush : Reaches(tree, PopThenPush[i].path, dir)
    BY <1>4 DEF Ahead
  <2>2. CASE i \in DOMAIN directories /\ PopThenPush[i].path = directories[i].path
    BY <2>1, <2>2 DEF Ahead
  <2>3. CASE PopThenPush[i].path \in tree[Top.path].dirs
    <3>1. Reaches(tree, Top.path, dir)
      BY <1>1, <2>1, <2>3, ReachedBelow
    <3> QED
      BY <1>1, <3>1 DEF Ahead
  <2> QED
    BY <2>2, <2>3, PushedBelow
<1>5. ASSUME NEW dir \in Directory, dir # Top.path, Ahead(directories, dir)
      PROVE  Ahead(PopThenPush, dir)
  <2>1. PICK i \in DOMAIN directories : Reaches(tree, directories[i].path, dir)
    BY <1>5 DEF Ahead
  <2>2. CASE i \in 1 .. n
    <3>1. i \in DOMAIN PopThenPush /\ PopThenPush[i] = directories[i]
      BY <2>2, PushedEntries
    <3> QED
      BY <2>1, <3>1 DEF Ahead
  <2>3. CASE i = n + 1
    <3>1. PICK sub \in tree[Top.path].dirs : Reaches(tree, sub, dir)
      BY <1>1, <1>5, <2>1, <2>3, ReachedThroughSub
    <3>2. PICK m \in DOMAIN composer.subs : sub = composer.subs[m].path
      BY DEF SubsListed
    <3>3. n + m \in DOMAIN PopThenPush /\ PopThenPush[n + m] = composer.subs[m]
      BY PushedEntries
    <3> QED
      BY <3>1, <3>2, <3>3 DEF Ahead
  <2> QED
    BY <2>2, <2>3, PushedEntries
<1> QED
  BY <1>2, <1>3, <1>4, <1>5

LEMMA PushFromLibrary ==
    ASSUME ScannerTypeOK, directories # <<>>, SubsListed,
           NEW path, FromLibrary(path, directories)
    PROVE  FromLibrary(path, PopThenPush) /\ Reaches(tree, path, Top.path)
<1>1. tree \in [Directory -> Listing] /\ Top.path \in Directory
  BY StackTyped, PushedBelow
<1>2. Reaches(tree, path, Top.path)
  BY PushedBelow DEF FromLibrary
<1>3. \A sub \in tree[Top.path].dirs : Reaches(tree, path, sub)
  BY <1>1, <1>2, ReachedBelow
<1>4. \A i \in DOMAIN PopThenPush : \/ PopThenPush[i].path \in tree[Top.path].dirs
                                   \/ /\ i \in DOMAIN directories
                                      /\ PopThenPush[i].path = directories[i].path
  BY PushedBelow
<1> QED
  BY <1>2, <1>3, <1>4 DEF FromLibrary

-----------------------------------------------------------------------------
(***************************************************************************)
(* object_composer numbers the files of an item without repetition, and    *)
(* the video first.                                                        *)
(***************************************************************************)
LEMMA RankIncreases ==
    ASSUME NEW n \in Nat, NEW I \in SUBSET (1 .. n), NEW i \in I, NEW j \in I, i < j
    PROVE  Rank(i, I) < Rank(j, I)
<1> DEFINE P == {x \in I : x < i}
           Q == {x \in I : x < j}
<1>1. IsFiniteSet(Q)
  <2>1. IsFiniteSet(1 .. n)
    BY FS_Interval
  <2> QED
    BY <2>1, FS_Subset
<1>2. P \in SUBSET Q /\ i \in Q /\ i \notin P
  <2>1. \A x \in I : x \in Int
    OBVIOUS
  <2>2. i \in Int /\ j \in Int /\ \A x \in I : x < i => x < j
    BY <2>1
  <2>3. ~(i < i)
    BY <2>2
  <2> QED
    BY <2>2, <2>3
<1>3. IsFiniteSet(P) /\ Cardinality(P) <= Cardinality(Q) /\ Cardinality(P) # Cardinality(Q)
  BY <1>1, <1>2, FS_Subset
<1>4. Cardinality(P) \in Nat /\ Cardinality(Q) \in Nat
  BY <1>1, <1>3, FS_CardinalityType
<1> QED
  BY <1>3, <1>4 DEF Rank

LEMMA RankOnce ==
    ASSUME NEW n \in Nat, NEW I \in SUBSET (1 .. n), NEW i \in I, NEW j \in I,
           Rank(i, I) = Rank(j, I)
    PROVE  i = j
<1>1. i \in Int /\ j \in Int
  OBVIOUS
<1>2. Rank(i, I) \in Int
  <2>1. Cardinality(I) \in Nat /\ Rank(i, I) \in 0 .. Cardinality(I) - 1
    BY RankInside
  <2> QED
    BY <2>1
<1>3. ~(Rank(i, I) < Rank(j, I)) /\ ~(Rank(j, I) < Rank(i, I))
  BY <1>2
<1>4. ~(i < j)
  BY <1>3, RankIncreases
<1>5. ~(j < i)
  BY <1>3, RankIncreases
<1> QED
  BY <1>1, <1>4, <1>5

LEMMA ItemKeysApart ==
    ASSUME NEW l \in Listing, NEW prefix, NEW r \in Nat
    PROVE  LET art == ItemArtwork(l, prefix)
               subs == Subtitles(l, prefix)
           IN  /\ \A i \in Images(art) : ArtworkKey(art, i, r) # MainKey(r)
               /\ \A i \in subs : SubtitleKey(art, subs, i, r).id > MainKey(r).id
               /\ \A i \in Images(art) : \A j \in subs :
                     ArtworkKey(art, i, r) # SubtitleKey(art, subs, j, r)
               /\ \A i, j \in Images(art) : ArtworkKey(art, i, r) = ArtworkKey(art, j, r) => i = j
               /\ \A i, j \in subs :
                     SubtitleKey(art, subs, i, r) = SubtitleKey(art, subs, j, r) => i = j
<1> DEFINE art == ItemArtwork(l, prefix)
           subs == Subtitles(l, prefix)
           I == Images(art)
           a == Cardinality(I)
<1>1. PICK n \in Nat : DOMAIN l.images = 1 .. n
  BY ListingTyped
<1>2. PICK m \in Nat : DOMAIN l.texts = 1 .. m
  BY ListingTyped
<1>3. I \in SUBSET (1 .. n) /\ subs \in SUBSET (1 .. m)
  BY <1>1, <1>2, ArtworkOfListing DEF Images, ImageWithType, Subtitles
<1>4. /\ a \in Nat /\ \A i \in I : Rank(i, I) \in 0 .. a - 1
      /\ \A i \in subs : Rank(i, subs) \in Nat
  <2>1. a \in Nat /\ \A i \in I : Rank(i, I) \in 0 .. a - 1
    BY <1>3, RankInside
  <2>2. /\ Cardinality(subs) \in Nat
        /\ \A i \in subs : Rank(i, subs) \in 0 .. Cardinality(subs) - 1
    BY <1>3, RankInside
  <2> QED
    BY <2>1, <2>2
<1>5. /\ MainKey(r).id = r
      /\ \A i \in I : ArtworkKey(art, i, r).id = r + 1 + Rank(i, I)
      /\ \A i \in subs : SubtitleKey(art, subs, i, r).id = r + 1 + a + Rank(i, subs)
  BY DEF MainKey, ArtworkKey, SubtitleKey, ResourceKey, LibraryKey
<1>6. /\ \A i, j \in I : Rank(i, I) = Rank(j, I) => i = j
      /\ \A i, j \in subs : Rank(i, subs) = Rank(j, subs) => i = j
  BY <1>3, RankOnce
<1> HIDE DEF a, I, art, subs
<1>7. \A i \in I : ArtworkKey(art, i, r) # MainKey(r)
  BY <1>4, <1>5
<1>8. \A i \in subs : SubtitleKey(art, subs, i, r).id > MainKey(r).id
  BY <1>4, <1>5
<1>9. \A i \in I : \A j \in subs : ArtworkKey(art, i, r) # SubtitleKey(art, subs, j, r)
  BY <1>4, <1>5
<1>10. ASSUME NEW i \in I, NEW j \in I, ArtworkKey(art, i, r) = ArtworkKey(art, j, r)
       PROVE  i = j
  <2>1. r + 1 + Rank(i, I) = r + 1 + Rank(j, I)
    BY <1>5, <1>10
  <2>2. Rank(i, I) = Rank(j, I)
    BY <2>1, <1>4
  <2> QED
    BY <2>2, <1>6
<1>11. ASSUME NEW i \in subs, NEW j \in subs,
              SubtitleKey(art, subs, i, r) = SubtitleKey(art, subs, j, r)
       PROVE  i = j
  <2>1. r + 1 + a + Rank(i, subs) = r + 1 + a + Rank(j, subs)
    BY <1>5, <1>11
  <2>2. Rank(i, subs) = Rank(j, subs)
    BY <2>1, <1>4
  <2> QED
    BY <2>2, <1>6
<1> QED
  BY <1>7, <1>8, <1>9, <1>10, <1>11 DEF I, art, subs

LEMMA FileOfKey ==
    ASSUME NEW resources, KeyedOnce(resources), NEW r \in resources
    PROVE  r.key \in Keys(resources) /\ FilesOf(resources)[r.key] = r.location
<1>1. r.key \in Keys(resources)
  BY DEF Keys
<1>2. (CHOOSE q \in resources : q.key = r.key) = r
  BY DEF KeyedOnce
<1> QED
  BY <1>1, <1>2 DEF FilesOf

(* operator(): the item of the v-th video plays it, from the files it is stored with. *)
LEMMA ComposedPlays ==
    ASSUME ScannerTypeOK, NEW dir \in Directory, NEW folder_name, NEW v, NEW id, NEW parent,
           NEW r \in Nat
    PROVE  LET l == tree[dir]
               resources == ItemResources(l, dir, ResourcePrefix(l, folder_name, v), v, r)
           IN  /\ KeyedOnce(resources)
               /\ PlaysVideo(tree, ComposeItem(l, folder_name, v, id, parent, r),
                             FilesOf(resources), At(dir, "video", v))
<1> DEFINE l == tree[dir]
           prefix == ResourcePrefix(l, folder_name, v)
           art == ItemArtwork(l, prefix)
           subs == Subtitles(l, prefix)
           main == MainKey(r)
           ArtKey(i) == ArtworkKey(art, i, r)
           SubKey(i) == SubtitleKey(art, subs, i, r)
           Video == [key |-> main, location |-> At(dir, "video", v)]
           Image(i) == [key |-> ArtKey(i), location |-> At(dir, "image", i)]
           Text(i) == [key |-> SubKey(i), location |-> At(dir, "text", i)]
           resources == ItemResources(l, dir, prefix, v, r)
           files == FilesOf(resources)
           item == ComposeItem(l, folder_name, v, id, parent, r)
<1>1. l \in Listing
  BY DEF ScannerTypeOK
<1>2. /\ \A i \in Images(art) : ArtKey(i) # main
      /\ \A i \in subs : SubKey(i).id > main.id
      /\ main.id = r
      /\ \A i \in Images(art) : \A j \in subs : ArtKey(i) # SubKey(j)
      /\ \A i, j \in Images(art) : ArtKey(i) = ArtKey(j) => i = j
      /\ \A i, j \in subs : SubKey(i) = SubKey(j) => i = j
  BY <1>1, ItemKeysApart DEF MainKey, ResourceKey, LibraryKey
<1>3. resources = {Video} \union {Image(i) : i \in Images(art)} \union {Text(i) : i \in subs}
  BY DEF ItemResources
<1>4. /\ item.data_type = "MediaItem"
      /\ item.artwork = {[ref |-> ArtKey(a.image), type |-> a.type] : a \in art}
      /\ item.resources = {main} \union {SubKey(i) : i \in subs}
  BY DEF ComposeItem
<1>5. /\ Video.key = main /\ Video.location = At(dir, "video", v)
      /\ \A i : Image(i).key = ArtKey(i) /\ Image(i).location = At(dir, "image", i)
      /\ \A i : Text(i).key = SubKey(i) /\ Text(i).location = At(dir, "text", i)
  OBVIOUS
<1>6. \A kind, i : /\ At(dir, kind, i).dir = dir /\ At(dir, kind, i).kind = kind
                   /\ At(dir, kind, i).index = i
  BY DEF At
<1>7. art # {} \/ FolderArtwork(l) = {}
  BY DEF ItemArtwork
<1>8. \A a \in art : a.image \in Images(art)
  BY DEF Images
<1>9. \A i \in subs : SubKey(i) # main
  BY <1>2
<1> HIDE DEF main, ArtKey, SubKey, Video, Image, Text, resources, item, art, subs, l
<1>10. /\ Video \in resources
       /\ \A i \in Images(art) : Image(i) \in resources
       /\ \A i \in subs : Text(i) \in resources
       /\ \A q \in resources : \/ q = Video
                               \/ \E i \in Images(art) : q = Image(i)
                               \/ \E i \in subs : q = Text(i)
  BY <1>3
<1>11. KeyedOnce(resources)
  BY <1>2, <1>5, <1>9, <1>10 DEF KeyedOnce
<1>12. /\ files[main] = At(dir, "video", v)
       /\ \A i \in Images(art) : files[ArtKey(i)] = At(dir, "image", i)
       /\ \A i \in subs : files[SubKey(i)] = At(dir, "text", i)
  BY <1>5, <1>10, <1>11, FileOfKey
<1> HIDE DEF files
<1>13. \A k \in item.resources : k = main \/ \E i \in subs : k = SubKey(i)
  BY <1>4
<1>14. \A a \in item.artwork : \E i \in Images(art) : a.ref = ArtKey(i)
  BY <1>4, <1>8
<1>15. \A k \in UsesOf(item) : \/ k = main
                               \/ \E i \in Images(art) : k = ArtKey(i)
                               \/ \E i \in subs : k = SubKey(i)
  BY <1>13, <1>14 DEF UsesOf
<1>16. Plays(item, files, main)
  <2>1. files[main].kind = "video"
    BY <1>6, <1>12
  <2>2. \A k \in item.resources \ {main} : k.id > main.id /\ files[k].kind = "text"
    BY <1>2, <1>6, <1>12, <1>13
  <2>3. \A a \in item.artwork : files[a.ref].kind = "image"
    BY <1>6, <1>12, <1>14
  <2>4. \A k \in UsesOf(item) : files[k].dir = files[main].dir
    BY <1>6, <1>12, <1>15
  <2>5. ASSUME NEW j \in UsesOf(item), NEW k \in UsesOf(item), files[j] = files[k]
        PROVE  j = k
    <3>1. files[j].kind = files[k].kind /\ files[j].index = files[k].index
      BY <2>5
    <3>2. CASE j = main
      <4>1. files[k].kind = "video"
        BY <3>1, <3>2, <1>6, <1>12
      <4> QED
        BY <3>2, <4>1, <1>6, <1>12, <1>15
    <3>3. CASE \E i \in Images(art) : j = ArtKey(i)
      <4>1. PICK i \in Images(art) : j = ArtKey(i)
        BY <3>3
      <4>2. files[k].kind = "image" /\ files[k].index = i
        BY <3>1, <4>1, <1>6, <1>12
      <4> QED
        BY <4>1, <4>2, <1>6, <1>12, <1>15
    <3>4. CASE \E i \in subs : j = SubKey(i)
      <4>1. PICK i \in subs : j = SubKey(i)
        BY <3>4
      <4>2. files[k].kind = "text" /\ files[k].index = i
        BY <3>1, <4>1, <1>6, <1>12
      <4> QED
        BY <4>1, <4>2, <1>6, <1>12, <1>15
    <3> QED
      BY <3>2, <3>3, <3>4, <1>15
  <2> QED
    BY <2>1, <2>2, <2>3, <2>4, <2>5 DEF Plays
<1>17. Covers(tree, item, files, main)
  <2>1. files[main].dir = dir
    BY <1>6, <1>12
  <2>2. \A a \in art : [ref |-> ArtKey(a.image), type |-> a.type] \in item.artwork
    BY <1>4
  <2>3. art # {} => item.artwork # {}
    BY <2>2
  <2> QED
    BY <2>1, <2>3, <1>7 DEF Covers, l
<1> QED
  BY <1>4, <1>11, <1>12, <1>16, <1>17 DEF PlaysVideo, item, files, resources, l

-----------------------------------------------------------------------------
(***************************************************************************)
(* An object stays good as long as what it uses and the files of it stay.  *)
(***************************************************************************)
SameUses(other, object) ==
    /\ other.data_type = object.data_type
    /\ other.artwork = object.artwork
    /\ other.resources = object.resources

LEMMA PlaysAlike ==
    ASSUME NEW t, NEW object, NEW other, SameUses(other, object), NEW files, NEW more,
           \A k \in UsesOf(object) : more[k] = files[k],
           NEW main \in object.resources, Plays(object, files, main), Covers(t, object, files, main)
    PROVE  /\ main \in other.resources
           /\ Plays(other, more, main) /\ Covers(t, other, more, main)
           /\ more[main] = files[main]
<1>1. UsesOf(other) = UsesOf(object) /\ main \in UsesOf(object)
  BY DEF UsesOf, SameUses
<1>2. /\ \A a \in object.artwork : more[a.ref] = files[a.ref]
      /\ \A k \in object.resources : more[k] = files[k]
  BY DEF UsesOf
<1>3. Plays(other, more, main)
  BY <1>1, <1>2 DEF Plays, SameUses
<1> QED
  BY <1>2, <1>3 DEF Covers, SameUses

LEMMA GoodAlike ==
    ASSUME NEW t, NEW object, NEW other, SameUses(other, object), NEW files, NEW more,
           \A k \in UsesOf(object) : more[k] = files[k], Good(t, object, files)
    PROVE  Good(t, other, more)
<1>1. CASE object.data_type = "MediaContainer"
  <2>1. \A a \in object.artwork : more[a.ref] = files[a.ref]
    BY DEF UsesOf
  <2> QED
    BY <1>1, <2>1 DEF Good, OnlyImages, SameUses
<1>2. CASE object.data_type # "MediaContainer"
  BY <1>2, PlaysAlike DEF Good, SameUses
<1> QED
  BY <1>1, <1>2

LEMMA VideoIsGood ==
    ASSUME NEW t, NEW item, NEW files, NEW video, PlaysVideo(t, item, files, video)
    PROVE  Good(t, item, files)
  BY DEF PlaysVideo, Good

(* What an object of a closed DB uses is in the DB, and no object. *)
LEMMA UsesTyped ==
    ASSUME NEW d, DbTypeOK(d), RefsResolveIn(d), NEW k \in ObjectKeys(d)
    PROVE  UsesOf(d[k]) \subseteq DOMAIN d \ ObjectKeys(d)
<1>1. d[k] \in MediaObject
  BY ObjectsTyped
<1>2. d[k].resources \subseteq ResourceKeySet /\ \A a \in d[k].artwork : a.ref \in ResourceKeySet
  BY <1>1 DEF MediaObject, Artwork
<1>3. \A r \in ResourceKeySet : r \notin ObjectKeys(d)
  BY KeyTypesApart DEF ObjectKeys
<1> QED
  BY <1>2, <1>3 DEF UsesOf, RefsResolveIn

LEMMA PublishedFiles ==
    ASSUME DbTypeOK(db), NEW parent, NEW items, NEW resources,
           FreshBatch(parent, items, resources)
    PROVE  LET new == Batch(parent, items, resources)
           IN  /\ \A k \in DOMAIN db \ ObjectKeys(db) : FilesIn(new)[k] = FilesIn(db)[k]
               /\ \A k \in Keys(resources) : FilesIn(new)[k] = FilesOf(resources)[k]
<1> DEFINE new == Batch(parent, items, resources)
<1>1. Published(new, parent, items, resources)
  BY BatchPublishes
<1>2. parent \in ObjectKeys(db) /\ Keys(resources) \intersect DOMAIN db = {}
  BY DEF FreshBatch
<1>3. Keys(resources) \subseteq ResourceKeySet /\ Ids(items) \subseteq ObjectKeySet
  BY KeysOfResources, IdsTyped DEF FreshBatch
<1>4. \A k \in DOMAIN db \ ObjectKeys(db) :
          k # parent /\ k \in DOMAIN new /\ k \notin ObjectKeys(new) /\ new[k] = db[k]
  BY <1>1, <1>2 DEF Published
<1>5. \A k \in Keys(resources) :
          /\ k # parent /\ k \notin Ids(items) /\ k \in DOMAIN new /\ k \notin ObjectKeys(new)
  BY <1>1, <1>2, <1>3, KeyTypesApart DEF Published, ObjectKeys
<1>6. \A k \in Keys(resources) :
          new[k].location = (CHOOSE r \in resources : r.key = k).location
  BY <1>5 DEF Batch
<1> HIDE DEF new
<1> QED
  BY <1>4, <1>5, <1>6 DEF FilesIn, FilesOf, new

LEMMA OldUses ==
    ASSUME DbTypeOK(db), NEW parent, NEW items, NEW resources,
           FreshBatch(parent, items, resources), NEW k \in ObjectKeys(db)
    PROVE  SameUses(Batch(parent, items, resources)[k], db[k])
<1>1. Published(Batch(parent, items, resources), parent, items, resources)
  BY BatchPublishes
<1>2. k \in DOMAIN db /\ db[k] \in MediaObject
  BY ObjectsTyped
<1> QED
  BY <1>1, <1>2 DEF Published, AppendObjects, SameUses, MediaObject

LEMMA PublishedGood ==
    ASSUME NEW t, DbTypeOK(db), RefsResolveIn(db), AllGood(t, db),
           NEW parent, NEW items, NEW resources, FreshBatch(parent, items, resources),
           \A i \in DOMAIN items : Good(t, items[i], FilesOf(resources))
    PROVE  AllGood(t, Batch(parent, items, resources))
<1> DEFINE new == Batch(parent, items, resources)
<1>1. Published(new, parent, items, resources)
  BY BatchPublishes
<1> SUFFICES ASSUME NEW k \in ObjectKeys(new) PROVE Good(t, new[k], FilesIn(new))
  BY DEF AllGood
<1>2. CASE k \in ObjectKeys(db)
  <2>1. Good(t, db[k], FilesIn(db)) /\ SameUses(new[k], db[k])
    BY <1>2, OldUses DEF AllGood
  <2>2. \A r \in UsesOf(db[k]) : FilesIn(new)[r] = FilesIn(db)[r]
    BY <1>2, UsesTyped, PublishedFiles
  <2> QED
    BY <2>1, <2>2, GoodAlike
<1>3. CASE k \in Ids(items)
  <2>1. PICK i \in DOMAIN items : k = items[i].id
    BY <1>3 DEF Ids
  <2>2. new[k] = items[i] /\ UsesOf(items[i]) \subseteq Keys(resources)
    BY <1>1, <2>1, NewObjects
  <2>3. \A r \in UsesOf(items[i]) : FilesIn(new)[r] = FilesOf(resources)[r]
    BY <2>2, PublishedFiles
  <2>4. SameUses(items[i], items[i])
    BY DEF SameUses
  <2> QED
    BY <2>2, <2>3, <2>4, GoodAlike
<1> QED
  BY <1>1, <1>2, <1>3 DEF Published

-----------------------------------------------------------------------------
(***************************************************************************)
(* FilesInv, action by action: what is composed, and what is published.    *)
(***************************************************************************)
LEMMA EmptyComposerGood ==
    ASSUME composer'.items = <<>>, composer'.resources = {}
    PROVE  ComposedGood'
<1>1. DOMAIN composer'.items = {}
  BY EmptySeq, LenProperties
<1> QED
  BY <1>1 DEF ComposedGood, KeyedOnce

(* A composed item keeps its files when more are added under other keys. *)
LEMMA FilesAdded ==
    ASSUME NEW old, NEW more, Keys(old) \intersect Keys(more) = {},
           KeyedOnce(old), KeyedOnce(more)
    PROVE  /\ KeyedOnce(old \union more)
           /\ \A k \in Keys(old) : FilesOf(old \union more)[k] = FilesOf(old)[k]
           /\ \A k \in Keys(more) : FilesOf(old \union more)[k] = FilesOf(more)[k]
<1>1. /\ \A r \in old : r.key \in Keys(old)
      /\ \A r \in more : r.key \in Keys(more)
  BY DEF Keys
<1>2. KeyedOnce(old \union more)
  BY <1>1 DEF KeyedOnce
<1>3. \A r \in old : FilesOf(old \union more)[r.key] = FilesOf(old)[r.key]
  BY <1>2, FileOfKey
<1>4. \A r \in more : FilesOf(old \union more)[r.key] = FilesOf(more)[r.key]
  BY <1>2, FileOfKey
<1> QED
  BY <1>2, <1>3, <1>4 DEF Keys

LEMMA VideoAlike ==
    ASSUME NEW t, NEW item, NEW files, NEW more, NEW video, PlaysVideo(t, item, files, video),
           \A k \in UsesOf(item) : more[k] = files[k]
    PROVE  PlaysVideo(t, item, more, video)
<1>1. SameUses(item, item)
  BY DEF SameUses
<1>2. PICK main \in item.resources :
          Plays(item, files, main) /\ Covers(t, item, files, main) /\ files[main] = video
  BY DEF PlaysVideo
<1>3. Plays(item, more, main) /\ Covers(t, item, more, main) /\ more[main] = files[main]
  BY <1>1, <1>2, PlaysAlike
<1> QED
  BY <1>2, <1>3 DEF PlaysVideo

LEMMA ComposeVideoGood ==
    ASSUME Inv, ComposedGood, ComposeVideo
    PROVE  ComposedGood'
<1> DEFINE l == tree[Top.path]
           v == Len(composer.items) + 1
           name == composer.folder_name
           prefix == ResourcePrefix(l, name, v)
           count == ResourceCount(l, prefix)
           r == next_resource_id_
           id == ObjectKey(next_object_id_)
           item == ComposeItem(l, name, v, id, composer.parent_id, r)
           more == ItemResources(l, Top.path, prefix, v, r)
           old == composer.items
           items == Append(old, item)
           resources == composer.resources \union more
           video(i) == At(Top.path, "video", i)
<1>1. /\ step = "compose" /\ v <= Len(l.videos) /\ r + count <= MaxId
      /\ composer' = [composer EXCEPT !.items = items, !.resources = resources]
      /\ directories' = directories /\ tree' = tree
  BY DEF ComposeVideo
<1>2. ScannerTypeOK /\ StepInv /\ ItemsCovered
  BY DEF Inv, ScannerInv
<1>3. r \in Nat /\ next_object_id_ \in 0 .. MaxId /\ \A k \in Keys(composer.resources) : k.id \in Nat /\ k.id < r
  BY <1>1, CountersAbove, MaxIdAssumption
<1>4. directories # <<>> /\ composer.parent_id \in ObjectKeySet
  BY <1>1, <1>2 DEF StepInv
<1>5. Top.path \in Directory /\ l \in Listing
  BY <1>2, <1>4, TopTyped
<1>6. /\ composer \in Composer /\ name \in Name /\ old \in Seq(MediaObject)
      /\ Len(old) \in Nat /\ DOMAIN old = 1 .. Len(old)
  BY <1>2, LenProperties DEF ScannerTypeOK, Composer
<1>7. v \in DOMAIN l.videos
  BY <1>1, <1>5, <1>6, LenProperties, ListingTyped
<1>8. id \in ObjectKeySet
  BY <1>3, KeysTyped
<1>9. /\ count \in Nat \ {0} /\ item \in MediaObject
      /\ UsesOf(item) = Keys(more)
      /\ \A k \in Keys(more) : k.id \in r .. r + count - 1
  BY <1>1, <1>3, <1>4, <1>5, <1>6, <1>7, <1>8, ComposedTyped
<1>10. KeyedOnce(more) /\ PlaysVideo(tree, item, FilesOf(more), video(v))
  BY <1>2, <1>3, <1>5, ComposedPlays
<1> HIDE DEF l, name, prefix, count, item, more, r, id, video
<1>11. Keys(composer.resources) \intersect Keys(more) = {}
  BY <1>3, <1>9
<1>12. /\ KeyedOnce(resources)
       /\ \A k \in Keys(composer.resources) : FilesOf(resources)[k] = FilesOf(composer.resources)[k]
       /\ \A k \in Keys(more) : FilesOf(resources)[k] = FilesOf(more)[k]
  <2>1. KeyedOnce(composer.resources) /\ KeyedOnce(more)
    BY <1>10 DEF ComposedGood
  <2> DEFINE had == composer.resources
  <2> HIDE DEF had
  <2>2. KeyedOnce(had) /\ KeyedOnce(more) /\ Keys(had) \intersect Keys(more) = {}
    BY <1>11, <2>1 DEF had
  <2>3. KeyedOnce(had \union more)
    BY <2>2, FilesAdded
  <2>4. \A k \in Keys(had) : FilesOf(had \union more)[k] = FilesOf(had)[k]
    BY <2>2, FilesAdded
  <2>5. \A k \in Keys(more) : FilesOf(had \union more)[k] = FilesOf(more)[k]
    BY <2>2, FilesAdded
  <2> QED
    BY <2>3, <2>4, <2>5 DEF had
<1> HIDE DEF resources
<1>13. /\ items[v] = item
       /\ \A i \in DOMAIN old : items[i] = old[i]
       /\ \A i \in DOMAIN items : i = v \/ i \in DOMAIN old
  <2>1. /\ items \in Seq(MediaObject) /\ Len(items) = Len(old) + 1
        /\ \A i \in 1 .. Len(old) : items[i] = old[i]
        /\ items[Len(old) + 1] = item
    BY <1>6, <1>9, AppendProperties
  <2>2. DOMAIN items = 1 .. Len(items)
    BY <2>1, LenProperties
  <2> QED
    BY <1>6, <2>1, <2>2
<1> HIDE DEF items, v
<1>14. PlaysVideo(tree, item, FilesOf(resources), video(v))
  BY <1>9, <1>10, <1>12, VideoAlike
<1>15. ASSUME NEW i \in DOMAIN old
       PROVE  PlaysVideo(tree, old[i], FilesOf(resources), video(i))
  <2>1. PlaysVideo(tree, old[i], FilesOf(composer.resources), video(i))
    BY DEF ComposedGood, video
  <2>2. UsesOf(old[i]) \subseteq Keys(composer.resources)
    BY <1>2 DEF ItemsCovered, Covered, UsesOf
  <2> QED
    BY <1>12, <2>1, <2>2, VideoAlike
<1>16. \A i \in DOMAIN items : PlaysVideo(tree, items[i], FilesOf(resources), video(i))
  BY <1>13, <1>14, <1>15
<1>17. composer'.items = items /\ composer'.resources = resources /\ Top' = Top
  BY <1>1, <1>6 DEF Composer, Top
<1> QED
  BY <1>1, <1>12, <1>16, <1>17 DEF ComposedGood, video

(* The container of a collection, or of the movies, has at most images. *)
LEMMA CollectionGood ==
    ASSUME ScannerTypeOK, directories # <<>>,
           next_object_id_ \in 0 .. MaxId, next_resource_id_ \in 0 .. MaxId
    PROVE  LET l == tree[Top.path]
               items == <<CollectionOf(l)>>
           IN  \A i \in DOMAIN items : /\ Good(tree, items[i], FilesOf(CollectionResources(l)))
                                       /\ items[i].data_type = "MediaContainer"
<1> DEFINE l == tree[Top.path]
           resources == CollectionResources(l)
           files == FilesOf(resources)
           object == CollectionOf(l)
<1>1. /\ object.data_type = "MediaContainer" /\ object.resources = {}
      /\ object.artwork = {[ref |-> ResourceKey(next_resource_id_), type |-> a.type]
                               : a \in FolderArtwork(l)}
  BY DEF CollectionOf, Container
<1>2. /\ \A a \in object.artwork : a.ref = ResourceKey(next_resource_id_)
      /\ object.artwork # {} => FolderArtwork(l) # {}
  BY <1>1
<1>3. \A q \in resources : q.key = ResourceKey(next_resource_id_) /\ q.location.kind = "image"
  BY DEF CollectionResources, At
<1>4. FolderArtwork(l) # {} => resources # {}
  <2>1. \A a \in FolderArtwork(l) :
            [key |-> ResourceKey(next_resource_id_), location |-> At(Top.path, "image", a.image)]
                \in resources
    BY DEF CollectionResources
  <2> QED
    BY <2>1
<1> HIDE DEF resources, object
<1>5. ASSUME NEW a \in object.artwork PROVE files[a.ref].kind = "image"
  <2>1. PICK q \in resources : q.key = a.ref
    BY <1>2, <1>3, <1>4
  <2>2. a.ref \in Keys(resources) /\ (CHOOSE r \in resources : r.key = a.ref) \in resources
    BY <2>1 DEF Keys
  <2> QED
    BY <1>3, <2>2 DEF FilesOf
<1>6. Good(tree, object, files)
  BY <1>1, <1>5 DEF Good, OnlyImages
<1>7. DOMAIN <<object>> = {1} /\ <<object>>[1] = object
  OBVIOUS
<1> QED
  BY <1>1, <1>6, <1>7 DEF object, resources

(* What a step may do to the DB: nothing, or publish what is good. *)
PublishesGood ==
    \E parent, items, resources :
        /\ FreshBatch(parent, items, resources)
        /\ db' = Batch(parent, items, resources)
        /\ \A i \in DOMAIN items : Good(tree, items[i], FilesOf(resources))

GoodDbStep ==
    /\ db' \in {db, durable} \/ Formats \/ PublishesGood
    /\ durable' \in {db, durable}

LEMMA OutcomeIsGood ==
    ASSUME NEW parent, NEW items, NEW resources, Outcome(parent, items, resources),
           \A i \in DOMAIN items : Good(tree, items[i], FilesOf(resources))
    PROVE  GoodDbStep
  BY DEF Outcome, PutFails, PutCommits, GoodDbStep, PublishesGood

LEMMA GoodDbStepKeeps ==
    ASSUME TreeInv, AllGood(tree, db), AllGood(tree, durable), GoodDbStep
    PROVE  AllGood(tree, db') /\ AllGood(tree, durable')
<1>1. ASSUME PublishesGood PROVE AllGood(tree, db')
  <2>1. DbTypeOK(db) /\ RefsResolveIn(db)
    BY DEF TreeInv, Inv, StoreInv, DbInv
  <2> QED
    BY <1>1, <2>1, PublishedGood DEF PublishesGood
<1>2. ASSUME Formats PROVE AllGood(tree, db')
  <2>1. ObjectKeys(db') = {Root} /\ db'[Root] = RootContainer
    BY <1>2, FormattedTree DEF Formats
  <2>2. /\ RootContainer.data_type = "MediaContainer" /\ RootContainer.artwork = {}
        /\ RootContainer.resources = {}
    BY DEF RootContainer, Container
  <2> QED
    BY <2>1, <2>2 DEF AllGood, Good, OnlyImages
<1> QED
  BY <1>1, <1>2 DEF GoodDbStep

LEMMA ScanLibraryGood ==
    ASSUME TreeInv, ScanLibrary
    PROVE  GoodDbStep /\ ComposedGood'
<1>1. PICK path, folder_names : \/ ScanKnownFolder(path, folder_names)
                                \/ ScanNewFolder(path, folder_names)
  BY DEF ScanLibrary
<1>2. step = "idle" /\ composer' = composer
  BY <1>1 DEF ScanKnownFolder, ScanNewFolder, EnterLibrary
<1>3. ComposedGood'
  BY <1>2, NoComposerIsEmpty, EmptyComposerGood DEF TreeInv, Inv, ScannerInv, StepInv
<1>4. CASE ScanKnownFolder(path, folder_names)
  BY <1>3, <1>4 DEF ScanKnownFolder, storeVars, GoodDbStep
<1>5. CASE ScanNewFolder(path, folder_names)
  <2>1. PICK folder \in MediaObject :
            /\ folder.data_type = "MediaContainer" /\ UsesOf(folder) = {}
            /\ Outcome(Root, <<folder>>, {})
    BY <1>5, ScanNewFolderHolds
  <2>2. folder.resources = {} /\ folder.artwork = {}
    BY <2>1 DEF UsesOf
  <2>3. Good(tree, folder, FilesOf({}))
    BY <2>1, <2>2 DEF Good, OnlyImages
  <2>4. DOMAIN <<folder>> = {1} /\ <<folder>>[1] = folder
    OBVIOUS
  <2> QED
    BY <1>3, <2>1, <2>3, <2>4, OutcomeIsGood
<1> QED
  BY <1>1, <1>4, <1>5

LEMMA ScanGood ==
    ASSUME TreeInv, FilesInv, ScanStep
    PROVE  GoodDbStep /\ ComposedGood'
<1>0. /\ Inv /\ ScannerTypeOK /\ StepInv /\ ComposedGood
  BY DEF TreeInv, Inv, ScannerInv, FilesInv
<1>1. ASSUME NEW l, NEW parent, NEW subs, StartComposing(l, parent, subs) PROVE ComposedGood'
  BY <1>1, EmptyComposerGood DEF StartComposing
<1>2. ASSUME NextDirectory PROVE ComposedGood'
  BY <1>2, NoComposerIsEmpty, EmptyComposerGood DEF NextDirectory
<1>3. CASE ListDirectory
  BY <1>1, <1>3 DEF ListDirectory, storeVars, GoodDbStep
<1>4. CASE ListCollection
  <2>1. Outcome(Top.parent, <<CollectionOf(tree[Top.path])>>, CollectionResources(tree[Top.path]))
    BY <1>4, ListCollectionHolds
  <2>2. /\ directories # <<>>
        /\ next_object_id_ \in 0 .. MaxId /\ next_resource_id_ \in 0 .. MaxId
    BY <1>0, <1>4, CountersAbove DEF ListCollection
  <2>3. \A i \in DOMAIN <<CollectionOf(tree[Top.path])>> :
            Good(tree, <<CollectionOf(tree[Top.path])>>[i], FilesOf(CollectionResources(tree[Top.path])))
    BY <1>0, <2>2, CollectionGood
  <2>4. ComposedGood'
    BY <1>1, <1>4 DEF ListCollection
  <2> QED
    BY <2>1, <2>3, <2>4, OutcomeIsGood
<1>5. CASE ComposeVideo
  BY <1>0, <1>5, ComposeVideoGood DEF ComposeVideo, storeVars, GoodDbStep
<1>6. CASE StoreVideos
  <2>1. Outcome(composer.parent_id, composer.items, composer.resources)
    BY <1>6, StoreVideosHolds
  <2>2. \A i \in DOMAIN composer.items :
            Good(tree, composer.items[i], FilesOf(composer.resources))
    BY <1>0, VideoIsGood DEF ComposedGood
  <2>3. ComposedGood'
    BY <1>2, <1>6 DEF StoreVideos
  <2> QED
    BY <2>1, <2>2, <2>3, OutcomeIsGood
<1>7. CASE SkipFolder
  BY <1>2, <1>7 DEF SkipFolder, storeVars, GoodDbStep
<1>8. CASE LibraryScanned
  <2>1. composer' = composer /\ composer = NoComposer /\ UNCHANGED storeVars
    BY <1>0, <1>8 DEF LibraryScanned, StepInv
  <2> QED
    BY <2>1, NoComposerIsEmpty, EmptyComposerGood DEF storeVars, GoodDbStep
<1> QED
  BY <1>3, <1>4, <1>5, <1>6, <1>7, <1>8 DEF ScanStep

LEMMA TreeKept ==
    ASSUME [Next]_vars
    PROVE  tree' = tree /\ content' = content
<1>1. CASE ScanLibrary
  BY <1>1 DEF ScanLibrary, ScanKnownFolder, ScanNewFolder, EnterLibrary
<1>2. CASE Scan
  BY <1>2 DEF Scan, ScanStep, ListDirectory, ListCollection, StartComposing, ComposeVideo,
              StoreVideos, SkipFolder, NextDirectory, LibraryScanned
<1> QED
  BY <1>1, <1>2
     DEF Next, Process, Start, Reopen, Create, CreateRoot, CreateRootFails, Throw, Serve, Stop,
         Crash, PowerLoss, WriteBack, Die, vars, scannerVars, mainVars

LEMMA NextFiles ==
    ASSUME TreeInv, FilesInv, [Next]_vars
    PROVE  FilesInv'
<1>1. ASSUME NEW state, Die(state) PROVE ComposedGood'
  BY <1>1, NoComposerIsEmpty, EmptyComposerGood DEF Die, NewScanner
<1>2. ASSUME composer' = composer, directories' = directories PROVE ComposedGood'
  <2>1. Top' = Top /\ tree' = tree
    BY <1>2, TreeKept DEF Top
  <2> QED
    BY <1>2, <2>1 DEF FilesInv, ComposedGood
<1>3. GoodDbStep /\ ComposedGood'
  <2>1. CASE Scan
    BY <2>1, ScanGood DEF Scan
  <2>2. CASE ScanLibrary
    BY <2>2, ScanLibraryGood
  <2>3. CASE Start \/ Reopen \/ Create \/ WriteBack \/ UNCHANGED vars
    BY <1>2, <2>3 DEF Start, Reopen, OpenExisting, Create, CreateDb, WriteBack, Flush, vars,
                      storeVars, scannerVars, GoodDbStep
  <2>4. CASE CreateRoot
    <3>1. DOMAIN db = {} /\ composer' = composer /\ directories' = directories
      BY <2>4 DEF CreateRoot, scannerVars, TreeInv, Emptiness
    <3>2. db' = [k \in {Root} |-> RootContainer] /\ durable' = durable
      BY <2>4, <3>1 DEF CreateRoot, PutRoot
    <3> QED
      BY <1>2, <3>1, <3>2 DEF GoodDbStep, Formats
  <2>5. CASE CreateRootFails \/ Throw \/ Serve \/ Stop \/ Crash \/ PowerLoss
    <3>1. ComposedGood'
      <4>1. CASE Serve
        BY <4>1, NoComposerIsEmpty, EmptyComposerGood DEF Serve, NewScanner
      <4> QED
        BY <1>1, <2>5, <4>1 DEF CreateRootFails, Throw, Stop, Crash, PowerLoss
    <3>2. GoodDbStep
      BY <2>5 DEF CreateRootFails, PutFails, Throw, Serve, Stop, Crash, PowerLoss,
                  LoseUnflushed, storeVars, GoodDbStep
    <3> QED
      BY <3>1, <3>2
  <2> QED
    BY <2>1, <2>2, <2>3, <2>4, <2>5 DEF Next, Process
<1> QED
  BY <1>3, TreeKept, GoodDbStepKeeps DEF FilesInv

LEMMA InitFiles == Init => FilesInv
<1> SUFFICES ASSUME Init PROVE FilesInv
  OBVIOUS
<1>1. db = EmptyDb /\ durable = EmptyDb /\ composer = NoComposer
  BY DEF Init, StoreInit, ScannerInit
<1>2. ObjectKeys(EmptyDb) = {}
  BY EmptyDbInv DEF ObjectKeys
<1>3. DOMAIN NoComposer.items = {} /\ NoComposer.resources = {}
  BY NoComposerIsEmpty, EmptySeq, LenProperties
<1> QED
  BY <1>1, <1>2, <1>3 DEF FilesInv, AllGood, ComposedGood, KeyedOnce

LEMMA FilesHold == Spec => [](TreeInv /\ FilesInv)
  BY InitTree, InitFiles, NextTree, NextFiles, PTL DEF Spec

(***************************************************************************)
(* Whatever a scan met, an item plays one video with subtitles and artwork *)
(* of its own folder, each file once (object_composer, put_items).         *)
(***************************************************************************)
THEOREM ItemsAlwaysPlay == Spec => []ItemPlaysItsVideo
<1>1. ASSUME TreeInv, FilesInv PROVE ItemPlaysItsVideo
  <2> SUFFICES ASSUME NEW k \in ObjectKeys(db), db[k].data_type = "MediaItem"
               PROVE  LET art == {a.ref : a \in db[k].artwork}
                      IN  \E main \in db[k].resources :
                            /\ db[main].location.kind = "video"
                            /\ \A r \in db[k].resources \ {main} :
                                  r.id > main.id /\ db[r].location.kind = "text"
                            /\ \A r \in art : db[r].location.kind = "image"
                            /\ \A r \in Uses(db, k) : db[r].location.dir = db[main].location.dir
                            /\ Cardinality(LocationsOf(Uses(db, k))) = Cardinality(Uses(db, k))
    BY DEF ItemPlaysItsVideo
  <2> DEFINE files == FilesIn(db)
             S == Uses(db, k)
             g == [r \in S |-> db[r].location]
  <2>1. PICK main \in db[k].resources : Plays(db[k], files, main)
    BY <1>1 DEF FilesInv, AllGood, Good
  <2>2. DbTypeOK(db) /\ RefsResolveIn(db)
    BY <1>1 DEF TreeInv, Inv, StoreInv, DbInv
  <2>3. S = UsesOf(db[k]) /\ S \subseteq DOMAIN db \ ObjectKeys(db)
    BY <2>2, UsesTyped DEF Uses, UsesOf
  <2>4. \A r \in S : files[r] = db[r].location
    BY <2>3 DEF FilesIn
  <2>5. db[k].resources \subseteq S /\ \A a \in db[k].artwork : a.ref \in S
    BY DEF Uses
  <2>6. IsFiniteSet(S)
    <3>1. S \in SUBSET KeySet
      BY <2>2, <2>3 DEF DbTypeOK
    <3> QED
      BY <3>1, KeySetFinite, FS_Subset
  <2> HIDE DEF S, files
  <2>7. \A x, y \in S : g[x] = g[y] => x = y
    BY <2>1, <2>3, <2>4 DEF Plays
  <2>8. DOMAIN g = S /\ {g[r] : r \in S} = LocationsOf(S)
    BY DEF LocationsOf
  <2> HIDE DEF g
  <2>9. Cardinality(LocationsOf(S)) = Cardinality(S)
    BY <2>6, <2>7, <2>8, ImageCount
  <2>10. /\ db[main].location.kind = "video"
         /\ \A r \in db[k].resources \ {main} : r.id > main.id /\ db[r].location.kind = "text"
         /\ \A r \in {a.ref : a \in db[k].artwork} : db[r].location.kind = "image"
         /\ \A r \in S : db[r].location.dir = db[main].location.dir
    BY <2>1, <2>3, <2>4, <2>5 DEF Plays
  <2> QED
    BY <2>9, <2>10 DEF S
<1> QED
  BY <1>1, FilesHold, PTL

(***************************************************************************)
(* A video of a folder with a cover is published with artwork              *)
(* (get_folder_artwork).                                                   *)
(***************************************************************************)
THEOREM CoverAlwaysShown == Spec => []CoverShown
<1>1. ASSUME TreeInv, FilesInv PROVE CoverShown
  <2> SUFFICES ASSUME NEW k \in ObjectKeys(db), NEW r \in db[k].resources,
                      FolderArtwork(tree[db[r].location.dir]) # {}
               PROVE  db[k].artwork # {}
    BY DEF CoverShown
  <2>1. Good(tree, db[k], FilesIn(db))
    BY <1>1 DEF FilesInv, AllGood
  <2>2. PICK main \in db[k].resources :
            Plays(db[k], FilesIn(db), main) /\ Covers(tree, db[k], FilesIn(db), main)
    BY <2>1 DEF Good, OnlyImages
  <2>3. DbTypeOK(db) /\ RefsResolveIn(db)
    BY <1>1 DEF TreeInv, Inv, StoreInv, DbInv
  <2>4. r \in UsesOf(db[k]) /\ r \in DOMAIN db \ ObjectKeys(db)
    BY <2>3, UsesTyped DEF UsesOf
  <2>5. FilesIn(db)[main].dir = db[r].location.dir
    BY <2>2, <2>4 DEF Plays, FilesIn
  <2> QED
    BY <2>2, <2>5 DEF Covers
<1> QED
  BY <1>1, FilesHold, PTL

-----------------------------------------------------------------------------
(***************************************************************************)
(* How often a video is published, when a batch is.                        *)
(***************************************************************************)
LEMMA ItemsFinite ==
    ASSUME NEW d, DbTypeOK(d), NEW location
    PROVE  IsFiniteSet(ItemsIn(d, location)) /\ Cardinality(ItemsIn(d, location)) \in Nat
<1>1. ItemsIn(d, location) \in SUBSET KeySet
  BY DEF ItemsIn, ObjectKeys, DbTypeOK
<1> QED
  BY <1>1, KeySetFinite, FS_Subset, FS_CardinalityType

LEMMA ItemsGained ==
    ASSUME DbTypeOK(db), RefsResolveIn(db), NEW parent, NEW items, NEW resources,
           FreshBatch(parent, items, resources), NEW location
    PROVE  LET playing == {i \in DOMAIN items :
                              \E r \in items[i].resources : FilesOf(resources)[r] = location}
           IN  ItemsIn(Batch(parent, items, resources), location)
                   = ItemsIn(db, location) \union {items[i].id : i \in playing}
<1> DEFINE new == Batch(parent, items, resources)
           playing == {i \in DOMAIN items :
                          \E r \in items[i].resources : FilesOf(resources)[r] = location}
<1>1. Published(new, parent, items, resources)
  BY BatchPublishes
<1>2. ASSUME NEW k \in ObjectKeys(db)
      PROVE  k \in ItemsIn(new, location) <=> k \in ItemsIn(db, location)
  <2>1. k \in ObjectKeys(new) /\ new[k].resources = db[k].resources
    BY <1>1, OldUses DEF Published, SameUses
  <2>2. db[k].resources \subseteq DOMAIN db \ ObjectKeys(db)
    BY UsesTyped DEF UsesOf
  <2>3. \A r \in db[k].resources : /\ r \in DOMAIN new \ ObjectKeys(new)
                                   /\ FilesIn(new)[r] = FilesIn(db)[r]
    <3>1. \A r \in DOMAIN db \ ObjectKeys(db) : r \notin Ids(items)
      BY <1>1 DEF Published
    <3> QED
      BY <1>1, <2>2, <3>1, PublishedFiles DEF Published
  <2>4. \A r \in db[k].resources : new[r].location = db[r].location
    BY <2>2, <2>3 DEF FilesIn
  <2> QED
    BY <2>1, <2>4 DEF ItemsIn
<1>3. ASSUME NEW i \in DOMAIN items
      PROVE  items[i].id \in ItemsIn(new, location) <=> i \in playing
  <2>1. /\ items[i].id \in ObjectKeys(new) /\ new[items[i].id] = items[i]
        /\ items[i].resources \subseteq Keys(resources)
    BY <1>1, NewObjects DEF UsesOf
  <2>2. \A r \in Keys(resources) : r \in DOMAIN new \ ObjectKeys(new)
    <3>1. Keys(resources) \subseteq ResourceKeySet
      BY KeysOfResources DEF FreshBatch
    <3> QED
      BY <1>1, <3>1, KeyTypesApart DEF Published, ObjectKeys
  <2>3. \A r \in Keys(resources) : FilesIn(new)[r] = FilesOf(resources)[r]
    BY PublishedFiles
  <2>4. \A r \in items[i].resources : new[r].location = FilesOf(resources)[r]
    BY <2>1, <2>2, <2>3 DEF FilesIn
  <2> QED
    BY <2>1, <2>4 DEF ItemsIn
<1>4. ObjectKeys(new) = ObjectKeys(db) \union Ids(items)
  BY <1>1 DEF Published
<1>5. ItemsIn(new, location) \subseteq ObjectKeys(new) /\ ItemsIn(db, location) \subseteq ObjectKeys(db)
  BY DEF ItemsIn
<1>6. \A i, j \in DOMAIN items : items[i].id = items[j].id => i = j
  BY DEF FreshBatch, FreshItems
<1>7. \A k \in Ids(items) : k \notin ObjectKeys(db)
  BY <1>1 DEF Published, ObjectKeys
<1>8. \A i \in DOMAIN items : items[i].id \in Ids(items)
  BY DEF Ids
<1>9. \A k \in Ids(items) : \E i \in DOMAIN items : k = items[i].id
  BY DEF Ids
<1> HIDE DEF new
<1>10. \A k \in ItemsIn(new, location) :
           k \in ItemsIn(db, location) \/ \E i \in playing : k = items[i].id
  BY <1>2, <1>3, <1>4, <1>5, <1>9
<1>11. \A k \in ItemsIn(db, location) : k \in ItemsIn(new, location)
  BY <1>2, <1>5
<1>12. \A i \in playing : items[i].id \in ItemsIn(new, location)
  BY <1>3
<1> HIDE DEF playing
<1> QED
  BY <1>10, <1>11, <1>12 DEF new, playing

(* A container counts for no video. *)
SameCount ==
    \A dir \in Directory : \A v \in Nat :
        TimesPublished(db', dir, v) = TimesPublished(db, dir, v)

LEMMA ContainersCountNothing ==
    ASSUME TreeInv, NEW parent, NEW items, NEW resources, Outcome(parent, items, resources),
           \A i \in DOMAIN items : items[i].resources = {}
    PROVE  SameCount
<1>1. CASE PutFails
  BY <1>1 DEF PutFails, SameCount
<1>2. CASE FreshBatch(parent, items, resources) /\ PutCommits(parent, items, resources)
  <2>1. DbTypeOK(db) /\ RefsResolveIn(db) /\ db' = Batch(parent, items, resources)
    BY <1>2 DEF TreeInv, Inv, StoreInv, DbInv, PutCommits
  <2>2. ASSUME NEW location PROVE ItemsIn(db', location) = ItemsIn(db, location)
    <3> DEFINE playing == {i \in DOMAIN items :
                              \E r \in items[i].resources : FilesOf(resources)[r] = location}
    <3>1. playing = {}
      OBVIOUS
    <3>2. ItemsIn(db', location) = ItemsIn(db, location) \union {items[i].id : i \in playing}
      BY <1>2, <2>1, ItemsGained
    <3> HIDE DEF playing
    <3> QED
      BY <3>1, <3>2
  <2> QED
    BY <2>2 DEF SameCount, TimesPublished
<1> QED
  BY <1>1, <1>2 DEF Outcome

(* The videos of a folder count once more, and no other. *)
LEMMA VideosCount ==
    ASSUME TreeInv, NEW parent, NEW items, NEW resources,
           FreshBatch(parent, items, resources), PutCommits(parent, items, resources),
           NEW path \in Directory,
           \A i \in DOMAIN items :
               PlaysVideo(tree, items[i], FilesOf(resources), At(path, "video", i)),
           NEW dir \in Directory, NEW v \in Nat
    PROVE  TimesPublished(db', dir, v) =
               IF dir = path /\ v \in DOMAIN items THEN TimesPublished(db, dir, v) + 1
               ELSE TimesPublished(db, dir, v)
<1> DEFINE location == At(dir, "video", v)
           playing == {i \in DOMAIN items :
                          \E r \in items[i].resources : FilesOf(resources)[r] = location}
<1>1. DbTypeOK(db) /\ RefsResolveIn(db) /\ db' = Batch(parent, items, resources)
  BY DEF TreeInv, Inv, StoreInv, DbInv, PutCommits
<1>2. ItemsIn(db', location) = ItemsIn(db, location) \union {items[i].id : i \in playing}
  BY <1>1, ItemsGained
<1>3. \A a, b, i, j : At(a, "video", i) = At(b, "video", j) <=> a = b /\ i = j
  <2>1. \A a, i : At(a, "video", i).dir = a /\ At(a, "video", i).index = i
    BY DEF At
  <2> QED
    BY <2>1
<1>4. ASSUME NEW i \in DOMAIN items
      PROVE  i \in playing <=> dir = path /\ v = i
  <2>1. PICK main \in items[i].resources :
            /\ Plays(items[i], FilesOf(resources), main)
            /\ FilesOf(resources)[main] = At(path, "video", i)
    BY DEF PlaysVideo
  <2>2. \A r \in items[i].resources :
            FilesOf(resources)[r].kind = "video" => r = main
    BY <2>1 DEF Plays
  <2>3. location.kind = "video"
    BY DEF At
  <2>4. (\E r \in items[i].resources : FilesOf(resources)[r] = location)
            <=> FilesOf(resources)[main] = location
    BY <2>2, <2>3
  <2> QED
    BY <1>3, <2>1, <2>4
<1>5. IsFiniteSet(ItemsIn(db, location)) /\ Cardinality(ItemsIn(db, location)) \in Nat
  BY <1>1, ItemsFinite
<1> HIDE DEF location, playing
<1>6. CASE dir = path /\ v \in DOMAIN items
  <2>1. playing = {v}
    BY <1>4, <1>6 DEF playing
  <2>2. ItemsIn(db', location) = ItemsIn(db, location) \union {items[v].id}
    BY <1>2, <2>1
  <2>3. items[v].id \notin ItemsIn(db, location)
    <3>1. items[v].id \notin DOMAIN db
      BY <1>1, <1>6, FreshIds DEF FreshBatch
    <3> QED
      BY <3>1 DEF ItemsIn, ObjectKeys
  <2>4. Cardinality(ItemsIn(db', location)) = Cardinality(ItemsIn(db, location)) + 1
    BY <1>5, <2>2, <2>3, FS_AddElement
  <2> QED
    BY <1>6, <2>4 DEF TimesPublished, location
<1>7. CASE ~(dir = path /\ v \in DOMAIN items)
  <2>1. playing = {}
    BY <1>4, <1>7 DEF playing
  <2>2. ItemsIn(db', location) = ItemsIn(db, location)
    BY <1>2, <2>1
  <2> QED
    BY <1>7, <2>2 DEF TimesPublished, location
<1> QED
  BY <1>6, <1>7

-----------------------------------------------------------------------------
(***************************************************************************)
(* The stack, action by action.                                            *)
(***************************************************************************)
LEMMA EmptyStackApart ==
    ASSUME directories' = <<>>
    PROVE  Apart(directories)'
<1>1. DOMAIN directories' = {}
  BY EmptySeq, LenProperties
<1> QED
  BY <1>1 DEF Apart

LEMMA ContentTyped ==
    ASSUME MainTypeOK
    PROVE  /\ DOMAIN content = 1 .. Len(content) /\ Len(content) \in Nat
           /\ \A n \in DOMAIN content : content[n].path \in Directory
           /\ lib \in 0 .. Len(content)
<1> DEFINE Entry == [path : Directory, use_folder_names : {"yes", "no"}]
<1>1. content \in Seq(Entry)
  BY DEF MainTypeOK, Content
<1> HIDE DEF Entry
<1>2. /\ DOMAIN content = 1 .. Len(content) /\ Len(content) \in Nat
      /\ \A n \in DOMAIN content : content[n] \in Entry
  BY <1>1, ElementOfSeq, LenProperties
<1> QED
  BY <1>2 DEF MainTypeOK, Entry

LEMMA ScanLibraryStack ==
    ASSUME TreeInv, StackInv, ScanLibrary
    PROVE  /\ lib' = lib + 1 /\ lib' \in DOMAIN content
           /\ DOMAIN directories' = {1} /\ directories'[1].path = content[lib'].path
           /\ step' = "list" /\ pc = "libraries" /\ pc' = "scan"
           /\ StackInv'
<1>1. /\ pc = "libraries" /\ pc' = "scan" /\ lib < Len(content) /\ lib' = lib + 1
      /\ content' = content
  BY DEF ScanLibrary
<1>2. PICK folder : EnterLibrary(content[lib'].path, folder)
  BY DEF ScanLibrary, ScanKnownFolder, ScanNewFolder
<1>3. MainTypeOK /\ ScannerTypeOK
  BY DEF TreeInv, Inv, MainInv, ScannerInv
<1>4. lib \in Nat /\ lib' > 0 /\ lib' \in DOMAIN content /\ content[lib'].path \in Directory
  BY <1>1, <1>3, ContentTyped
<1>5. /\ step' = "list" /\ tree' = tree
      /\ directories' = <<[path |-> content[lib'].path, parent |-> folder]>>
  BY <1>2 DEF EnterLibrary
<1>6. DOMAIN directories' = {1} /\ directories'[1].path = content[lib'].path
  BY <1>5
<1>7. Reaches(tree, content[lib'].path, content[lib'].path)
  BY <1>3, <1>4, ReachedBelow DEF ScannerTypeOK
<1>8. Apart(directories)'
  BY <1>6 DEF Apart
<1>9. FromLibrary(content[lib].path, directories)'
  BY <1>1, <1>5, <1>6, <1>7 DEF FromLibrary
<1> QED
  BY <1>1, <1>4, <1>5, <1>6, <1>8, <1>9 DEF StackInv

LEMMA ScanStack ==
    ASSUME TreeInv, StackInv, Scan
    PROVE  StackInv'
<1>1. /\ pc = "scan" /\ ScanStep /\ content' = content /\ lib' = lib
      /\ pc' = "scan" => step' # "idle"
  BY DEF Scan
<1>2. tree' = tree
  BY TreeKept DEF Next, Process
<1>3. /\ ScannerTypeOK /\ StepInv /\ PathsInput(tree) /\ Apart(directories)
      /\ step = "compose" => SubsListed
      /\ lib > 0 /\ FromLibrary(content[lib].path, directories)
  BY <1>1 DEF TreeInv, Inv, ScannerInv, StackInv
<1>4. ASSUME directories' = directories, step' = "compose" => SubsListed' PROVE StackInv'
  BY <1>1, <1>2, <1>3, <1>4 DEF StackInv, Apart, FromLibrary
<1>5. ASSUME NEW parent, NEW other, NEW paths \in Orders(tree[Top.path].dirs), directories # <<>>,
             StartComposing(tree[Top.path], parent, Under(paths, other))
      PROVE  StackInv'
  <2> DEFINE subs == Under(paths, other)
  <2>1. directories' = directories /\ composer'.subs = subs
    BY <1>5 DEF StartComposing
  <2>2. Top' = Top
    BY <2>1 DEF Top
  <2>3. tree[Top.path].dirs \in SUBSET Directory
    BY <1>3, <1>5, TopTyped, ListingTyped
  <2>4. /\ {subs[i].path : i \in DOMAIN subs} = tree[Top.path].dirs
        /\ \A i, j \in DOMAIN subs : subs[i].path = subs[j].path => i = j
    BY <2>3, UnderCovers
  <2> HIDE DEF subs
  <2>5. SubsListed'
    BY <1>2, <2>1, <2>2, <2>4 DEF SubsListed
  <2> QED
    BY <1>4, <2>1, <2>5
<1>6. ASSUME step = "compose", NextDirectory PROVE StackInv'
  <2>1. directories # <<>> /\ SubsListed
    BY <1>3, <1>6 DEF StepInv
  <2>2. directories' = PopThenPush /\ step' = "list"
    BY <1>6 DEF NextDirectory
  <2>3. Apart(PopThenPush) /\ FromLibrary(content[lib].path, PopThenPush)
    BY <1>3, <2>1, PushKeepsApart, PushFromLibrary
  <2> QED
    BY <1>1, <1>2, <1>3, <2>2, <2>3 DEF StackInv, Apart, FromLibrary
<1>7. CASE ListDirectory
  BY <1>5, <1>7 DEF ListDirectory
<1>8. CASE ListCollection
  BY <1>5, <1>8 DEF ListCollection
<1>9. CASE ComposeVideo
  <2>1. step = "compose" /\ directories' = directories /\ composer'.subs = composer.subs
    BY <1>3, <1>9 DEF ComposeVideo, ScannerTypeOK, Composer
  <2>2. SubsListed'
    BY <1>2, <1>3, <2>1 DEF SubsListed, Top
  <2> QED
    BY <1>4, <2>1, <2>2
<1>10. CASE StoreVideos \/ SkipFolder
  BY <1>6, <1>10 DEF StoreVideos, SkipFolder
<1>11. CASE LibraryScanned
  BY <1>4, <1>11 DEF LibraryScanned
<1> QED
  BY <1>1, <1>7, <1>8, <1>9, <1>10, <1>11 DEF ScanStep

LEMMA NextStack ==
    ASSUME TreeInv, StackInv, [Next]_vars
    PROVE  StackInv'
<1>1. tree' = tree /\ content' = content
  BY TreeKept
<1>2. PathsInput(tree) /\ (pc # "scan" => step = "idle")
  BY DEF StackInv, TreeInv, Inv, MainInv
<1>3. ASSUME directories' = <<>>, step' = "idle", pc' # "scan" PROVE StackInv'
  BY <1>1, <1>2, <1>3, EmptyStackApart DEF StackInv
<1>4. ASSUME directories' = directories, step' = step, composer' = composer, lib' = lib,
             pc' = "scan" => pc = "scan"
      PROVE  StackInv'
  BY <1>1, <1>2, <1>4 DEF StackInv, Apart, SubsListed, FromLibrary, Top
<1>5. CASE ScanLibrary
  BY <1>5, ScanLibraryStack
<1>6. CASE Scan
  BY <1>6, ScanStack
<1>7. CASE Start \/ Reopen \/ Create \/ CreateRoot \/ WriteBack \/ UNCHANGED vars
  BY <1>4, <1>7 DEF Start, Reopen, Create, CreateRoot, WriteBack, vars, scannerVars, mainVars
<1>8. CASE CreateRootFails \/ Throw \/ Serve \/ Stop \/ Crash \/ PowerLoss
  BY <1>3, <1>8 DEF CreateRootFails, Throw, Serve, Stop, Crash, PowerLoss, Die, NewScanner
<1> QED
  BY <1>5, <1>6, <1>7, <1>8 DEF Next, Process

-----------------------------------------------------------------------------
(***************************************************************************)
(* The libraries that have been scanned as far as a folder.                *)
(***************************************************************************)
LEMMA ScannedTyped ==
    ASSUME MainTypeOK, NEW dir
    PROVE  /\ IsFiniteSet(ScannedIn(dir)) /\ Cardinality(ScannedIn(dir)) \in Nat
           /\ IsFiniteSet(LibrariesOf(dir)) /\ Cardinality(LibrariesOf(dir)) \in Nat
           /\ Cardinality(ScannedIn(dir)) <= Cardinality(LibrariesOf(dir))
<1>1. IsFiniteSet(DOMAIN content) /\ ScannedIn(dir) \in SUBSET LibrariesOf(dir)
      /\ LibrariesOf(dir) \in SUBSET DOMAIN content
  <2>1. DOMAIN content = 1 .. Len(content) /\ Len(content) \in Nat /\ lib \in 0 .. Len(content)
    BY ContentTyped
  <2>2. IsFiniteSet(DOMAIN content)
    BY <2>1, FS_Interval
  <2>3. 1 .. lib \subseteq DOMAIN content
    BY <2>1
  <2> QED
    BY <2>2, <2>3 DEF ScannedIn, LibrariesOf
<1>2. IsFiniteSet(LibrariesOf(dir))
  BY <1>1, FS_Subset
<1> QED
  BY <1>1, <1>2, FS_Subset, FS_CardinalityType

(* To begin a library is to have scanned none of it. *)
LEMMA ScanLibraryScanned ==
    ASSUME TreeInv, StackInv, ScanLibrary, NEW dir \in Directory
    PROVE  ScannedIn(dir)' = ScannedIn(dir)
<1>1. /\ lib' = lib + 1 /\ DOMAIN directories' = {1}
      /\ directories'[1].path = content[lib'].path
      /\ pc = "libraries" /\ pc' = "scan"
  BY ScanLibraryStack
<1>2. tree' = tree /\ content' = content
  BY TreeKept DEF Next, Process
<1>3. lib \in Nat
  BY DEF TreeInv, Inv, MainInv, MainTypeOK
<1>4. Pending(dir)' <=> Reaches(tree, content[lib'].path, dir)
  BY <1>1, <1>2 DEF Pending, Ahead
<1>5. ~Pending(dir)
  BY <1>1 DEF Pending
<1>6. \A n : n \in 1 .. lib' <=> n \in 1 .. lib \/ n = lib'
  BY <1>1, <1>3
<1>7. \A n \in 1 .. lib : n # lib'
  BY <1>1, <1>3
<1>8. \A n : n \in ScannedIn(dir)' <=> n \in ScannedIn(dir)
  BY <1>2, <1>4, <1>5, <1>6, <1>7 DEF ScannedIn
<1> QED
  BY <1>8 DEF ScannedIn

(* As long as the stack stays, so does what is scanned. *)
LEMMA ScannedKept ==
    ASSUME [Next]_vars, lib' = lib, NEW dir,
           Pending(dir)' <=> Pending(dir)
    PROVE  ScannedIn(dir)' = ScannedIn(dir)
<1>1. tree' = tree /\ content' = content
  BY TreeKept
<1> QED
  BY <1>1 DEF ScannedIn

(* To be done with a folder is to have scanned it, and nothing else. *)
LEMMA FolderScanned ==
    ASSUME TreeInv, StackInv, Scan, step = "compose", NextDirectory, NEW dir \in Directory
    PROVE  /\ Top.path \in Directory
           /\ dir # Top.path => ScannedIn(dir)' = ScannedIn(dir)
           /\ dir = Top.path => /\ lib \notin ScannedIn(dir)
                                /\ ScannedIn(dir)' = ScannedIn(dir) \union {lib}
<1>1. /\ tree' = tree /\ content' = content /\ [Next]_vars
      /\ pc = "scan" /\ pc' = "scan" /\ lib' = lib
      /\ directories' = PopThenPush
  BY TreeKept DEF Next, Process, Scan, NextDirectory
<1>2. /\ ScannerTypeOK /\ directories # <<>> /\ PathsInput(tree) /\ Apart(directories)
      /\ SubsListed /\ FromLibrary(content[lib].path, directories)
      /\ lib \in Nat /\ lib > 0
  BY <1>1 DEF TreeInv, Inv, ScannerInv, StepInv, MainInv, MainTypeOK, StackInv
<1>3. /\ Ahead(directories, Top.path) /\ ~Ahead(PopThenPush, Top.path)
      /\ \A other \in Directory \ {Top.path} :
            Ahead(PopThenPush, other) <=> Ahead(directories, other)
  BY <1>2, PushedAhead
<1>4. Reaches(tree, content[lib].path, Top.path) /\ Top.path \in Directory
  BY <1>2, PushFromLibrary, TopTyped
<1>5. \A other : Pending(other) <=> Ahead(directories, other)
  BY <1>1 DEF Pending
<1>6. \A other : Pending(other)' <=> Ahead(PopThenPush, other)
  BY <1>1 DEF Pending, Ahead
<1>7. CASE dir # Top.path
  BY <1>1, <1>3, <1>4, <1>5, <1>6, <1>7, ScannedKept
<1>8. CASE dir = Top.path
  <2>1. lib \in 1 .. lib
    BY <1>2
  <2>2. lib \notin ScannedIn(dir)
    BY <1>3, <1>5, <1>8 DEF ScannedIn
  <2>3. \A n : n \in ScannedIn(dir)' <=> n \in ScannedIn(dir) \/ n = lib
    BY <1>1, <1>3, <1>4, <1>5, <1>6, <1>8, <2>1 DEF ScannedIn
  <2>4. ScannedIn(dir)' = ScannedIn(dir) \union {lib}
    BY <2>3 DEF ScannedIn
  <2> QED
    BY <1>4, <1>8, <2>2, <2>4
<1> QED
  BY <1>7, <1>8

-----------------------------------------------------------------------------
(***************************************************************************)
(* What a scan has published, action by action.                            *)
(***************************************************************************)
LEMMA CountKept ==
    ASSUME Counted, SameCount, tree' = tree, faults' = 0 => faults = 0,
           \A dir \in Directory : ScannedIn(dir)' = ScannedIn(dir)
    PROVE  Counted'
  BY DEF Counted, SameCount

LEMMA SameDbSameCount == db' = db => SameCount
  BY DEF SameCount

LEMMA ScanLibraryCounted ==
    ASSUME TreeInv, PublishedInv, ScanLibrary
    PROVE  Counted'
<1>1. Counted /\ StackInv /\ tree' = tree
  BY TreeKept DEF PublishedInv, CountInv, Scanning, ScanLibrary, Next, Process
<1>2. \A dir \in Directory : ScannedIn(dir)' = ScannedIn(dir)
  BY <1>1, ScanLibraryScanned
<1>3. faults' = 0 => faults = 0
  BY ScanLibraryHolds DEF ActionKeeps, ScannerHolds
<1>4. PICK path, folder_names : \/ ScanKnownFolder(path, folder_names)
                                \/ ScanNewFolder(path, folder_names)
  BY DEF ScanLibrary
<1>5. SameCount
  <2>1. CASE ScanKnownFolder(path, folder_names)
    BY <2>1, SameDbSameCount DEF ScanKnownFolder, storeVars
  <2>2. CASE ScanNewFolder(path, folder_names)
    <3>1. PICK folder : UsesOf(folder) = {} /\ Outcome(Root, <<folder>>, {})
      BY <2>2, ScanNewFolderHolds
    <3>2. folder.resources = {} /\ DOMAIN <<folder>> = {1} /\ <<folder>>[1] = folder
      BY <3>1 DEF UsesOf
    <3> QED
      BY <3>1, <3>2, ContainersCountNothing
  <2> QED
    BY <1>4, <2>1, <2>2
<1> QED
  BY <1>1, <1>2, <1>3, <1>5, CountKept

LEMMA StoreVideosCounted ==
    ASSUME TreeInv, FilesInv, PublishedInv, Scan, StoreVideos
    PROVE  Counted'
<1> DEFINE items == composer.items
<1>1. /\ Counted /\ StackInv /\ tree' = tree /\ MainTypeOK /\ ScannerTypeOK /\ ComposedGood
      /\ DbTypeOK(db)
  BY TreeKept DEF PublishedInv, CountInv, Scanning, Scan, Next, Process, TreeInv, Inv, MainInv,
                  ScannerInv, FilesInv, StoreInv, DbInv
<1>2. step = "compose" /\ NextDirectory /\ AllComposed
  BY DEF StoreVideos
<1>3. Outcome(composer.parent_id, items, composer.resources)
  BY StoreVideosHolds
<1>4. faults' = 0 => faults = 0
  BY StoreVideosHolds DEF ActionKeeps, ScannerHolds
<1>5. ASSUME NEW dir \in Directory
      PROVE  /\ Top.path \in Directory
             /\ Cardinality(ScannedIn(dir)) \in Nat
             /\ Cardinality(ScannedIn(dir)') =
                    IF dir = Top.path THEN Cardinality(ScannedIn(dir)) + 1
                    ELSE Cardinality(ScannedIn(dir))
  <2>1. IsFiniteSet(ScannedIn(dir)) /\ Cardinality(ScannedIn(dir)) \in Nat
    BY <1>1, ScannedTyped
  <2>2. /\ Top.path \in Directory
        /\ dir # Top.path => ScannedIn(dir)' = ScannedIn(dir)
        /\ dir = Top.path => /\ lib \notin ScannedIn(dir)
                             /\ ScannedIn(dir)' = ScannedIn(dir) \union {lib}
    BY <1>1, <1>2, FolderScanned
  <2>3. CASE dir = Top.path
    BY <2>1, <2>2, <2>3, FS_AddElement
  <2>4. CASE dir # Top.path
    BY <2>1, <2>2, <2>4
  <2> QED
    BY <2>3, <2>4
<1>6. ASSUME NEW dir \in Directory, NEW v \in Nat PROVE TimesPublished(db, dir, v) \in Nat
  BY <1>1, ItemsFinite DEF TimesPublished
<1>7. DOMAIN items = DOMAIN tree[Top.path].videos /\ directories # <<>>
  <2>1. directories # <<>>
    BY <1>2 DEF TreeInv, Inv, ScannerInv, StepInv
  <2>2. items \in Seq(MediaObject) /\ tree[Top.path].videos \in Seq(Name)
    BY <1>1, <2>1, TopTyped, ListingTyped DEF ScannerTypeOK, Composer
  <2>3. DOMAIN items = 1 .. Len(items)
    BY <2>2, LenProperties
  <2>4. DOMAIN tree[Top.path].videos = 1 .. Len(tree[Top.path].videos)
    BY <2>2, LenProperties
  <2> QED
    BY <1>2, <2>1, <2>3, <2>4 DEF AllComposed
<1>8. CASE PutFails
  <2>1. db' = db /\ ~(faults' = 0)
    <3>1. faults \in Nat /\ db' = db /\ faults' = faults + 1
      BY <1>8, MaxFaultsAssumption DEF PutFails, TreeInv, Inv, StoreInv
    <3> QED
      BY <3>1
  <2>2. ASSUME NEW dir \in Directory, NEW v \in Nat
        PROVE  TimesPublished(db', dir, v) <= Cardinality(ScannedIn(dir)')
    <3>1. TimesPublished(db, dir, v) <= Cardinality(ScannedIn(dir))
      BY <1>1 DEF Counted
    <3>2. TimesPublished(db, dir, v) \in Nat /\ Cardinality(ScannedIn(dir)) \in Nat
      BY <1>5, <1>6
    <3>3. TimesPublished(db, dir, v) <= Cardinality(ScannedIn(dir)')
      BY <1>5, <3>1, <3>2
    <3> QED
      BY <2>1, <3>3
  <2> QED
    BY <2>1, <2>2 DEF Counted
<1>9. CASE /\ FreshBatch(composer.parent_id, items, composer.resources)
           /\ PutCommits(composer.parent_id, items, composer.resources)
  <2>1. faults' = faults
    BY <1>9 DEF PutCommits
  <2>2. ASSUME NEW dir \in Directory, NEW v \in Nat
        PROVE  /\ TimesPublished(db', dir, v) <= Cardinality(ScannedIn(dir)')
               /\ faults = 0 /\ v \in DOMAIN tree[dir].videos =>
                      TimesPublished(db', dir, v) = Cardinality(ScannedIn(dir)')
    <3> DEFINE had == TimesPublished(db, dir, v)
               scanned == Cardinality(ScannedIn(dir))
    <3>1. /\ had <= scanned
          /\ faults = 0 /\ v \in DOMAIN tree[dir].videos => had = scanned
          /\ had \in Nat /\ scanned \in Nat
      BY <1>1, <1>5, <1>6 DEF Counted
    <3>2. /\ TimesPublished(db', dir, v) =
                 IF dir = Top.path /\ v \in DOMAIN items THEN had + 1 ELSE had
          /\ Cardinality(ScannedIn(dir)') =
                 IF dir = Top.path THEN scanned + 1 ELSE scanned
      BY <1>1, <1>5, <1>9, VideosCount DEF ComposedGood
    <3> HIDE DEF had, scanned, items
    <3> QED
      BY <1>7, <3>1, <3>2
  <2> QED
    BY <1>1, <2>1, <2>2 DEF Counted
<1> QED
  BY <1>3, <1>8, <1>9 DEF Outcome

LEMMA ScanCounted ==
    ASSUME TreeInv, FilesInv, PublishedInv, Scan
    PROVE  Counted'
<1>1. /\ Counted /\ StackInv /\ tree' = tree /\ [Next]_vars /\ lib' = lib
      /\ pc = "scan" /\ ScanStep /\ ScannerTypeOK /\ Inv
      /\ pc' = "scan" \/ (pc' = "libraries" /\ step' = "idle")
  BY TreeKept DEF PublishedInv, CountInv, Scanning, Scan, Next, Process, TreeInv, Inv, ScannerInv
<1>2. ASSUME SameCount, faults' = 0 => faults = 0, directories' = directories,
             pc' = "scan" \/ directories = <<>>
      PROVE  Counted'
  <2>1. ASSUME NEW dir \in Directory PROVE Pending(dir)' <=> Pending(dir)
    <3>1. CASE pc' = "scan"
      BY <1>1, <1>2, <3>1 DEF Pending, Ahead
    <3>2. CASE pc' # "scan"
      <4>1. DOMAIN directories = {}
        BY <1>2, <3>2, EmptySeq, LenProperties
      <4> QED
        BY <3>2, <4>1 DEF Pending, Ahead
    <3> QED
      BY <3>1, <3>2
  <2>2. \A dir \in Directory : ScannedIn(dir)' = ScannedIn(dir)
    BY <1>1, <2>1, ScannedKept
  <2> QED
    BY <1>1, <1>2, <2>2, CountKept
<1>3. CASE ListDirectory \/ ComposeVideo
  <2>1. step' # "idle" /\ directories' = directories /\ db' = db /\ faults' = faults
    BY <1>3 DEF ListDirectory, StartComposing, ComposeVideo, storeVars
  <2> QED
    BY <1>1, <1>2, <2>1, SameDbSameCount
<1>4. CASE ListCollection
  <2>1. Outcome(Top.parent, <<CollectionOf(tree[Top.path])>>, CollectionResources(tree[Top.path]))
    BY <1>4, ListCollectionHolds
  <2>2. /\ step' # "idle" /\ directories' = directories
        /\ faults' = 0 => faults = 0
    BY <1>4, ListCollectionHolds DEF ListCollection, StartComposing, ActionKeeps, ScannerHolds
  <2>3. \A i \in DOMAIN <<CollectionOf(tree[Top.path])>> :
            <<CollectionOf(tree[Top.path])>>[i].resources = {}
    BY DEF CollectionOf, Container
  <2>4. SameCount
    BY <2>1, <2>3, ContainersCountNothing
  <2> QED
    BY <1>1, <1>2, <2>2, <2>4
<1>5. CASE StoreVideos
  BY <1>5, StoreVideosCounted
<1>6. CASE SkipFolder
  <2>1. /\ step = "compose" /\ NextDirectory /\ AllComposed /\ composer.items = <<>>
        /\ db' = db /\ faults' = faults
    BY <1>6 DEF SkipFolder, storeVars
  <2>2. directories # <<>> /\ MainTypeOK /\ DbTypeOK(db)
    BY <1>1, <2>1 DEF Inv, ScannerInv, StepInv, MainInv, StoreInv, DbInv
  <2>3. tree[Top.path].videos \in Seq(Name)
    BY <1>1, <2>2, TopTyped, ListingTyped
  <2>4. DOMAIN tree[Top.path].videos = {}
    BY <2>1, <2>3, EmptySeq, LenProperties DEF AllComposed
  <2>5. ASSUME NEW dir \in Directory, NEW v \in Nat
        PROVE  /\ TimesPublished(db, dir, v) <= Cardinality(ScannedIn(dir)')
               /\ faults = 0 /\ v \in DOMAIN tree[dir].videos =>
                      TimesPublished(db, dir, v) = Cardinality(ScannedIn(dir)')
    <3>1. /\ dir # Top.path => ScannedIn(dir)' = ScannedIn(dir)
          /\ dir = Top.path => /\ lib \notin ScannedIn(dir)
                               /\ ScannedIn(dir)' = ScannedIn(dir) \union {lib}
      BY <1>1, <2>1, FolderScanned
    <3>2. /\ TimesPublished(db, dir, v) <= Cardinality(ScannedIn(dir))
          /\ faults = 0 /\ v \in DOMAIN tree[dir].videos =>
                 TimesPublished(db, dir, v) = Cardinality(ScannedIn(dir))
      BY <1>1 DEF Counted
    <3>3. /\ IsFiniteSet(ScannedIn(dir)) /\ Cardinality(ScannedIn(dir)) \in Nat
          /\ TimesPublished(db, dir, v) \in Nat
      BY <2>2, ScannedTyped, ItemsFinite DEF TimesPublished
    <3>4. CASE dir = Top.path
      <4>1. Cardinality(ScannedIn(dir)') = Cardinality(ScannedIn(dir)) + 1
        BY <3>1, <3>3, <3>4, FS_AddElement
      <4> QED
        BY <2>4, <3>2, <3>3, <3>4, <4>1
    <3>5. CASE dir # Top.path
      BY <3>1, <3>2, <3>5
    <3> QED
      BY <3>4, <3>5
  <2> QED
    BY <1>1, <2>1, <2>5 DEF Counted
<1>7. CASE LibraryScanned
  <2>1. directories = <<>> /\ directories' = directories /\ db' = db /\ faults' = faults
    BY <1>7 DEF LibraryScanned, storeVars
  <2> QED
    BY <1>2, <2>1, SameDbSameCount
<1> QED
  BY <1>1, <1>3, <1>4, <1>5, <1>6, <1>7 DEF ScanStep

(* A DB with the root alone has published nothing, and no library is scanned. *)
LEMMA CreateRootCounted ==
    ASSUME TreeInv, PublishedInv, CreateRoot
    PROVE  Counted'
<1>1. /\ pc = "root" /\ pc' = "libraries" /\ lib' = lib /\ lib = 0 /\ DOMAIN db = {}
  BY DEF CreateRoot, TreeInv, Emptiness, PublishedInv, LibInv, Scanning
<1>2. db' = [k \in {Root} |-> RootContainer]
  BY <1>1 DEF CreateRoot, PutRoot
<1>3. ObjectKeys(db') = {Root} /\ db'[Root].resources = {}
  BY <1>2, FormattedTree DEF RootContainer, Container
<1>4. \A dir, v : TimesPublished(db', dir, v) = 0
  <2>1. \A location : ItemsIn(db', location) = {}
    BY <1>3 DEF ItemsIn
  <2> QED
    BY <2>1, FS_EmptySet DEF TimesPublished
<1>5. \A dir : Cardinality(ScannedIn(dir)') = 0
  <2>1. \A dir : ScannedIn(dir)' = {}
    BY <1>1 DEF ScannedIn
  <2> QED
    BY <2>1, FS_EmptySet
<1> QED
  BY <1>4, <1>5 DEF Counted

LEMMA CountedIsBounded ==
    ASSUME TreeInv', tree' = tree, content' = content, MainTypeOK, Counted'
    PROVE  Bounded(db)'
<1>1. lib' \in 0 .. Len(content) /\ DbTypeOK(db')
  BY DEF TreeInv, Inv, MainInv, MainTypeOK, StoreInv, DbInv
<1>2. ASSUME NEW dir \in Directory, NEW v \in Nat
      PROVE  TimesPublished(db', dir, v) <= Cardinality(LibrariesOf(dir))
  <2>1. ScannedIn(dir)' \in SUBSET LibrariesOf(dir)
    <3>1. 1 .. lib' \subseteq DOMAIN content
      BY <1>1, ContentTyped
    <3> QED
      BY <3>1 DEF ScannedIn, LibrariesOf
  <2>2. IsFiniteSet(LibrariesOf(dir)) /\ Cardinality(LibrariesOf(dir)) \in Nat
    BY ScannedTyped
  <2>3. /\ Cardinality(ScannedIn(dir)') <= Cardinality(LibrariesOf(dir))
        /\ Cardinality(ScannedIn(dir)') \in Nat
    BY <2>1, <2>2, FS_Subset, FS_CardinalityType
  <2>4. TimesPublished(db', dir, v) <= Cardinality(ScannedIn(dir)')
    BY DEF Counted
  <2>5. TimesPublished(db', dir, v) \in Nat
    BY <1>1, ItemsFinite DEF TimesPublished
  <2> QED
    BY <2>2, <2>3, <2>4, <2>5
<1> QED
  BY <1>2 DEF Bounded, LibrariesOf

LEMMA NextPublished ==
    ASSUME TreeInv, FilesInv, PublishedInv, [Next]_vars
    PROVE  PublishedInv'
<1>1. /\ TreeInv' /\ DbStep /\ StackInv' /\ tree' = tree /\ content' = content
      /\ MainTypeOK /\ Bounded(db) /\ Bounded(durable)
      /\ lib \in Nat
  BY NextTree, NextStack, TreeKept DEF PublishedInv, CountInv, TreeInv, Inv, MainInv, MainTypeOK
<1>2. ASSUME NEW d, Bounded(d) PROVE \A dir \in Directory : \A v \in Nat :
          TimesPublished(d, dir, v) <= Cardinality(LibrariesOf(dir)')
  BY <1>1, <1>2 DEF Bounded, LibrariesOf
<1>3. Bounded(durable)'
  <2>1. durable' \in {db, durable}
    BY <1>1 DEF DbStep
  <2> QED
    BY <1>1, <1>2, <2>1 DEF Bounded
<1>4. ASSUME db' \in {db, durable}, ~Scanning', lib' = 0 PROVE PublishedInv'
  <2>1. Bounded(db)'
    BY <1>1, <1>2, <1>4 DEF Bounded
  <2> QED
    BY <1>1, <1>3, <1>4, <2>1 DEF PublishedInv, CountInv, LibInv
<1>5. ASSUME Counted', Scanning' PROVE PublishedInv'
  BY <1>1, <1>3, <1>5, CountedIsBounded DEF PublishedInv, CountInv, LibInv
<1>6. CASE ScanLibrary
  BY <1>5, <1>6, ScanLibraryCounted DEF ScanLibrary, Scanning
<1>7. CASE Scan
  BY <1>5, <1>7, ScanCounted DEF Scan, Scanning
<1>8. CASE CreateRoot
  BY <1>5, <1>8, CreateRootCounted DEF CreateRoot, Scanning
<1>9. CASE Start \/ Reopen \/ Create
  BY <1>4, <1>9 DEF Start, Running, Reopen, OpenExisting, Create, CreateDb, storeVars, Scanning,
                    PublishedInv, LibInv
<1>10. CASE CreateRootFails \/ Throw \/ Serve \/ Stop \/ Crash \/ PowerLoss
  BY <1>4, <1>10 DEF CreateRootFails, PutFails, Throw, Serve, Stop, Crash, PowerLoss,
                     LoseUnflushed, Die, storeVars, Scanning
<1>11. CASE WriteBack \/ UNCHANGED vars
  <2>1. /\ db' = db /\ faults' = faults /\ pc' = pc /\ lib' = lib /\ directories' = directories
        /\ content' = content
    BY <1>11 DEF WriteBack, Flush, vars, storeVars, scannerVars, mainVars
  <2>2. Bounded(db)'
    BY <1>1, <1>2, <2>1 DEF Bounded
  <2>3. \A dir \in Directory : ScannedIn(dir)' = ScannedIn(dir)
    BY <1>1, <2>1, ScannedKept DEF Pending, Ahead
  <2>4. Counted => Counted'
    BY <1>1, <2>1, <2>3, CountKept, SameDbSameCount
  <2> QED
    BY <1>1, <1>3, <2>1, <2>2, <2>4 DEF PublishedInv, CountInv, LibInv, Scanning
<1> QED
  BY <1>6, <1>7, <1>8, <1>9, <1>10, <1>11 DEF Next, Process

LEMMA InitPublished == Init => PublishedInv
<1> SUFFICES ASSUME Init PROVE PublishedInv
  OBVIOUS
<1>1. /\ db = EmptyDb /\ durable = EmptyDb /\ directories = <<>> /\ step = "idle"
      /\ pc = "down" /\ lib = 0
  BY DEF Init, StoreInit, ScannerInit
<1>2. PathsInput(tree)
  <2>1. PICK input \in Inputs : tree = input.tree
    BY DEF Init
  <2> QED
    BY <2>1, PathsAssumption DEF PathsInput
<1>3. DOMAIN directories = {}
  BY <1>1, EmptySeq, LenProperties
<1>4. StackInv
  BY <1>1, <1>2, <1>3 DEF StackInv, Apart
<1>5. MainTypeOK
  BY InitInv DEF Inv, MainInv
<1>6. \A dir, v : TimesPublished(EmptyDb, dir, v) = 0
  <2>1. \A location : ItemsIn(EmptyDb, location) = {}
    BY EmptyDbInv DEF ItemsIn, ObjectKeys
  <2> QED
    BY <2>1, FS_EmptySet DEF TimesPublished
<1>7. Bounded(EmptyDb)
  BY <1>5, <1>6, ScannedTyped DEF Bounded
<1> QED
  BY <1>1, <1>4, <1>7 DEF PublishedInv, CountInv, LibInv, Scanning

LEMMA PublishedHolds == Spec => [](TreeInv /\ FilesInv /\ PublishedInv)
  BY InitTree, InitFiles, InitPublished, NextTree, NextFiles, NextPublished, PTL DEF Spec

(***************************************************************************)
(* However often a scan is cut short and the service started again, no     *)
(* video is published more often than libraries reach it (main, scan_all). *)
(***************************************************************************)
THEOREM NeverPublishedTwice == Spec => []NotPublishedTwice
<1>1. ASSUME TreeInv, PublishedInv PROVE NotPublishedTwice
  <2> SUFFICES ASSUME NEW k \in ObjectKeys(db), NEW r \in db[k].resources,
                      db[r].location.kind = "video"
               PROVE  Cardinality(ItemsIn(db, db[r].location))
                          <= Cardinality(LibrariesOf(db[r].location.dir))
    BY DEF NotPublishedTwice
  <2> DEFINE location == db[r].location
  <2>1. DbTypeOK(db) /\ RefsResolveIn(db)
    BY <1>1 DEF TreeInv, Inv, StoreInv, DbInv
  <2>2. r \in DOMAIN db \ ObjectKeys(db)
    BY <2>1, UsesTyped DEF UsesOf
  <2>3. db[r] \in Resource
    BY <2>1, <2>2 DEF DbTypeOK, ObjectKeys
  <2>4. location \in [dir : Directory, kind : FileKinds, index : Nat]
    BY <2>3 DEF Resource, Location
  <2>5. location = At(location.dir, "video", location.index)
    BY <2>4 DEF At
  <2>6. location.dir \in Directory /\ location.index \in Nat
    BY <2>4
  <2>7. TimesPublished(db, location.dir, location.index) <= Cardinality(LibrariesOf(location.dir))
    BY <1>1, <2>6 DEF PublishedInv, CountInv, Bounded
  <2> QED
    BY <2>5, <2>7 DEF TimesPublished
<1> QED
  BY <1>1, PublishedHolds, PTL

(***************************************************************************)
(* A scan without a fault publishes every video once for each library that *)
(* reaches it, in whatever order the folders are listed (main, scan_all).  *)
(***************************************************************************)
THEOREM ScanAlwaysComplete == Spec => []ScanComplete
<1>1. ASSUME TreeInv, PublishedInv PROVE ScanComplete
  <2> SUFFICES ASSUME pc = "libraries", lib = Len(content), faults = 0,
                      NEW dir \in Directory, NEW v \in DOMAIN tree[dir].videos
               PROVE  TimesPublished(db, dir, v) = Cardinality(LibrariesOf(dir))
    BY DEF ScanComplete, VideosPublished, TimesPublished
  <2>1. MainTypeOK /\ tree[dir] \in Listing
    BY <1>1 DEF TreeInv, Inv, MainInv, ScannerInv, ScannerTypeOK
  <2>2. v \in Nat
    BY <2>1, ListingTyped
  <2>3. TimesPublished(db, dir, v) = Cardinality(ScannedIn(dir))
    BY <1>1, <2>2 DEF PublishedInv, CountInv, Scanning, Counted
  <2>4. ScannedIn(dir) = LibrariesOf(dir)
    <3>1. DOMAIN content = 1 .. lib
      BY <2>1, ContentTyped
    <3> QED
      BY <3>1 DEF ScannedIn, LibrariesOf, Pending
  <2> QED
    BY <2>3, <2>4
<1> QED
  BY <1>1, PublishedHolds, PTL

-----------------------------------------------------------------------------
(* The folders ahead are those below the stack. *)
LEMMA AheadOfStack ==
    /\ FoldersAhead = {dir \in Directory : Ahead(directories, dir)}
    /\ FoldersAhead' = {dir \in Directory : Ahead(directories, dir)'}
  BY DEF FoldersAhead, Ahead, Reaches

LEMMA OneMoreItem ==
    ASSUME Inv, ComposeVideo
    PROVE  /\ Len(composer'.items) = Len(composer.items) + 1
           /\ Len(composer'.items) <= Len(tree[Top.path].videos)
<1> DEFINE old == composer.items
<1>1. composer \in Composer /\ old \in Seq(MediaObject)
  BY DEF Inv, ScannerInv, ScannerTypeOK, Composer
<1>2. PICK item : composer'.items = Append(old, item)
  BY <1>1 DEF ComposeVideo, Composer
<1>3. Len(old) + 1 <= Len(tree[Top.path].videos)
  BY DEF ComposeVideo
<1> HIDE DEF old
<1>4. old \in Seq(MediaObject \union {item}) /\ item \in MediaObject \union {item}
  BY <1>1
<1>5. Len(Append(old, item)) = Len(old) + 1
  BY ONLY <1>4, AppendProperties
<1> QED
  BY <1>2, <1>3, <1>5 DEF old

(***************************************************************************)
(* Each step of a scan brings its library nearer to its end, with faults   *)
(* or without (scan_all, scan_directory): folders are finite in number and *)
(* so are the videos of each, so a scan ends unless something ends it.     *)
(***************************************************************************)
THEOREM ScanAlwaysAdvances == Spec => ScanAdvances
<1> DEFINE Ends == step = "list" /\ step' = "idle" /\ FoldersAhead = {}
           Enters == /\ step = "list" /\ step' = "compose"
                     /\ FoldersAhead' = FoldersAhead
                     /\ Len(composer'.items) = 0
           Composes == /\ step = "compose" /\ step' = "compose"
                       /\ FoldersAhead' = FoldersAhead
                       /\ Len(composer'.items) = Len(composer.items) + 1
                       /\ Len(composer'.items) <= Len(tree[Top.path].videos)
           Leaves == /\ step = "compose" /\ step' = "list"
                     /\ Top.path \in FoldersAhead
                     /\ FoldersAhead' = FoldersAhead \ {Top.path}
<1>1. ASSUME TreeInv, StackInv, Scan
      PROVE  Ends \/ Enters \/ Composes \/ Leaves
  <2>1. tree' = tree /\ ScanStep
    BY <1>1, TreeKept DEF Next, Process, Scan
  <2>2. ScannerTypeOK /\ StepInv /\ Inv
    BY <1>1 DEF TreeInv, Inv, ScannerInv
  <2>3. directories' = directories => FoldersAhead' = FoldersAhead
    BY <2>1 DEF FoldersAhead
  <2>4. CASE ListDirectory \/ ListCollection
    <3>1. /\ step = "list" /\ step' = "compose" /\ directories' = directories
          /\ composer'.items = <<>>
      BY <2>4 DEF ListDirectory, ListCollection, StartComposing
    <3> QED
      BY <2>3, <3>1, EmptySeq
  <2>5. CASE ComposeVideo
    <3>1. step = "compose" /\ step' = step /\ directories' = directories
      BY <2>5 DEF ComposeVideo
    <3> QED
      BY <2>2, <2>3, <2>5, <3>1, OneMoreItem
  <2>6. CASE StoreVideos \/ SkipFolder
    <3>1. step = "compose" /\ step' = "list" /\ directories' = PopThenPush
      BY <2>6 DEF StoreVideos, SkipFolder, NextDirectory
    <3>2. directories # <<>> /\ PathsInput(tree) /\ Apart(directories) /\ SubsListed
      BY <1>1, <2>2, <3>1 DEF StepInv, StackInv
    <3>3. /\ Ahead(directories, Top.path) /\ ~Ahead(PopThenPush, Top.path)
          /\ \A dir \in Directory \ {Top.path} :
                Ahead(PopThenPush, dir) <=> Ahead(directories, dir)
      BY <2>2, <3>2, PushedAhead
    <3>4. \A dir : Ahead(directories, dir)' <=> Ahead(PopThenPush, dir)
      BY <2>1, <3>1 DEF Ahead
    <3>5. Top.path \in Directory
      BY <2>2, <3>2, TopTyped
    <3> QED
      BY <3>1, <3>3, <3>4, <3>5, AheadOfStack
  <2>7. CASE LibraryScanned
    <3>1. step = "list" /\ step' = "idle" /\ directories = <<>>
      BY <2>7 DEF LibraryScanned
    <3>2. FoldersAhead = {}
      BY <3>1, EmptySeq, LenProperties DEF FoldersAhead
    <3> QED
      BY <3>1, <3>2
  <2> QED
    BY <2>1, <2>4, <2>5, <2>6, <2>7 DEF ScanStep
<1>2. TreeInv /\ PublishedInv =>
          [Scan => \/ step = "list" /\ step' = "idle" /\ FoldersAhead = {}
                   \/ /\ step = "list" /\ step' = "compose"
                      /\ FoldersAhead' = FoldersAhead
                      /\ Len(composer'.items) = 0
                   \/ /\ step = "compose" /\ step' = "compose"
                      /\ FoldersAhead' = FoldersAhead
                      /\ Len(composer'.items) = Len(composer.items) + 1
                      /\ Len(composer'.items) <= Len(tree[Top.path].videos)
                   \/ /\ step = "compose" /\ step' = "list"
                      /\ Top.path \in FoldersAhead
                      /\ FoldersAhead' = FoldersAhead \ {Top.path}]_vars
  BY <1>1 DEF PublishedInv
<1> QED
  BY <1>2, PublishedHolds, PTL DEF ScanAdvances
=============================================================================
