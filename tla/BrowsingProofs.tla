--------------------------- MODULE BrowsingProofs ---------------------------
(***************************************************************************)
(* What a control point is answered: every link leads somewhere, whatever  *)
(* is wrong with a request is told, and a walk over the tree, page by page *)
(* and through deaths and power losses, gives each object exactly once.    *)
(***************************************************************************)
EXTENDS Browsing, VideoProofs

(***************************************************************************)
(* A control point reads: each of its steps is a step of EemsMain or       *)
(* leaves the program alone, so that all that holds of the DB holds here.  *)
(***************************************************************************)
LEMMA BrowsedStep == [BrowsingNext]_browsingVars => [Next]_vars
  BY DEF BrowsingNext, BeginWalk, ControlPoint, ReadPage, PageDue, NotAnswered, browsingVars

LEMMA BrowsedTree == BrowsingSpec => [](TreeInv /\ FilesInv)
  BY BrowsedStep, InitTree, InitFiles, NextTree, NextFiles, PTL DEF BrowsingSpec, BrowsingInit

(***************************************************************************)
(* A lookup that succeeds, of whatever identifier a client has sent.       *)
(***************************************************************************)
LEMMA FoundIsThere ==
    ASSUME NEW K \in SUBSET KeySet, NEW key, key # Invalid, Found(K, key)
    PROVE  key \in K
<1> DEFINE S == {k \in K : Compare(k, key) >= 0}
<1>1. Least(S) = key
  BY DEF Found, Seek
<1>2. S # {}
  BY <1>1 DEF Least
<1> QED
  BY <1>1, <1>2, LeastIsLeast

LEMMA ObjectKeyValid ==
    ASSUME NEW id
    PROVE  ObjectKey(id) # Invalid /\ ObjectKey(id).key_type = ObjectKeyType /\ ObjectKey(id).id = id
  BY DEF ObjectKey, LibraryKey, Invalid, ObjectKeyType

(* An object is asked for by its identifier alone. *)
LEMMA AskedById ==
    ASSUME NEW k \in ObjectKeySet
    PROVE  ObjectKey(k.id) = k /\ k.id \in Int64
  BY MaxIdAssumption DEF ObjectKey, LibraryKey, ObjectKeySet, KeySet, Int64

LEMMA ResourceById ==
    ASSUME NEW k \in ResourceKeySet
    PROVE  ResourceKey(k.id) = k
  BY DEF ResourceKey, LibraryKey, ResourceKeySet, KeySet

-----------------------------------------------------------------------------
(***************************************************************************)
(* browse_response: a page is a stretch of the list.                       *)
(***************************************************************************)
LEMMA PageOfList ==
    ASSUME NEW S, NEW list \in Seq(S), NEW start_index \in Nat, NEW requested_count \in Nat
    PROVE  LET stretch == Page(list, start_index, requested_count)
           IN  /\ stretch \in Seq(S) /\ Len(stretch) \in Nat /\ DOMAIN stretch = 1 .. Len(stretch)
               /\ \A i \in 1 .. Len(stretch) : /\ start_index + i \in 1 .. Len(list)
                                            /\ stretch[i] = list[start_index + i]
<1> DEFINE after == start_index + CountOf(list, requested_count)
           end == IF after > Len(list) THEN Len(list) ELSE after
           stretch == SubSeq(list, start_index + 1, end)
<1>1. Len(list) \in Nat /\ DOMAIN list = 1 .. Len(list) /\ \A i \in 1 .. Len(list) : list[i] \in S
  BY LenProperties, ElementOfSeq
<1>2. CountOf(list, requested_count) \in Nat
  BY <1>1, CountModulusAssumption DEF CountOf
<1>3. end \in Nat /\ end <= Len(list)
  BY <1>1, <1>2
<1> HIDE DEF end
<1>4. \A i \in start_index + 1 .. end : list[i] \in S
  BY <1>1, <1>3
<1>5. /\ stretch \in Seq(S)
      /\ Len(stretch) = IF start_index + 1 <= end THEN end - (start_index + 1) + 1 ELSE 0
      /\ \A i \in 1 .. end - (start_index + 1) + 1 : stretch[i] = list[start_index + 1 + i - 1]
  BY <1>3, <1>4, SubSeqProperties
<1> HIDE DEF stretch
<1>6. Len(stretch) \in Nat /\ DOMAIN stretch = 1 .. Len(stretch)
  BY <1>5, LenProperties
<1>7. ASSUME NEW i \in 1 .. Len(stretch)
      PROVE  start_index + i \in 1 .. Len(list) /\ stretch[i] = list[start_index + i]
  <2>1. i \in 1 .. end - (start_index + 1) + 1 /\ start_index + 1 + i - 1 = start_index + i
    BY <1>3, <1>5, <1>6
  <2>2. start_index + i \in 1 .. Len(list)
    BY <1>1, <1>3, <2>1
  <2> QED
    BY <2>1, <2>2, <1>5
<1> QED
  BY <1>5, <1>6, <1>7 DEF Page, stretch, end

(* What the answer to Browse for a list says. *)
AnswersPage(answer, list, start_index, requested_count) ==
    LET stretch == Page(list, start_index, requested_count)
    IN  /\ answer.objects = [i \in DOMAIN stretch |-> SerializeMediaObject(db[stretch[i]])]
        /\ answer.number_returned = Len(stretch)
        /\ answer.total_matches = Len(list)

(* browse_response throws only at an object that is listed and missing. *)
LEMMA PageAnswered ==
    ASSUME NEW list \in Seq(ObjectKeySet), NEW start_index \in Nat, NEW requested_count \in Nat,
           DbTypeOK(db)
    PROVE  LET reply == BrowseResponse(list, start_index, requested_count)
           IN  /\ reply.outcome \in {"ok", "throws"}
               /\ reply.outcome = "ok" => AnswersPage(reply.answer, list, start_index, requested_count)
               /\ reply.outcome = "throws" => \E i \in DOMAIN list : list[i] \notin DOMAIN db
<1> DEFINE stretch == Page(list, start_index, requested_count)
           missing == \E i \in DOMAIN stretch : ~Found(DOMAIN db, stretch[i])
           reply == BrowseResponse(list, start_index, requested_count)
<1>1. ASSUME missing PROVE \E i \in DOMAIN list : list[i] \notin DOMAIN db
  <2>1. PICK i \in DOMAIN stretch : ~Found(DOMAIN db, stretch[i])
    BY <1>1
  <2>2. /\ stretch[i] \in KeySet /\ start_index + i \in DOMAIN list /\ stretch[i] = list[start_index + i]
    BY <2>1, PageOfList, LenProperties, ElementOfSeq, KeyTypesApart
  <2>3. stretch[i] \notin DOMAIN db
    BY <2>1, <2>2, LookupExact DEF DbTypeOK
  <2> QED
    BY <2>2, <2>3
<1>2. CASE missing
  BY <1>1, <1>2 DEF BrowseResponse, Closes
<1>3. CASE ~missing
  BY <1>3 DEF BrowseResponse, Answered, AnswersPage, TotalMatches
<1> QED
  BY <1>2, <1>3

-----------------------------------------------------------------------------
(***************************************************************************)
(* handle_upnp_request, of a proper Browse.                                *)
(***************************************************************************)
LEMMA BrowseHandled ==
    ASSUME NEW id \in Int64, NEW flag \in BrowseFlags, NEW start_index, NEW requested_count \in UInt32
    PROVE  LET reply == HandleUpnpRequest(BrowseRequest(id, flag, start_index, requested_count))
           IN  IF start_index \notin UInt32 THEN reply = Failed(402)
               ELSE IF ~Readable(flag, ObjectKey(id)) THEN reply = Closes
               ELSE reply = BrowseResponse(Contents(flag, ObjectKey(id)), start_index, requested_count)
<1> DEFINE req == BrowseRequest(id, flag, start_index, requested_count)
<1>1. /\ req.sub_path = "cds" /\ req.method = "POST" /\ req.content_type = "text/xml"
      /\ req.soapaction = "Browse" /\ req.body = "Browse" /\ req.ObjectID = id
      /\ req.BrowseFlag = flag /\ req.StartingIndex = start_index
      /\ req.RequestedCount = requested_count
  BY DEF BrowseRequest
<1> HIDE DEF req
<1>2. HandleUpnpRequest(req) = HandleCdsBrowse(req)
  BY <1>1 DEF HandleUpnpRequest, ParseSoapRequest, Descriptions
<1> QED
  BY <1>1, <1>2 DEF HandleCdsBrowse, req

LEMMA ListTyped ==
    ASSUME NEW d, DbTypeOK(d), NEW k \in ObjectKeys(d)
    PROVE  /\ d[k].objects \in Seq(ObjectKeySet)
           /\ Len(d[k].objects) \in Nat /\ DOMAIN d[k].objects = 1 .. Len(d[k].objects)
           /\ \A j \in DOMAIN d[k].objects : d[k].objects[j] \in ObjectKeySet
<1>1. d[k].objects \in Seq(ObjectKeySet)
  BY ObjectsTyped DEF MediaObject
<1> QED
  BY <1>1, LenProperties, ElementOfSeq

LEMMA FoundContainer ==
    ASSUME DbTypeOK(db), NEW id
    PROVE  LET key == ObjectKey(id)
           IN  ContainerFound(key) => key \in ObjectKeys(db) /\ IsContainer(db, key)
  BY FoundIsThere, ObjectKeyValid DEF ContainerFound, DbTypeOK, ObjectKeys, IsContainer

(* Browse for children: a page, or the container is not there. *)
LEMMA ChildrenAnswered ==
    ASSUME DbTypeOK(db), RefsResolveIn(db),
           NEW id \in 0 .. MaxId, NEW start_index \in Nat, NEW requested_count \in UInt32
    PROVE  LET key == ObjectKey(id)
               reply == HandleUpnpRequest(
                            BrowseRequest(id, "BrowseDirectChildren", start_index, requested_count))
           IN  /\ reply.outcome = "ok" =>
                     /\ key \in ObjectKeys(db) /\ IsContainer(db, key)
                     /\ AnswersPage(reply.answer, db[key].objects, start_index, requested_count)
               /\ reply.outcome # "ok" => start_index \notin UInt32 \/ ~IsContainer(db, key)
<1> DEFINE key == ObjectKey(id)
           flag == "BrowseDirectChildren"
           reply == HandleUpnpRequest(BrowseRequest(id, flag, start_index, requested_count))
<1>1. key \in ObjectKeySet /\ id \in Int64 /\ flag \in BrowseFlags /\ requested_count \in Nat
  BY KeysTyped, MaxIdAssumption, CountModulusAssumption DEF Int64, BrowseFlags, UInt32
<1>2. Readable(flag, key) <=> ContainerFound(key)
  BY DEF Readable
<1>3. Contents(flag, key) = db[key].objects
  BY DEF Contents, List
<1>4. CASE start_index \notin UInt32
  BY <1>1, <1>4, BrowseHandled DEF Failed
<1>5. CASE start_index \in UInt32 /\ ~ContainerFound(key)
  <2>1. reply = Closes
    BY <1>1, <1>2, <1>5, BrowseHandled
  <2>2. ~IsContainer(db, key)
    BY <1>1, <1>5, ContainersFound
  <2> QED
    BY <2>1, <2>2 DEF Closes
<1>6. CASE start_index \in UInt32 /\ ContainerFound(key)
  <2>1. reply = BrowseResponse(db[key].objects, start_index, requested_count)
    BY <1>1, <1>2, <1>3, <1>6, BrowseHandled
  <2>2. key \in ObjectKeys(db) /\ IsContainer(db, key)
    BY <1>6, FoundContainer
  <2>3. db[key].objects \in Seq(ObjectKeySet)
    BY <2>2, ListTyped
  <2>4. \A i \in DOMAIN db[key].objects : db[key].objects[i] \in DOMAIN db
    BY <2>2 DEF RefsResolveIn
  <2> HIDE DEF reply, key
  <2>5. /\ reply.outcome \in {"ok", "throws"}
        /\ reply.outcome = "ok" =>
              AnswersPage(reply.answer, db[key].objects, start_index, requested_count)
        /\ reply.outcome = "throws" =>
              \E i \in DOMAIN db[key].objects : db[key].objects[i] \notin DOMAIN db
    BY <1>1, <2>1, <2>3, PageAnswered
  <2> QED
    BY <2>2, <2>4, <2>5 DEF reply, key
<1> QED
  BY <1>4, <1>5, <1>6

-----------------------------------------------------------------------------
(* A request without an answer has passed all the checks. *)
LEMMA ProperRequest ==
    ASSUME NEW req \in StrangeRequests, HandleUpnpRequest(req).outcome = "throws"
    PROVE  Proper(req) /\ HandleUpnpRequest(req) = HandleCdsBrowse(req)
<1>1. /\ ParseSoapRequest(req) = 200 /\ req.sub_path = "cds" /\ req.soapaction = "Browse"
      /\ HandleUpnpRequest(req) = HandleCdsBrowse(req)
  BY DEF HandleUpnpRequest, Answered, Failed
<1>2. req.method = "POST" /\ req.content_type = "text/xml" /\ req.body = "Browse"
  BY <1>1 DEF ParseSoapRequest
<1>3. /\ req.ObjectID \in Int64 /\ req.BrowseFlag \in BrowseFlags
      /\ req.StartingIndex \in UInt32 /\ req.RequestedCount \in UInt32
  BY <1>1 DEF HandleCdsBrowse, Failed
<1>4. req = BrowseRequest(req.ObjectID, req.BrowseFlag, req.StartingIndex, req.RequestedCount)
  <2> DEFINE other == BrowseRequest(req.ObjectID, req.BrowseFlag, req.StartingIndex, req.RequestedCount)
  <2>1. req = [field \in RequestFields |-> req[field]]
    BY StrangeRequestsAssumption
  <2>2. other = [field \in RequestFields |-> other[field]]
    BY DEF BrowseRequest, RequestFields
  <2>3. \A field \in RequestFields : req[field] = other[field]
    BY <1>1, <1>2 DEF BrowseRequest, RequestFields
  <2> HIDE DEF other
  <2>4. [field \in RequestFields |-> req[field]] = [field \in RequestFields |-> other[field]]
    BY <2>3
  <2> QED
    BY <2>1, <2>2, <2>4 DEF other
<1> QED
  BY <1>1, <1>3, <1>4 DEF Proper

(***************************************************************************)
(* handle_upnp_request has no answer only for a proper Browse of what is   *)
(* not there, or of the children of an item: not even an object that is    *)
(* listed but missing, as its list never names one (browse_response).      *)
(***************************************************************************)
THEOREM ErrorsAlwaysAnswered == BrowsingSpec => []ErrorsAnswered
<1>1. ASSUME TreeInv, NEW req \in StrangeRequests, HandleUpnpRequest(req).outcome = "throws"
      PROVE  /\ Proper(req)
             /\ \/ ObjectKey(req.ObjectID) \notin DOMAIN db
                \/ /\ req.BrowseFlag = "BrowseDirectChildren"
                   /\ db[ObjectKey(req.ObjectID)].data_type = "MediaItem"
  <2> DEFINE key == ObjectKey(req.ObjectID)
             flag == req.BrowseFlag
  <2>1. Proper(req) /\ HandleCdsBrowse(req).outcome = "throws"
    BY <1>1, ProperRequest
  <2>2. DbTypeOK(db) /\ RefsResolveIn(db)
    BY <1>1 DEF TreeInv, Inv, StoreInv, DbInv
  <2>3. /\ flag \in BrowseFlags /\ req.StartingIndex \in UInt32 /\ req.RequestedCount \in UInt32
        /\ req.StartingIndex \in Nat /\ req.RequestedCount \in Nat
    BY <2>1, CountModulusAssumption DEF Proper, UInt32
  <2> SUFFICES ASSUME key \in DOMAIN db
               PROVE  flag = "BrowseDirectChildren" /\ db[key].data_type = "MediaItem"
    BY <2>1
  <2>4. key \in ObjectKeys(db) /\ key \in ObjectKeySet /\ db[key] \in MediaObject
    BY <2>2, ObjectKeyValid, ObjectsTyped DEF ObjectKeys
  <2>5. HandleCdsBrowse(req) =
            IF ~Readable(flag, key) THEN Closes
            ELSE BrowseResponse(Contents(flag, key), req.StartingIndex, req.RequestedCount)
    BY <2>1, <2>3 DEF HandleCdsBrowse, Proper
  <2>6. Contents(flag, key) \in Seq(ObjectKeySet)
    BY <2>2, <2>3, <2>4, ListTyped DEF Contents, List
  <2>7. \A i \in DOMAIN Contents(flag, key) : Contents(flag, key)[i] \in DOMAIN db
    <3>1. CASE flag = "BrowseMetadata"
      BY <3>1 DEF Contents
    <3>2. CASE flag # "BrowseMetadata"
      BY <2>2, <2>4, <3>2 DEF Contents, List, RefsResolveIn
    <3> QED
      BY <3>1, <3>2
  <2>8. ~Readable(flag, key)
    BY <2>1, <2>2, <2>3, <2>5, <2>6, <2>7, PageAnswered
  <2>9. flag = "BrowseDirectChildren" /\ ~IsContainer(db, key)
    BY <2>2, <2>3, <2>4, <2>8, ContainersFound DEF Readable, BrowseFlags
  <2> QED
    BY <2>4, <2>9 DEF IsContainer, MediaObject
<1>2. TreeInv => ErrorsAnswered
  BY <1>1 DEF ErrorsAnswered
<1> QED
  BY <1>2, BrowsedTree, PTL

-----------------------------------------------------------------------------
(***************************************************************************)
(* What an object says of itself: the media object, and behind its URLs    *)
(* the files of it.                                                        *)
(***************************************************************************)
LEMMA MetadataAnswered ==
    ASSUME DbTypeOK(db), NEW k \in ObjectKeys(db)
    PROVE  LET reply == HandleUpnpRequest(BrowseRequest(k.id, "BrowseMetadata", 0, 0))
           IN  reply.answer.objects = <<SerializeMediaObject(db[k])>>
<1> DEFINE reply == HandleUpnpRequest(BrowseRequest(k.id, "BrowseMetadata", 0, 0))
           list == <<k>>
<1>1. k \in ObjectKeySet /\ k \in DOMAIN db /\ k \in KeySet
  BY ObjectsTyped, KeyTypesApart
<1>2. k.id \in Int64 /\ ObjectKey(k.id) = k /\ 0 \in UInt32 /\ "BrowseMetadata" \in BrowseFlags
  BY <1>1, AskedById, CountModulusAssumption DEF UInt32, BrowseFlags
<1>3. reply = BrowseResponse(list, 0, 0)
  <2>1. Readable("BrowseMetadata", k) /\ Contents("BrowseMetadata", k) = list
    BY DEF Readable, Contents
  <2> QED
    BY <1>2, <2>1, BrowseHandled
<1>4. Page(list, 0, 0) = list
  <2>1. Len(list) = 1 /\ list \in Seq(ObjectKeySet)
    BY <1>1
  <2>2. CountOf(list, 0) = 1
    BY <2>1, CountModulusAssumption DEF CountOf
  <2>3. Page(list, 0, 0) = SubSeq(list, 1, Len(list))
    BY <2>1, <2>2 DEF Page
  <2> QED
    BY <2>1, <2>3, SubSeqFull
<1>5. DOMAIN list = {1} /\ list[1] = k /\ Found(DOMAIN db, k)
  BY <1>1, LookupExact DEF DbTypeOK
<1> HIDE DEF list
<1>6. reply.answer.objects = [i \in DOMAIN list |-> SerializeMediaObject(db[list[i]])]
  BY <1>3, <1>4, <1>5 DEF BrowseResponse, Answered
<1>7. reply.answer.objects = [i \in {1} |-> SerializeMediaObject(db[k])]
  BY <1>5, <1>6
<1> QED
  BY <1>7

(* The content service finds the file of a resource. *)
LEMMA ContentServed ==
    ASSUME DbTypeOK(db), NEW r \in DOMAIN db \ ObjectKeys(db)
    PROVE  ContentAt(r.id) = {db[r]} /\ FilesIn(db)[r] = db[r].location
<1>1. r \in KeySet /\ r \in ResourceKeySet
  BY KeyTypesApart DEF DbTypeOK, ObjectKeys
<1>2. Found(DOMAIN db, r)
  BY <1>1, LookupExact DEF DbTypeOK
<1> QED
  BY <1>1, <1>2, ResourceById DEF ContentAt, GetResource, FilesIn

(* The files behind the URLs of an object. *)
LEMMA UrlsServed ==
    ASSUME DbTypeOK(db), RefsResolveIn(db), AllGood(tree, db), NEW k \in ObjectKeys(db)
    PROVE  LET o == SerializeMediaObject(db[k])
           IN  /\ \A url \in o.albumArt : \E r \in ContentAt(url) : r.location.kind = "image"
               /\ \A url \in o.res : \E r \in ContentAt(url) : r.location.kind \in {"video", "text"}
<1> DEFINE object == db[k]
           files == FilesIn(db)
<1>1. Good(tree, object, files)
  BY DEF AllGood
<1>2. UsesOf(object) \subseteq DOMAIN db \ ObjectKeys(db)
  BY UsesTyped
<1>3. \A a \in object.artwork : a.ref \in UsesOf(object) /\ files[a.ref].kind = "image"
  BY <1>1 DEF Good, OnlyImages, Plays, UsesOf
<1>4. \A r \in object.resources : r \in UsesOf(object) /\ files[r].kind \in {"video", "text"}
  BY <1>1 DEF Good, OnlyImages, Plays, UsesOf
<1> HIDE DEF object, files
<1>5. ASSUME NEW a \in object.artwork
      PROVE  \E r \in ContentAt(a.ref.id) : r.location.kind = "image"
  <2>1. a.ref \in DOMAIN db \ ObjectKeys(db) /\ files[a.ref].kind = "image"
    BY <1>2, <1>3
  <2>2. ContentAt(a.ref.id) = {db[a.ref]} /\ files[a.ref] = db[a.ref].location
    BY <2>1, ContentServed DEF files
  <2> QED
    BY <2>1, <2>2
<1>6. \A q \in object.resources : \E r \in ContentAt(q.id) : r.location.kind \in {"video", "text"}
  BY <1>2, <1>4, ContentServed DEF files
<1> QED
  BY <1>5, <1>6 DEF SerializeMediaObject, object

(* A child names the container it is listed in, and is not the root. *)
LEMMA ChildOfParent ==
    ASSUME NEW d, TreeIn(d), DbTypeOK(d), RefsResolveIn(d),
           NEW p \in ObjectKeys(d), NEW j \in DOMAIN d[p].objects
    PROVE  LET k == d[p].objects[j]
           IN  /\ k \in ObjectKeys(d) /\ k # Root /\ k.id \in 1 .. MaxId
               /\ d[k].id = k /\ d[k].parent_id = p
               /\ d[p].data_type = "MediaContainer"
               /\ \A q \in ObjectKeys(d) : \A i \in DOMAIN d[q].objects :
                     d[q].objects[i] = k => q = p /\ i = j
<1> DEFINE k == d[p].objects[j]
<1>1. k \in ObjectKeySet /\ k \in DOMAIN d /\ p \in ObjectKeySet
  BY ListTyped, ObjectsTyped DEF RefsResolveIn
<1>2. k \in ObjectKeys(d) /\ k.id \in 0 .. MaxId /\ p.id \in 0 .. MaxId
  BY <1>1, KeyTypesApart DEF ObjectKeys
<1>3. p.id < k.id
  BY DEF TreeIn, Downward
<1>4. k # Root /\ k.id \in 1 .. MaxId
  BY <1>2, <1>3, RootIsKey
<1> HIDE DEF k
<1>5. d[k].id = k /\ ProperlyListed(d, k)
  BY <1>2, <1>4 DEF TreeIn, TreeShapedIn
<1>6. PICK i \in DOMAIN d[d[k].parent_id].objects :
          \A q \in ObjectKeys(d) : \A n \in DOMAIN d[q].objects :
              d[q].objects[n] = k <=> q = d[k].parent_id /\ n = i
  BY <1>5 DEF ProperlyListed
<1>7. p = d[k].parent_id /\ j = i
  BY <1>6 DEF k
<1>8. d[p].data_type = "MediaContainer"
  BY <1>5, <1>7 DEF ProperlyListed
<1> QED
  BY <1>2, <1>4, <1>5, <1>6, <1>7, <1>8 DEF k

(***************************************************************************)
(* Every link in an answer leads somewhere, whatever has been interrupted, *)
(* lost or not written (serialize_media_object, create_response).          *)
(***************************************************************************)
THEOREM LinksAlwaysServed == BrowsingSpec => []LinksServed
<1>1. ASSUME TreeInv, FilesInv, NEW k \in ObjectKeys(db),
             HandleUpnpRequest(BrowseRequest(k.id, "BrowseDirectChildren", 0, 0)).outcome = "ok"
      PROVE  LET answer == HandleUpnpRequest(BrowseRequest(k.id, "BrowseDirectChildren", 0, 0)).answer
             IN  \A i \in DOMAIN answer.objects : LinksLead(answer.objects[i], k.id)
  <2> DEFINE reply == HandleUpnpRequest(BrowseRequest(k.id, "BrowseDirectChildren", 0, 0))
             list == db[k].objects
             stretch == Page(list, 0, 0)
  <2>1. DbTypeOK(db) /\ RefsResolveIn(db) /\ TreeIn(db) /\ AllGood(tree, db)
    BY <1>1 DEF TreeInv, Inv, StoreInv, DbInv, FilesInv
  <2>2. ObjectKey(k.id) = k /\ k.id \in 0 .. MaxId /\ 0 \in UInt32
    BY <2>1, ObjectsTyped, AskedById, KeyTypesApart, CountModulusAssumption DEF UInt32
  <2>3. AnswersPage(reply.answer, list, 0, 0)
    BY <1>1, <2>1, <2>2, ChildrenAnswered
  <2>4. /\ DOMAIN stretch = 1 .. Len(stretch)
        /\ \A i \in 1 .. Len(stretch) : 0 + i \in 1 .. Len(list) /\ stretch[i] = list[0 + i]
    BY <2>1, ListTyped, PageOfList
  <2>5. DOMAIN list = 1 .. Len(list)
    BY <2>1, ListTyped
  <2> HIDE DEF reply, stretch
  <2>6. reply.answer.objects = [i \in DOMAIN stretch |-> SerializeMediaObject(db[stretch[i]])]
    BY <2>3 DEF AnswersPage, stretch
  <2>7. ASSUME NEW i \in DOMAIN stretch PROVE LinksLead(SerializeMediaObject(db[stretch[i]]), k.id)
    <3> DEFINE child == stretch[i]
               o == SerializeMediaObject(db[child])
    <3>1. \E j \in DOMAIN list : child = list[j]
      BY <2>4, <2>5
    <3>2. child \in ObjectKeys(db) /\ db[child].id = child /\ db[child].parent_id = k
      BY <2>1, <3>1, ChildOfParent
    <3>3. o.id = child.id /\ o.parentID = k.id
      BY <3>2 DEF SerializeMediaObject
    <3>4. HandleUpnpRequest(BrowseRequest(child.id, "BrowseMetadata", 0, 0)).answer.objects = <<o>>
      BY <2>1, <3>2, MetadataAnswered
    <3>5. /\ \A url \in o.albumArt : \E r \in ContentAt(url) : r.location.kind = "image"
          /\ \A url \in o.res : \E r \in ContentAt(url) : r.location.kind \in {"video", "text"}
      BY <2>1, <3>2, UrlsServed
    <3> QED
      BY <3>3, <3>4, <3>5 DEF LinksLead
  <2> QED
    BY <2>6, <2>7 DEF reply
<1>2. TreeInv /\ FilesInv => LinksServed
  BY <1>1 DEF LinksServed
<1> QED
  BY <1>2, BrowsedTree, PTL

-----------------------------------------------------------------------------
(***************************************************************************)
(* The walk.  What is durable has, in the DB, at least the children it has *)
(* there, and the root is a container.                                     *)
(***************************************************************************)
Earlier(d, e) ==
    \A k \in ObjectKeys(d) :
        /\ k \in ObjectKeys(e) /\ d[k].data_type = e[k].data_type
        /\ \A j \in DOMAIN d[k].objects : /\ j \in DOMAIN e[k].objects
                                          /\ d[k].objects[j] = e[k].objects[j]

RootHolds(d) == Root \in ObjectKeys(d) => d[Root].data_type = "MediaContainer"

DurableInv == Earlier(durable, db) /\ RootHolds(db) /\ RootHolds(durable)

(***************************************************************************)
(* The control point knows the root and what it was given.  Of what it     *)
(* knows, it was given the children of all but the containers it has still *)
(* to list, and of the one it is listing those before start.               *)
(***************************************************************************)
Known == {Root.id} \union {seen[i] : i \in DOMAIN seen}

Given(id, j) == /\ id \in Known \ pending
                /\ walk # "done" /\ id = container => j <= start

GivenInv ==
    \A p \in ObjectKeys(db) : \A j \in DOMAIN db[p].objects :
        db[p].objects[j].id \in Known <=> Given(p.id, j)

(* What it lists and is to list is, as far as it is there, a container. *)
ListsContainers ==
    \A k \in ObjectKeys(db) :
        k.id \in pending \union {container} => db[k].data_type = "MediaContainer"

ClientTypeOK ==
    /\ walk \in {"idle", "walking", "done", "failed"}
    /\ page \in UInt32
    /\ container \in Known \ pending
    /\ start \in Nat
    /\ pending \subseteq Known
    /\ seen \in Seq(1 .. MaxId)

(* A service that once served does not scan again. *)
ServesSince == db_files = "present" /\ pc \in {"down", "stopped", "open", "serve"}

Phases == /\ walk = "idle" => /\ seen = <<>> /\ pending = {}
                              /\ container = Root.id /\ start = 0
          /\ walk # "idle" => ServesSince
          /\ walk = "done" => pending = {}

WalkInv == /\ ClientTypeOK /\ Phases /\ ListsContainers /\ GivenInv
           /\ SeenOnce /\ FailsOnlyIfGone

-----------------------------------------------------------------------------
(* Before it begins, the control point knows the root. *)
LEMMA NothingKnown ==
    ASSUME seen = <<>>
    PROVE  Known = {Root.id}
  BY EmptySeq, LenProperties DEF Known

LEMMA KnownTyped ==
    ASSUME ClientTypeOK
    PROVE  /\ Known \subseteq 0 .. MaxId /\ container \in 0 .. MaxId
           /\ start \in Nat /\ page \in UInt32 /\ page \in Nat
<1>1. \A i \in DOMAIN seen : seen[i] \in 1 .. MaxId
  BY LenProperties, ElementOfSeq DEF ClientTypeOK
<1>2. Known \subseteq 0 .. MaxId
  BY <1>1, RootIsKey, MaxIdAssumption DEF Known
<1> QED
  BY <1>2, CountModulusAssumption DEF ClientTypeOK, UInt32

(* put_items only adds to lists, and never makes the root an item. *)
LEMMA BatchIsLater ==
    ASSUME DbTypeOK(db), NEW parent, NEW items, NEW resources,
           FreshBatch(parent, items, resources), RootHolds(db)
    PROVE  LET new == Batch(parent, items, resources)
           IN  Earlier(db, new) /\ RootHolds(new)
<1> DEFINE new == Batch(parent, items, resources)
<1>1. Published(new, parent, items, resources)
  BY BatchPublishes
<1> HIDE DEF new
<1>2. Listed(new, parent, items)
  BY <1>1, PublishedIsListed
<1>3. \A k \in ObjectKeys(db) : k \in ObjectKeys(new) /\ new[k].data_type = db[k].data_type
  BY <1>1, OldObjects
<1>4. Earlier(db, new)
  BY <1>2, <1>3 DEF Earlier, Listed
<1>5. ASSUME Root \in ObjectKeys(new) PROVE Root \in ObjectKeys(db)
  <2> SUFFICES ASSUME Root \in Ids(items) PROVE FALSE
    BY <1>1, <1>5 DEF Published
  <2>1. PICK i \in DOMAIN items : items[i].id = Root
    BY DEF Ids
  <2> QED
    BY <2>1, <1>1, NewObjects
<1>6. RootHolds(new)
  BY <1>3, <1>5 DEF RootHolds
<1> QED
  BY <1>4, <1>6 DEF new

LEMMA DurableKeeps ==
    ASSUME TreeInv, DurableInv, DbStep
    PROVE  DurableInv'
<1>1. DbTypeOK(db)
  BY DEF TreeInv, Inv, StoreInv, DbInv
<1>2. Earlier(db, db) /\ Earlier(durable, durable)
  BY DEF Earlier
<1>3. CASE Formats /\ durable' = durable
  <2>1. ObjectKeys(db) = {}
    BY <1>3 DEF Formats, ObjectKeys
  <2>2. ObjectKeys(durable) = {}
    BY <2>1 DEF DurableInv, Earlier
  <2>3. Earlier(durable', db')
    BY <1>3, <2>2 DEF Earlier
  <2>4. RootHolds(db')
    BY <1>3 DEF Formats, RootHolds, RootContainer, Container, ObjectKeys
  <2> QED
    BY <1>3, <2>3, <2>4 DEF DurableInv
<1>4. CASE Publishes /\ durable' = durable
  <2>1. PICK parent, items, resources : /\ FreshBatch(parent, items, resources)
                                        /\ db' = Batch(parent, items, resources)
    BY <1>4 DEF Publishes, PublishesUnder
  <2> DEFINE new == Batch(parent, items, resources)
  <2>2. Earlier(db, new) /\ RootHolds(new)
    BY <1>1, <2>1, BatchIsLater DEF DurableInv
  <2> HIDE DEF new
  <2>3. Earlier(durable, new)
    BY <2>2 DEF Earlier, DurableInv
  <2>4. db' = new
    BY <2>1 DEF new
  <2> QED
    BY <1>4, <2>2, <2>3, <2>4 DEF DurableInv
<1> QED
  BY <1>2, <1>3, <1>4 DEF DbStep, DurableInv

(* From then on the DB only ever becomes what is durable of it. *)
LEMMA ServiceKeeps ==
    ASSUME [Next]_vars, ServesSince
    PROVE  ServesSince' /\ (db' = db \/ db' = durable)
<1>1. ~Create /\ ~CreateRoot /\ ~ScanLibrary /\ ~Scan /\ ~Throw /\ ~Serve /\ ~CreateRootFails
  BY DEF ServesSince, Create, CreateDb, CreateRoot, ScanLibrary, Scan, Throw, Throws, Serve,
         CreateRootFails
<1> QED
  BY <1>1 DEF Next, Process, Start, Reopen, OpenExisting, Stop, Crash, PowerLoss, LoseUnflushed,
              WriteBack, Flush, Die, vars, storeVars, mainVars, ServesSince

-----------------------------------------------------------------------------
(* While it has not begun, whatever the scan does. *)
LEMMA IdleKeeps ==
    ASSUME TreeInv', DurableInv', WalkInv, walk = "idle", UNCHANGED clientVars
    PROVE  WalkInv'
<1>1. /\ walk' = "idle" /\ seen' = <<>> /\ pending' = {} /\ container' = Root.id /\ start' = 0
      /\ seen' = seen /\ page' = page
  BY DEF WalkInv, Phases, clientVars
<1>2. Known' = {Root.id} /\ Known' = Known
  BY <1>1, EmptySeq, LenProperties DEF Known
<1>3. DbTypeOK(db') /\ RefsResolveIn(db') /\ TreeIn(db')
  BY DEF TreeInv, Inv, StoreInv, DbInv
<1>4. ClientTypeOK' /\ Phases'
  BY <1>1, <1>2 DEF WalkInv, ClientTypeOK, Phases, clientVars
<1>5. ListsContainers'
  <2> SUFFICES ASSUME NEW k \in ObjectKeys(db'), k.id = Root.id
               PROVE  db'[k].data_type = "MediaContainer"
    BY <1>1 DEF ListsContainers
  <2>1. k = Root
    BY <1>3, ObjectsTyped, AskedById, RootIsKey
  <2> QED
    BY <2>1 DEF DurableInv, RootHolds
<1>6. GivenInv'
  <2> SUFFICES ASSUME NEW p \in ObjectKeys(db'), NEW j \in DOMAIN db'[p].objects
               PROVE  db'[p].objects[j].id \in Known' <=> Given(p.id, j)'
    BY DEF GivenInv
  <2>1. db'[p].objects[j].id \in 1 .. MaxId
    BY <1>3, ChildOfParent
  <2>2. j \in Nat \ {0}
    BY <1>3, ListTyped
  <2>3. db'[p].objects[j].id \notin Known'
    BY <1>2, <2>1, RootIsKey
  <2>4. ~Given(p.id, j)'
    BY <1>1, <1>2, <2>2 DEF Given
  <2> QED
    BY <2>3, <2>4
<1>7. SeenOnce' /\ FailsOnlyIfGone'
  BY <1>1, EmptySeq, LenProperties DEF SeenOnce, FailsOnlyIfGone
<1> QED
  BY <1>4, <1>5, <1>6, <1>7 DEF WalkInv

(* Between its requests, when objects may go but none comes. *)
LEMMA ServedKeeps ==
    ASSUME [Next]_vars, DurableInv, WalkInv, walk # "idle", UNCHANGED clientVars
    PROVE  WalkInv'
<1>1. ServesSince' /\ (db' = db \/ db' = durable)
  BY ServiceKeeps DEF WalkInv, Phases
<1>2. Earlier(db', db)
  BY <1>1 DEF DurableInv, Earlier
<1>3. /\ walk' = walk /\ page' = page /\ container' = container /\ start' = start
      /\ pending' = pending /\ seen' = seen
  BY DEF clientVars
<1>4. Known' = Known /\ \A id, j : Given(id, j)' <=> Given(id, j)
  BY <1>3 DEF Known, Given
<1>5. ClientTypeOK' /\ Phases' /\ SeenOnce'
  BY <1>1, <1>3, <1>4 DEF WalkInv, ClientTypeOK, Phases, SeenOnce
<1>6. ListsContainers' /\ GivenInv'
  BY <1>2, <1>3, <1>4 DEF WalkInv, ListsContainers, GivenInv, Earlier
<1>7. FailsOnlyIfGone'
  <2>1. \A id : ObjectKey(id) \in DOMAIN db' => ObjectKey(id) \in DOMAIN db
    BY <1>2, ObjectKeyValid DEF Earlier, ObjectKeys
  <2> QED
    BY <1>3, <2>1 DEF WalkInv, FailsOnlyIfGone
<1> QED
  BY <1>5, <1>6, <1>7 DEF WalkInv

LEMMA BeginWalkKeeps ==
    ASSUME TreeInv, WalkInv, BeginWalk
    PROVE  WalkInv'
<1>1. /\ walk = "idle" /\ walk' = "walking" /\ page' \in PageSizes /\ pc = "serve"
      /\ container' = container /\ start' = start /\ pending' = pending /\ seen' = seen
      /\ db' = db /\ db_files' = db_files /\ pc' = pc
  BY DEF BeginWalk, vars, storeVars, mainVars
<1>2. Known' = Known /\ \A id, j : Given(id, j)' <=> Given(id, j)
  BY <1>1 DEF Known, Given
<1>3. ServesSince'
  BY <1>1 DEF TreeInv, Inv, StoreInv, Emptiness, ServesSince
<1> QED
  BY <1>1, <1>2, <1>3, PageSizesAssumption
     DEF WalkInv, ClientTypeOK, Phases, ListsContainers, GivenInv, SeenOnce, FailsOnlyIfGone

LEMMA NotAnsweredKeeps ==
    ASSUME TreeInv, WalkInv, NotAnswered
    PROVE  WalkInv'
<1>1. /\ walk = "walking" /\ walk' = "failed" /\ page' = page
      /\ container' = container /\ start' = start /\ pending' = pending /\ seen' = seen
      /\ db' = db /\ db_files' = db_files /\ pc' = pc /\ Reply.outcome # "ok"
  BY DEF NotAnswered, vars, storeVars, mainVars
<1>2. Known' = Known /\ \A id, j : Given(id, j)' <=> Given(id, j)
  BY <1>1 DEF Known, Given
<1>3. DbTypeOK(db) /\ RefsResolveIn(db)
  BY DEF TreeInv, Inv, StoreInv, DbInv
<1>4. container \in 0 .. MaxId /\ start \in Nat /\ page \in UInt32
  BY KnownTyped DEF WalkInv
<1>5. start \notin UInt32 \/ ~IsContainer(db, ObjectKey(container))
  BY <1>1, <1>3, <1>4, ChildrenAnswered DEF Reply, NextRequest
<1>6. IsContainer(db, ObjectKey(container)) \/ ObjectKey(container) \notin DOMAIN db
  <2>1. ObjectKey(container) \in DOMAIN db =>
            ObjectKey(container) \in ObjectKeys(db) /\ ObjectKey(container).id = container
    BY ObjectKeyValid DEF ObjectKeys
  <2> QED
    BY <2>1 DEF WalkInv, ListsContainers, IsContainer
<1>7. FailsOnlyIfGone'
  BY <1>1, <1>5, <1>6 DEF FailsOnlyIfGone
<1> QED
  BY <1>1, <1>2, <1>7
     DEF WalkInv, ClientTypeOK, Phases, ListsContainers, GivenInv, SeenOnce, ServesSince

(***************************************************************************)
(* A page that is due, in terms of the list it reads: the objects on it    *)
(* are those from start on, up to reached, and none of them was known.     *)
(***************************************************************************)
PageIds == IdsOf(Reply.answer.objects)
Gained == {PageIds[i] : i \in DOMAIN PageIds}
Reached == start + Reply.answer.number_returned
Left == ToList(Reply.answer.objects)

PageRead ==
    LET k == ObjectKey(container)
        list == db[k].objects
    IN  /\ k \in ObjectKeys(db) /\ k.id = container
        /\ Reply.answer.total_matches = Len(list) /\ Len(list) \in Nat /\ DOMAIN list = 1 .. Len(list)
        /\ Reached \in Nat /\ start <= Reached
        /\ DOMAIN PageIds = 1 .. Reached - start
        /\ \A i \in 1 .. Reached - start : /\ start + i \in DOMAIN list
                                           /\ PageIds[i] = list[start + i].id
        /\ Left = pending \union {list[j].id : j \in {n \in start + 1 .. Reached :
                                                         db[list[n]].data_type = "MediaContainer"}}

LEMMA PageIsRead ==
    ASSUME TreeInv, WalkInv, PageDue
    PROVE  PageRead
<1> DEFINE k == ObjectKey(container)
           list == db[k].objects
           answer == Reply.answer
           stretch == Page(list, start, page)
           n == Len(stretch)
<1>1. DbTypeOK(db) /\ RefsResolveIn(db) /\ TreeIn(db)
  BY DEF TreeInv, Inv, StoreInv, DbInv
<1>2. container \in 0 .. MaxId /\ start \in Nat /\ page \in UInt32 /\ page \in Nat
  BY KnownTyped DEF WalkInv
<1>3. k \in ObjectKeys(db) /\ AnswersPage(answer, list, start, page)
  BY <1>1, <1>2, ChildrenAnswered DEF PageDue, Reply, NextRequest
<1>4. /\ list \in Seq(ObjectKeySet) /\ Len(list) \in Nat /\ DOMAIN list = 1 .. Len(list)
  BY <1>1, <1>3, ListTyped
<1>5. /\ n \in Nat /\ DOMAIN stretch = 1 .. n
      /\ \A i \in 1 .. n : start + i \in 1 .. Len(list) /\ stretch[i] = list[start + i]
  BY <1>2, <1>4, PageOfList
<1>6. k.id = container
  BY ObjectKeyValid
<1> HIDE DEF k, stretch, answer
<1>7. /\ answer.objects = [i \in 1 .. n |-> SerializeMediaObject(db[stretch[i]])]
      /\ answer.number_returned = n /\ answer.total_matches = Len(list)
  BY <1>3, <1>5 DEF AnswersPage, stretch
<1>8. ASSUME NEW i \in 1 .. n
      PROVE  /\ answer.objects[i].id = list[start + i].id
             /\ answer.objects[i].class = db[list[start + i]].data_type
  <2>1. start + i \in DOMAIN list /\ stretch[i] = list[start + i]
    BY <1>4, <1>5
  <2>2. db[list[start + i]].id = list[start + i]
    BY <1>1, <1>3, <2>1, ChildOfParent
  <2> QED
    BY <1>7, <2>1, <2>2 DEF SerializeMediaObject
<1> HIDE DEF n
<1>9. Reached = start + n /\ Reached \in Nat /\ start <= Reached /\ Reached - start = n
  BY <1>2, <1>5, <1>7 DEF Reached, answer
<1>10. DOMAIN answer.objects = 1 .. n
  BY <1>7
<1>11. DOMAIN PageIds = 1 .. n /\ \A i \in 1 .. n : PageIds[i] = list[start + i].id
  BY <1>8, <1>10 DEF PageIds, IdsOf, answer
<1> DEFINE containers == {j \in DOMAIN answer.objects : answer.objects[j].class = "MediaContainer"}
           places == {m \in start + 1 .. Reached : db[list[m]].data_type = "MediaContainer"}
<1>12. {answer.objects[i].id : i \in containers} = {list[j].id : j \in places}
  <2>1. ASSUME NEW i \in containers PROVE \E j \in places : answer.objects[i].id = list[j].id
    <3>1. i \in 1 .. n /\ start + i \in start + 1 .. Reached
      BY <1>2, <1>5, <1>9, <1>10
    <3>2. start + i \in places /\ answer.objects[i].id = list[start + i].id
      BY <1>8, <3>1
    <3> QED
      BY <3>2
  <2>2. ASSUME NEW j \in places PROVE \E i \in containers : answer.objects[i].id = list[j].id
    <3>1. j - start \in 1 .. n /\ start + (j - start) = j
      BY <1>2, <1>5, <1>9
    <3>2. j - start \in containers /\ answer.objects[j - start].id = list[j].id
      BY <1>8, <1>10, <3>1
    <3> QED
      BY <3>2
  <2> QED
    BY <2>1, <2>2
<1>13. Left = pending \union {list[j].id : j \in places}
  BY <1>12 DEF Left, ToList, answer
<1> QED
  BY <1>3, <1>4, <1>5, <1>6, <1>7, <1>9, <1>11, <1>13 DEF PageRead, k, answer

(* No object of the page was known, and none is on it twice. *)
LEMMA PageIsNew ==
    ASSUME TreeInv, WalkInv, PageDue
    PROVE  /\ PageIds \in Seq(1 .. MaxId) /\ Len(PageIds) = Reached - start
           /\ Gained \intersect Known = {}
           /\ \A i, j \in DOMAIN PageIds : PageIds[i] = PageIds[j] => i = j
<1> DEFINE k == ObjectKey(container)
           list == db[k].objects
           n == Reached - start
<1>1. DbTypeOK(db) /\ RefsResolveIn(db) /\ TreeIn(db)
  BY DEF TreeInv, Inv, StoreInv, DbInv
<1>2. /\ k \in ObjectKeys(db) /\ k.id = container /\ Reached \in Nat /\ start \in Nat /\ n \in Nat
      /\ DOMAIN PageIds = 1 .. n
      /\ \A i \in 1 .. n : start + i \in DOMAIN list /\ PageIds[i] = list[start + i].id
  BY PageIsRead DEF PageRead, WalkInv, ClientTypeOK
<1> HIDE DEF k
<1>3. ASSUME NEW j \in DOMAIN list
      PROVE  /\ list[j].id \in 1 .. MaxId /\ list[j] \in ObjectKeySet
             /\ \A i \in DOMAIN list : list[i] = list[j] => i = j
  BY <1>1, <1>2, ChildOfParent, ObjectsTyped
<1> HIDE DEF n
<1>4. \A i \in 1 .. n : PageIds[i] \in 1 .. MaxId
  BY <1>2, <1>3
<1>5. PageIds \in Seq(1 .. MaxId) /\ Len(PageIds) = n
  <2>1. PageIds = [i \in 1 .. n |-> PageIds[i]]
    BY <1>2 DEF PageIds, IdsOf
  <2>2. [i \in 1 .. n |-> PageIds[i]] \in Seq(1 .. MaxId)
    BY <1>2, <1>4
  <2>3. PageIds \in Seq(1 .. MaxId)
    BY <2>1, <2>2
  <2> QED
    BY <1>2, <2>3, LenProperties
<1>6. ASSUME NEW i \in 1 .. n PROVE PageIds[i] \notin Known
  <2>1. PageIds[i] \in Known <=> Given(container, start + i)
    BY <1>2 DEF WalkInv, GivenInv
  <2>2. ~Given(container, start + i)
    BY <1>2 DEF Given, PageDue
  <2> QED
    BY <2>1, <2>2
<1>7. ASSUME NEW i \in 1 .. n, NEW j \in 1 .. n, PageIds[i] = PageIds[j] PROVE i = j
  <2>1. list[start + i].id = list[start + j].id
    BY <1>2, <1>7
  <2>2. list[start + i] = list[start + j]
    <3>1. list[start + i] \in ObjectKeySet /\ list[start + j] \in ObjectKeySet
      BY <1>2, <1>3
    <3>2. /\ ObjectKey(list[start + i].id) = list[start + i]
          /\ ObjectKey(list[start + j].id) = list[start + j]
      BY <3>1, AskedById
    <3> QED
      BY <2>1, <3>2
  <2>3. start + i = start + j
    BY <1>2, <1>3, <2>2
  <2> QED
    BY <1>2, <2>3
<1> QED
  BY <1>2, <1>5, <1>6, <1>7 DEF Gained, n

(* Known and seen after it. *)
LEMMA SeenAfter ==
    ASSUME TreeInv, WalkInv, ReadPage
    PROVE  /\ seen' \in Seq(1 .. MaxId) /\ Known' = Known \union Gained /\ SeenOnce'
<1> DEFINE S == 1 .. MaxId
           m == Len(seen)
           n == Len(PageIds)
<1>0. PageDue
  BY DEF ReadPage
<1>1. seen' = seen \o PageIds
  BY DEF ReadPage, PageIds
<1>2. /\ PageIds \in Seq(S) /\ Gained \intersect Known = {}
      /\ \A i, j \in DOMAIN PageIds : PageIds[i] = PageIds[j] => i = j
  BY <1>0, PageIsNew
<1>3. seen \in Seq(S) /\ \A i, j \in DOMAIN seen : seen[i] = seen[j] => i = j
  BY DEF WalkInv, ClientTypeOK, SeenOnce
<1> HIDE DEF S
<1>4. /\ m \in Nat /\ DOMAIN seen = 1 .. m /\ n \in Nat /\ DOMAIN PageIds = 1 .. n
  BY <1>2, <1>3, LenProperties
<1>5. /\ seen' \in Seq(S) /\ Len(seen') = m + n
      /\ \A i \in 1 .. m + n : seen'[i] = IF i <= m THEN seen[i] ELSE PageIds[i - m]
  BY <1>1, <1>2, <1>3, ConcatProperties
<1>6. DOMAIN seen' = 1 .. m + n
  BY <1>5, LenProperties
<1> HIDE DEF m, n
<1>7. \A i \in 1 .. m : i \in DOMAIN seen' /\ seen'[i] = seen[i]
  BY <1>4, <1>5, <1>6
<1>8. \A i \in 1 .. n : m + i \in DOMAIN seen' /\ seen'[m + i] = PageIds[i]
  BY <1>4, <1>5, <1>6
<1>9. \A i \in DOMAIN seen' : \/ i \in 1 .. m /\ seen'[i] = seen[i]
                              \/ i - m \in 1 .. n /\ seen'[i] = PageIds[i - m]
  BY <1>4, <1>5, <1>6
<1>10. Known' = Known \union Gained
  BY <1>4, <1>7, <1>8, <1>9 DEF Known, Gained
<1>11. SeenOnce'
  <2> SUFFICES ASSUME NEW i \in DOMAIN seen', NEW j \in DOMAIN seen', seen'[i] = seen'[j]
               PROVE  i = j
    BY DEF SeenOnce
  <2>1. CASE i \in 1 .. m /\ j \in 1 .. m
    BY <2>1, <1>3, <1>4, <1>7
  <2>2. \A a \in 1 .. m, b \in 1 .. n : seen[a] # PageIds[b]
    BY <1>2, <1>4 DEF Known, Gained
  <2>3. CASE i - m \in 1 .. n /\ j - m \in 1 .. n /\ seen'[i] = PageIds[i - m] /\ seen'[j] = PageIds[j - m]
    <3>1. i - m = j - m
      BY <2>3, <1>2, <1>4
    <3>2. i \in Nat /\ j \in Nat
      BY <1>4, <1>6
    <3> QED
      BY <3>1, <3>2, <1>4
  <2> QED
    BY <2>1, <2>2, <2>3, <1>9
<1> QED
  BY <1>5, <1>10, <1>11 DEF S

(* What is still to be listed afterwards, whichever container comes next. *)
LEMMA NextContainer ==
    ASSUME TreeInv, WalkInv, ReadPage
    PROVE  LET total == Reply.answer.total_matches
           IN  \/ /\ Reached < total /\ start' = Reached /\ pending' = Left
                  /\ walk' = walk /\ container' = container
               \/ /\ Reached >= total /\ container' \in Left /\ start' = 0
                  /\ pending' = Left \ {container'} /\ walk' = walk
               \/ /\ Reached >= total /\ Left = {} /\ walk' = "done"
                  /\ container' = container /\ start' = start /\ pending' = pending
  BY DEF ReadPage, Reached, Left

(***************************************************************************)
(* The children of the container that was listed are known up to Reached,  *)
(* those of another as they were; and the containers on the page join      *)
(* those to be listed before any of their children is known.               *)
(***************************************************************************)
LEMMA GivenAfter ==
    ASSUME TreeInv, WalkInv, ReadPage,
           NEW p \in ObjectKeys(db), NEW j \in DOMAIN db[p].objects
    PROVE  db[p].objects[j].id \in Known' <=> Given(p.id, j)'
<1> DEFINE k == ObjectKey(container)
           list == db[k].objects
           child == db[p].objects[j]
           total == Reply.answer.total_matches
           places == {n \in start + 1 .. Reached : db[list[n]].data_type = "MediaContainer"}
<1>0. PageDue
  BY DEF ReadPage
<1>1. DbTypeOK(db) /\ RefsResolveIn(db) /\ TreeIn(db)
  BY DEF TreeInv, Inv, StoreInv, DbInv
<1>2. /\ k \in ObjectKeys(db) /\ k.id = container /\ Reached \in Nat /\ start \in Nat
      /\ start <= Reached /\ total = Len(list) /\ Len(list) \in Nat /\ DOMAIN list = 1 .. Len(list)
      /\ DOMAIN PageIds = 1 .. Reached - start
      /\ \A i \in 1 .. Reached - start : start + i \in DOMAIN list /\ PageIds[i] = list[start + i].id
      /\ Left = pending \union {list[n].id : n \in places}
  BY <1>0, PageIsRead DEF PageRead, WalkInv, ClientTypeOK
<1> HIDE DEF k, total
<1>3. /\ container \in Known /\ container \notin pending /\ pending \subseteq Known
      /\ walk = "walking"
  BY DEF WalkInv, ClientTypeOK, ReadPage, PageDue
<1>4. Known' = Known \union Gained /\ Gained \intersect Known = {}
  BY <1>0, SeenAfter, PageIsNew
<1>5. Gained = {list[n].id : n \in start + 1 .. Reached}
  <2>1. ASSUME NEW n \in start + 1 .. Reached
        PROVE  n - start \in 1 .. Reached - start /\ PageIds[n - start] = list[n].id
    <3>1. n - start \in 1 .. Reached - start /\ start + (n - start) = n
      BY <1>2
    <3> QED
      BY <3>1, <1>2
  <2>2. ASSUME NEW i \in 1 .. Reached - start
        PROVE  start + i \in start + 1 .. Reached /\ PageIds[i] = list[start + i].id
    BY <1>2
  <2>3. \A n \in start + 1 .. Reached : \E i \in DOMAIN PageIds : PageIds[i] = list[n].id
    BY <1>2, <2>1
  <2>4. \A i \in DOMAIN PageIds : \E n \in start + 1 .. Reached : PageIds[i] = list[n].id
    BY <1>2, <2>2
  <2> QED
    BY <2>3, <2>4 DEF Gained
<1>6. /\ j \in Nat /\ 1 <= j /\ child \in ObjectKeySet /\ p \in ObjectKeySet /\ k \in ObjectKeySet
      /\ db[p].data_type = "MediaContainer"
      /\ \A q \in ObjectKeys(db) : \A i \in DOMAIN db[q].objects :
            db[q].objects[i] = child => q = p /\ i = j
  BY <1>1, <1>2, ListTyped, ObjectsTyped, ChildOfParent
<1>7. child.id \in Known <=> Given(p.id, j)
  BY DEF WalkInv, GivenInv
<1>8. \A n \in start + 1 .. Reached : n \in DOMAIN list /\ list[n] \in ObjectKeySet
  <2> SUFFICES ASSUME NEW n \in start + 1 .. Reached
               PROVE  n \in DOMAIN list /\ list[n] \in ObjectKeySet
    OBVIOUS
  <2>1. n - start \in 1 .. Reached - start /\ start + (n - start) = n
    BY <1>2
  <2>2. n \in DOMAIN list
    BY <1>2, <2>1
  <2> QED
    BY <1>1, <1>2, <2>2, ListTyped
<1>9. child.id \in Gained <=> p = k /\ j \in start + 1 .. Reached
  <2>1. ASSUME child.id \in Gained PROVE p = k /\ j \in start + 1 .. Reached
    <3>1. PICK n \in start + 1 .. Reached : child.id = list[n].id
      BY <2>1, <1>5
    <3>2. list[n] \in ObjectKeySet /\ n \in DOMAIN list
      BY <1>8
    <3>3. ObjectKey(list[n].id) = list[n] /\ ObjectKey(child.id) = child
      BY <1>6, <3>2, AskedById
    <3>4. list[n] = child
      BY <3>1, <3>3
    <3> QED
      BY <1>2, <1>6, <3>2, <3>4
  <2> QED
    BY <2>1, <1>5
<1>10. container \notin Left
  <2>1. \A n \in places : list[n].id \in Gained
    BY <1>5
  <2> QED
    BY <2>1, <1>2, <1>3, <1>4
<1> HIDE DEF child
<1>11. CASE p = k
  <2>1. Given(p.id, j) <=> j <= start
    BY <1>2, <1>3, <1>11 DEF Given
  <2>2. child.id \in Known' <=> j <= Reached
    BY <1>2, <1>4, <1>6, <1>7, <1>9, <1>11, <2>1
  <2>3. j <= Len(list)
    BY <1>2, <1>11
  <2>4. container \in Known'
    BY <1>3, <1>4
  <2>5. CASE /\ Reached < total /\ start' = Reached /\ pending' = Left
             /\ walk' = walk /\ container' = container
    BY <1>2, <1>3, <1>10, <1>11, <2>2, <2>4, <2>5 DEF Given, child
  <2>6. CASE Reached >= total /\ container' \in Left /\ pending' = Left \ {container'}
    <3>1. container' # container /\ container \notin pending'
      BY <1>10, <2>6
    <3>2. Given(p.id, j)'
      BY <1>2, <1>11, <2>4, <3>1 DEF Given
    <3>3. j <= Reached
      BY <1>2, <1>6, <2>3, <2>6
    <3> QED
      BY <2>2, <3>2, <3>3 DEF child
  <2>7. CASE Reached >= total /\ walk' = "done" /\ pending' = pending
    <3>1. Given(p.id, j)'
      BY <1>2, <1>3, <1>11, <2>4, <2>7 DEF Given
    <3>2. j <= Reached
      BY <1>2, <1>6, <2>3, <2>7
    <3> QED
      BY <2>2, <3>1, <3>2 DEF child
  <2> QED
    BY <2>5, <2>6, <2>7, NextContainer DEF total
<1>12. CASE p # k
  <2>1. p.id # container
    <3>1. ObjectKey(p.id) = p
      BY <1>6, AskedById
    <3> QED
      BY <1>12, <3>1 DEF k
  <2>2. child.id \in Known' <=> p.id \in Known \ pending
    BY <1>4, <1>7, <1>9, <1>12, <2>1 DEF Given
  <2>3. p.id \in Gained => p.id \in Left
    <3> SUFFICES ASSUME p.id \in Gained PROVE p.id \in Left
      OBVIOUS
    <3>1. PICK n \in start + 1 .. Reached : p.id = list[n].id
      BY <1>5
    <3>2. ObjectKey(list[n].id) = list[n] /\ ObjectKey(p.id) = p
      BY <1>6, <1>8, AskedById
    <3>3. list[n] = p
      BY <3>1, <3>2
    <3>4. n \in places
      BY <1>6, <3>3
    <3> QED
      BY <3>1, <3>4, <1>2
  <2>4. p.id \in Left => p.id \in Gained \union pending
    <3>1. \A n \in places : list[n].id \in Gained
      BY <1>5
    <3> QED
      BY <3>1, <1>2
  <2>5. pending \subseteq Left
    BY <1>2
  <2>6. p.id \in Known' \ Left <=> p.id \in Known \ pending
    BY <1>4, <2>3, <2>4, <2>5
  <2>7. Given(p.id, j)' <=> p.id \in Known' \ Left
    <3>1. CASE pending' = Left /\ container' = container
      BY <2>1, <3>1 DEF Given
    <3>2. CASE container' \in Left /\ start' = 0 /\ pending' = Left \ {container'} /\ walk' = walk
      BY <1>3, <1>6, <3>2 DEF Given
    <3>3. CASE Left = {} /\ walk' = "done" /\ pending' = pending
      BY <2>5, <3>3 DEF Given
    <3> QED
      BY <3>1, <3>2, <3>3, NextContainer
  <2> QED
    BY <2>2, <2>6, <2>7 DEF child
<1> QED
  BY <1>11, <1>12

LEMMA ReadPageKeeps ==
    ASSUME TreeInv, WalkInv, ReadPage
    PROVE  WalkInv'
<1> DEFINE k == ObjectKey(container)
           list == db[k].objects
           places == {n \in start + 1 .. Reached : db[list[n]].data_type = "MediaContainer"}
<1>0. PageDue
  BY DEF ReadPage
<1>1. DbTypeOK(db) /\ RefsResolveIn(db) /\ TreeIn(db)
  BY DEF TreeInv, Inv, StoreInv, DbInv
<1>2. /\ k \in ObjectKeys(db) /\ Reached \in Nat /\ start \in Nat
      /\ DOMAIN PageIds = 1 .. Reached - start
      /\ \A i \in 1 .. Reached - start : start + i \in DOMAIN list /\ PageIds[i] = list[start + i].id
      /\ Left = pending \union {list[n].id : n \in places}
  BY <1>0, PageIsRead DEF PageRead, WalkInv, ClientTypeOK
<1>3. /\ walk = "walking" /\ page' = page /\ db' = db /\ db_files' = db_files /\ pc' = pc
      /\ container \in Known /\ container \notin pending /\ pending \subseteq Known
      /\ page \in UInt32 /\ ServesSince
  BY DEF ReadPage, PageDue, vars, storeVars, mainVars, WalkInv, ClientTypeOK, Phases
<1>4. seen' \in Seq(1 .. MaxId) /\ Known' = Known \union Gained /\ SeenOnce'
  BY SeenAfter
<1> HIDE DEF k
<1>5. \A n \in places : list[n].id \in Gained /\ list[n] \in ObjectKeySet
  <2> SUFFICES ASSUME NEW n \in places PROVE list[n].id \in Gained /\ list[n] \in ObjectKeySet
    OBVIOUS
  <2>1. n - start \in 1 .. Reached - start /\ start + (n - start) = n
    BY <1>2
  <2>2. n \in DOMAIN list /\ PageIds[n - start] = list[n].id /\ n - start \in DOMAIN PageIds
    BY <1>2, <2>1
  <2>3. list[n] \in ObjectKeySet
    BY <1>1, <1>2, <2>2, ListTyped
  <2> QED
    BY <2>2, <2>3 DEF Gained
<1>6. Left \subseteq Known' /\ container \notin Left
  <2>1. Gained \intersect Known = {}
    BY <1>0, PageIsNew
  <2> QED
    BY <2>1, <1>2, <1>3, <1>4, <1>5
<1>7. ClientTypeOK'
  <2>1. Known \subseteq Known' /\ Left \subseteq Known'
    BY <1>4, <1>6
  <2>2. pending' \subseteq Known' /\ container' \in Known'
    BY <1>3, <2>1, NextContainer
  <2>3. container' \notin pending'
    BY <1>2, <1>6, NextContainer
  <2>4. walk' \in {"walking", "done", "failed"} /\ start' \in Nat
    <3>1. Reached \in Nat /\ start \in Nat /\ walk = "walking"
      BY <1>2, <1>3
    <3>2. (walk' = walk \/ walk' = "done") /\ (start' \in {Reached, 0, start})
      BY NextContainer
    <3> QED
      BY ONLY <3>1, <3>2
  <2> QED
    BY <1>3, <1>4, <2>2, <2>3, <2>4 DEF ClientTypeOK
<1>8. Phases'
  <2>1. pending \subseteq Left
    BY <1>2
  <2> QED
    BY <1>3, <2>1, NextContainer DEF Phases, ServesSince
<1>9. ListsContainers'
  <2>1. pending' \union {container'} \subseteq Left \union {container}
    BY <1>2, NextContainer
  <2> SUFFICES ASSUME NEW o \in ObjectKeys(db), o.id \in Left \union {container}
               PROVE  db[o].data_type = "MediaContainer"
    BY <1>3, <2>1 DEF ListsContainers
  <2>2. CASE o.id \in pending \union {container}
    BY <2>2 DEF WalkInv, ListsContainers
  <2>3. CASE o.id \notin pending \union {container}
    <3>1. PICK n \in places : o.id = list[n].id
      BY <1>2, <2>3
    <3>2. ObjectKey(o.id) = o /\ ObjectKey(list[n].id) = list[n]
      BY <1>1, <1>5, AskedById, ObjectsTyped
    <3> QED
      BY <3>1, <3>2
  <2> QED
    BY <2>2, <2>3
<1>10. GivenInv'
  BY <1>3, GivenAfter DEF GivenInv
<1>11. FailsOnlyIfGone'
  BY <1>3, NextContainer DEF FailsOnlyIfGone
<1> QED
  BY <1>4, <1>7, <1>8, <1>9, <1>10, <1>11 DEF WalkInv

-----------------------------------------------------------------------------
LEMMA InitWalk == BrowsingInit => DurableInv /\ WalkInv
<1> SUFFICES ASSUME BrowsingInit PROVE DurableInv /\ WalkInv
  OBVIOUS
<1>1. /\ db = EmptyDb /\ durable = EmptyDb /\ walk = "idle" /\ page = 0 /\ container = Root.id
      /\ start = 0 /\ pending = {} /\ seen = <<>>
  BY DEF BrowsingInit, Init, StoreInit, ClientInit
<1>2. ObjectKeys(EmptyDb) = {}
  BY EmptyDbInv DEF ObjectKeys
<1>3. DurableInv
  BY <1>1, <1>2 DEF DurableInv, Earlier, RootHolds
<1>4. Known = {Root.id}
  BY <1>1, NothingKnown
<1>5. ClientTypeOK
  BY <1>1, <1>4, EmptySeq, CountModulusAssumption DEF ClientTypeOK, UInt32
<1>6. SeenOnce
  BY <1>1, EmptySeq, LenProperties DEF SeenOnce
<1> QED
  BY <1>1, <1>2, <1>3, <1>5, <1>6
     DEF WalkInv, Phases, ListsContainers, GivenInv, FailsOnlyIfGone

LEMMA NextWalk ==
    ASSUME TreeInv, DurableInv, WalkInv, [BrowsingNext]_browsingVars
    PROVE  DurableInv' /\ WalkInv'
<1>1. [Next]_vars
  BY BrowsedStep
<1>2. TreeInv' /\ DurableInv'
  BY <1>1, NextTree, DurableKeeps
<1>3. CASE UNCHANGED clientVars
  BY <1>1, <1>2, <1>3, IdleKeeps, ServedKeeps
<1>4. CASE BeginWalk
  BY <1>2, <1>4, BeginWalkKeeps
<1>5. CASE ControlPoint
  BY <1>2, <1>5, ReadPageKeeps, NotAnsweredKeeps DEF ControlPoint
<1> QED
  BY <1>2, <1>3, <1>4, <1>5 DEF BrowsingNext, browsingVars

LEMMA WalkHolds == BrowsingSpec => [](TreeInv /\ WalkInv)
<1>1. BrowsingInit => TreeInv /\ DurableInv /\ WalkInv
  BY InitTree, InitWalk DEF BrowsingInit
<1>2. TreeInv /\ DurableInv /\ WalkInv /\ [BrowsingNext]_browsingVars =>
          (TreeInv /\ DurableInv /\ WalkInv)'
  BY BrowsedStep, NextTree, NextWalk
<1> QED
  BY <1>1, <1>2, PTL DEF BrowsingSpec

(***************************************************************************)
(* No object is given to the control point twice, whatever its pages, and  *)
(* whatever a power loss takes away on its way (browse_response).          *)
(***************************************************************************)
THEOREM AlwaysSeenOnce == BrowsingSpec => []SeenOnce
<1>1. WalkInv => SeenOnce
  BY DEF WalkInv
<1> QED
  BY <1>1, WalkHolds, PTL

(***************************************************************************)
(* A walk fails only at a container that is gone, or at an index that is   *)
(* no uint32_t (handle_cds_browse, list).                                  *)
(***************************************************************************)
THEOREM AlwaysFailsOnlyIfGone == BrowsingSpec => []FailsOnlyIfGone
<1>1. WalkInv => FailsOnlyIfGone
  BY DEF WalkInv
<1> QED
  BY <1>1, WalkHolds, PTL

(***************************************************************************)
(* A walk that ended was given every object: one with the least identifier *)
(* of those it was not given would have a parent, with a smaller one, that *)
(* it knows and whose children it was given (browse_response, put_items).  *)
(***************************************************************************)
THEOREM WalkAlwaysComplete == BrowsingSpec => []WalkComplete
<1>1. ASSUME TreeInv, WalkInv, walk = "done",
             NEW k \in ObjectKeys(db), k # Root, k.id \notin Known
      PROVE  FALSE
  <2> DEFINE Missed == {o \in ObjectKeys(db) : o # Root /\ o.id \notin Known}
             S == {o.id : o \in Missed}
  <2>1. DbTypeOK(db) /\ RefsResolveIn(db) /\ TreeIn(db)
    BY <1>1 DEF TreeInv, Inv, StoreInv, DbInv
  <2>2. \A o \in ObjectKeys(db) : o \in ObjectKeySet /\ o.id \in Nat
    BY <2>1, ObjectsTyped, KeyTypesApart
  <2>3. S \subseteq Nat /\ S # {}
    BY <1>1, <2>2
  <2> HIDE DEF S
  <2>4. PICK least \in S : \A m \in S : least <= m
    BY <2>3, LeastNatural
  <2>5. PICK o \in Missed : o.id = least
    BY <2>4 DEF S
  <2> DEFINE p == db[o].parent_id
  <2>6. ProperlyListed(db, o)
    BY <2>1, <2>5 DEF TreeIn, TreeShapedIn
  <2>7. /\ p \in ObjectKeys(db) /\ p.id < o.id
        /\ \E j \in DOMAIN db[p].objects : db[p].objects[j] = o
    BY <2>6 DEF ProperlyListed
  <2> HIDE DEF p
  <2>8. p.id \in Known
    <3>1. p.id \notin S
      BY <2>2, <2>3, <2>4, <2>5, <2>7
    <3>2. p \notin Missed
      BY <3>1 DEF S
    <3> QED
      BY <2>7, <3>2 DEF Known
  <2>9. PICK j \in DOMAIN db[p].objects : db[p].objects[j] = o
    BY <2>7
  <2>10. Given(p.id, j)
    BY <1>1, <2>8 DEF Given, WalkInv, Phases
  <2> QED
    BY <1>1, <2>5, <2>7, <2>9, <2>10 DEF WalkInv, GivenInv
<1>2. ASSUME TreeInv, WalkInv, walk = "done"
      PROVE  {k.id : k \in ObjectKeys(db) \ {Root}} \subseteq {seen[i] : i \in DOMAIN seen}
  <2> SUFFICES ASSUME NEW k \in ObjectKeys(db), k # Root
               PROVE  k.id \in {seen[i] : i \in DOMAIN seen}
    OBVIOUS
  <2>1. k.id # Root.id
    <3>1. k \in ObjectKeySet
      BY <1>2, ObjectsTyped DEF TreeInv, Inv, StoreInv, DbInv
    <3>2. ObjectKey(k.id) = k /\ ObjectKey(Root.id) = Root
      BY <3>1, RootIsKey, AskedById
    <3> QED
      BY <3>2
  <2>2. k.id \in Known
    BY <1>1, <1>2
  <2> QED
    BY <2>1, <2>2 DEF Known
<1>3. TreeInv /\ WalkInv => WalkComplete
  BY <1>2 DEF WalkComplete
<1> QED
  BY <1>3, WalkHolds, PTL

-----------------------------------------------------------------------------
(* A page from inside its list is not empty, unless the count wraps. *)
LEMMA PageNotEmpty ==
    ASSUME NEW S, NEW list \in Seq(S), NEW start_index \in Nat, NEW requested_count \in Nat,
           start_index < Len(list),
           requested_count # 0 \/ Len(list) % CountModulus # 0
    PROVE  Len(Page(list, start_index, requested_count)) > 0
<1> DEFINE count == CountOf(list, requested_count)
           end == IF start_index + count > Len(list) THEN Len(list) ELSE start_index + count
<1>1. Len(list) \in Nat /\ \A i \in 1 .. Len(list) : list[i] \in S
  BY LenProperties, ElementOfSeq
<1>2. count \in Nat /\ count > 0
  BY <1>1, CountModulusAssumption DEF CountOf
<1> HIDE DEF count
<1>3. end \in Nat /\ start_index + 1 <= end /\ end <= Len(list)
  BY <1>1, <1>2
<1>4. Page(list, start_index, requested_count) = SubSeq(list, start_index + 1, end)
  BY DEF Page, count
<1> HIDE DEF end
<1>5. \A i \in start_index + 1 .. end : list[i] \in S
  BY <1>1, <1>3
<1>6. Len(SubSeq(list, start_index + 1, end)) = end - (start_index + 1) + 1
  BY <1>3, <1>5, SubSeqProperties
<1> QED
  BY <1>3, <1>4, <1>6

(* As long as there is more of the list to come, a page has some of it. *)
LEMMA PageAdvances ==
    ASSUME TreeInv, WalkInv, PageDue, ~CountWraps,
           Reached < Reply.answer.total_matches
    PROVE  start < Reached
<1> DEFINE list == db[ObjectKey(container)].objects
           answer == Reply.answer
<1>1. DbTypeOK(db) /\ RefsResolveIn(db)
  BY DEF TreeInv, Inv, StoreInv, DbInv
<1>2. container \in 0 .. MaxId /\ start \in Nat /\ page \in UInt32 /\ page \in Nat
  BY KnownTyped DEF WalkInv
<1>3. ObjectKey(container) \in ObjectKeys(db) /\ AnswersPage(answer, list, start, page)
  BY <1>1, <1>2, ChildrenAnswered DEF PageDue, Reply, NextRequest
<1>4. list \in Seq(ObjectKeySet) /\ Len(list) \in Nat
  BY <1>1, <1>3, ListTyped
<1>5. start <= Reached /\ Reached \in Nat
  BY PageIsRead DEF PageRead
<1>6. answer.number_returned = Len(Page(list, start, page)) /\ answer.total_matches = Len(list)
  BY <1>3 DEF AnswersPage
<1>7. page # 0 \/ Len(list) % CountModulus # 0
  BY DEF CountWraps
<1>8. start < Len(list)
  BY <1>2, <1>4, <1>5, <1>6
<1> HIDE DEF list
<1>9. Len(Page(list, start, page)) > 0
  BY <1>2, <1>4, <1>7, <1>8, PageNotEmpty
<1>10. Len(Page(list, start, page)) \in Nat
  BY <1>2, <1>4, PageOfList
<1> QED
  BY <1>2, <1>6, <1>9, <1>10 DEF Reached, answer

(***************************************************************************)
(* The page that is read next brings the walk nearer to its end            *)
(* (browse_response).  What is on it was not known, so the container, which *)
(* is known and is not waiting, is not on it; and a page that is not the   *)
(* last has at least one object.  There are MaxId objects at most, so a    *)
(* walk has an end.                                                        *)
(***************************************************************************)
THEOREM AlwaysWalkAdvances == BrowsingSpec => []WalkAdvances
<1>1. ASSUME TreeInv, WalkInv, PageDue
      PROVE  /\ \A i \in DOMAIN Reply.answer.objects : Reply.answer.objects[i].id \notin Known
             /\ container \notin Left
             /\ Reply.answer.objects # <<>> \/ Reached >= Reply.answer.total_matches \/ CountWraps
  <2>1. Gained \intersect Known = {}
    BY <1>1, PageIsNew
  <2>2. ASSUME NEW i \in DOMAIN Reply.answer.objects
        PROVE  Reply.answer.objects[i].id \in Gained
    BY <2>2 DEF Gained, PageIds, IdsOf
  <2>3. container \in Known /\ container \notin pending
    BY <1>1 DEF WalkInv, ClientTypeOK
  <2>4. container \notin Left
    BY <2>1, <2>2, <2>3 DEF Left, ToList
  <2>5. ASSUME Reached < Reply.answer.total_matches, ~CountWraps
        PROVE  Reply.answer.objects # <<>>
    <3>1. start < Reached /\ start \in Nat /\ Reached \in Nat
      BY <1>1, <2>5, PageAdvances, PageIsRead DEF PageRead, WalkInv, ClientTypeOK
    <3>2. DOMAIN PageIds = 1 .. Reached - start
      BY <1>1, PageIsRead DEF PageRead
    <3>3. 1 \in DOMAIN Reply.answer.objects
      BY <3>1, <3>2 DEF PageIds, IdsOf
    <3> QED
      BY <3>3
  <2>6. Reached < Reply.answer.total_matches \/ Reached >= Reply.answer.total_matches
    BY <1>1, PageIsRead DEF PageRead
  <2> QED
    BY <2>1, <2>2, <2>4, <2>5, <2>6
<1>2. TreeInv /\ WalkInv => WalkAdvances
  BY <1>1 DEF WalkAdvances, Known, Left, Reached
<1> QED
  BY <1>2, WalkHolds, PTL
=============================================================================
