---------------------------- MODULE UpnpService ----------------------------
(***************************************************************************)
(* upnp_service: what becomes of a request below /upnp.  SOAP parsing, the *)
(* arguments of Browse, the page of objects it selects and the DIDL-Lite   *)
(* elements it makes of them, over the db of StoreService.                 *)
(*                                                                         *)
(* A request names its sub_path, method, content_type, the action of its   *)
(* soapaction header and the action element of its body (either may be     *)
(* "malformed"), and the arguments of Browse.  A numeric argument is the   *)
(* number in its text; a text that is no number, or none at all, is        *)
(* NotANumber.                                                             *)
(***************************************************************************)
EXTENDS StoreService

CONSTANT CountModulus \* 2^32: StartingIndex and RequestedCount are uint32_t

ASSUME CountModulusAssumption == CountModulus \in Nat /\ CountModulus > 1

Int64 == -MaxId - 1 .. MaxId
UInt32 == 0 .. CountModulus - 1
NotANumber == -MaxId - 2

(* The three ways a request can go, as HttpConnection tells them apart. *)
Answered(answer) == [outcome |-> "ok", answer |-> answer]
Failed(code) == [outcome |-> "error", code |-> code]
Closes == [outcome |-> "throws"]

-----------------------------------------------------------------------------
(***************************************************************************)
(* serialize_media_object.  The content service finds a resource by the    *)
(* identifier in its URL alone.                                            *)
(***************************************************************************)
(* A variant with a seeded fault: all URLs are made from the object's id.  *)
SerializeWithOwnId(object) ==
    [id |-> object.id.id, parentID |-> object.parent_id.id, class |-> object.data_type,
     albumArt |-> {object.id.id : a \in object.artwork},
     res |-> {object.id.id : r \in object.resources}]

SerializeMediaObject(object) ==
    [id |-> object.id.id, parentID |-> object.parent_id.id, class |-> object.data_type,
     albumArt |-> {a.ref.id : a \in object.artwork},
     res |-> {r.id : r \in object.resources}]

ContentAt(url) == GetResource(ResourceKey(url))

(***************************************************************************)
(* browse_response: the objects from start_index on, no more than were     *)
(* asked for; 0 asks for as many as there are, as a uint32_t.              *)
(***************************************************************************)
(* Variants with a seeded fault: 0 asks for nothing, the start is ignored, *)
(* and the total is that of the page.                                      *)
NoDefault(list, requested_count) == requested_count
PageFromStart(list, start_index, requested_count) ==
    SubSeq(list, 1, IF requested_count = 0 \/ requested_count > Len(list)
                    THEN Len(list) ELSE requested_count)
TotalOfPage(list, page) == Len(page)

CountOf(list, requested_count) ==
    IF requested_count = 0 THEN Len(list) % CountModulus ELSE requested_count

Page(list, start_index, requested_count) ==
    LET after == start_index + CountOf(list, requested_count)
    IN  SubSeq(list, start_index + 1, IF after > Len(list) THEN Len(list) ELSE after)

TotalMatches(list, page) == Len(list)

(* Reading the page throws at an object that is listed but not there. *)
BrowseResponse(list, start_index, requested_count) ==
    LET page == Page(list, start_index, requested_count)
    IN  IF \E i \in DOMAIN page : ~Found(DOMAIN db, page[i]) THEN Closes
        ELSE Answered([objects |-> [i \in DOMAIN page |-> SerializeMediaObject(db[page[i]])],
                       number_returned |-> Len(page),
                       total_matches |-> TotalMatches(list, page)])

-----------------------------------------------------------------------------
(***************************************************************************)
(* handle_cds_browse.  Errors of the arguments are SOAP faults; a runtime  *)
(* error of the store has no answer and closes the connection.             *)
(***************************************************************************)
BrowseFlags == {"BrowseDirectChildren", "BrowseMetadata"}

(* list throws unless the key is a container's; get does not look. *)
Readable(flag, key) == flag = "BrowseMetadata" \/ ContainerFound(key)

Contents(flag, key) == IF flag = "BrowseMetadata" THEN <<key>> ELSE List(key)

(* A variant with a seeded fault: the arguments are not checked first. *)
BrowseUnchecked(req) ==
    IF Readable(req.BrowseFlag, ObjectKey(req.ObjectID))
    THEN BrowseResponse(Contents(req.BrowseFlag, ObjectKey(req.ObjectID)),
                        req.StartingIndex, req.RequestedCount)
    ELSE Closes

HandleCdsBrowse(req) ==
    LET key == ObjectKey(req.ObjectID)
    IN  IF req.ObjectID \notin Int64 THEN Failed(701)
        ELSE IF \/ req.StartingIndex \notin UInt32
                \/ req.RequestedCount \notin UInt32 THEN Failed(402)
        ELSE IF req.BrowseFlag \notin BrowseFlags THEN Failed(601)
        ELSE IF ~Readable(req.BrowseFlag, key) THEN Closes
        ELSE BrowseResponse(Contents(req.BrowseFlag, key),
                            req.StartingIndex, req.RequestedCount)

(* parse_soap_request: the status it answers with, 200 if it goes on. *)
ParseSoapRequest(req) ==
    IF req.method # "POST" THEN 400
    ELSE IF req.content_type # "text/xml" THEN 415
    ELSE IF req.soapaction = "malformed" \/ req.body # req.soapaction THEN 400
    ELSE 200

(* handle_upnp_request.  The descriptions are answered whatever is asked. *)
Descriptions == {"device", "cds.xml", "cm.xml"}

HandleUpnpRequest(req) ==
    IF req.sub_path \in Descriptions THEN Answered(req.sub_path)
    ELSE IF ParseSoapRequest(req) # 200 THEN Failed(ParseSoapRequest(req))
    ELSE IF req.sub_path # "cds" THEN Failed(404)
    ELSE IF req.soapaction # "Browse" THEN Failed(400)
    ELSE HandleCdsBrowse(req)

(* The request of an ordinary control point. *)
BrowseRequest(id, flag, start, count) ==
    [sub_path |-> "cds", method |-> "POST", content_type |-> "text/xml",
     soapaction |-> "Browse", body |-> "Browse", ObjectID |-> id, BrowseFlag |-> flag,
     StartingIndex |-> start, RequestedCount |-> count]
=============================================================================
