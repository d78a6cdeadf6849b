------------------------------ MODULE Browsing ------------------------------
(***************************************************************************)
(* A control point (external) at the service: it walks the whole tree of   *)
(* media objects by Browse requests, page by page, while the process may   *)
(* be stopped, killed and started again, and the machine may lose power.   *)
(* Its requests are answered only while the process serves; between them   *)
(* it remembers what it has been given and the containers it has still to  *)
(* list, which it takes in any order.                                      *)
(***************************************************************************)
EXTENDS EemsProperties, UpnpService

CONSTANTS PageSizes,      \* the RequestedCount the control point may use
          StrangeRequests \* what some other control point may send

ASSUME PageSizesAssumption == PageSizes \subseteq UInt32

RequestFields == {"sub_path", "method", "content_type", "soapaction", "body",
                  "ObjectID", "BrowseFlag", "StartingIndex", "RequestedCount"}

ASSUME StrangeRequestsAssumption ==
    \A req \in StrangeRequests : req = [field \in RequestFields |-> req[field]]

VARIABLES walk,      \* "idle", "walking", "done", or "failed": not answered
          page,      \* the RequestedCount of its requests
          container, \* the identifier of the container it is listing
          start,     \* the StartingIndex of the next page of it
          pending,   \* the identifiers of the containers still to be listed
          seen       \* the identifiers it was given, in their order

clientVars == <<walk, page, container, start, pending, seen>>
browsingVars == <<vars, clientVars>>

ClientInit == /\ walk = "idle"
              /\ page = 0
              /\ container = Root.id
              /\ start = 0
              /\ pending = {}
              /\ seen = <<>>

BeginWalk == /\ pc = "serve"
             /\ walk = "idle"
             /\ walk' = "walking"
             /\ page' \in PageSizes
             /\ UNCHANGED <<container, start, pending, seen, vars>>

NextRequest == BrowseRequest(container, "BrowseDirectChildren", start, page)
Reply == HandleUpnpRequest(NextRequest)

IdsOf(objects) == [i \in DOMAIN objects |-> objects[i].id]

(* The containers it knows and has not begun to list, with those of a page. *)
ToList(objects) ==
    pending \union {objects[i].id : i \in {j \in DOMAIN objects :
                                               objects[j].class = "MediaContainer"}}

PageDue == pc = "serve" /\ walk = "walking" /\ Reply.outcome = "ok"

(* The next page of a container, on to another one, or the end of the walk. *)
ReadPage ==
    /\ PageDue
    /\ LET answer == Reply.answer
           reached == start + answer.number_returned
           left == ToList(answer.objects)
       IN  /\ seen' = seen \o IdsOf(answer.objects)
           /\ \/ /\ reached < answer.total_matches
                 /\ start' = reached
                 /\ pending' = left
                 /\ UNCHANGED <<walk, container>>
              \/ /\ reached >= answer.total_matches
                 /\ container' \in left
                 /\ start' = 0
                 /\ pending' = left \ {container'}
                 /\ UNCHANGED walk
              \/ /\ reached >= answer.total_matches
                 /\ left = {}
                 /\ walk' = "done"
                 /\ UNCHANGED <<container, start, pending>>
    /\ UNCHANGED <<page, vars>>

NotAnswered ==
    /\ pc = "serve"
    /\ walk = "walking"
    /\ Reply.outcome # "ok"
    /\ walk' = "failed"
    /\ UNCHANGED <<page, container, start, pending, seen, vars>>

ControlPoint == ReadPage \/ NotAnswered

BrowsingInit == Init /\ ClientInit

BrowsingNext == \/ Next /\ UNCHANGED clientVars
                \/ BeginWalk
                \/ ControlPoint

BrowsingSpec == BrowsingInit /\ [][BrowsingNext]_browsingVars

(***************************************************************************)
(* The process is scheduled and restarted as in EemsMain; a control point  *)
(* that has begun a walk goes on with it.                                  *)
(***************************************************************************)
BrowsingFairness == /\ WF_browsingVars(Process /\ UNCHANGED clientVars)
                    /\ WF_browsingVars(Restart /\ UNCHANGED clientVars)
                    /\ WF_browsingVars(ControlPoint)

FairBrowsing == BrowsingSpec /\ BrowsingFairness

-----------------------------------------------------------------------------
(***************************************************************************)
(* A walk that came to its end has been given every object of the DB below *)
(* the root, whatever its page size and even when the process was killed   *)
(* or the machine lost power on the way (browse_response, put_items).      *)
(***************************************************************************)
WalkComplete ==
    walk = "done" => {k.id : k \in ObjectKeys(db) \ {Root}} \subseteq {seen[i] : i \in DOMAIN seen}

(***************************************************************************)
(* No object is given to it twice: pages of a container do not overlap, no *)
(* object is in two containers, and none moves to a later place.           *)
(***************************************************************************)
SeenOnce == \A i, j \in DOMAIN seen : seen[i] = seen[j] => i = j

(***************************************************************************)
(* The page that is read next brings the walk nearer to its end: all that  *)
(* is on it is new, the container is not found on it or among those still  *)
(* to be listed, and it is empty only if it is the container's last.       *)
(* There is one exception, which browse_response makes of a count of 0 as  *)
(* a uint32_t: a list as long as a multiple of 2^32 is answered with an    *)
(* empty page, again and again.                                            *)
(***************************************************************************)
CountWraps == page = 0 /\ Len(db[ObjectKey(container)].objects) % CountModulus = 0

WalkAdvances ==
    PageDue =>
        LET answer == Reply.answer
        IN  /\ \A i \in DOMAIN answer.objects :
                   answer.objects[i].id \notin {Root.id} \union {seen[n] : n \in DOMAIN seen}
            /\ container \notin ToList(answer.objects)
            /\ \/ answer.objects # <<>>
               \/ start + answer.number_returned >= answer.total_matches
               \/ CountWraps

(***************************************************************************)
(* A walk is left without an answer only when the container it asks for is *)
(* not in the DB, being the root that was never written, or one that a     *)
(* power loss took away after it had been listed; or when the next page    *)
(* would begin at an index that is no uint32_t.                            *)
(***************************************************************************)
FailsOnlyIfGone ==
    walk = "failed" => ObjectKey(container) \notin DOMAIN db \/ start \notin UInt32

(***************************************************************************)
(* Every link in an answer leads somewhere: a listed object has the parent *)
(* it was listed under and can be asked for itself, its artwork is a       *)
(* stored image, and what it offers to play a stored video or subtitle     *)
(* (serialize_media_object, content_service::create_response).             *)
(***************************************************************************)
LinksLead(o, parent) ==
    /\ o.parentID = parent
    /\ HandleUpnpRequest(BrowseRequest(o.id, "BrowseMetadata", 0, 0)).answer.objects = <<o>>
    /\ \A url \in o.albumArt : \E r \in ContentAt(url) : r.location.kind = "image"
    /\ \A url \in o.res : \E r \in ContentAt(url) : r.location.kind \in {"video", "text"}

LinksServed ==
    pc = "serve" =>
        \A k \in ObjectKeys(db) :
            LET reply == HandleUpnpRequest(BrowseRequest(k.id, "BrowseDirectChildren", 0, 0))
            IN  reply.outcome = "ok" =>
                    \A i \in DOMAIN reply.answer.objects : LinksLead(reply.answer.objects[i], k.id)

(***************************************************************************)
(* Of all requests, only a proper Browse for an object that is not there,  *)
(* or for the children of an item, goes without an answer; whatever else   *)
(* is wrong with a request has an answer of its own, and comes first.      *)
(***************************************************************************)
Proper(req) ==
    /\ req = BrowseRequest(req.ObjectID, req.BrowseFlag, req.StartingIndex, req.RequestedCount)
    /\ req.ObjectID \in Int64
    /\ req.BrowseFlag \in BrowseFlags
    /\ {req.StartingIndex, req.RequestedCount} \subseteq UInt32

ErrorsAnswered ==
    pc = "serve" =>
        \A req \in StrangeRequests :
            HandleUpnpRequest(req).outcome = "throws" =>
                /\ Proper(req)
                /\ \/ ObjectKey(req.ObjectID) \notin DOMAIN db
                   \/ /\ req.BrowseFlag = "BrowseDirectChildren"
                      /\ db[ObjectKey(req.ObjectID)].data_type = "MediaItem"

(***************************************************************************)
(* Every walk comes to an end, if the service is not stopped for good.     *)
(***************************************************************************)
WalkEnds == (walk = "walking") ~> (walk \in {"done", "failed"} \/ pc = "stopped")
=============================================================================
