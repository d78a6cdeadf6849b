--------------------------- MODULE HttpConnection ---------------------------
(***************************************************************************)
(* One client connection: the coroutine server::handle_connections, which  *)
(* reads a request, dispatches it and answers, and the streaming of a file *)
(* by content_service::handle_request inside it.  The coroutine is         *)
(* suspended in every read and write; meanwhile the 30 second timer may    *)
(* run out, the peer may go away and the file may be cut short.            *)
(*                                                                         *)
(* Byte counts are in units small enough for TLC; Chunk stands for 4096.   *)
(***************************************************************************)
EXTENDS ByteRange

CONSTANTS Chunk,       \* the most that one round of the loop reads
          Requests,    \* the requests the client may send
          FileSizes,   \* the sizes a resource's file may have
          MaxRequests  \* how many requests a client sends

ASSUME ChunkAssumption == Chunk \in Nat /\ Chunk > 0
ASSUME SizesAssumption == FileSizes \subseteq Unsigned /\ MaxRequests \in Nat
ASSUME RequestsAssumption == \A r \in Requests : r.first \in Bound /\ r.last \in Bound

VARIABLES conn,      \* where the coroutine is suspended
          request,   \* the request being answered
          timer,     \* "armed" or "expired": stream.expires_after
          requests,  \* how many requests were read
          responses, \* how many responses were written in full
          file,      \* [size, position] of the open file
          size,      \* what create_response returns and the loop counts down
          announced, \* the Content-Length of the response under way
          sent       \* how many bytes of its body were written

streamVars == <<file, size, announced, sent>>
vars == <<conn, request, timer, requests, responses, streamVars>>

(***************************************************************************)
(* A request is [target, method, first, last, outcome]: the first segment  *)
(* of the path ("" is the index), and for the parts modelled elsewhere     *)
(* what becomes of it.  upnp requests are answered ("ok"), throw an error  *)
(* that has a response ("error"), or one that has none ("throws"); content *)
(* requests name a resource that can be opened ("ok") or not ("error").    *)
(***************************************************************************)
NoRequest == [target |-> "", method |-> "GET", first |-> Absent, last |-> Absent,
              outcome |-> "ok"]

Init == /\ conn = "read"
        /\ request = NoRequest
        /\ timer = "armed"
        /\ requests = 0
        /\ responses = 0
        /\ file = [size |-> 0, position |-> 0]
        /\ size = 0
        /\ announced = 0
        /\ sent = 0

-----------------------------------------------------------------------------
(***************************************************************************)
(* An operation on the stream succeeds only while the timer runs; when it  *)
(* fails the coroutine ends and the connection is closed.                  *)
(***************************************************************************)
Open == timer = "armed"

Close == /\ conn' = "closed"
         /\ UNCHANGED <<request, timer, requests, responses, streamVars>>

(* Back to the top of the loop, where expires_after arms the timer again. *)
NextRequest == conn' = "read" /\ timer' = "armed"

(* A variant with a seeded fault: after its answer the index falls through *)
(* to the dispatch and is answered again.                                  *)
RespondedTwice == responses' = responses + 2

Responded == responses' = responses + 1

(* http::async_read of the next request, of any kind. *)
Read ==
    /\ conn = "read"
    /\ Open
    /\ requests < MaxRequests
    /\ request' \in Requests
    /\ requests' = requests + 1
    /\ conn' = "dispatch"
    /\ UNCHANGED <<timer, responses, streamVars>>

(* The peer closes or is silent for too long. *)
ReadFails == conn = "read" /\ Close

(***************************************************************************)
(* Dispatch on the first path segment.  The index and a upnp answer are    *)
(* one write ("reply"); an http_error or upnp_error is answered by a       *)
(* response of its own; every other exception ends the coroutine.          *)
(***************************************************************************)
Answers == \/ request.target = ""
           \/ request.target = "upnp" /\ request.outcome = "ok"

IsError == \/ request.target = "missing"
           \/ request.target \in {"upnp", "content"} /\ request.outcome = "error"

(* Their bodies are short, and go out with the header whatever the method. *)
ShortBody(bytes) == /\ announced' = bytes
                    /\ sent' = 0
                    /\ UNCHANGED <<file, size>>

Reply == /\ conn = "dispatch"
         /\ Answers \/ IsError
         /\ conn' = "reply"
         /\ ShortBody(1)
         /\ UNCHANGED <<request, timer, requests, responses>>

DispatchThrows == /\ conn = "dispatch"
                  /\ request.target = "upnp"
                  /\ request.outcome = "throws"
                  /\ Close

(***************************************************************************)
(* create_response: the file is opened, its size taken, and the range      *)
(* worked out from it; the file is then at the first byte to send.         *)
(***************************************************************************)
CreateResponse ==
    /\ conn = "dispatch"
    /\ request.target = "content"
    /\ request.outcome = "ok"
    /\ \E bytes \in FileSizes :
          LET answer == CreateRange(request.first, request.last, bytes)
          IN  IF answer.status = 416
              THEN conn' = "reply" /\ ShortBody(0)
              ELSE /\ conn' = "header"
                   /\ file' = [size |-> bytes, position |-> answer.first]
                   /\ size' = answer.length
                   /\ announced' = answer.length
                   /\ sent' = 0
    /\ UNCHANGED <<request, timer, requests, responses>>

WriteReply == /\ conn = "reply"
              /\ Open
              /\ Responded
              /\ NextRequest
              /\ sent' = announced
              /\ UNCHANGED <<request, requests, file, size, announced>>

(* The header goes out first; a HEAD request has no body. *)
WriteHeader ==
    /\ conn = "header"
    /\ Open
    /\ IF request.method = "HEAD"
       THEN Responded /\ NextRequest
       ELSE conn' = "body" /\ UNCHANGED <<timer, responses>>
    /\ UNCHANGED <<request, requests, streamVars>>

(* file.read into a buffer of min(size, 4096): nothing at the end of file. *)
ReadBytes ==
    IF file.position >= file.size THEN 0
    ELSE Smaller(Smaller(size, Chunk), file.size - file.position)

(* A variant with a seeded fault: the loop ends where the file ends. *)
NothingLeft == file.position >= file.size

BodyComplete == size = 0

WriteChunk ==
    /\ conn = "body"
    /\ Open
    /\ ~BodyComplete
    /\ file' = [file EXCEPT !.position = @ + ReadBytes]
    /\ sent' = sent + ReadBytes
    /\ size' = Minus(size, ReadBytes)
    /\ UNCHANGED <<conn, request, timer, requests, responses, announced>>

FinishBody ==
    /\ conn = "body"
    /\ BodyComplete
    /\ Responded
    /\ NextRequest
    /\ UNCHANGED <<request, requests, streamVars>>

(* file.read fails: the stream is closed. *)
FileReadFails == conn = "body" /\ ~BodyComplete /\ Close

(* A variant with a seeded fault: a failed write of the body is retried. *)
WritesButBody == {"reply", "header"}

Suspended == {"reply", "header", "body"}

(* The peer is gone or the timer has run out. *)
WriteFails == conn \in Suspended /\ Close

-----------------------------------------------------------------------------
Timeout == /\ Open
           /\ conn # "closed"
           /\ timer' = "expired"
           /\ UNCHANGED <<conn, request, requests, responses, streamVars>>

(* Someone truncates the file that is being sent. *)
Truncate == /\ conn \in {"header", "body"}
            /\ \E bytes \in FileSizes :
                  /\ bytes < file.size
                  /\ file' = [file EXCEPT !.size = bytes]
            /\ UNCHANGED <<conn, request, timer, requests, responses, size, announced, sent>>

Server == \/ Reply
          \/ DispatchThrows
          \/ CreateResponse
          \/ WriteReply
          \/ WriteHeader
          \/ WriteChunk
          \/ FinishBody

Failures == ReadFails \/ WriteFails \/ FileReadFails

Next == \/ Read
        \/ Server
        \/ Failures
        \/ Timeout
        \/ Truncate

Spec == Init /\ [][Next]_vars

(***************************************************************************)
(* The coroutine goes on when it can, time passes, and an operation on a   *)
(* stream whose timer has run out comes back with an error.                *)
(***************************************************************************)
ExpiredFails == ~Open /\ (ReadFails \/ WriteFails)

Fairness == WF_vars(Server) /\ WF_vars(Timeout) /\ WF_vars(ExpiredFails)

FairSpec == Spec /\ Fairness

-----------------------------------------------------------------------------
TypeOK ==
    /\ conn \in {"read", "dispatch", "reply", "header", "body", "closed"}
    /\ request \in Requests \union {NoRequest}
    /\ timer \in {"armed", "expired"}
    /\ requests \in 0 .. MaxRequests
    /\ responses \in 0 .. MaxRequests
    /\ file \in [size : FileSizes \union {0}, position : Unsigned]
    /\ size \in Unsigned
    /\ announced \in Unsigned
    /\ sent \in Unsigned

(***************************************************************************)
(* Between two requests every request read has had one full response: the  *)
(* client can match answers to questions on a kept-alive connection, and   *)
(* one that gets no answer sees the connection end.                        *)
(***************************************************************************)
OneResponseEach ==
    /\ conn = "read" => responses = requests
    /\ responses <= requests

(***************************************************************************)
(* The body is never longer than the Content-Length that announced it, and *)
(* the connection goes on to the next request only when it is as long:     *)
(* otherwise the rest of one response would be read as the start of the    *)
(* next (content_service.cpp, the streaming loop).                         *)
(***************************************************************************)
Framed == [][/\ sent' <= announced'
             /\ conn = "body" /\ conn' = "read" => sent = announced]_vars

(***************************************************************************)
(* A file that is asked for whole, or from some byte on, as a download     *)
(* that is resumed, is read from there without a gap, chunk by chunk; and  *)
(* its body is not taken for complete while some of the file is left       *)
(* (create_response, the streaming loop).                                  *)
(***************************************************************************)
ServedFrom == IF request.first = Absent THEN 0 ELSE request.first

ReachesEnd ==
    conn = "body" /\ request.last = Absent =>
        /\ file.position = ServedFrom + sent
        /\ BodyComplete => file.position >= file.size

(***************************************************************************)
(* content_service.cpp: "No need to send body for HEAD request."  A client *)
(* that reads no body after HEAD finds the next response where it ends.    *)
(***************************************************************************)
HeadHasNoBody == conn = "read" /\ request.method = "HEAD" => sent = 0

(***************************************************************************)
(* A body comes to an end, even when the range reaches past the end of the *)
(* file or the file shrinks and the loop writes nothing over and over:     *)
(* then it is the timer that ends it.                                      *)
(***************************************************************************)
StreamEnds == (conn = "body") ~> (conn \in {"read", "closed"})
=============================================================================
