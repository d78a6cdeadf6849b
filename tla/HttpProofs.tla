----------------------------- MODULE HttpProofs -----------------------------
(***************************************************************************)
(* One response per request, bodies as long as announced and whole to the  *)
(* end of the file, for files of any size, any requests and any number of  *)
(* them, and every Modulus.                                                *)
(***************************************************************************)
EXTENDS HttpConnection, TLAPS

(***************************************************************************)
(* While a file is being sent, what was sent and what is left to send add  *)
(* up to what was announced: as numbers, not only modulo Modulus.          *)
(***************************************************************************)
BodyAddsUp == /\ sent <= announced
              /\ conn \in {"header", "body"} => sent + size = announced

Answering == {"dispatch", "reply", "header", "body"}

Balanced == /\ conn = "read" => responses = requests
            /\ conn \in Answering => responses + 1 = requests
            /\ responses <= requests

(* A whole or open-ended answer announces all the file has from its start. *)
EndReached == conn \in {"header", "body"} /\ request.last = Absent =>
                 /\ file.position = ServedFrom + sent
                 /\ file.size <= ServedFrom + announced

Inv == TypeOK /\ BodyAddsUp /\ Balanced /\ EndReached

-----------------------------------------------------------------------------
(* A number below the modulus is its own remainder. *)
LEMMA Remainder ==
    /\ \A n \in Unsigned : n % Modulus = n
    /\ \A n \in Int : n % Modulus \in Unsigned
  BY ModulusAssumption DEF Unsigned

(* What create_response answers with are numbers of the code's type. *)
LEMMA RangeTyped ==
    ASSUME NEW a \in Bound, NEW b \in Bound, NEW n \in Unsigned
    PROVE  /\ CreateRange(a, b, n).first \in Unsigned
           /\ CreateRange(a, b, n).length \in Unsigned
<1>1. ASSUME NEW f \in Unsigned, NEW l \in Unsigned
      PROVE  /\ Minus(f, l) \in Unsigned
             /\ Partial(f, l).first \in Unsigned
             /\ Partial(f, l).length \in Unsigned
  <2>1. Minus(f, l) \in Unsigned /\ Minus(l, f) \in Unsigned
    BY Remainder, f - l \in Int, l - f \in Int DEF Minus, Unsigned
  <2>2. (Minus(l, f) + 1) % Modulus \in Unsigned
    BY <2>1, Remainder, Minus(l, f) + 1 \in Int DEF Unsigned
  <2> QED
    BY <2>1, <2>2 DEF Partial
<1>2. 0 \in Unsigned /\ 1 \in Unsigned
  BY ModulusAssumption DEF Unsigned
<1>3. CASE a = Absent /\ b = Absent
  BY <1>2, <1>3 DEF CreateRange, NotSatisfiable, Ok
<1>4. CASE NotSatisfiable(a, b, n)
  BY <1>2, <1>4 DEF CreateRange, RangeNotSatisfiable, NotSatisfiable
<1>5. CASE a # Absent /\ b = Absent /\ ~NotSatisfiable(a, b, n)
  <2>1. a \in Unsigned /\ Minus(n, 1) \in Unsigned
    BY <1>1, <1>2, <1>5 DEF Bound
  <2> QED
    BY <2>1, <1>1, <1>5 DEF CreateRange
<1>6. CASE a = Absent /\ b # Absent
  <2>1. Smaller(n, b) \in Unsigned
    BY <1>6 DEF Bound, Smaller
  <2>2. CreateRange(a, b, n) = Partial(Minus(n, Smaller(n, b)), Smaller(n, b))
    BY <1>6 DEF CreateRange, NotSatisfiable, Suffix
  <2> QED
    BY <2>1, <2>2, <1>1
<1>7. CASE a # Absent /\ b # Absent /\ ~NotSatisfiable(a, b, n)
  BY <1>1, <1>7 DEF CreateRange, Bound
<1> QED
  BY <1>3, <1>4, <1>5, <1>6, <1>7

(* A file asked for whole, or from some byte on, is answered to its end.   *)
LEMMA OpenRange ==
    ASSUME NEW a \in Bound, NEW n \in Unsigned, CreateRange(a, Absent, n).status # 416
    PROVE  /\ CreateRange(a, Absent, n).first = IF a = Absent THEN 0 ELSE a
           /\ CreateRange(a, Absent, n).first + CreateRange(a, Absent, n).length = n
<1>1. CASE a = Absent
  BY <1>1, CreateRange(a, Absent, n) = Ok(n) DEF CreateRange, Ok, NotSatisfiable, Unsigned
<1>2. CASE a # Absent
  <2>1. ~NotSatisfiable(a, Absent, n)
    BY <1>2 DEF CreateRange, RangeNotSatisfiable
  <2>2. a \in 0 .. n - 1 /\ n \in 0 .. Modulus - 1
    BY <1>2, <2>1 DEF NotSatisfiable, Bound, Unsigned
  <2>3. CreateRange(a, Absent, n) = Partial(a, Minus(n, 1))
    BY <1>2, <2>1 DEF CreateRange
  <2>4. n - 1 \in Unsigned /\ (n - 1) - a \in Unsigned /\ n - a \in Unsigned
    BY <2>2, ModulusAssumption DEF Unsigned
  <2>5. Minus(n, 1) = n - 1 /\ Minus(n - 1, a) = (n - 1) - a /\ (n - a) % Modulus = n - a
    BY <2>4, Remainder DEF Minus
  <2>6. ((n - 1) - a) + 1 = n - a /\ a + (n - a) = n
    BY <2>2, ModulusAssumption
  <2> QED
    BY <1>2, <2>3, <2>5, <2>6 DEF Partial
<1> QED
  BY <1>1, <1>2

(***************************************************************************)
(* A round of the loop reads no more than is left to send, and not beyond  *)
(* the end of the file.                                                    *)
(***************************************************************************)
LEMMA ReadsWithin ==
    ASSUME TypeOK
    PROVE  /\ ReadBytes \in Nat
           /\ ReadBytes <= size
           /\ file.position + ReadBytes \in Unsigned
           /\ Minus(size, ReadBytes) = size - ReadBytes
<1>1. file.size \in Unsigned /\ file.position \in Unsigned /\ size \in Unsigned
  <2>1. FileSizes \union {0} \subseteq Unsigned
    BY SizesAssumption, ModulusAssumption DEF Unsigned
  <2>2. file \in [size : FileSizes \union {0}, position : Unsigned] /\ size \in Unsigned
    BY DEF TypeOK
  <2> QED
    BY <2>1, <2>2
<1>2. /\ ReadBytes \in Nat
      /\ ReadBytes <= size
      /\ file.position + ReadBytes \in Unsigned
  BY <1>1, ChunkAssumption, ModulusAssumption DEF ReadBytes, Smaller, Unsigned
<1>3. size - ReadBytes \in Unsigned
  BY <1>1, <1>2, ModulusAssumption DEF Unsigned
<1> QED
  BY <1>2, <1>3, Remainder DEF Minus

(* What a request asks for and what is known of the file are numbers. *)
LEMMA Numbers ==
    ASSUME TypeOK
    PROVE  /\ file.size \in Nat /\ file.position \in Nat
           /\ announced \in Nat /\ sent \in Nat
           /\ ServedFrom \in Nat
<1>1. request.first \in Bound
  <2>1. request \in Requests \union {NoRequest} /\ NoRequest.first = Absent
    BY DEF TypeOK, NoRequest
  <2> QED
    BY <2>1, RequestsAssumption DEF Bound
<1>2. ServedFrom \in Nat
  BY <1>1, ModulusAssumption DEF ServedFrom, Bound, Unsigned
<1>3. FileSizes \union {0} \subseteq Nat /\ Unsigned \subseteq Nat
  BY SizesAssumption, ModulusAssumption DEF Unsigned
<1>4. file \in [size : FileSizes \union {0}, position : Unsigned]
      /\ announced \in Unsigned /\ sent \in Unsigned
  BY DEF TypeOK
<1> QED
  BY <1>2, <1>3, <1>4

-----------------------------------------------------------------------------
LEMMA InitInv == Init => Inv
<1> SUFFICES ASSUME Init PROVE Inv
  OBVIOUS
<1>1. 0 \in Unsigned /\ 0 \in 0 .. MaxRequests
  BY ModulusAssumption, SizesAssumption DEF Unsigned
<1>2. TypeOK
  BY <1>1 DEF Init, TypeOK
<1>3. BodyAddsUp /\ Balanced /\ EndReached
  BY DEF Init, BodyAddsUp, Balanced, Answering, EndReached
<1> QED
  BY <1>2, <1>3 DEF Inv

LEMMA CreateResponseInv == Inv /\ CreateResponse => Inv'
<1> SUFFICES ASSUME Inv, CreateResponse PROVE Inv'
  OBVIOUS
<1> DEFINE range(bytes) == CreateRange(request.first, request.last, bytes)
<1>1. PICK bytes \in FileSizes :
        \/ conn' = "reply" /\ ShortBody(0)
        \/ /\ conn' = "header"
           /\ range(bytes).status # 416
           /\ file' = [size |-> bytes, position |-> range(bytes).first]
           /\ size' = range(bytes).length
           /\ announced' = range(bytes).length
           /\ sent' = 0
  BY Zenon DEF CreateResponse
<1>2. request.first \in Bound /\ request.last \in Bound /\ bytes \in Unsigned
  <2>1. request \in Requests \union {NoRequest}
    BY DEF Inv, TypeOK
  <2>2. NoRequest.first = Absent /\ NoRequest.last = Absent
    BY DEF NoRequest
  <2> QED
    BY <2>1, <2>2, RequestsAssumption, SizesAssumption DEF Bound
<1>3. range(bytes).first \in Unsigned /\ range(bytes).length \in Unsigned
  BY <1>2, RangeTyped
<1>4. conn = "dispatch" /\ UNCHANGED <<request, timer, requests, responses>>
  BY DEF CreateResponse
<1>5. TypeOK'
  BY <1>1, <1>3, <1>4, ModulusAssumption DEF Inv, TypeOK, ShortBody, Unsigned
<1>6. BodyAddsUp'
  BY <1>1, <1>3, <1>4 DEF BodyAddsUp, ShortBody, Unsigned
<1>7. Balanced'
  BY <1>1, <1>4 DEF Inv, Balanced, Answering
<1>8. EndReached'
  <2>1. CASE conn' = "reply"
    BY <2>1 DEF EndReached
  <2>2. CASE conn' = "header" /\ request.last = Absent
    <3>1. range(bytes).status # 416 /\ file' = [size |-> bytes, position |-> range(bytes).first]
          /\ announced' = range(bytes).length /\ sent' = 0
      BY <1>1, <2>2
    <3>2. /\ range(bytes).first = ServedFrom
          /\ range(bytes).first + range(bytes).length = bytes
      BY <1>2, <2>2, <3>1, OpenRange DEF ServedFrom
    <3> QED
      BY <1>2, <1>3, <1>4, <3>1, <3>2 DEF EndReached, ServedFrom, Unsigned
  <2> QED
    BY <1>1, <1>4, <2>1, <2>2 DEF EndReached
<1> QED
  BY <1>5, <1>6, <1>7, <1>8 DEF Inv

LEMMA WriteChunkInv == Inv /\ WriteChunk => Inv'
<1> SUFFICES ASSUME Inv, WriteChunk PROVE Inv'
  OBVIOUS
<1>1. /\ ReadBytes \in Nat /\ ReadBytes <= size
      /\ file.position + ReadBytes \in Unsigned
      /\ Minus(size, ReadBytes) = size - ReadBytes
  BY ReadsWithin DEF Inv
<1>2. /\ size \in Unsigned /\ sent \in Unsigned /\ announced \in Unsigned
      /\ sent + size = announced
  BY DEF Inv, TypeOK, BodyAddsUp, WriteChunk
<1>3. size' = size - ReadBytes /\ sent' = sent + ReadBytes /\ announced' = announced
  BY <1>1 DEF WriteChunk
<1>4. size' \in Unsigned /\ sent' \in Unsigned /\ sent' <= announced' /\ sent' + size' = announced'
  BY <1>1, <1>2, <1>3, ModulusAssumption DEF Unsigned
<1>5. TypeOK'
  BY <1>1, <1>4 DEF Inv, TypeOK, WriteChunk
<1>6. Balanced'
  BY DEF Inv, Balanced, Answering, WriteChunk
<1>7. EndReached'
  <2>1. file' = [file EXCEPT !.position = @ + ReadBytes] /\ UNCHANGED <<conn, request>>
    BY DEF WriteChunk
  <2>2. file'.position = file.position + ReadBytes /\ file'.size = file.size
    BY <2>1 DEF Inv, TypeOK
  <2>3. ServedFrom' = ServedFrom
    BY <2>1 DEF ServedFrom
  <2> QED
    BY <1>1, <1>3, <2>1, <2>2, <2>3, Numbers DEF Inv, EndReached
<1> QED
  BY <1>4, <1>5, <1>6, <1>7 DEF Inv, BodyAddsUp

(* A file that is cut short reaches no further than it did. *)
LEMMA TruncateInv == Inv /\ Truncate => Inv'
<1> SUFFICES ASSUME Inv, Truncate PROVE Inv'
  OBVIOUS
<1>1. PICK bytes \in FileSizes : bytes < file.size /\ file' = [file EXCEPT !.size = bytes]
  BY DEF Truncate
<1>2. UNCHANGED <<conn, request, timer, requests, responses, size, announced, sent>>
  BY DEF Truncate
<1>3. file'.position = file.position /\ file'.size = bytes
  BY <1>1 DEF Inv, TypeOK
<1>4. TypeOK' /\ BodyAddsUp' /\ Balanced'
  BY <1>1, <1>2 DEF Inv, TypeOK, BodyAddsUp, Balanced
<1>5. bytes \in Int
  BY SizesAssumption DEF Unsigned
<1>6. EndReached'
  <2>1. ServedFrom' = ServedFrom
    BY <1>2 DEF ServedFrom
  <2> QED
    BY <1>1, <1>2, <1>3, <1>5, <2>1, Numbers DEF Inv, EndReached
<1> QED
  BY <1>4, <1>6 DEF Inv

LEMMA NextInv == Inv /\ [Next]_vars => Inv'
<1> SUFFICES ASSUME Inv, [Next]_vars PROVE Inv'
  OBVIOUS
<1> USE DEF Inv, TypeOK, BodyAddsUp, Balanced, Answering, Unsigned, EndReached, ServedFrom
<1>1. CASE Read
  BY <1>1, SizesAssumption DEF Read, streamVars
<1>2. CASE Reply
  BY <1>2, ModulusAssumption DEF Reply, ShortBody
<1>3. CASE DispatchThrows
  BY <1>3 DEF DispatchThrows, Close, streamVars
<1>4. CASE CreateResponse
  BY <1>4, CreateResponseInv
<1>5. CASE WriteReply
  BY <1>5, SizesAssumption DEF WriteReply, Responded, NextRequest
<1>6. CASE WriteHeader
  BY <1>6, SizesAssumption DEF WriteHeader, Responded, NextRequest, streamVars
<1>7. CASE WriteChunk
  BY <1>7, WriteChunkInv
<1>8. CASE FinishBody
  BY <1>8, SizesAssumption DEF FinishBody, Responded, NextRequest, streamVars
<1>9. CASE Failures
  BY <1>9 DEF Failures, ReadFails, WriteFails, FileReadFails, Close, streamVars
<1>10. CASE Timeout
  BY <1>10 DEF Timeout, streamVars
<1>11. CASE Truncate
  BY <1>11, TruncateInv
<1>12. CASE UNCHANGED vars
  BY <1>12 DEF vars, streamVars
<1> QED
  BY <1>1, <1>2, <1>3, <1>4, <1>5, <1>6, <1>7, <1>8, <1>9, <1>10, <1>11, <1>12
     DEF Next, Server

LEMMA InvHolds == Spec => []Inv
  BY InitInv, NextInv, PTL DEF Spec

(***************************************************************************)
(* Every variable has its type: no count of bytes wraps around on its way  *)
(* from create_response through the streaming loop.                        *)
(***************************************************************************)
THEOREM ConnectionTypes == Spec => []TypeOK
<1>1. Inv => TypeOK
  BY DEF Inv
<1> QED
  BY <1>1, InvHolds, PTL

(***************************************************************************)
(* The next request is read only when each before it has had one response  *)
(* (handle_connections).                                                   *)
(***************************************************************************)
THEOREM ResponsesMatchRequests == Spec => []OneResponseEach
<1>1. Inv => OneResponseEach
  BY DEF Inv, Balanced, OneResponseEach
<1> QED
  BY <1>1, InvHolds, PTL

(***************************************************************************)
(* A whole or open-ended answer, a resumed download among them, goes from  *)
(* the byte asked for to the end of the file without a gap, and stops no   *)
(* sooner (create_response, the streaming loop).                           *)
(***************************************************************************)
THEOREM EndAlwaysReached == Spec => []ReachesEnd
<1>1. Inv => ReachesEnd
  <2> SUFFICES ASSUME Inv, conn = "body", request.last = Absent
               PROVE  /\ file.position = ServedFrom + sent
                      /\ size = 0 => file.position >= file.size
    BY DEF ReachesEnd, BodyComplete
  <2>1. file.position = ServedFrom + sent /\ file.size <= ServedFrom + announced
    BY DEF Inv, EndReached
  <2>2. size = 0 => sent = announced
    BY DEF Inv, TypeOK, BodyAddsUp, Unsigned
  <2> QED
    BY <2>1, <2>2
<1> QED
  BY <1>1, InvHolds, PTL

(***************************************************************************)
(* A body is never longer than announced, and as long when the connection  *)
(* goes on, though the file is truncated under it (handle_request).        *)
(***************************************************************************)
THEOREM BodiesFramed == Spec => Framed
<1> DEFINE Step == /\ sent' <= announced'
                   /\ conn = "body" /\ conn' = "read" => sent = announced
<1>1. Inv /\ Inv' /\ [Next]_vars => [Step]_vars
  <2> SUFFICES ASSUME Inv, Inv', [Next]_vars PROVE Step \/ UNCHANGED vars
    OBVIOUS
  <2>1. sent' <= announced'
    BY DEF Inv, BodyAddsUp
  <2>2. ASSUME conn = "body", conn' = "read" PROVE sent = announced
    <3>1. FinishBody
      BY <2>2 DEF Next, Server, Failures, Read, Reply, DispatchThrows, CreateResponse,
            WriteReply, WriteHeader, WriteChunk, ReadFails, WriteFails, FileReadFails, Close,
            Timeout, Truncate, vars
    <3> QED
      BY <3>1, <2>2 DEF FinishBody, BodyComplete, Inv, BodyAddsUp, TypeOK, Unsigned
  <2> QED
    BY <2>1, <2>2
<1>3. Spec => [][Step]_vars
  BY <1>1, InvHolds, PTL DEF Spec
<1> QED
  BY <1>3 DEF Framed
=============================================================================
