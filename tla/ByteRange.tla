----------------------------- MODULE ByteRange -----------------------------
(***************************************************************************)
(* The answer content_service::create_response works out for a Range       *)
(* header, once the file is open: its status, the bounds it announces in   *)
(* Content-Range, and the length it announces and then streams.  All the   *)
(* arithmetic is on uintmax_t, that is modulo Modulus.                     *)
(***************************************************************************)
EXTENDS Integers

CONSTANT Modulus \* 2^64 on the platforms eems is built for

ASSUME ModulusAssumption == Modulus \in Nat /\ Modulus > 1

Unsigned == 0 .. Modulus - 1

(* A bound that the header "bytes=<first>-<last>" leaves out. *)
Absent == -1
Bound == Unsigned \union {Absent}

Smaller(a, b) == IF a < b THEN a ELSE b
Minus(a, b) == (a - b) % Modulus

Ok(size) == [status |-> 200, first |-> 0, last |-> Absent, length |-> size]
RangeNotSatisfiable == [status |-> 416, first |-> 0, last |-> Absent, length |-> 0]

(* A variant with a seeded fault: the last byte is left out of the length. *)
PartialExclusive(first, last) ==
    [status |-> 206, first |-> first, last |-> last, length |-> Minus(last, first)]

Partial(first, last) ==
    [status |-> 206, first |-> first, last |-> last,
     length |-> (Minus(last, first) + 1) % Modulus]

NotSatisfiable(first, last, size) ==
    /\ first # Absent
    /\ \/ last # Absent /\ first > last
       \/ first >= size

(***************************************************************************)
(* "bytes=a-b" is taken as it is, "bytes=a-" ends at the last byte, and    *)
(* "bytes=-n" is meant to be the last n bytes.                             *)
(***************************************************************************)
Suffix(count, size) ==
    LET last == Smaller(size, count)
    IN  Partial(Minus(size, last), last)

CreateRange(first, last, size) ==
    CASE first = Absent /\ last = Absent -> Ok(size)
      [] NotSatisfiable(first, last, size) -> RangeNotSatisfiable
      [] ~NotSatisfiable(first, last, size) /\ first # Absent /\ last = Absent
             -> Partial(first, Minus(size, 1))
      [] first = Absent /\ last # Absent -> Suffix(last, size)
      [] OTHER -> Partial(first, last)

-----------------------------------------------------------------------------
(***************************************************************************)
(* A range inside the file is answered with exactly the bytes asked for,   *)
(* and an open one with all bytes from its start: neither the subtractions *)
(* nor the increment wrap around on these paths.                           *)
(***************************************************************************)
InsideIsExact(first, last, size) ==
    LET answer == CreateRange(first, last, size)
    IN  /\ first # Absent /\ last # Absent /\ first <= last /\ last < size =>
               /\ answer.status = 206
               /\ answer.first = first
               /\ answer.last = last
               /\ answer.length = last - first + 1
        /\ first # Absent /\ last = Absent /\ first < size =>
               /\ answer.status = 206
               /\ answer.last = size - 1
               /\ answer.length = size - first

(***************************************************************************)
(* "Request for last bytes" (content_service.cpp): "bytes=-n" is answered  *)
(* with the last n bytes of a file that has as many.                       *)
(***************************************************************************)
SuffixIsLastBytes(first, last, size) ==
    LET answer == CreateRange(first, last, size)
    IN  first = Absent /\ last \in 1 .. size =>
            answer.first = size - last /\ answer.last = size - 1
=============================================================================
