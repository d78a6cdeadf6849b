---------------------------- MODULE MCByteRange ----------------------------
(***************************************************************************)
(* TLC asks for every range of every file size that a small Modulus has.   *)
(***************************************************************************)
EXTENDS ByteRange

VARIABLES first, last, size
rangeVars == <<first, last, size>>

RangeInit == first = Absent /\ last = Absent /\ size = 0

Ask == /\ first' \in Bound
       /\ last' \in Bound
       /\ size' \in Unsigned

RangeSpec == RangeInit /\ [][Ask]_rangeVars

RangeInsideIsExact == InsideIsExact(first, last, size)
SuffixRangeIsLastBytes == SuffixIsLastBytes(first, last, size)
=============================================================================
