--------------------------- MODULE OperatorProofs ---------------------------
(***************************************************************************)
(* Two calculations that keep no state, as invariants of the runs that try *)
(* them: what KeyLemmas proves of get_next_id and of lookups, for every    *)
(* MaxId and every set of keys that leaves the last identifier free; and   *)
(* the range arithmetic of create_response, for every Modulus.             *)
(***************************************************************************)
EXTENDS MCLibraryKeys, MCByteRange, KeyLemmas

KeysInv == keys \in SUBSET KeySet /\ \A k \in keys : k.id < MaxId

LEMMA KeysInvariant == KeysSpec => []KeysInv
<1>1. KeysInit => KeysInv
  BY DEF KeysInit, KeysInv
<1>2. KeysInv /\ [AddKey]_keys => KeysInv'
  BY DEF KeysInv, AddKey
<1> QED
  BY <1>1, <1>2, PTL DEF KeysSpec

(* get_next_id is fresh for every set of keys. *)
THEOREM NextIdIsAlwaysFresh == KeysSpec => []NextIdIsFresh
<1>1. KeysInv => NextIdIsFresh
  <2> SUFFICES ASSUME KeysInv, NEW type \in KeyTypes
               PROVE  /\ \A id \in IdsOf(type) : id < GetNextId(keys, type)
                      /\ \/ GetNextId(keys, type) = 0
                         \/ GetNextId(keys, type) - 1 \in IdsOf(type)
    BY DEF NextIdIsFresh
  <2> QED
    BY NextIdFresh DEF KeysInv, IdsOf
<1> QED
  BY <1>1, KeysInvariant, PTL

(* Lookups are exact for every set of keys. *)
THEOREM LookupIsAlwaysExact == KeysSpec => []LookupIsExact
<1>1. KeysInv => LookupIsExact
  BY LookupExact DEF KeysInv, LookupIsExact
<1> QED
  BY <1>1, KeysInvariant, PTL

-----------------------------------------------------------------------------
(* A number below the modulus is its own remainder. *)
LEMMA NoWrap ==
    ASSUME NEW n \in Unsigned
    PROVE  n % Modulus = n
  BY ModulusAssumption DEF Unsigned

LEMMA PartialLength ==
    ASSUME NEW a \in Unsigned, NEW b \in Unsigned, a <= b, b - a + 1 < Modulus
    PROVE  Partial(a, b).length = b - a + 1
<1>1. b - a \in Unsigned /\ b - a + 1 \in Unsigned
  BY ModulusAssumption DEF Unsigned
<1>2. Minus(b, a) = b - a
  BY <1>1, NoWrap DEF Minus
<1> QED
  BY <1>1, <1>2, NoWrap DEF Partial

(***************************************************************************)
(* A range inside the file is answered with exactly its bytes, and an open *)
(* one with all bytes from its start (create_response).                    *)
(***************************************************************************)
THEOREM InsideExact ==
    ASSUME NEW a \in Bound, NEW b \in Bound, NEW n \in Unsigned
    PROVE  InsideIsExact(a, b, n)
<1> DEFINE answer == CreateRange(a, b, n)
<1>1. ASSUME a # Absent, b # Absent, a <= b, b < n
      PROVE  answer = Partial(a, b) /\ answer.length = b - a + 1
  <2>1. a \in Unsigned /\ b \in Unsigned /\ b - a + 1 < Modulus
    BY <1>1, ModulusAssumption DEF Bound, Unsigned, Absent
  <2>2. ~NotSatisfiable(a, b, n)
    BY <1>1, <2>1, ModulusAssumption DEF NotSatisfiable, Unsigned
  <2>3. answer = Partial(a, b)
    BY <1>1, <2>2 DEF CreateRange
  <2> QED
    BY <2>1, <2>3, <1>1, PartialLength
<1>2. ASSUME a # Absent, b = Absent, a < n
      PROVE  answer = Partial(a, n - 1) /\ answer.length = n - a
  <2>1. a \in Unsigned /\ n - 1 \in Unsigned /\ a <= n - 1 /\ n - 1 - a + 1 < Modulus
    BY <1>2, ModulusAssumption DEF Bound, Unsigned, Absent
  <2>2. ~NotSatisfiable(a, b, n)
    BY <1>2, <2>1, ModulusAssumption DEF NotSatisfiable, Unsigned
  <2>3. Minus(n, 1) = n - 1
    BY <2>1, NoWrap DEF Minus
  <2>4. answer = Partial(a, n - 1)
    BY <1>2, <2>2, <2>3 DEF CreateRange
  <2>5. answer.length = (n - 1) - a + 1
    BY <2>1, <2>4, PartialLength
  <2> QED
    BY <2>1, <2>4, <2>5, ModulusAssumption DEF Unsigned
<1> QED
  BY <1>1, <1>2 DEF InsideIsExact, Partial

-----------------------------------------------------------------------------
(* The same for the states of the run. *)
RangeTypeOK == first \in Bound /\ last \in Bound /\ size \in Unsigned

LEMMA RangeType == RangeSpec => []RangeTypeOK
<1>1. RangeInit => RangeTypeOK
  BY ModulusAssumption DEF RangeInit, RangeTypeOK, Bound, Unsigned
<1>2. RangeTypeOK /\ [Ask]_rangeVars => RangeTypeOK'
  BY DEF RangeTypeOK, Ask, rangeVars
<1> QED
  BY <1>1, <1>2, PTL DEF RangeSpec

(* Ranges inside the file are exact, whatever is asked for. *)
THEOREM RangeAlwaysExact == RangeSpec => []RangeInsideIsExact
<1>1. RangeTypeOK => RangeInsideIsExact
  BY InsideExact DEF RangeTypeOK, RangeInsideIsExact
<1> QED
  BY <1>1, RangeType, PTL
=============================================================================
