----------------------------- MODULE KeyLemmas -----------------------------
(***************************************************************************)
(* Lookups are exact and get_next_id is fresh, for every set of keys and   *)
(* every MaxId.  The comparator is the order of a key's place in the       *)
(* concatenation of the two ranges of identifiers, so that a set of keys   *)
(* has a least and a greatest element because the naturals are well        *)
(* founded.                                                                *)
(***************************************************************************)
EXTENDS LibraryKeys, FiniteSetTheorems, FunctionTheorems, TLAPS

LEMMA LeastNatural ==
    ASSUME NEW S, S \subseteq Nat, S # {}
    PROVE  \E n \in S : \A m \in S : n <= m
<1>1. PICK n \in S : \A m \in S : ~ (<<m, n>> \in OpToRel(<, Nat))
  BY WFMin, NatLessThanWellFounded
<1>2. ASSUME NEW m \in S PROVE n <= m
  <2>1. ~(m < n)
    BY <1>1 DEF OpToRel
  <2> QED
    BY <2>1
<1> QED
  BY <1>2

(***************************************************************************)
(* Counting: a numbering of a finite set without repetition is complete,   *)
(* and an image under a function that merges nothing has as many elements. *)
(***************************************************************************)
LEMMA NumberingComplete ==
    ASSUME NEW S, IsFiniteSet(S), NEW f \in [1 .. Cardinality(S) -> S],
           \A i, j \in 1 .. Cardinality(S) : f[i] = f[j] => i = j
    PROVE  \A x \in S : \E i \in 1 .. Cardinality(S) : f[i] = x
<1> DEFINE I == 1 .. Cardinality(S)
<1>1. Cardinality(I) = Cardinality(S)
  BY FS_CardinalityType, FS_Interval
<1> HIDE DEF I
<1>2. f \in Injection(I, S)
  BY Fun_IsInj DEF I
<1>3. f \in Surjection(I, S)
  BY <1>1, <1>2, FS_Injection
<1>4. \A x \in S : \E i \in I : f[i] = x
  BY <1>3, Fun_IsSurj, Fun_SurjectionProperties
<1> QED
  BY <1>4 DEF I

LEMMA ImageCount ==
    ASSUME NEW S, IsFiniteSet(S), NEW f, DOMAIN f = S,
           \A x, y \in S : f[x] = f[y] => x = y
    PROVE  IsFiniteSet({f[x] : x \in S}) /\ Cardinality({f[x] : x \in S}) = Cardinality(S)
<1> DEFINE T == {f[x] : x \in S}
           g == [x \in S |-> f[x]]
<1>1. g \in [S -> T] /\ \A x, y \in S : g[x] = g[y] => x = y
  OBVIOUS
<1>2. \A t \in T : \E x \in S : g[x] = t
  OBVIOUS
<1> HIDE DEF g, T
<1>3. g \in Injection(S, T) /\ g \in Surjection(S, T)
  BY <1>1, <1>2, Fun_IsInj, Fun_IsSurj
<1>4. IsFiniteSet(T) /\ Cardinality(T) = Cardinality(S)
  BY <1>3, FS_Surjection
<1> QED
  BY <1>4 DEF T

(* A key's place among all keys. *)
Place(k) == IF k.key_type = ObjectKeyType THEN k.id ELSE MaxId + 1 + k.id

LEMMA PlaceOrders ==
    ASSUME NEW a \in KeySet, NEW b \in KeySet
    PROVE  /\ Place(a) \in 0 .. 2 * MaxId + 1
           /\ Compare(a, b) <= 0 <=> Place(a) <= Place(b)
           /\ Compare(a, b) >= 0 <=> Place(a) >= Place(b)
           /\ Compare(a, b) < 0 <=> Place(a) < Place(b)
           /\ Place(a) = Place(b) => a = b
  BY MaxIdAssumption
     DEF Place, Compare, Ordering, KeySet, KeyTypes, ObjectKeyType, ResourceKeyType

LEMMA KeySetFinite == IsFiniteSet(KeySet)
<1> DEFINE T == 0 .. 2 * MaxId + 1
           f == [k \in KeySet |-> Place(k)]
<1>1. IsFiniteSet(T)
  BY MaxIdAssumption, FS_Interval
<1>2. f \in [KeySet -> T] /\ \A a, b \in KeySet : f[a] = f[b] => a = b
  BY PlaceOrders
<1> HIDE DEF f, T
<1>3. f \in Injection(KeySet, T)
  BY <1>2, Fun_IsInj
<1> QED
  BY <1>1, <1>3, FS_Injection

(***************************************************************************)
(* Where an iterator ends up: at the smallest, or the largest, of the keys *)
(* it may stop at.                                                         *)
(***************************************************************************)
LEMMA LeastIsLeast ==
    ASSUME NEW K \in SUBSET KeySet, K # {}
    PROVE  Least(K) \in K /\ \A k \in K : Place(Least(K)) <= Place(k)
<1> DEFINE S == {Place(k) : k \in K}
<1>1. S \subseteq Nat /\ S # {}
  BY PlaceOrders
<1>2. PICK n \in S : \A m \in S : n <= m
  BY <1>1, LeastNatural
<1>3. PICK k \in K : n = Place(k)
  BY <1>2
<1>4. \A other \in K : Compare(k, other) <= 0
  BY <1>2, <1>3, PlaceOrders
<1>5. Least(K) \in K /\ \A other \in K : Compare(Least(K), other) <= 0
  BY <1>4 DEF Least
<1> QED
  BY <1>5, PlaceOrders

LEMMA GreatestIsGreatest ==
    ASSUME NEW K \in SUBSET KeySet, K # {}
    PROVE  Greatest(K) \in K /\ \A k \in K : Place(k) <= Place(Greatest(K))
<1> DEFINE top == 2 * MaxId + 1
           S == {top - Place(k) : k \in K}
<1>1. S \subseteq Nat /\ S # {}
  BY PlaceOrders, MaxIdAssumption
<1>2. PICK n \in S : \A m \in S : n <= m
  BY <1>1, LeastNatural
<1>3. PICK k \in K : n = top - Place(k)
  BY <1>2
<1>4. ASSUME NEW other \in K PROVE Compare(k, other) >= 0
  <2>1. top - Place(k) <= top - Place(other)
    BY <1>2, <1>3
  <2>2. Place(k) \in Nat /\ Place(other) \in Nat /\ top \in Nat
    BY PlaceOrders, MaxIdAssumption
  <2>3. Place(k) >= Place(other)
    BY <2>1, <2>2
  <2> QED
    BY <2>3, PlaceOrders
<1>5. Greatest(K) \in K /\ \A other \in K : Compare(Greatest(K), other) >= 0
  BY <1>4 DEF Greatest
<1>6. ASSUME NEW other \in K PROVE Place(other) <= Place(Greatest(K))
  <2>1. Place(Greatest(K)) >= Place(other)
    BY <1>5, PlaceOrders
  <2>2. Place(Greatest(K)) \in Nat /\ Place(other) \in Nat
    BY <1>5, PlaceOrders, MaxIdAssumption
  <2> QED
    BY <2>1, <2>2
<1> QED
  BY <1>5, <1>6

LEMMA InvalidIsNoKey == Invalid \notin KeySet
  BY DEF Invalid, LibraryKey, KeySet, KeyTypes, ObjectKeyType, ResourceKeyType

-----------------------------------------------------------------------------
(***************************************************************************)
(* A lookup by Seek finds a key exactly if it is in the DB (list, get,     *)
(* get_resource, put_items).                                               *)
(***************************************************************************)
THEOREM LookupExact ==
    ASSUME NEW K \in SUBSET KeySet, NEW key \in KeySet
    PROVE  Found(K, key) <=> key \in K
<1> DEFINE from == {k \in K : Compare(k, key) >= 0}
<1>1. from \in SUBSET KeySet /\ from \subseteq K
  OBVIOUS
<1>2. ASSUME key \in K PROVE Found(K, key)
  <2>1. key \in from
    BY <1>2 DEF Compare, Ordering, KeySet
  <2>2. Least(from) \in from /\ Place(Least(from)) <= Place(key)
    BY <2>1, <1>1, LeastIsLeast
  <2>3. Place(Least(from)) >= Place(key)
    BY <2>2, <1>1, PlaceOrders
  <2>4. Place(Least(from)) \in Nat /\ Place(key) \in Nat
    BY <2>2, <1>1, PlaceOrders, MaxIdAssumption
  <2>5. Least(from) = key
    BY <2>2, <2>3, <2>4, <1>1, PlaceOrders
  <2> QED
    BY <2>5 DEF Found, Seek
<1>3. ASSUME Found(K, key) PROVE key \in K
  <2>1. Least(from) = key
    BY <1>3 DEF Found, Seek
  <2>2. from # {}
    BY <2>1, InvalidIsNoKey DEF Least
  <2> QED
    BY <2>1, <2>2, <1>1, LeastIsLeast
<1> QED
  BY <1>2, <1>3

(***************************************************************************)
(* get_next_id<TKey> is a fresh identifier: larger than that of every key  *)
(* of its type in the DB, provided the last identifier is still free.      *)
(***************************************************************************)
THEOREM NextIdFresh ==
    ASSUME NEW K \in SUBSET KeySet, NEW type \in KeyTypes,
           \A k \in K : k.id < MaxId
    PROVE  /\ GetNextId(K, type) \in 0 .. MaxId
           /\ \A k \in K : k.key_type = type => k.id < GetNextId(K, type)
           /\ \/ GetNextId(K, type) = 0
              \/ \E k \in K : k.key_type = type /\ k.id = GetNextId(K, type) - 1
<1> DEFINE target == LibraryKey(type, MaxId)
           from == {k \in K : Compare(k, target) >= 0}
           sought == Seek(K, target)
           below == {k \in K : Compare(k, sought) < 0}
           found == IF sought = Invalid THEN SeekToLast(K) ELSE Prev(K, sought)
<1>1. target \in KeySet
  BY MaxIdAssumption DEF LibraryKey, KeySet
(* Keys of the type lie before the target, so the iterator passes them all. *)
<1>2. \A k \in K : k.key_type = type => Place(k) < Place(target) /\ k \notin from
  BY <1>1, PlaceOrders, MaxIdAssumption
     DEF LibraryKey, KeySet, KeyTypes, ObjectKeyType, ResourceKeyType, Place, Compare, Ordering
<1>3. from \in SUBSET KeySet
  OBVIOUS
(* Whichever way it goes, it ends at the last key before the target. *)
<1>4. \/ found = Invalid /\ \A k \in K : k \in from
      \/ found \in K /\ \A k \in K \ from : Place(k) <= Place(found)
  <2>1. CASE from = {}
    <3>1. sought = Invalid
      BY <2>1 DEF Seek, Least
    <3>2. found = Greatest(K)
      BY <3>1 DEF SeekToLast
    <3> QED
      BY <3>2, GreatestIsGreatest DEF Greatest
  <2>2. CASE from # {}
    <3>1. sought \in from /\ \A k \in from : Place(sought) <= Place(k)
      BY <2>2, <1>3, LeastIsLeast DEF Seek
    <3>2. sought \in KeySet /\ sought # Invalid
      BY <3>1, InvalidIsNoKey
    <3>3. found = Greatest(below)
      BY <3>2 DEF Prev
    <3>4. ASSUME NEW k \in K \ from PROVE k \in below
      <4>1. /\ Place(k) \in Nat /\ Place(sought) \in Nat /\ Place(target) \in Nat
            /\ ~(Place(k) >= Place(target)) /\ Place(sought) >= Place(target)
        BY <1>1, <3>1, <3>2, PlaceOrders, MaxIdAssumption
      <4>2. Place(k) < Place(sought)
        BY <4>1
      <4> QED
        BY <4>2, <3>2, PlaceOrders
    <3>5. CASE below = {}
      BY <3>3, <3>4, <3>5 DEF Greatest
    <3>6. CASE below # {}
      BY <3>3, <3>4, <3>6, GreatestIsGreatest
    <3> QED
      BY <3>5, <3>6
  <2> QED
    BY <2>1, <2>2
<1>5. GetNextId(K, type) = IdAfter(found, type)
  BY DEF GetNextId
<1>6. CASE found = Invalid /\ \A k \in K : k \in from
  <2>1. GetNextId(K, type) = 0
    BY <1>5, <1>6 DEF IdAfter, Invalid, LibraryKey, KeyTypes, ObjectKeyType, ResourceKeyType
  <2> QED
    BY <2>1, <1>2, <1>6, MaxIdAssumption
<1>7. CASE found \in K /\ \A k \in K \ from : Place(k) <= Place(found)
  <2>1. ASSUME NEW k \in K, k.key_type = type
        PROVE  found.key_type = type /\ k.id <= found.id
    <3>1. Place(k) <= Place(found)
      BY <1>2, <1>7, <2>1
    <3>2. CASE found \in from
      (* The key before sought is before the target, or there is no sought. *)
      <4>1. sought \in from /\ \A f \in from : Place(sought) <= Place(f)
        BY <3>2, <1>3, LeastIsLeast DEF Seek
      <4>2. sought # Invalid /\ sought \in KeySet
        BY <4>1, InvalidIsNoKey
      <4>3. found = Greatest(below)
        BY <4>2 DEF Prev
      <4>4. below # {}
        BY <4>3, <1>7, InvalidIsNoKey DEF Greatest
      <4>5. found \in below
        BY <4>3, <4>4, GreatestIsGreatest
      <4>6. Place(found) < Place(sought) /\ Place(sought) <= Place(found)
        BY <4>1, <4>2, <4>5, <3>2, PlaceOrders
      <4>7. Place(found) \in Nat /\ Place(sought) \in Nat
        BY <4>2, <1>7, PlaceOrders, MaxIdAssumption
      <4> QED
        BY <4>6, <4>7
    <3>3. CASE found \notin from
      <4>1. ~(Place(found) >= Place(target))
        BY <3>3, <1>1, <1>7, PlaceOrders
      <4> QED
        BY <2>1, <3>1, <4>1, <1>7, MaxIdAssumption
           DEF Place, LibraryKey, KeySet, KeyTypes, ObjectKeyType, ResourceKeyType
    <3> QED
      BY <3>2, <3>3
  <2>2. found.id \in 0 .. MaxId /\ found.id < MaxId
    BY <1>7 DEF KeySet
  <2>3. CASE found.key_type = type
    <3>1. GetNextId(K, type) = found.id + 1
      BY <1>5, <2>3 DEF IdAfter
    <3> QED
      BY <3>1, <2>1, <2>2, <2>3, <1>7, MaxIdAssumption DEF KeySet
  <2>4. CASE found.key_type # type
    <3>1. GetNextId(K, type) = 0
      BY <1>5, <2>4 DEF IdAfter
    <3> QED
      BY <3>1, <2>1, <2>4, MaxIdAssumption
  <2> QED
    BY <2>3, <2>4
<1> QED
  BY <1>4, <1>6, <1>7
=============================================================================
