---------------------------- MODULE LibraryKeys ----------------------------
(***************************************************************************)
(* The key space of the store: LevelDB keys that hold a serialized         *)
(* LibraryKey, the comparator that orders them, the positions a LevelDB    *)
(* iterator can take over a set of such keys, and the next free            *)
(* identifier the scanner derives from that order.                         *)
(*                                                                         *)
(* A key is a record of the union tag and the int64 identifier.  MaxId is  *)
(* the bound numeric_limits<int64_t>::max() of the identifiers.            *)
(***************************************************************************)
EXTENDS Integers

CONSTANT MaxId

ASSUME MaxIdAssumption == MaxId \in Nat \ {0}

(* The tags of KeyUnion, in the order the generated enum gives them. *)
ObjectKeyType == 1
ResourceKeyType == 2
KeyTypes == {ObjectKeyType, ResourceKeyType}

LibraryKey(type, id) == [key_type |-> type, id |-> id]
ObjectKey(id) == LibraryKey(ObjectKeyType, id)
ResourceKey(id) == LibraryKey(ResourceKeyType, id)

KeySet == [key_type : KeyTypes, id : 0 .. MaxId]
ObjectKeySet == {k \in KeySet : k.key_type = ObjectKeyType}
ResourceKeySet == {k \in KeySet : k.key_type = ResourceKeyType}

(***************************************************************************)
(* fb_comparator::Compare: the tag first, the identifier second.           *)
(***************************************************************************)
Ordering(x, y) == IF x < y THEN -1 ELSE IF x > y THEN 1 ELSE 0

Compare(lhs, rhs) ==
    IF lhs.key_type # rhs.key_type
    THEN Ordering(lhs.key_type, rhs.key_type)
    ELSE Ordering(lhs.id, rhs.id)

-----------------------------------------------------------------------------
(***************************************************************************)
(* The LevelDB iterator over the keys K: an iterator is at a key of K or   *)
(* at Invalid.  Only the comparator decides where a move ends.             *)
(***************************************************************************)
Invalid == LibraryKey(0, 0)

Least(K) ==
    IF K = {} THEN Invalid
              ELSE CHOOSE k \in K : \A other \in K : Compare(k, other) <= 0

Greatest(K) ==
    IF K = {} THEN Invalid
              ELSE CHOOSE k \in K : \A other \in K : Compare(k, other) >= 0

Seek(K, target) == Least({k \in K : Compare(k, target) >= 0})
SeekToLast(K)   == Greatest(K)
Prev(K, key)    == Greatest({k \in K : Compare(k, key) < 0})

(* A variant with a seeded fault: any key from the target on will do. *)
FoundAtOrAfter(K, key) == Seek(K, key) # Invalid

(***************************************************************************)
(* How list, get, get_resource and put_items look a key up: an iterator    *)
(* that stops at another key means the key is absent.                      *)
(***************************************************************************)
Found(K, key) == Seek(K, key) = key

(***************************************************************************)
(* get_next_id<TKey>: seek the largest key of the type, step back from     *)
(* whatever follows it (or go to the end of the DB), and count on from     *)
(* the key found there if it is of the type asked for.                     *)
(***************************************************************************)
IdAfter(key, type) == IF key.key_type = type THEN key.id + 1 ELSE 0

(* A variant with a seeded fault: as if all keys were of one type. *)
NextIdOfLastKey(K, type) == IdAfter(SeekToLast(K), type)

GetNextId(K, type) ==
    LET sought == Seek(K, LibraryKey(type, MaxId))
    IN  IF sought = Invalid
        THEN IdAfter(SeekToLast(K), type)
        ELSE IdAfter(Prev(K, sought), type)
=============================================================================
