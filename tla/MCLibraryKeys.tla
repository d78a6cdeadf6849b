--------------------------- MODULE MCLibraryKeys ---------------------------
(***************************************************************************)
(* TLC walks every set of keys the store can hold over a small range of    *)
(* identifiers, adding one key at a time, and checks what get_next_id and  *)
(* the lookups return for it.                                              *)
(***************************************************************************)
EXTENDS LibraryKeys, FiniteSets

VARIABLE keys

KeysInit == keys = {}

(* Any key but the ones with the last identifier, which no scan reaches. *)
AddKey == \E k \in KeySet : /\ k.id < MaxId
                            /\ k \notin keys
                            /\ keys' = keys \union {k}

KeysSpec == KeysInit /\ [][AddKey]_keys

(***************************************************************************)
(* get_next_id returns the least identifier above every one of its type,   *)
(* whatever the keys of the other type are: a key built from it cannot     *)
(* overwrite an entry (store_service.cpp, get_next_id).                    *)
(***************************************************************************)
IdsOf(type) == {k.id : k \in {key \in keys : key.key_type = type}}

NextIdIsFresh ==
    \A type \in KeyTypes :
        LET next == GetNextId(keys, type)
        IN  /\ \A id \in IdsOf(type) : id < next
            /\ next = 0 \/ next - 1 \in IdsOf(type)

(***************************************************************************)
(* A lookup succeeds for the keys of the DB and for no other, although     *)
(* Seek always lands somewhere (list, get, get_resource, put_items).       *)
(***************************************************************************)
LookupIsExact == \A k \in KeySet : Found(keys, k) <=> k \in keys

=============================================================================
