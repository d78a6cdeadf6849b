---------------------------- MODULE MediaLibrary ----------------------------
(***************************************************************************)
(* What the store promises to the services that read it: a tree of media   *)
(* objects that only grows.  children maps every published object to the   *)
(* sequence of its children; nothing is ever renumbered, moved or taken    *)
(* away, except that a power loss brings back an earlier tree (saved).     *)
(***************************************************************************)
EXTENDS Sequences, Integers

CONSTANTS Node, RootNode

VARIABLES children, saved
vars == <<children, saved>>

NoTree == [n \in {} |-> <<>>]

Init == children = NoTree /\ saved = NoTree

Format ==
    /\ DOMAIN children = {}
    /\ children' = [n \in {RootNode} |-> <<>>]
    /\ UNCHANGED saved

(* The objects the sequence s of children gains when it becomes t. *)
Gained(s, t) == SubSeq(t, Len(s) + 1, Len(t))

(***************************************************************************)
(* Objects are published together, each for the first time and each at one *)
(* place, below a container that is already there.                         *)
(***************************************************************************)
PublishUnder(parent) ==
    LET new == Gained(children[parent], children'[parent])
        added == {new[i] : i \in DOMAIN new}
    IN  /\ children'[parent] = children[parent] \o new
        /\ added \subseteq Node \ DOMAIN children
        /\ \A i, j \in DOMAIN new : new[i] = new[j] => i = j
        /\ children' = [n \in DOMAIN children \union added |->
                           IF n = parent THEN children'[parent]
                           ELSE IF n \in added THEN <<>> ELSE children[n]]

Publish ==
    /\ DOMAIN children \subseteq DOMAIN children'
    /\ \E parent \in DOMAIN children : PublishUnder(parent)
    /\ UNCHANGED saved

Save == saved' = children /\ UNCHANGED children

Lose == children' = saved /\ UNCHANGED saved

Next == Format \/ Publish \/ Save \/ Lose

Spec == Init /\ [][Next]_vars
=============================================================================
