----------------------------- MODULE OrderedMap -----------------------------
(***************************************************************************)
(* What uo_hashtbl.h promises: a map from keys to values, with the keys    *)
(* listed in the order they were inserted.  UoHashtbl implements it.       *)
(***************************************************************************)
EXTENDS Naturals, Sequences

CONSTANTS Keys, Values,
          NULL          \* the result for a key that is not in the map

VARIABLES map,          \* value of each key, NULL if absent
          order,        \* the keys present, in the order of their insertion
          result        \* what the last call returned

vars == <<map, order, result>>

Init ==
    /\ map = [k \in Keys |-> NULL]
    /\ order = <<>>
    /\ result = NULL

Get(k) ==
    /\ result' = map[k]
    /\ UNCHANGED <<map, order>>

Set(k, v) ==
    /\ map' = [map EXCEPT ![k] = v]
    /\ order' = IF map[k] = NULL THEN Append(order, k) ELSE order
    /\ result' = NULL

Remove(k) ==
    /\ result' = map[k]
    /\ map' = [map EXCEPT ![k] = NULL]
    /\ \/ map[k] = NULL /\ order' = order
       \/ \E n \in 1 .. Len(order) :
             /\ order[n] = k
             /\ order' = SubSeq(order, 1, n - 1) \o SubSeq(order, n + 1, Len(order))

Next == \E k \in Keys : Get(k) \/ Remove(k) \/ \E v \in Values : Set(k, v)

Spec == Init /\ [][Next]_vars
=============================================================================
