------------------------------- MODULE KVStore -------------------------------
(***************************************************************************)
(* What the block tree of a LifeLines database promises to the rest of the *)
(* program (bt_addrecord, bt_getrecord): one record, or none, under each   *)
(* key; to store a record under a key changes what is read under that key  *)
(* and nothing else.  To store the text "DELE" is to have none.            *)
(***************************************************************************)
CONSTANTS Keys, Records, None

VARIABLE store

Init == store = [k \in Keys |-> None]

Put(k, r) == store' = [store EXCEPT ![k] = r]

Next == \E k \in Keys, r \in Records \cup {None} : Put(k, r)

Spec == Init /\ [][Next]_store
=============================================================================
