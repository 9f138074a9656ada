--------------------------------- MODULE KvMap ---------------------------------
(***************************************************************************)
(* What the KV store promises its callers: a map from keys to values that  *)
(* changes only by a put or a delete of the key concerned.                 *)
(***************************************************************************)
CONSTANTS Key, Value, None

VARIABLE map

Init == map = [k \in Key |-> None]

Put(k, v) == map' = [map EXCEPT ![k] = v]

Delete(k) == map' = [map EXCEPT ![k] = None]

Next == \E k \in Key : Delete(k) \/ \E v \in Value : Put(k, v)

Spec == Init /\ [][Next]_map

=============================================================================
