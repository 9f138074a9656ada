------------------------------- MODULE MCSharded -------------------------------
(* An instance of Sharded for TLC: three ids on two shards, two of them at   *)
(* one distance, and a key.                                                  *)
EXTENDS Sharded, TLC

CONSTANTS k

MCHash == (1 :> 1) @@ (2 :> 2) @@ (3 :> 3) @@ (k :> 0)
MCDist == (1 :> 1) @@ (2 :> 0) @@ (3 :> 1)
MCBatch == {{1, 2}, {3}}

\* Clients are interchangeable: no action or property names one.
Symmetry == Permutations(Client)

=============================================================================
