------------------------------- MODULE MCKvStore -------------------------------
(***************************************************************************)
(* Small instances of KvStore.                                             *)
(***************************************************************************)
EXTENDS KvStore, TLC

CONSTANTS a, b, k1, k2, w1, w2

MCByte == {a, b, Zero}

\* One value that fits anywhere, one that forces rotations.
MCValue == {<<a>>, <<b, b>>}

\* An empty value and one longer than a segment of two bytes as well.
MCEdgeValue == {<<>>, <<a>>, <<b>>, <<b, b, a>>}

Symmetry == Permutations({k1, k2}) \cup Permutations({w1, w2})

=============================================================================
