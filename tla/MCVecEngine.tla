------------------------------ MODULE MCVecEngine ------------------------------
(* Small instances of VecEngine.                                            *)
EXTENDS VecEngine

CONSTANTS v, w

MCId == {1, 2}
MCVec == {v, w}
It(i, x) == [id |-> i, vec |-> x]

Singles == {<<It(1, v)>>, <<It(1, w)>>, <<It(2, v)>>}
Batches == {<<It(1, v)>>, <<It(1, w)>>, <<It(2, w), It(1, v)>>}

=============================================================================
