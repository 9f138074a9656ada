------------------------------ MODULE MCWalCrash -------------------------------
(* Instances of WalCrash for TLC.                                           *)
EXTENDS WalCrash

CONSTANTS o1, o2, garbage

MCOp == {o1, o2, garbage}
MCBatch == {<<o1>>, <<o2, o1>>}

=============================================================================
