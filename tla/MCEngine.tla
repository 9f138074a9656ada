------------------------------- MODULE MCEngine --------------------------------
(* Instances of Engine for TLC.                                             *)
EXTENDS Engine

CONSTANTS a, b, k1, k2, t1, t2

MCByte == {Zero, a, b}
MCValue == {<<a>>, <<b, b>>}
MCGarbage == [kind |-> "garbage"]
MCOp == {PutOp(k, v) : k \in Key, v \in Value} \cup {DeleteOp(k) : k \in Key}
        \cup {PutColumnarOp, MCGarbage}

Puts == {PutOp(k, v) : k \in Key, v \in Value}
Writes == Puts \cup {DeleteOp(k) : k \in Key}
WritesCheckpoint == Writes \cup {CheckpointCall}
PutsCheckpoint == Puts \cup {CheckpointCall}
FewWrites == {PutOp(k1, <<a>>), PutOp(k1, <<b, b>>), PutOp(k2, <<a>>), DeleteOp(k1), CheckpointCall}
Everything == Writes \cup {CheckpointCall, RecoverCall, PutColumnarOp}
ColumnarOnly == {PutColumnarOp}

=============================================================================
