---------------------------- MODULE MCColumnarStore ----------------------------
(***************************************************************************)
(* A small instance of ColumnarStore: segments of four bytes, types of one *)
(* and of two bytes.                                                       *)
(***************************************************************************)
EXTENDS ColumnarStore, TLC

CONSTANTS a, b, t1, t2, w1, w2

MCByte == {a, b, Zero}

Narrow(v) == [width |-> 1, data |-> <<v>>, ok |-> TRUE]
Wide(v) == [width |-> 2, data |-> <<v, v>>, ok |-> TRUE]
Long == [width |-> 1, data |-> <<a, a, a, a, a>>, ok |-> TRUE]
Nulls == [width |-> 1, data |-> <<b>>, ok |-> FALSE]

\* A batch that needs padding, one that ends unaligned, one of which the
\* second column is refused, one that does not fit into a segment.
MCBatch == {<<Narrow(a), Wide(b)>>, <<Narrow(b)>>, <<Wide(a), Nulls>>, <<Long>>}

Symmetry == Permutations({t1, t2}) \cup Permutations({w1, w2})

=============================================================================
