------------------------------ MODULE MCNamespace ------------------------------
(***************************************************************************)
(* The instance of Namespace that TLC checks: two handles in one process   *)
(* and one in another; two keys with one slot each to overwrite; programs  *)
(* that close, that do not, that wait, and a daemon.                       *)
(***************************************************************************)
EXTENDS Namespace, TLC

CONSTANTS a1, a2, b1, A, B, k1, k2, v1, v2

MCHostOf == (a1 :> A) @@ (a2 :> A) @@ (b1 :> B)
MCGarbage == [kind |-> "garbage"]
MCOp == {PutOp(k1, v1), PutOp(k2, v2), InsertOp(1), DeleteVectorOp, MCGarbage}
Sessions == {CSession(None), PySession(None)}
Commands == {CmdInit(1, 0), CmdPut(1), CmdGet, CmdStats, CmdRecover, CmdRecoverDryRun,
             CmdServe(2, 0), ServeMain(2, 0)}
MCProgram == Sessions \cup Commands
MCMayRun == (A :> Sessions) @@ (B :> Commands)

\* Once an engine has opened the stores before another one's write, the two
\* properties with care promise nothing more: bound, such behaviours are
\* followed no further.
Careful == "stale" \notin hist

\* The two handles of process A are interchangeable: nothing orders them and no
\* temporal property is checked.
Symmetry == Permutations({a1, a2})

=============================================================================
