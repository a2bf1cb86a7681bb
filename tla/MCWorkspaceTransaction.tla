----------------------- MODULE MCWorkspaceTransaction -----------------------
(***************************************************************************)
(* Small instances of WorkspaceTransaction for TLC.                        *)
(***************************************************************************)
EXTENDS WorkspaceTransaction, TLC

CONSTANTS t1, t2, t3

AnyOrder == Permutations(Tx)
=============================================================================
