--------------------------- MODULE AtomicWorkspace ---------------------------
(***************************************************************************)
(* What a replay workspace promises to the code that drives it.            *)
(*                                                                         *)
(* A Session activation holds one accepted workspace revision.  Intents    *)
(* are submitted; each one is either committed, which replaces the         *)
(* accepted workspace and advances its revision by one, or aborted, which  *)
(* changes nothing.  Only the newest submitted intent may commit, and once *)
(* the activation is closed (disposed or poisoned) no intent starts or     *)
(* commits.  TransactionCoordinator implements this specification.         *)
(***************************************************************************)
EXTENDS Naturals

CONSTANTS Tx,     \* identities of the intents an activation may submit
          NoTx    \* the initial workspace, produced by no intent

VARIABLES phase,     \* phase[t]: where intent t stands
          newest,    \* the intent submitted last, or NoTx
          accepted,  \* the intent whose workspace is accepted, and its revision
          closed     \* the activation accepts nothing any more

vars == <<phase, newest, accepted, closed>>

Phases == {"unsubmitted", "pending", "committed", "aborted"}

Init ==
    /\ phase = [t \in Tx |-> "unsubmitted"]
    /\ newest = NoTx
    /\ accepted = [tx |-> NoTx, revision |-> 0]
    /\ closed = FALSE

Submit(t) ==
    /\ ~closed
    /\ phase[t] = "unsubmitted"
    /\ phase' = [phase EXCEPT ![t] = "pending"]
    /\ newest' = t
    /\ UNCHANGED <<accepted, closed>>

\* A commit may be the last act of an activation: an owner that could not be
\* finalized closes it in the same step.
Commit(t) ==
    /\ ~closed
    /\ newest = t
    /\ phase[t] = "pending"
    /\ phase' = [phase EXCEPT ![t] = "committed"]
    /\ accepted' = [tx |-> t, revision |-> accepted.revision + 1]
    /\ closed' \in BOOLEAN
    /\ UNCHANGED newest

\* An abort that could not restore every owner closes the activation.
Abort(t) ==
    /\ phase[t] = "pending"
    /\ phase' = [phase EXCEPT ![t] = "aborted"]
    /\ closed' \in {closed, TRUE}
    /\ UNCHANGED <<newest, accepted>>

Close ==
    /\ ~closed
    /\ closed' = TRUE
    /\ UNCHANGED <<phase, newest, accepted>>

Next == Close \/ \E t \in Tx : Submit(t) \/ Commit(t) \/ Abort(t)

Spec == Init /\ [][Next]_vars
=============================================================================
