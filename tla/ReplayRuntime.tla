---------------------------- MODULE ReplayRuntime ----------------------------
(***************************************************************************)
(* replay-runtime.js: the one accepted replay clock of an activation.      *)
(* A cursor is named by the transaction that moved it there.               *)
(***************************************************************************)
EXTENDS Transactions

CONSTANT EndTx   \* transactions whose target is the end of the replay range

ASSUME EndTxAssumption == EndTx \subseteq Tx

VARIABLES
    replay,      \* accepted cursor, revision and playback
    proposal,    \* proposal[t]: the cursor proposal issued to t and its base
    replayPrep   \* playback captured by prepareVisible: before, and of the candidate

replayVars == <<replay, proposal, replayPrep>>

Playback == {"paused", "playing"}

ReplayInit ==
    /\ replay = [cursor |-> NoTx, revision |-> 0, playback |-> "paused"]
    /\ proposal = [t \in Tx |-> [issued |-> FALSE, base |-> 0, cursor |-> NoTx]]
    /\ replayPrep = [t \in Tx |-> [previous |-> "paused", candidate |-> "paused"]]

ProposeTarget(t) ==
    /\ proposal' = [proposal EXCEPT ![t] =
          [issued |-> TRUE, base |-> replay.revision, cursor |-> replay.cursor]]
    /\ UNCHANGED <<replay, replayPrep>>

Committable(t) == /\ proposal[t].issued
                  /\ proposal[t].base = replay.revision
                  /\ proposal[t].cursor = replay.cursor

PrepareVisible(t) ==
    /\ replayPrep' = [replayPrep EXCEPT ![t] =
          [previous |-> replay.playback,
           candidate |-> IF t \in EndTx THEN "paused" ELSE replay.playback]]
    /\ UNCHANGED <<replay, proposal>>

ApplyReplay(t) ==
    /\ replay' = [cursor |-> t, revision |-> proposal[t].base + 1,
                  playback |-> replayPrep[t].candidate]
    /\ UNCHANGED <<proposal, replayPrep>>

\* What finalize() requires of the clock after apply().
ReplayStillApplied(t) ==
    replay.revision = proposal[t].base + 1 /\ replay.cursor = t

\* finalize() and rollback() of a prepared value, and reject(): the proposal
\* is no longer issued.
ReleaseProposal(t) == proposal' = [proposal EXCEPT ![t].issued = FALSE]

RollbackReplay(t, applied) ==
    /\ replay' = IF applied
                 THEN [cursor |-> proposal[t].cursor, revision |-> proposal[t].base,
                       playback |-> replayPrep[t].previous]
                 ELSE replay
    /\ ReleaseProposal(t)
    /\ UNCHANGED replayPrep

Play ==
    /\ replay.cursor \notin EndTx
    /\ replay.playback = "paused"
    /\ replay' = [replay EXCEPT !.playback = "playing"]
    /\ UNCHANGED <<proposal, replayPrep>>

Pause ==
    /\ replay.playback = "playing"
    /\ replay' = [replay EXCEPT !.playback = "paused"]
    /\ UNCHANGED <<proposal, replayPrep>>

ReplayTypeOK ==
    /\ replay \in [cursor : Names, revision : Nat, playback : Playback]
    /\ proposal \in [Tx -> [issued : BOOLEAN, base : Nat, cursor : Names]]
    /\ replayPrep \in [Tx -> [previous : Playback, candidate : Playback]]
=============================================================================
