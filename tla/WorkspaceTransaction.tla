------------------------ MODULE WorkspaceTransaction ------------------------
(***************************************************************************)
(* The whole prepared-commit transaction of a replay workspace: every      *)
(* action of TransactionCoordinator conjoined with what the four owners    *)
(* do in it, run by one JavaScript event loop.                             *)
(*                                                                         *)
(* The event loop: while some promise continuation is ready, no input      *)
(* event, response or animation frame is delivered.  New intents and       *)
(* disposal may come from a continuation, so they may fall into the gap    *)
(* between two of them.                                                    *)
(***************************************************************************)
EXTENDS TransactionCoordinator, ReplayRuntime, WorkspaceState, ChartPaneSet,
        WorkspacePublication

CONSTANTS
    SingleFlight, \* TRUE: intents come through workspace-execution.js, which
                  \* refuses one while another is pending; FALSE: they are
                  \* executed on the runtime directly, newer superseding older
    Faults,       \* failures of ports and owners that may happen
    Inputs,       \* inputs from outside the transactions that may happen
    MaxEdits      \* bound on local viewport edits

PossibleFaults == {"port", "paint", "repaint", "view", "write", "finalize", "save"}
PossibleInputs == {"edit", "play", "pause", "dispose"}

ASSUME WorkspaceAssumption ==
    /\ SingleFlight \in BOOLEAN
    /\ Faults \subseteq PossibleFaults
    /\ Inputs \subseteq PossibleInputs
    /\ MaxEdits \in Nat

ownerVars == <<replayVars, stateVars, chartVars, publicationVars>>
vars == <<coordinatorVars, ownerVars>>

Init == /\ CoordinatorInit /\ ReplayInit /\ StateInit
        /\ ChartInit /\ PublicationInit
-----------------------------------------------------------------------------
InFlight(t) == pc[t] \notin {"idle", "done"}

\* t's executor continues without waiting for anything outside.
Ready(t) == \/ pc[t] \in {"prepared", "painted", "applied", "failing"}
            \/ pc[t] = "proposing" /\ proposal[t].issued
            \/ pc[t] \in {"unpainting", "rollingBack"} /\ ~Painting(t)

\* Responses, frames and input events wait for every continuation.
Idle == \A t \in Tx : ~Ready(t)

Fault(f) == f \in Faults
-----------------------------------------------------------------------------
(* Preparing.                                                              *)

\* The caller derives its candidate and executes; propose() runs up to its
\* first await.  deferred: the target must be resolved before it is proposed.
Submit(t, deferred) ==
    /\ SingleFlight => \A u \in Tx : ~InFlight(u)
    /\ Begin(t)
    /\ DeriveCandidate(t)
    /\ IF deferred THEN UNCHANGED replayVars ELSE ProposeTarget(t)
    /\ UNCHANGED <<chartVars, publicationVars>>

ProposalArrives(t) ==
    /\ proposal[t].issued
    /\ Proposed(t)
    /\ UNCHANGED ownerVars

\* An aborted signal makes the port throw instead of proposing.
TargetResolves(t) ==
    /\ Idle
    /\ ~proposal[t].issued
    /\ IF IsCurrent(t)
       THEN Proposed(t) /\ ProposeTarget(t)
       ELSE pc[t] = "proposing" /\ PortRejects(t) /\ UNCHANGED replayVars
    /\ UNCHANGED <<stateVars, chartVars, publicationVars>>

Acquire(t) == Idle /\ Acquired(t) /\ UNCHANGED ownerVars

\* A current transaction goes on to chart.prepare at once.
Project(t) ==
    /\ Idle
    /\ Projected(t)
    /\ IF IsCurrent(t) THEN BeginChart(t) ELSE UNCHANGED chartVars
    /\ UNCHANGED <<replayVars, stateVars, publicationVars>>

PortFails(t) ==
    /\ Idle
    /\ Fault("port") \/ (pc[t] = "staging" /\ ~IsCurrent(t))
    /\ pc[t] = "proposing" => ~proposal[t].issued
    /\ PortRejects(t)
    /\ UNCHANGED ownerVars

\* chart.prepare resolves; Replay, Workspace State and publication prepare in
\* the same turn, unless the proposal went stale or t was superseded.
Prepare(t) ==
    /\ Idle
    /\ pc[t] = "staging"
    /\ StageChart(t)
    /\ IF IsCurrent(t) /\ Committable(t)
       THEN /\ Prepared(t, Participants)
            /\ PrepareVisible(t)
            /\ BeginAndPrepareState(t)
            /\ StagePublication(t)
       ELSE /\ Prepared(t, {"chart"})
            /\ UNCHANGED <<replayVars, stateVars, publicationVars>>
-----------------------------------------------------------------------------
(* Applying.                                                               *)

StartPaint(t) ==
    /\ StartApply(t)
    /\ IF IsCurrent(t) THEN MutateSeries(t) ELSE UNCHANGED chartVars
    /\ UNCHANGED <<replayVars, stateVars, publicationVars>>

ChartIsCurrent(t) == IsCurrent(t) /\ chart.identity = t

Painted(t) ==
    /\ Idle
    /\ NextPaint(t)
    /\ ChartIsCurrent(t) /\ ReceiptMatches(t)
    /\ ChartApplied(t)
    /\ CommitPaint(t)
    /\ UNCHANGED <<replayVars, stateVars, publicationVars>>

\* The paint is not proved, t is stale, or the receipt is refused.
PaintRefused(t) ==
    /\ Idle
    /\ NextPaint(t)
    /\ ChartFails(t)
    /\ \/ /\ Fault("paint") \/ ~ChartIsCurrent(t)
          /\ RestoreSeries(t, disposed, Tail(paints), surface.revision)
       \/ /\ ChartIsCurrent(t) /\ ~ReceiptMatches(t)
          /\ RestoreSeries(t, disposed, Tail(paints), stage[t].revision + 1)
    /\ UNCHANGED <<replayVars, stateVars, publicationVars>>

\* chart.apply rejects with its first error even when the restore failed.
Unpainted(t) ==
    /\ Restored(t)
    /\ Painting(t) => Idle
    /\ ChartUndone(t)
    /\ SettleRestore(t) \/ (Fault("repaint") /\ AbandonRestore(t))
    /\ UNCHANGED <<replayVars, stateVars, publicationVars>>

\* The final currency check, then Replay, Workspace State and publication.
ApplyOwners(t) ==
    LET applies == Committable(t) /\ StateAppliable(t) /\ Publishable(t)
    IN  /\ pc[t] = "painted"
        /\ UNCHANGED chartVars
        /\ \/ /\ applies
              /\ OwnersApplied(t, SynchronousOwners, TRUE)
              /\ ApplyReplay(t)
              /\ ApplyState(t)
              /\ ApplyPublication(t, StateCandidate(t))
           \/ /\ ~IsCurrent(t) \/ ~Committable(t)
              /\ OwnersApplied(t, {}, FALSE)
              /\ UNCHANGED <<replayVars, stateVars, publicationVars>>
           \/ /\ IsCurrent(t) /\ Committable(t) /\ ~StateAppliable(t)
              /\ OwnersApplied(t, {"replay"}, FALSE)
              /\ ApplyReplay(t)
              /\ UNCHANGED <<stateVars, publicationVars>>
           \/ /\ applies
              /\ Fault("view") \/ Fault("write") \/ store.pending
              /\ ApplyReplay(t)
              /\ ApplyState(t)
              /\ \/ /\ OwnersApplied(t, {"replay", "workspaceState"}, TRUE)
                    /\ RefusePublication(t)
                 \/ /\ Fault("view") \/ ~Restorable(t)
                    /\ OwnersApplied(t, {"replay", "workspaceState"}, FALSE)
                    /\ TearPublication(t)
-----------------------------------------------------------------------------
(* Deciding.                                                               *)

Finalize(t) ==
    LET sound == /\ ChartPublishable(t)
                 /\ ReplayStillApplied(t)
                 /\ StateStillApplied(t)
        done == {"publication"}
                \union {p \in {"chart"} : ChartPublishable(t)}
                \union {p \in {"replay"} : ReplayStillApplied(t)}
                \union {p \in {"workspaceState"} : StateStillApplied(t)}
    IN  /\ \/ sound /\ Finalized(t, done, TRUE)
           \/ (~sound \/ Fault("finalize")) /\ Finalized(t, done, FALSE)
        /\ FinalizePublication(t, StateCandidate(t))
        /\ IF "chart" \in done THEN FinalizeChart(t) ELSE UNCHANGED chartVars
        /\ IF "replay" \in done THEN ReleaseProposal(t) ELSE UNCHANGED proposal
        /\ UNCHANGED <<replay, replayPrep>>
        /\ IF "workspaceState" \in done THEN ReleaseState(t) ELSE UNCHANGED stateVars

RefuseDecision(t) == DecisionRefused(t) /\ UNCHANGED ownerVars
-----------------------------------------------------------------------------
(* Rolling back.                                                           *)

Undo(t) ==
    /\ pc[t] = "failing"
    /\ \/ /\ "publication" \notin Retained(t)
          /\ Unwind(t, {})
          /\ UNCHANGED publicationVars
       \/ /\ "publication" \in Retained(t)
          /\ Unwind(t, {})
          /\ RollbackPublication(t)
       \/ /\ "publication" \in Retained(t)
          /\ Unwind(t, {"publication"})
          /\ \E viewFails, writeFails \in BOOLEAN :
                /\ viewFails => Fault("view")
                /\ writeFails => (Fault("write") \/ ~Restorable(t))
                /\ RollbackPublicationFails(t, viewFails, writeFails)
    /\ IF "workspaceState" \in Retained(t)
       THEN RollbackState(t, status[t]["workspaceState"] = "applied")
       ELSE UNCHANGED stateVars
    /\ IF "replay" \in Retained(t)
       THEN RollbackReplay(t, status[t]["replay"] = "applied")
       ELSE UNCHANGED replayVars
    /\ IF "chart" \in Retained(t)
       THEN RestoreSeries(t, disposed, paints, surface.revision)
       ELSE UNCHANGED chartVars

\* Cleanup after the chart's rollback settled.  A disposed Replay or Workspace
\* State owner refuses reject().
Settle(t) ==
    LET chartHeld == "chart" \in Retained(t)
    IN  /\ pc[t] = "rollingBack"
        /\ Restored(t)
        /\ Painting(t) => Idle
        /\ \/ /\ RolledBack(t, TRUE, ~disposed)
              /\ IF chartHeld THEN SettleRestore(t) ELSE UNCHANGED chartVars
           \/ /\ chartHeld /\ Painting(t) /\ Fault("repaint")
              /\ RolledBack(t, FALSE, ~disposed)
              /\ AbandonRestore(t)
        /\ IF holdsProposal[t] /\ ~disposed
           THEN ReleaseProposal(t) ELSE UNCHANGED proposal
        /\ UNCHANGED <<replay, replayPrep>>
        /\ IF disposed THEN UNCHANGED stateVars ELSE ReleaseState(t)
        /\ UNCHANGED publicationVars
-----------------------------------------------------------------------------
(* Inputs from outside the transactions.                                   *)

\* A native viewport gesture settles: it is committed and saved at once,
\* whether or not a transaction is pending.
EditViewport ==
    /\ "edit" \in Inputs /\ Idle /\ ~disposed
    /\ editCount < MaxEdits
    /\ CommitLocal
    /\ LET saved == workspace'.value
       IN  \/ ~store.pending /\ SaveLocal(saved)
           \/ (store.pending \/ Fault("save")) /\ SaveLocalFails(saved)
    /\ UNCHANGED <<coordinatorVars, replayVars, chartVars>>

UserPlays ==
    /\ "play" \in Inputs /\ Idle /\ ~disposed
    /\ Play
    /\ UNCHANGED <<coordinatorVars, stateVars, chartVars, publicationVars>>

UserPauses ==
    /\ "pause" \in Inputs /\ Idle /\ ~disposed
    /\ Pause
    /\ UNCHANGED <<coordinatorVars, stateVars, chartVars, publicationVars>>

\* The composition disposes runtime, chart, Replay and Workspace State in one
\* turn; disposal of the owners only refuses their later calls.
DisposeComposition ==
    /\ "dispose" \in Inputs
    /\ Dispose
    /\ workspace' = [workspace EXCEPT !.identity = NoTx]
    /\ UNCHANGED <<basis, statePrep, editCount>>
    /\ UNCHANGED <<replayVars, chartVars, publicationVars>>
-----------------------------------------------------------------------------
PrepareAction(t) == \/ ProposalArrives(t) \/ TargetResolves(t) \/ Acquire(t)
                    \/ Project(t) \/ PortFails(t) \/ Prepare(t)
ApplyAction(t) == \/ StartPaint(t) \/ Painted(t) \/ PaintRefused(t) \/ Unpainted(t)
                  \/ ApplyOwners(t)
DecideAction(t) == Finalize(t) \/ RefuseDecision(t)
UndoAction(t) == Undo(t) \/ Settle(t)

\* What the executor of t does once it is begun.
Execute(t) == PrepareAction(t) \/ ApplyAction(t) \/ DecideAction(t) \/ UndoAction(t)

Input == EditViewport \/ UserPlays \/ UserPauses \/ DisposeComposition

Next == \/ Input
        \/ \E t \in Tx : Execute(t) \/ \E deferred \in BOOLEAN : Submit(t, deferred)

Spec == Init /\ [][Next]_vars

\* Promises settle and continuations run; the user owes nothing.
FairSpec == Spec /\ \A t \in Tx : WF_vars(Execute(t))
-----------------------------------------------------------------------------
(* Properties.                                                             *)

\* Every variable keeps its type.
TypeOK == /\ CoordinatorTypeOK /\ ReplayTypeOK /\ StateTypeOK
          /\ ChartTypeOK /\ PublicationTypeOK

Committed == {t \in Tx : terminal[t] = "committed"}

\* No transaction is between the first apply of a synchronous owner and its
\* decision or rollback, and no rollback has failed.
Undisturbed ==
    /\ ~poisoned
    /\ \A t \in Tx : ~unrestored[t] /\ status[t]["replay"] # "applied"

\* Replay, Workspace State, what the UI shows, what the publication port took
\* for accepted and the durable checkpoint all stand at the accepted snapshot
\* of the coordinator, and what is durable has the edits of the workspace,
\* whatever was superseded, refused, rolled back or disposed on the way
\* (transaction-executor.js:136-237, workspace-checkpoint-persistence.js:92-118).
SemanticOwnersAgree ==
    Undisturbed =>
        /\ replay.cursor = accepted.tx
        /\ replay.revision = accepted.revision
        /\ workspace.value.tx = accepted.tx
        /\ publication.display = accepted.tx
        /\ publication.accepted.tx = accepted.tx
        /\ store.durable.tx = accepted.tx
        /\ "save" \notin Faults => store.durable = workspace.value
        /\ ~store.pending

\* With nothing in flight, the candles in the series, the adapter's applied
\* data, the accepted Chart snapshot and both chart revisions are those of the
\* accepted snapshot: a refused or stale paint leaves no trace
\* (lightweight-chart-adapter.js:144-194, pane-set-adapter.js:180-195).
ChartAgreesAtRest ==
    (~poisoned /\ ~disposed /\ \A t \in Tx : ~InFlight(t)) =>
        /\ surface.series = accepted.tx
        /\ surface.applied = accepted.tx
        /\ chart.accepted = accepted.tx
        /\ surface.revision = accepted.revision
        /\ chart.revision = accepted.revision

\* The series of the newest intent is its own from its proved paint on: the
\* rollback of a superseded paint, which may run at any later moment, restores
\* no candles over it (lightweight-chart-adapter.js:144-166).
PaintedIsShown ==
    \A t \in Tx :
        t = current /\ (pc[t] \in {"painted", "applied"} \/ terminal[t] = "committed")
            => surface.series = t /\ surface.applied = t

\* The key that suppresses equal saves is the key of what is durable, so no
\* needed save is suppressed (workspace-checkpoint-persistence.js:41-118).
PersistedKeyIsDurable == store.key \in {store.durable, Unset}

\* Every semantic revision is one commit or one edit of the user's, and the
\* value contains the edits made since the accepted transaction replaced it: a
\* transaction that does not commit neither drops nor repeats an edit
\* (workspace-state-runtime.js:268-348).
RevisionsAccountForEdits ==
    LET t == accepted.tx
        edits == IF t = NoTx THEN 0 ELSE basis[t]
        revision == IF t = NoTx THEN 0 ELSE statePrep[t].revision + 1
    IN  Undisturbed =>
            /\ workspace.revision = accepted.revision + editCount
            /\ workspace.value.edits + revision = workspace.revision + edits

\* A transaction that commits contains every viewport edit that was accepted
\* when it replaced the workspace (workspace-state-runtime.js:206-348).
CommitsKeepViewportEdits ==
    \A t \in Committed : basis[t] >= statePrep[t].value.edits

\* Playback starts only when the user starts it: neither the apply nor the
\* rollback of a transaction un-pauses it (replay-runtime.js:205-240).
OnlyUserStartsPlayback ==
    [][replay.playback = "paused" /\ replay'.playback = "playing" => UserPlays]_vars

\* Every intent the runtime took gets its terminal
\* (transaction-executor.js:256-289).
EveryIntentSettles == \A t \in Tx : InFlight(t) ~> pc[t] = "done"
=============================================================================
