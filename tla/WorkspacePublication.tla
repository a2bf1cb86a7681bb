------------------------ MODULE WorkspacePublication ------------------------
(***************************************************************************)
(* The publication participant of the replay workspace: the staging port   *)
(* (workspace-publication-port.js), the callbacks it stages over           *)
(* (workspace-publication-assembly.js) and the checkpoint persistence      *)
(* (workspace-checkpoint-persistence.js) with the reversible write of the  *)
(* Session repository under it.  A checkpoint is the semantic value it     *)
(* serializes, so a persistence key is that value.                         *)
(***************************************************************************)
EXTENDS Transactions

VARIABLES
    publication,  \* accepted candidate's checkpoint; transaction rendered by the UI
    pubStage,     \* pubStage[t]: state of the stage and the accepted it replaces
    store         \* durable checkpoint, persistedKey, and the pending reversible write

publicationVars == <<publication, pubStage, store>>

\* persistedKey of a Session that has never saved a workspace.
Unset == [tx |-> "unset", edits |-> 0]

\* No transaction has the name of the key that is not there.
ASSUME UnsetAssumption == "unset" \notin Tx

\* A store with no reversible write pending.
Stored(durable, key) ==
    [durable |-> durable, key |-> key, pending |-> FALSE,
     previousKey |-> Unset, previousDurable |-> InitialValue]

PublicationInit ==
    /\ publication = [accepted |-> InitialValue, display |-> NoTx]
    /\ pubStage = [t \in Tx |-> [state |-> "none", previous |-> InitialValue]]
    /\ store \in {Stored(InitialValue, InitialValue), Stored(InitialValue, Unset)}

StagePublication(t) ==
    /\ pubStage' = [pubStage EXCEPT ![t] =
          [state |-> "staged", previous |-> publication.accepted]]
    /\ UNCHANGED <<publication, store>>

Render(tx) == publication' = [publication EXCEPT !.display = tx]
SetStage(t, state) == pubStage' = [pubStage EXCEPT ![t].state = state]

\* persistExact of checkpoint c; a second write while one is reversible throws.
Write(c) == ~store.pending /\ store' = Stored(c, c)
WriteReversibly(c) ==
    /\ ~store.pending
    /\ store' = [durable |-> c, key |-> c, pending |-> TRUE,
                 previousKey |-> store.key, previousDurable |-> store.durable]

\* onApply: render the candidate, save its checkpoint reversibly.
ApplyPublication(t, c) ==
    /\ Render(t)
    /\ SetStage(t, "applied")
    /\ IF c = store.key THEN UNCHANGED store ELSE WriteReversibly(c)

\* checkpointPersistence.restore accepts the checkpoint it is given.
Restorable(t) == store.pending => store.previousKey = pubStage[t].previous

\* Mutant: the durable checkpoint is put back and its key is not.
RestoreStoreKeepingKey ==
    store' = IF store.pending THEN Stored(store.previousDurable, store.key) ELSE store

RestoreStore ==
    store' = IF store.pending
             THEN Stored(store.previousDurable, store.previousKey)
             ELSE store

\* Mutant: a checkpoint that restore() does not know is not put back, and the
\* rollback goes on.
RollbackPublicationForgiving(t) ==
    /\ IF pubStage[t].state = "staged"
       THEN UNCHANGED <<publication, store>>
       ELSE /\ IF Restorable(t) THEN RestoreStore ELSE UNCHANGED store
            /\ Render(pubStage[t].previous.tx)
    /\ SetStage(t, "rolledBack")

\* port.rollback that succeeds, from any stage state before "finalized".
RollbackPublication(t) ==
    /\ IF pubStage[t].state = "staged"
       THEN UNCHANGED <<publication, store>>
       ELSE /\ Restorable(t)
            /\ RestoreStore
            /\ Render(pubStage[t].previous.tx)
    /\ SetStage(t, "rolledBack")

\* port.rollback that throws.  restore() attempts both halves: the view may
\* fail to render, or the store refuses the checkpoint or its write conflicts.
RollbackPublicationFails(t, viewFails, writeFails) ==
    /\ pubStage[t].state \in {"applying", "applied"}
    /\ viewFails \/ writeFails
    /\ writeFails => store.pending
    /\ ~Restorable(t) => writeFails
    /\ IF writeFails THEN UNCHANGED store ELSE RestoreStore
    /\ IF viewFails THEN UNCHANGED publication ELSE Render(pubStage[t].previous.tx)
    /\ UNCHANGED pubStage

\* onApply threw before anything durable changed, and the port was rolled back.
RefusePublication(t) ==
    /\ Restorable(t)
    /\ RestoreStore
    /\ Render(pubStage[t].previous.tx)
    /\ SetStage(t, "rolledBack")

\* onApply threw and rolling the port back threw as well.
TearPublication(t) ==
    /\ Render(t)
    /\ SetStage(t, "applying")
    /\ UNCHANGED store

FinalizePublication(t, c) ==
    /\ publication' = [publication EXCEPT !.accepted = c]
    /\ SetStage(t, "finalized")
    /\ store' = Stored(store.durable, store.key)

\* save() after a local edit, with checkpoint c: equal keys are suppressed, and
\* a failure is shown to the user instead of thrown.
SaveLocal(c) ==
    /\ IF c = store.key THEN UNCHANGED store ELSE Write(c)
    /\ UNCHANGED <<publication, pubStage>>
SaveLocalFails(c) ==
    /\ c # store.key
    /\ UNCHANGED publicationVars

PublicationTypeOK ==
    /\ publication \in [accepted : Values, display : Names]
    /\ pubStage \in [Tx -> [state : {"none", "staged", "applying", "applied",
                                     "finalized", "rolledBack"},
                            previous : Values]]
    /\ store \in [durable : Values, key : Values \union {Unset},
                  pending : BOOLEAN, previousKey : Values \union {Unset},
                  previousDurable : Values]
=============================================================================
