--------------------------- MODULE WorkspaceState ---------------------------
(***************************************************************************)
(* workspace-state-runtime.js: the semantic owner of panes, focus,         *)
(* viewports and session hours.                                            *)
(***************************************************************************)
EXTENDS Transactions

VARIABLES
    workspace,   \* accepted semantic value, its revision, currentIdentity
    basis,       \* basis[t]: edits in the pane workspace t was derived from
    statePrep,   \* statePrep[t]: the value and revision prepareAcceptance captured
    editCount    \* local edits made so far

stateVars == <<workspace, basis, statePrep, editCount>>

StateInit ==
    /\ workspace = [value |-> InitialValue, revision |-> 0, identity |-> NoTx]
    /\ basis = [t \in Tx |-> 0]
    /\ statePrep = [t \in Tx |-> [value |-> InitialValue, revision |-> 0]]
    /\ editCount = 0

\* The caller reads the pane workspace it submits with the intent.
DeriveCandidate(t) ==
    /\ basis' = [basis EXCEPT ![t] = workspace.value.edits]
    /\ UNCHANGED <<workspace, statePrep, editCount>>

StateCandidate(t) == [tx |-> t, edits |-> basis[t]]

\* begin(identity), then prepare(): they are called in one turn.
BeginAndPrepareState(t) ==
    /\ workspace' = [workspace EXCEPT !.identity = t]
    /\ statePrep' = [statePrep EXCEPT ![t] =
          [value |-> workspace.value, revision |-> workspace.revision]]
    /\ UNCHANGED <<basis, editCount>>

\* Mutant: the semantic revision is not compared.
StateAppliableAtAnyRevision(t) == workspace.identity = t

StateAppliable(t) == /\ workspace.identity = t
                     /\ workspace.revision = statePrep[t].revision

ApplyState(t) ==
    /\ workspace' = [workspace EXCEPT !.value = StateCandidate(t),
                                      !.revision = statePrep[t].revision + 1]
    /\ UNCHANGED <<basis, statePrep, editCount>>

StateStillApplied(t) == /\ workspace.value = StateCandidate(t)
                        /\ workspace.revision = statePrep[t].revision + 1

\* release() and reject(): the identity stops being current.
Released(w, t) == IF w.identity = t THEN [w EXCEPT !.identity = NoTx] ELSE w

ReleaseState(t) ==
    /\ workspace' = Released(workspace, t)
    /\ UNCHANGED <<basis, statePrep, editCount>>

RollbackState(t, applied) ==
    /\ workspace' = Released(
          IF applied THEN [workspace EXCEPT !.value = statePrep[t].value,
                                            !.revision = statePrep[t].revision]
          ELSE workspace, t)
    /\ UNCHANGED <<basis, statePrep, editCount>>

\* viewportPort.captureManual or reset, and focus: commitLocal().
CommitLocal ==
    /\ workspace' = [workspace EXCEPT !.value.edits = @ + 1, !.revision = @ + 1]
    /\ editCount' = editCount + 1
    /\ UNCHANGED <<basis, statePrep>>

StateTypeOK ==
    /\ workspace \in [value : Values, revision : Nat, identity : Names]
    /\ basis \in [Tx -> Nat]
    /\ statePrep \in [Tx -> [value : Values, revision : Nat]]
    /\ editCount \in Nat
=============================================================================
