---------------------- MODULE WorkspaceTransactionProofs ----------------------
(***************************************************************************)
(* The composed workspace transaction implements its coordinator, so what  *)
(* TransactionCoordinatorProofs proves of the coordinator alone holds of   *)
(* the composition, for any number of intents, edits and faults.           *)
(***************************************************************************)
EXTENDS WorkspaceTransaction, TransactionCoordinatorProofs

\* Preparing, the owners take steps of the coordinator.
LEMMA PrepareActionCoordinates ==
    ASSUME NEW t \in Tx, PrepareAction(t)
    PROVE  PrepareStep(t)
<1>1. CASE ProposalArrives(t) \/ TargetResolves(t) \/ Acquire(t) \/ Project(t)
           \/ PortFails(t)
  BY <1>1 DEF ProposalArrives, TargetResolves, Acquire, Project, PortFails, PrepareStep
<1>2. CASE Prepare(t)
  BY <1>2 DEF Prepare, PrepareStep, PreparedSets
<1> QED
  BY <1>1, <1>2 DEF PrepareAction

\* Applying, the owners take steps of the coordinator.
LEMMA ApplyActionCoordinates ==
    ASSUME NEW t \in Tx, ApplyAction(t)
    PROVE  ApplyStep(t)
<1>1. CASE StartPaint(t) \/ Painted(t) \/ PaintRefused(t) \/ Unpainted(t)
  BY <1>1 DEF StartPaint, Painted, PaintRefused, Unpainted, ApplyStep
<1>2. CASE ApplyOwners(t)
  <2>1. \E ps \in AppliedSets, restored \in BOOLEAN : OwnersApplied(t, ps, restored)
    BY <1>2 DEF ApplyOwners, AppliedSets
  <2> QED
    BY <2>1 DEF ApplyStep
<1> QED
  BY <1>1, <1>2 DEF ApplyAction

\* Deciding, the owners take steps of the coordinator.
LEMMA DecideActionCoordinates ==
    ASSUME NEW t \in Tx, DecideAction(t)
    PROVE  DecideStep(t)
<1>1. ASSUME Finalize(t)
      PROVE  \E done \in SUBSET Participants, complete \in BOOLEAN :
                Finalized(t, done, complete)
  BY <1>1 DEF Finalize, Participants, SynchronousOwners
<1> QED
  BY <1>1 DEF DecideAction, DecideStep, RefuseDecision

\* Rolling back, the owners take steps of the coordinator.
LEMMA UndoActionCoordinates ==
    ASSUME NEW t \in Tx, UndoAction(t)
    PROVE  UndoStep(t)
<1>1. ASSUME Undo(t)
      PROVE  \E failed \in SUBSET SynchronousOwners : Unwind(t, failed)
  BY <1>1 DEF Undo, SynchronousOwners
<1>2. ASSUME Settle(t)
      PROVE  \E chartRestored, rejected \in BOOLEAN :
                RolledBack(t, chartRestored, rejected)
  <2>1. (~disposed) \in BOOLEAN
    OBVIOUS
  <2>2. RolledBack(t, TRUE, ~disposed) \/ RolledBack(t, FALSE, ~disposed)
    BY <1>2 DEF Settle
  <2> QED
    BY <2>1, <2>2
<1> QED
  BY <1>1, <1>2 DEF UndoAction, UndoStep

\* So does the composition, inputs from outside included.
LEMMA NextCoordinates ==
    ASSUME [Next]_vars
    PROVE  [CoordinatorNext]_coordinatorVars
<1>1. CASE UNCHANGED vars
  BY <1>1 DEF vars
<1>2. CASE Input
  BY <1>2 DEF Input, EditViewport, UserPlays, UserPauses, DisposeComposition,
              CoordinatorNext
<1>3. ASSUME NEW t \in Tx, Execute(t)
      PROVE  CoordinatorNext
  BY <1>3, PrepareActionCoordinates, ApplyActionCoordinates, DecideActionCoordinates,
     UndoActionCoordinates DEF Execute, CoordinatorNext
<1>4. ASSUME NEW t \in Tx, NEW deferred \in BOOLEAN, Submit(t, deferred)
      PROVE  CoordinatorNext
  BY <1>4 DEF Submit, CoordinatorNext
<1> QED
  BY <1>1, <1>2, <1>3, <1>4 DEF Next

\* Every step of the four owners under the event loop is a step of the
\* coordinator, or leaves it alone (transaction-executor.js:256-289).
THEOREM CompositionCoordinates == Spec => CoordinatorSpec
<1>1. Init => CoordinatorInit
  BY DEF Init
<1> QED
  BY <1>1, NextCoordinates, PTL DEF Spec, CoordinatorSpec

\* With any intents, faults and inputs, a healthy composition that returned a
\* terminal for an intent holds none of the intent's four owners reversible
\* (transaction-executor.js:146-237).
THEOREM CompositionLeavesNothingReversible == Spec => []NoOwnerLeftReversible
BY NothingLeftReversible, CompositionCoordinates

\* Its accepted revision counts the committed intents (runtime-state.js:143-161).
THEOREM CompositionCountsCommits == Spec => []AcceptedCountsCommits
BY RevisionCountsCommits, CompositionCoordinates

\* The composed transaction is an atomic workspace
\* (runtime-state.js, transaction-executor.js).
THEOREM CompositionIsAtomic == Spec => ImplementsAtomicWorkspace
BY CoordinatorIsAtomic, CompositionCoordinates
=============================================================================
