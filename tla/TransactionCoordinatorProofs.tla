-------------------- MODULE TransactionCoordinatorProofs --------------------
(***************************************************************************)
(* Proofs about the Workspace Transaction Runtime: its types, what it      *)
(* leaves behind when a transaction is over, what its accepted revision    *)
(* counts, and that it implements AtomicWorkspace.                         *)
(***************************************************************************)
EXTENDS TransactionCoordinator, FiniteSetTheorems, TLAPS

USE DEF Names, SynchronousOwners, Participants, CommitStatus, Suspended,
        Terminals, PreparedSets, AppliedSets, Retained

-----------------------------------------------------------------------------
(* Type correctness.                                                       *)

\* assertCurrent goes on or throws: both keep the types of what they assign.
LEMMA AssertCurrentType ==
    ASSUME CoordinatorTypeOK, NEW t \in Tx,
           NEW label \in Suspended, Continue(t, label) \/ Interrupt(t)
    PROVE  /\ pc' \in [Tx -> Suspended \union {"idle", "done"}]
           /\ interruption' \in [Tx -> {"none", "stale", "cancelled"}]
BY SMTT(30) DEF CoordinatorTypeOK, Continue, Interrupt, GoTo, IsCurrent, Currency

\* A participant's prepared-commit contract only takes contract states.
LEMMA SetStatusType ==
    ASSUME CoordinatorTypeOK, NEW t \in Tx, NEW ps, NEW s \in CommitStatus,
           SetStatus(t, ps, s)
    PROVE  status' \in [Tx -> [Participants -> CommitStatus]]
BY DEF CoordinatorTypeOK, SetStatus

\* The preparation of an intent keeps every type (transaction-executor.js:60-134).
LEMMA PrepareStepType ==
    ASSUME CoordinatorTypeOK, NEW t \in Tx, Begin(t) \/ PrepareStep(t)
    PROVE  CoordinatorTypeOK'
<1>1. CASE Begin(t)
  BY <1>1 DEF Begin, CoordinatorTypeOK, GoTo, recordVars
<1>2. CASE Proposed(t)
  BY <1>2, AssertCurrentType
     DEF Proposed, CoordinatorTypeOK, decisionVars
<1>3. CASE Acquired(t)
  BY <1>3, AssertCurrentType
     DEF Acquired, CoordinatorTypeOK, decisionVars, recordVars
<1>4. CASE Projected(t)
  BY <1>4, AssertCurrentType
     DEF Projected, CoordinatorTypeOK, decisionVars, recordVars
<1>5. CASE PortRejects(t)
  BY <1>5 DEF PortRejects, Throw, GoTo, CoordinatorTypeOK, decisionVars, recordVars
<1>6. ASSUME NEW ps \in PreparedSets, Prepared(t, ps)
      PROVE  CoordinatorTypeOK'
  <2>1. status' \in [Tx -> [Participants -> CommitStatus]]
    BY <1>6, SetStatusType DEF Prepared
  <2>2. /\ pc' \in [Tx -> Suspended \union {"idle", "done"}]
        /\ interruption' \in [Tx -> {"none", "stale", "cancelled"}]
    BY <1>6, AssertCurrentType DEF Prepared, Throw, GoTo, CoordinatorTypeOK
  <2>3. baseRevision' \in [Tx -> Nat]
    BY <1>6 DEF Prepared, CoordinatorTypeOK
  <2> QED
    BY <1>6, <2>1, <2>2, <2>3 DEF Prepared, CoordinatorTypeOK, decisionVars
<1> QED
  BY <1>1, <1>2, <1>3, <1>4, <1>5, <1>6 DEF PrepareStep

\* Applying keeps every type (transaction-executor.js:136-144).
LEMMA ApplyStepType ==
    ASSUME CoordinatorTypeOK, NEW t \in Tx, ApplyStep(t)
    PROVE  CoordinatorTypeOK'
<1>1. CASE StartApply(t)
  BY <1>1, AssertCurrentType
     DEF StartApply, CoordinatorTypeOK, decisionVars, recordVars
<1>2. CASE ChartApplied(t)
  BY <1>2, SetStatusType
     DEF ChartApplied, GoTo, CoordinatorTypeOK, decisionVars, recordVars
<1>3. CASE ChartFails(t)
  BY <1>3 DEF ChartFails, GoTo, CoordinatorTypeOK, decisionVars, recordVars
<1>4. CASE ChartUndone(t)
  BY <1>4, SetStatusType
     DEF ChartUndone, Throw, GoTo, CoordinatorTypeOK, decisionVars, recordVars
<1>5. ASSUME NEW ps \in AppliedSets, NEW restored \in BOOLEAN,
             OwnersApplied(t, ps, restored)
      PROVE  CoordinatorTypeOK'
  <2>1. status' \in [Tx -> [Participants -> CommitStatus]]
    <3>1. CASE SetStatus(t, ps, "applied")
      BY <3>1, SetStatusType DEF CommitStatus
    <3>2. CASE status' = [status EXCEPT ![t] = [p \in Participants |->
                  IF p \in ps THEN "applied"
                  ELSE IF restored /\ p = "publication" /\ "workspaceState" \in ps
                       THEN "rolledBack" ELSE @[p]]]
      BY <3>2 DEF CoordinatorTypeOK, CommitStatus
    <3>3. CASE UNCHANGED status
      BY <3>3 DEF CoordinatorTypeOK
    <3> QED
      BY <1>5, <3>1, <3>2, <3>3 DEF OwnersApplied
  <2>2. /\ pc' \in [Tx -> Suspended \union {"idle", "done"}]
        /\ interruption' \in [Tx -> {"none", "stale", "cancelled"}]
    BY <1>5, AssertCurrentType DEF OwnersApplied, Throw, GoTo, CoordinatorTypeOK
  <2> QED
    BY <1>5, <2>1, <2>2
       DEF OwnersApplied, CoordinatorTypeOK, decisionVars, recordVars
<1> QED
  BY <1>1, <1>2, <1>3, <1>4, <1>5 DEF ApplyStep

\* Deciding and undoing keep every type (transaction-executor.js:146-253).
LEMMA DecideStepType ==
    ASSUME CoordinatorTypeOK, NEW t \in Tx, DecideStep(t) \/ UndoStep(t)
    PROVE  CoordinatorTypeOK'
<1>1. ASSUME NEW done \in SUBSET Participants, NEW complete \in BOOLEAN,
             Finalized(t, done, complete)
      PROVE  CoordinatorTypeOK'
  <2>1. accepted' \in [tx : Names, revision : Nat]
    BY <1>1 DEF Finalized, Publish, CoordinatorTypeOK
  <2>2. status' \in [Tx -> [Participants -> CommitStatus]]
    BY <1>1, SetStatusType DEF Finalized
  <2> QED
    BY <1>1, <2>1, <2>2 DEF Finalized, GoTo, CoordinatorTypeOK, recordVars
<1>2. CASE DecisionRefused(t)
  BY <1>2 DEF DecisionRefused, Throw, GoTo, CoordinatorTypeOK, decisionVars,
              recordVars
<1>3. ASSUME NEW failed \in SUBSET SynchronousOwners, Unwind(t, failed)
      PROVE  CoordinatorTypeOK'
  <2>1. status' \in [Tx -> [Participants -> CommitStatus]]
    BY <1>3, SetStatusType DEF Unwind
  <2> QED
    BY <1>3, <2>1 DEF Unwind, GoTo, CoordinatorTypeOK, decisionVars
<1>4. ASSUME NEW chartRestored \in BOOLEAN, NEW rejected \in BOOLEAN,
             RolledBack(t, chartRestored, rejected)
      PROVE  CoordinatorTypeOK'
  <2>1. status' \in [Tx -> [Participants -> CommitStatus]]
    BY <1>4, SetStatusType DEF RolledBack
  <2>2. FailureStatus(t) \in Terminals
    BY DEF FailureStatus, CoordinatorTypeOK
  <2>3. terminal' \in [Tx -> Terminals \union {"none"}]
    BY <1>4, <2>2 DEF RolledBack, CoordinatorTypeOK
  <2>4. poisoned' \in BOOLEAN
    BY <1>4 DEF RolledBack, CoordinatorTypeOK
  <2> QED
    BY <1>4, <2>1, <2>3, <2>4 DEF RolledBack, GoTo, CoordinatorTypeOK, recordVars
<1> QED
  BY <1>1, <1>2, <1>3, <1>4 DEF DecideStep, UndoStep

\* Every step of the coordinator keeps every type.
LEMMA TypeStep ==
    CoordinatorTypeOK /\ [CoordinatorNext]_coordinatorVars => CoordinatorTypeOK'
<1> SUFFICES ASSUME CoordinatorTypeOK, [CoordinatorNext]_coordinatorVars
             PROVE  CoordinatorTypeOK'
  OBVIOUS
<1>1. CASE Dispose
  BY <1>1 DEF Dispose, CoordinatorTypeOK, recordVars
<1>2. CASE UNCHANGED coordinatorVars
  BY <1>2 DEF coordinatorVars, CoordinatorTypeOK
<1> QED
  BY <1>1, <1>2, PrepareStepType, ApplyStepType, DecideStepType DEF CoordinatorNext

\* The initial state of a runtime is well typed (runtime-state.js:22-40).
LEMMA InitialTypes ==
    ASSUME CoordinatorInit
    PROVE  CoordinatorTypeOK
<1>1. status \in [Tx -> [Participants -> CommitStatus]]
  BY DEF CoordinatorInit
<1>2. /\ accepted \in [tx : Names, revision : Nat]
      /\ baseRevision \in [Tx -> Nat]
  BY DEF CoordinatorInit
<1>3. /\ current \in Names
      /\ poisoned \in BOOLEAN
      /\ disposed \in BOOLEAN
  BY DEF CoordinatorInit
<1>4. /\ pc \in [Tx -> Suspended \union {"idle", "done"}]
      /\ interruption \in [Tx -> {"none", "stale", "cancelled"}]
      /\ terminal \in [Tx -> Terminals \union {"none"}]
  BY DEF CoordinatorInit
<1>5. /\ holdsProposal \in [Tx -> BOOLEAN]
      /\ unrestored \in [Tx -> BOOLEAN]
  BY Zenon DEF CoordinatorInit
<1> QED
  BY <1>1, <1>2, <1>3, <1>4, <1>5 DEF CoordinatorTypeOK

\* Every variable of the coordinator keeps its type, for any set of intents.
THEOREM CoordinatorTypes == CoordinatorSpec => []CoordinatorTypeOK
BY InitialTypes, TypeStep, PTL DEF CoordinatorSpec
-----------------------------------------------------------------------------
(* What one step does to the transaction that takes it, and to the others. *)

\* The executor of t works on the record of t alone.
LEMMA OtherRecordsKept ==
    ASSUME CoordinatorTypeOK, NEW t \in Tx, NEW u \in Tx \ {t},
           Begin(t) \/ PrepareStep(t) \/ ApplyStep(t) \/ DecideStep(t) \/ UndoStep(t)
    PROVE  /\ pc'[u] = pc[u]
           /\ status'[u] = status[u]
           /\ unrestored'[u] = unrestored[u]
           /\ terminal'[u] = terminal[u]
<1>1. CASE Begin(t)
  BY <1>1 DEF Begin, CoordinatorTypeOK, GoTo, recordVars
<1>2. CASE PrepareStep(t)
  BY <1>2 DEF PrepareStep, Proposed, Acquired, Projected, PortRejects, Prepared,
     Continue, Interrupt, Throw, GoTo, SetStatus, CoordinatorTypeOK,
     decisionVars, recordVars
<1>3. CASE ApplyStep(t)
  BY <1>3 DEF ApplyStep, StartApply, ChartApplied, ChartFails, ChartUndone,
     OwnersApplied, Continue, Interrupt, Throw, GoTo, SetStatus,
     CoordinatorTypeOK, decisionVars, recordVars
<1>4. CASE DecideStep(t)
  BY <1>4 DEF DecideStep, Finalized, DecisionRefused, Throw, GoTo, SetStatus,
     CoordinatorTypeOK, decisionVars, recordVars
<1>5. CASE UndoStep(t)
  BY <1>5 DEF UndoStep, Unwind, RolledBack, GoTo, SetStatus,
     CoordinatorTypeOK, decisionVars, recordVars
<1> QED
  BY <1>1, <1>2, <1>3, <1>4, <1>5

Unfinalized(t) == \A p \in Participants : status[t][p] # "finalized"

\* A step that neither decides nor undoes goes from a suspension to another,
\* decides nothing and finalizes no owner.
LEMMA RunningStep ==
    ASSUME CoordinatorTypeOK, NEW t \in Tx,
           PrepareStep(t) \/ ApplyStep(t) \/ DecisionRefused(t)
    PROVE  /\ pc[t] \notin {"idle", "rollingBack", "done"}
           /\ pc'[t] \notin {"idle", "rollingBack", "done"}
           /\ UNCHANGED decisionVars
           /\ Unfinalized(t) => Unfinalized(t)'
<1>1. CASE PrepareStep(t)
  BY <1>1 DEF PrepareStep, Proposed, Acquired, Projected, PortRejects, Prepared,
     Continue, Interrupt, Throw, GoTo, SetStatus, CoordinatorTypeOK,
     decisionVars, recordVars, Unfinalized
<1>2. CASE ApplyStep(t)
  <2>1. CASE StartApply(t) \/ ChartApplied(t) \/ ChartFails(t) \/ ChartUndone(t)
    BY <2>1 DEF StartApply, ChartApplied, ChartFails, ChartUndone, Continue, Interrupt, Throw,
       GoTo, SetStatus, CoordinatorTypeOK, decisionVars, recordVars, Unfinalized
  <2>2. ASSUME NEW ps \in AppliedSets, NEW restored \in BOOLEAN, OwnersApplied(t, ps, restored)
        PROVE  /\ pc[t] \notin {"idle", "rollingBack", "done"}
               /\ pc'[t] \notin {"idle", "rollingBack", "done"}
               /\ UNCHANGED decisionVars
               /\ Unfinalized(t) => Unfinalized(t)'
    BY <2>2 DEF OwnersApplied, Continue, Interrupt, Throw, GoTo, SetStatus,
       CoordinatorTypeOK, decisionVars, recordVars, Unfinalized
  <2> QED
    BY <1>2, <2>1, <2>2 DEF ApplyStep
<1>3. CASE DecisionRefused(t)
  BY <1>3 DEF DecisionRefused, Throw, GoTo, CoordinatorTypeOK, decisionVars,
     recordVars, Unfinalized
<1> QED
  BY <1>1, <1>2, <1>3
-----------------------------------------------------------------------------
(* A finished transaction leaves no owner reversible.                      *)

\* Only a decision finalizes an owner, and once the synchronous owners are
\* unwound without a failure none of them is left reversible.
OwnersUnwound ==
    \A t \in Tx :
        /\ pc[t] # "done" => Unfinalized(t)
        /\ (pc[t] = "rollingBack" /\ ~unrestored[t]) =>
              \A p \in SynchronousOwners : status[t][p] \in {"none", "rolledBack"}

ReversibleInv == CoordinatorTypeOK /\ OwnersUnwound /\ NoOwnerLeftReversible

\* What NoOwnerLeftReversible says of one transaction.
Settled(t) == \A p \in Participants :
    status[t][p] \in IF terminal[t] = "committed" THEN {"finalized"}
                     ELSE {"none", "rolledBack"}

\* The synchronous unwinding leaves no owner applied but those that threw.
LEMMA UnwindLeavesNothingApplied ==
    ASSUME CoordinatorTypeOK, NEW t \in Tx, NEW failed \in SUBSET SynchronousOwners,
           Unwind(t, failed), Unfinalized(t)
    PROVE  /\ Unfinalized(t)'
           /\ ~unrestored'[t] => \A p \in SynchronousOwners :
                 status'[t][p] \in {"none", "rolledBack"}
<1>1. \A p \in Participants : status'[t][p] =
          IF p \in (Retained(t) \ {"chart"}) \ failed THEN "rolledBack" ELSE status[t][p]
  BY DEF Unwind, SetStatus, CoordinatorTypeOK
<1>2. unrestored'[t] = (failed # {})
  BY DEF Unwind, CoordinatorTypeOK
<1>3. \A p \in Participants : status[t][p] \in CommitStatus \ {"finalized"}
  BY DEF Unfinalized, CoordinatorTypeOK
<1> QED
  BY <1>1, <1>2, <1>3 DEF Unfinalized

\* The return of a terminal after a rollback leaves the record settled, or poisons.
LEMMA RollbackSettles ==
    ASSUME CoordinatorTypeOK, NEW t \in Tx,
           NEW chartRestored \in BOOLEAN, NEW rejected \in BOOLEAN,
           RolledBack(t, chartRestored, rejected), ~poisoned',
           Unfinalized(t),
           ~unrestored[t] => \A p \in SynchronousOwners :
                                status[t][p] \in {"none", "rolledBack"}
    PROVE  Settled(t)'
<1>1. terminal'[t] # "committed"
  BY DEF RolledBack, FailureStatus, CoordinatorTypeOK
<1>2. chartRestored /\ ~unrestored[t]
  BY DEF RolledBack
<1>3. \A p \in Participants : status'[t][p] =
          IF p \in Retained(t) \intersect {"chart"} THEN "rolledBack" ELSE status[t][p]
  BY <1>2 DEF RolledBack, SetStatus, CoordinatorTypeOK
<1>4. \A p \in Participants : status[t][p] \in CommitStatus \ {"finalized"}
  BY DEF Unfinalized, CoordinatorTypeOK
<1>5. \A p \in Participants : status'[t][p] \in {"none", "rolledBack"}
  BY <1>2, <1>3, <1>4
<1> QED
  BY <1>1, <1>5 DEF Settled

\* The decision settles every participant, or poisons.
LEMMA DecisionSettles ==
    ASSUME CoordinatorTypeOK, NEW t \in Tx,
           NEW done \in SUBSET Participants, NEW complete \in BOOLEAN,
           Finalized(t, done, complete), ~poisoned'
    PROVE  Settled(t)'
<1>1. terminal'[t] = "committed"
  BY DEF Finalized, CoordinatorTypeOK
<1>2. done = Participants
  BY DEF Finalized
<1>3. \A p \in Participants : status'[t][p] = "finalized"
  BY <1>2 DEF Finalized, SetStatus, CoordinatorTypeOK
<1> QED
  BY <1>1, <1>3 DEF Settled

\* The strengthened invariant is kept: what the executor of each intent has
\* applied is known from where it is suspended.
LEMMA ReversibleStep ==
    ReversibleInv /\ [CoordinatorNext]_coordinatorVars => ReversibleInv'
<1> SUFFICES ASSUME ReversibleInv, [CoordinatorNext]_coordinatorVars
             PROVE  ReversibleInv'
  OBVIOUS
<1>1. CoordinatorTypeOK /\ CoordinatorTypeOK'
  BY TypeStep DEF ReversibleInv
<1>2. \A u \in Tx : pc[u] # "done" => Unfinalized(u)
  BY DEF ReversibleInv, OwnersUnwound
<1>3. CASE Dispose \/ UNCHANGED coordinatorVars
  <2>1. UNCHANGED <<pc, status, unrestored, terminal, poisoned>>
    BY <1>3 DEF Dispose, coordinatorVars, recordVars
  <2> QED
    BY <1>1, <2>1 DEF ReversibleInv, OwnersUnwound, Unfinalized,
                      NoOwnerLeftReversible
<1>4. ASSUME NEW t \in Tx,
             Begin(t) \/ PrepareStep(t) \/ ApplyStep(t) \/ DecideStep(t) \/ UndoStep(t)
      PROVE  ReversibleInv'
  <2>1. \A u \in Tx \ {t} : /\ pc'[u] = pc[u]
                            /\ status'[u] = status[u]
                            /\ unrestored'[u] = unrestored[u]
                            /\ terminal'[u] = terminal[u]
    BY <1>1, <1>4, OtherRecordsKept
  <2>2. ~poisoned' => ~poisoned
    BY <1>4, <1>1, RunningStep
       DEF Begin, DecideStep, UndoStep, Finalized, Unwind, RolledBack, Publishable,
           IsCurrent, Currency, decisionVars
  <2>3. /\ pc'[t] # "done" => Unfinalized(t)'
        /\ (pc'[t] = "rollingBack" /\ ~unrestored'[t]) =>
              \A p \in SynchronousOwners : status'[t][p] \in {"none", "rolledBack"}
        /\ (~poisoned' /\ pc'[t] = "done") => Settled(t)'
    <3>1. CASE Begin(t)
      <4>1. pc'[t] = "proposing" /\ UNCHANGED status /\ pc[t] # "done"
        BY <1>1, <3>1 DEF Begin, GoTo, CoordinatorTypeOK
      <4> QED
        BY <1>2, <4>1 DEF Unfinalized
    <3>2. CASE PrepareStep(t) \/ ApplyStep(t) \/ DecisionRefused(t)
      BY <1>1, <1>2, <3>2, RunningStep
    <3>3. ASSUME NEW done \in SUBSET Participants, NEW complete \in BOOLEAN,
                 Finalized(t, done, complete)
          PROVE  /\ pc'[t] = "done"
                 /\ ~poisoned' => Settled(t)'
      <4>1. pc' = [pc EXCEPT ![t] = "done"]
        BY <3>3 DEF Finalized, GoTo
      <4>2. ~poisoned' => Settled(t)'
        BY <1>1, <3>3, DecisionSettles
      <4> QED
        BY <1>1, <4>1, <4>2 DEF CoordinatorTypeOK
    <3>4. ASSUME NEW failed \in SUBSET SynchronousOwners, Unwind(t, failed)
          PROVE  /\ pc'[t] = "rollingBack"
                 /\ Unfinalized(t)'
                 /\ ~unrestored'[t] => \A p \in SynchronousOwners :
                       status'[t][p] \in {"none", "rolledBack"}
      <4>1. pc[t] # "done" /\ pc'[t] = "rollingBack"
        BY <1>1, <3>4 DEF Unwind, GoTo, CoordinatorTypeOK
      <4> QED
        BY <1>1, <1>2, <3>4, <4>1, UnwindLeavesNothingApplied
    <3>5. ASSUME NEW chartRestored \in BOOLEAN, NEW rejected \in BOOLEAN,
                 RolledBack(t, chartRestored, rejected)
          PROVE  /\ pc'[t] = "done"
                 /\ ~poisoned' => Settled(t)'
      <4>1. pc[t] = "rollingBack" /\ pc'[t] = "done"
        BY <1>1, <3>5 DEF RolledBack, GoTo, CoordinatorTypeOK
      <4>2. ~unrestored[t] => \A p \in SynchronousOwners :
                                 status[t][p] \in {"none", "rolledBack"}
        BY <4>1 DEF ReversibleInv, OwnersUnwound
      <4> QED
        BY <1>1, <1>2, <3>5, <4>1, <4>2, RollbackSettles
    <3> QED
      BY <1>4, <3>1, <3>2, <3>3, <3>4, <3>5 DEF DecideStep, UndoStep
  <2>4. OwnersUnwound'
    BY <2>1, <2>3 DEF OwnersUnwound, ReversibleInv, Unfinalized
  <2>5. NoOwnerLeftReversible'
    BY <2>1, <2>2, <2>3 DEF NoOwnerLeftReversible, ReversibleInv, Settled
  <2> QED
    BY <1>1, <2>4, <2>5 DEF ReversibleInv
<1> QED
  BY <1>3, <1>4 DEF CoordinatorNext

\* Whatever the owners do, a healthy runtime that has returned a terminal for
\* an intent holds no owner of it reversible (transaction-executor.js:146-237).
THEOREM NothingLeftReversible == CoordinatorSpec => []NoOwnerLeftReversible
<1>1. CoordinatorInit => ReversibleInv
  <2> SUFFICES ASSUME CoordinatorInit PROVE ReversibleInv
    OBVIOUS
  <2>1. CoordinatorTypeOK
    BY InitialTypes
  <2>2. \A t \in Tx : /\ pc[t] = "idle"
                      /\ \A p \in Participants : status[t][p] = "none"
    BY DEF CoordinatorInit
  <2> QED
    BY <2>1, <2>2 DEF ReversibleInv, OwnersUnwound, Unfinalized, NoOwnerLeftReversible
<1>2. ReversibleInv => NoOwnerLeftReversible
  BY DEF ReversibleInv
<1> QED
  BY <1>1, <1>2, ReversibleStep, PTL DEF CoordinatorSpec
-----------------------------------------------------------------------------
(* The accepted revision counts the committed intents.                     *)

\* An intent has its terminal exactly when its executor is done.
TerminalsReturned == \A t \in Tx : terminal[t] = "none" <=> pc[t] # "done"

CountInv == CoordinatorTypeOK /\ TerminalsReturned /\ AcceptedCountsCommits

CommittedTx == {t \in Tx : terminal[t] = "committed"}

\* A decision adds its intent to the committed ones.
LEMMA DecisionCounts ==
    ASSUME CountInv, NEW t \in Tx,
           NEW done \in SUBSET Participants, NEW complete \in BOOLEAN,
           Finalized(t, done, complete)
    PROVE  AcceptedCountsCommits'
<1>1. /\ terminal[t] = "none"
      /\ terminal' = [terminal EXCEPT ![t] = "committed"]
      /\ accepted' = [tx |-> t, revision |-> accepted.revision + 1]
      /\ terminal \in [Tx -> Terminals \union {"none"}]
  BY DEF CountInv, TerminalsReturned, Finalized, Publish, CoordinatorTypeOK
<1>2. t \notin CommittedTx /\ CommittedTx' = CommittedTx \union {t}
  BY <1>1 DEF CommittedTx
<1>3. IsFiniteSet(CommittedTx)
  BY TransactionsAssumption, FS_Subset DEF CommittedTx
<1>4. Cardinality(CommittedTx') = Cardinality(CommittedTx) + 1
  BY <1>2, <1>3, FS_AddElement
<1>5. accepted.revision = Cardinality(CommittedTx)
  BY DEF CountInv, AcceptedCountsCommits, CommittedTx
<1>6. /\ accepted'.revision = Cardinality(CommittedTx')
      /\ accepted'.tx \in CommittedTx' \union {NoTx}
      /\ accepted'.tx = NoTx <=> CommittedTx' = {}
  BY <1>1, <1>2, <1>4, <1>5, TransactionsAssumption
<1> QED
  BY <1>6 DEF AcceptedCountsCommits, CommittedTx

\* Any other step leaves the committed intents and the accepted snapshot alone.
LEMMA UndecidedCounts ==
    ASSUME AcceptedCountsCommits, UNCHANGED accepted,
           \A u \in Tx : terminal'[u] = "committed" <=> terminal[u] = "committed"
    PROVE  AcceptedCountsCommits'
<1>1. CommittedTx' = CommittedTx
  BY DEF CommittedTx
<1> QED
  BY <1>1 DEF AcceptedCountsCommits, CommittedTx

\* Every step keeps the count: only the decision touches accepted and terminal
\* together.
LEMMA CountStep ==
    CountInv /\ [CoordinatorNext]_coordinatorVars => CountInv'
<1> SUFFICES ASSUME CountInv, [CoordinatorNext]_coordinatorVars
             PROVE  CountInv'
  OBVIOUS
<1>1. CoordinatorTypeOK /\ CoordinatorTypeOK'
  BY TypeStep DEF CountInv
<1>2. TerminalsReturned /\ AcceptedCountsCommits
  BY DEF CountInv
<1>3. CASE Dispose \/ UNCHANGED coordinatorVars
  <2>1. UNCHANGED <<pc, terminal, accepted>>
    BY <1>3 DEF Dispose, coordinatorVars
  <2> QED
    BY <1>1, <1>2, <2>1, UndecidedCounts DEF CountInv, TerminalsReturned
<1>4. ASSUME NEW t \in Tx,
             Begin(t) \/ PrepareStep(t) \/ ApplyStep(t) \/ DecideStep(t) \/ UndoStep(t)
      PROVE  CountInv'
  <2>1. \A u \in Tx \ {t} : pc'[u] = pc[u] /\ terminal'[u] = terminal[u]
    BY <1>1, <1>4, OtherRecordsKept
  <2>2. (terminal'[t] = "none" <=> pc'[t] # "done") /\ AcceptedCountsCommits'
    <3>1. CASE Begin(t)
      <4>1. /\ pc[t] # "done" /\ pc'[t] # "done"
            /\ UNCHANGED <<terminal, accepted>>
        BY <1>1, <3>1 DEF Begin, GoTo, CoordinatorTypeOK
      <4> QED
        BY <1>2, <4>1, UndecidedCounts DEF TerminalsReturned
    <3>2. CASE PrepareStep(t) \/ ApplyStep(t) \/ DecisionRefused(t)
      <4>1. /\ pc[t] # "done" /\ pc'[t] # "done"
            /\ UNCHANGED <<terminal, accepted>>
        BY <1>1, <3>2, RunningStep DEF decisionVars
      <4> QED
        BY <1>2, <4>1, UndecidedCounts DEF TerminalsReturned
    <3>3. ASSUME NEW done \in SUBSET Participants, NEW complete \in BOOLEAN,
                 Finalized(t, done, complete)
          PROVE  (terminal'[t] = "none" <=> pc'[t] # "done") /\ AcceptedCountsCommits'
      <4>1. pc'[t] = "done" /\ terminal'[t] = "committed"
        BY <1>1, <3>3 DEF Finalized, GoTo, CoordinatorTypeOK
      <4> QED
        BY <3>3, <4>1, DecisionCounts
    <3>4. ASSUME NEW failed \in SUBSET SynchronousOwners, Unwind(t, failed)
          PROVE  (terminal'[t] = "none" <=> pc'[t] # "done") /\ AcceptedCountsCommits'
      <4>1. /\ pc[t] # "done" /\ pc'[t] # "done"
            /\ UNCHANGED <<terminal, accepted>>
        BY <1>1, <3>4 DEF Unwind, GoTo, CoordinatorTypeOK, decisionVars
      <4> QED
        BY <1>2, <4>1, UndecidedCounts DEF TerminalsReturned
    <3>5. ASSUME NEW chartRestored \in BOOLEAN, NEW rejected \in BOOLEAN,
                 RolledBack(t, chartRestored, rejected)
          PROVE  (terminal'[t] = "none" <=> pc'[t] # "done") /\ AcceptedCountsCommits'
      <4>a. FailureStatus(t) \notin {"none", "committed"}
        BY <1>1 DEF FailureStatus, CoordinatorTypeOK
      <4>b. /\ terminal' = [terminal EXCEPT ![t] = FailureStatus(t)]
            /\ pc[t] = "rollingBack" /\ pc' = [pc EXCEPT ![t] = "done"]
            /\ UNCHANGED accepted
        BY <3>5 DEF RolledBack, GoTo
      <4>1. /\ pc[t] = "rollingBack" /\ pc'[t] = "done"
            /\ terminal'[t] \notin {"none", "committed"}
            /\ UNCHANGED accepted
        BY <1>1, <4>a, <4>b DEF CoordinatorTypeOK
      <4>2. terminal[t] = "none"
        BY <1>2, <4>1 DEF TerminalsReturned
      <4> QED
        BY <1>2, <2>1, <4>1, <4>2, UndecidedCounts
    <3> QED
      BY <1>4, <3>1, <3>2, <3>3, <3>4, <3>5 DEF DecideStep, UndoStep
  <2> QED
    BY <1>1, <1>2, <2>1, <2>2 DEF CountInv, TerminalsReturned
<1> QED
  BY <1>3, <1>4 DEF CoordinatorNext

\* Initially no intent is committed and the accepted revision is 0.
LEMMA InitialCount ==
    ASSUME CoordinatorInit
    PROVE  CountInv
<1>1. CoordinatorTypeOK
  BY InitialTypes
<1>2. \A t \in Tx : pc[t] = "idle" /\ terminal[t] = "none"
  BY DEF CoordinatorInit
<1>3. CommittedTx = {}
  BY <1>2 DEF CommittedTx
<1>4. Cardinality(CommittedTx) = 0
  BY <1>3, FS_EmptySet
<1>5. AcceptedCountsCommits
  BY <1>3, <1>4 DEF CoordinatorInit, AcceptedCountsCommits, CommittedTx
<1> QED
  BY <1>1, <1>2, <1>5 DEF CountInv, TerminalsReturned

\* For any finite set of intents the accepted revision is the number of
\* committed ones, and the accepted snapshot is the initial one exactly while
\* none has committed (runtime-state.js:143-161).
THEOREM RevisionCountsCommits == CoordinatorSpec => []AcceptedCountsCommits
<1>1. CountInv => AcceptedCountsCommits
  BY DEF CountInv
<1> QED
  BY <1>1, InitialCount, CountStep, PTL DEF CoordinatorSpec
-----------------------------------------------------------------------------
(* The coordinator implements AtomicWorkspace.                             *)

\* The initial state maps to the initial state of AtomicWorkspace.
LEMMA InitialPhases ==
    ASSUME CoordinatorInit
    PROVE  Atomic!Init
<1>1. \A t \in Tx : Phase(t) = "unsubmitted"
  BY DEF CoordinatorInit, Phase
<1> QED
  BY <1>1 DEF CoordinatorInit, Atomic!Init

\* A step of t moves the phase of t only, to where t's record says it is.
LEMMA PhaseMoves ==
    ASSUME CoordinatorTypeOK, NEW t \in Tx, NEW phase,
           Begin(t) \/ PrepareStep(t) \/ ApplyStep(t) \/ DecideStep(t) \/ UndoStep(t),
           Phase(t)' = phase
    PROVE  [u \in Tx |-> Phase(u)]' = [[u \in Tx |-> Phase(u)] EXCEPT ![t] = phase]
<1>1. \A u \in Tx \ {t} : Phase(u)' = Phase(u)
  BY OtherRecordsKept DEF Phase
<1> QED
  BY <1>1

\* An intent without a terminal whose executor has begun is pending.
LEMMA PendingWhileRunning ==
    ASSUME CoordinatorTypeOK, TerminalsReturned, NEW t \in Tx,
           pc[t] \notin {"idle", "done"}
    PROVE  Phase(t) = "pending"
BY DEF Phase, TerminalsReturned

\* Every step of the coordinator maps to a step of AtomicWorkspace or a stutter.
LEMMA StepImplements ==
    ASSUME CountInv, CountInv', [CoordinatorNext]_coordinatorVars
    PROVE  [Atomic!Next]_(Atomic!vars)
<1>1. CoordinatorTypeOK /\ TerminalsReturned
  BY DEF CountInv
<1>2. CoordinatorTypeOK' /\ TerminalsReturned'
  BY DEF CountInv
<1>3. CASE UNCHANGED coordinatorVars
  BY <1>3 DEF coordinatorVars, Atomic!vars, Phase
<1>4. CASE Dispose
  <2>1. UNCHANGED <<current, accepted, poisoned, [t \in Tx |-> Phase(t)]>>
    BY <1>4 DEF Dispose, Phase
  <2>2. disposed' = TRUE /\ disposed = FALSE
    BY <1>1, <1>4 DEF Dispose, CoordinatorTypeOK
  <2> QED
    BY <1>1, <2>1, <2>2 DEF Atomic!Next, Atomic!Close, Atomic!vars, CoordinatorTypeOK
<1>5. ASSUME NEW t \in Tx, Begin(t)
      PROVE  Atomic!Submit(t)
  <2>1. pc[t] = "idle" /\ pc'[t] = "proposing"
    BY <1>1, <1>5 DEF Begin, GoTo, CoordinatorTypeOK
  <2>2. Phase(t) = "unsubmitted"
    BY <1>1, <2>1 DEF Phase, TerminalsReturned
  <2>3. Phase(t)' = "pending"
    BY <1>2, <2>1 DEF Phase, TerminalsReturned
  <2>4. [u \in Tx |-> Phase(u)]' = [[u \in Tx |-> Phase(u)] EXCEPT ![t] = "pending"]
    BY <1>1, <1>5, <2>3, PhaseMoves
  <2> QED
    BY <1>5, <2>2, <2>4 DEF Begin, Atomic!Submit
<1>6. ASSUME NEW t \in Tx, pc[t] \notin {"idle", "done"}, pc'[t] \notin {"idle", "done"},
             PrepareStep(t) \/ ApplyStep(t) \/ DecideStep(t) \/ UndoStep(t),
             UNCHANGED decisionVars
      PROVE  UNCHANGED Atomic!vars
  <2>1. Phase(t) = "pending"
    BY <1>1, <1>6, PendingWhileRunning
  <2>2. Phase(t)' = "pending"
    BY <1>2, <1>6 DEF Phase, TerminalsReturned
  <2>3. [u \in Tx |-> Phase(u)]' = [u \in Tx |-> Phase(u)]
    BY <1>1, <1>6, <2>1, <2>2, PhaseMoves
  <2> QED
    BY <1>6, <2>3 DEF decisionVars, Atomic!vars
<1>7. ASSUME NEW t \in Tx, NEW done \in SUBSET Participants, NEW complete \in BOOLEAN,
             Finalized(t, done, complete)
      PROVE  Atomic!Commit(t)
  <2>1. /\ pc[t] = "applied" /\ pc'[t] = "done"
        /\ terminal'[t] = "committed"
        /\ current = t /\ ~disposed /\ ~poisoned
        /\ UNCHANGED <<current, disposed>>
        /\ accepted' = [tx |-> t, revision |-> accepted.revision + 1]
    BY <1>1, <1>7 DEF Finalized, Publish, Publishable, IsCurrent, Currency, GoTo,
                      CoordinatorTypeOK
  <2>2. Phase(t) = "pending"
    BY <1>1, <2>1, PendingWhileRunning
  <2>3. Phase(t)' = "committed"
    BY <2>1 DEF Phase
  <2>4. [u \in Tx |-> Phase(u)]' = [[u \in Tx |-> Phase(u)] EXCEPT ![t] = "committed"]
    BY <1>1, <1>7, <2>3, PhaseMoves DEF DecideStep
  <2>5. (poisoned' \/ disposed') \in BOOLEAN
    BY <1>2 DEF CoordinatorTypeOK
  <2> QED
    BY <2>1, <2>2, <2>4, <2>5 DEF Atomic!Commit
<1>8. ASSUME NEW t \in Tx, NEW chartRestored \in BOOLEAN, NEW rejected \in BOOLEAN,
             RolledBack(t, chartRestored, rejected)
      PROVE  Atomic!Abort(t)
  <2>1. /\ pc[t] = "rollingBack" /\ pc'[t] = "done"
        /\ terminal'[t] \in Terminals \ {"committed"}
        /\ UNCHANGED <<current, accepted, disposed>>
        /\ poisoned => poisoned'
    BY <1>1, <1>8 DEF RolledBack, FailureStatus, GoTo, CoordinatorTypeOK
  <2>2. Phase(t) = "pending"
    BY <1>1, <2>1, PendingWhileRunning
  <2>3. Phase(t)' = "aborted"
    BY <2>1 DEF Phase
  <2>4. [u \in Tx |-> Phase(u)]' = [[u \in Tx |-> Phase(u)] EXCEPT ![t] = "aborted"]
    BY <1>1, <1>8, <2>3, PhaseMoves DEF UndoStep
  <2>5. (poisoned' \/ disposed') \in {poisoned \/ disposed, TRUE}
    BY <1>1, <1>2, <2>1 DEF CoordinatorTypeOK
  <2> QED
    BY <2>1, <2>2, <2>4, <2>5 DEF Atomic!Abort
<1>9. ASSUME NEW t \in Tx, PrepareStep(t) \/ ApplyStep(t) \/ DecisionRefused(t)
      PROVE  UNCHANGED Atomic!vars
  BY <1>1, <1>6, <1>9, RunningStep DEF DecideStep
<1>10. ASSUME NEW t \in Tx, NEW failed \in SUBSET SynchronousOwners, Unwind(t, failed)
       PROVE  UNCHANGED Atomic!vars
  <2>1. pc[t] = "failing" /\ pc'[t] = "rollingBack" /\ UNCHANGED decisionVars
    BY <1>1, <1>10 DEF Unwind, GoTo, CoordinatorTypeOK
  <2> QED
    BY <1>6, <1>10, <2>1 DEF UndoStep
<1> QED
  BY <1>3, <1>4, <1>5, <1>7, <1>8, <1>9, <1>10
     DEF CoordinatorNext, DecideStep, UndoStep, Atomic!Next

\* For every set of intents and whatever its participants do, the transaction
\* runtime is an atomic workspace (runtime-state.js, transaction-executor.js).
THEOREM CoordinatorIsAtomic == CoordinatorSpec => ImplementsAtomicWorkspace
BY InitialPhases, InitialCount, CountStep, StepImplements, PTL
   DEF CoordinatorSpec, ImplementsAtomicWorkspace, Atomic!Spec
=============================================================================
