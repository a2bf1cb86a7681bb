----------------------- MODULE TransactionCoordinator -----------------------
(***************************************************************************)
(* The Workspace Transaction Runtime: runtime-state.js, which owns the     *)
(* accepted revision, the current identity, the poison and disposal flags, *)
(* and transaction-executor.js, which drives one intent through the four   *)
(* prepared participants.                                                  *)
(*                                                                         *)
(* executeWorkspaceTransaction is an async function; pc[t] names the await *)
(* transaction t is suspended at, and one action is the synchronous code   *)
(* from one await to the next.  The participants appear here by the status *)
(* of their prepared-commit contract only, and how far each phase gets is  *)
(* a parameter of the action: WorkspaceTransaction conjoins every action   *)
(* with what the owners really do.                                         *)
(***************************************************************************)
EXTENDS Transactions

VARIABLES
    current,       \* #currentIdentity
    accepted,      \* #acceptedSnapshot's identity and #acceptedRevision
    poisoned,      \* #poisonCode # null
    disposed,      \* #disposed
    pc,            \* where the executor of each transaction is suspended
    interruption,  \* status of the RuntimeInterruption it was stopped by
    holdsProposal, \* record.proposal # null
    baseRevision,  \* accepted revision the publication was prepared on
    status,        \* status[t][p]: prepared-commit status of participant p
    unrestored,    \* a synchronous rollback of t has failed
    terminal       \* terminal envelope returned for t

coordinatorVars == <<current, accepted, poisoned, disposed, pc, interruption,
                     holdsProposal, baseRevision, status, unrestored, terminal>>

SynchronousOwners == {"replay", "workspaceState", "publication"}
Participants == {"chart"} \union SynchronousOwners
CommitStatus == {"none", "prepared", "applied", "finalized", "rolledBack"}

\* "proposing", "acquiring", "projecting", "staging": awaiting a port while
\*   preparing;  "prepared": prepareTransaction returned;  "painting": the
\*   chart applies;  "unpainting": its failed apply is being undone;
\* "painted": chart.apply returned;  "applied": applyPreparedTransaction
\*   returned;  "failing": an error is on its way to the catch clause;
\* "rollingBack": awaiting rollbackPreparedTransaction.
Suspended == {"proposing", "acquiring", "projecting", "staging", "prepared",
              "painting", "unpainting", "painted", "applied", "failing",
              "rollingBack"}
Terminals == {"committed", "failed", "stale", "cancelled"}

CoordinatorInit ==
    /\ current = NoTx
    /\ accepted = [tx |-> NoTx, revision |-> 0]
    /\ poisoned = FALSE
    /\ disposed = FALSE
    /\ pc = [t \in Tx |-> "idle"]
    /\ interruption = [t \in Tx |-> "none"]
    /\ holdsProposal = [t \in Tx |-> FALSE]
    /\ baseRevision = [t \in Tx |-> 0]
    /\ status = [t \in Tx |-> [p \in Participants |-> "none"]]
    /\ unrestored = [t \in Tx |-> FALSE]
    /\ terminal = [t \in Tx |-> "none"]
-----------------------------------------------------------------------------
Currency(t) == IF disposed \/ poisoned THEN "cancelled"
               ELSE IF current = t THEN "current" ELSE "stale"

\* begin(), poison() and dispose() abort exactly the records that stop being
\* current, so signal.aborted of an active record is ~IsCurrent(t) as well.
IsCurrent(t) == Currency(t) = "current"

\* Mutant: the revision alone is compared.
PublishableWhenStale(t) == accepted.revision = baseRevision[t]

Publishable(t) == IsCurrent(t) /\ accepted.revision = baseRevision[t]

GoTo(t, label) == pc' = [pc EXCEPT ![t] = label]

\* assertCurrent: go on, or throw the RuntimeInterruption.
Continue(t, label) ==
    /\ IsCurrent(t)
    /\ GoTo(t, label)
    /\ UNCHANGED interruption

\* Mutant: every check interrupts.
InterruptUnchecked(t) ==
    /\ GoTo(t, "failing")
    /\ interruption' = [interruption EXCEPT ![t] = Currency(t)]

Interrupt(t) ==
    /\ ~IsCurrent(t)
    /\ GoTo(t, "failing")
    /\ interruption' = [interruption EXCEPT ![t] = Currency(t)]

\* Any other error.
Throw(t) == GoTo(t, "failing") /\ UNCHANGED interruption

SetStatus(t, ps, s) ==
    status' = [status EXCEPT ![t] = [p \in Participants |->
                                        IF p \in ps THEN s ELSE @[p]]]

decisionVars == <<current, accepted, poisoned, disposed, terminal>>
recordVars == <<holdsProposal, baseRevision, unrestored>>
-----------------------------------------------------------------------------
Begin(t) ==
    /\ ~disposed /\ ~poisoned
    /\ pc[t] = "idle"
    /\ current' = t
    /\ GoTo(t, "proposing")
    /\ UNCHANGED <<accepted, poisoned, disposed, terminal, interruption,
                   status, recordVars>>

Proposed(t) ==
    /\ pc[t] = "proposing"
    /\ \/ /\ Continue(t, "acquiring")
          /\ holdsProposal' = [holdsProposal EXCEPT ![t] = TRUE]
       \/ /\ Interrupt(t)
          /\ UNCHANGED holdsProposal
    /\ UNCHANGED <<decisionVars, baseRevision, unrestored, status>>

Acquired(t) ==
    /\ pc[t] = "acquiring"
    /\ Continue(t, "projecting") \/ Interrupt(t)
    /\ UNCHANGED <<decisionVars, recordVars, status>>

Projected(t) ==
    /\ pc[t] = "projecting"
    /\ Continue(t, "staging") \/ Interrupt(t)
    /\ UNCHANGED <<decisionVars, recordVars, status>>

\* The promise of a port rejects, or what it resolves to is refused.
PortRejects(t) ==
    /\ pc[t] \in {"proposing", "acquiring", "projecting", "staging"}
    /\ Throw(t)
    /\ UNCHANGED <<decisionVars, recordVars, status>>

PreparedSets == {{"chart"}, {"chart", "replay"},
                 {"chart", "replay", "workspaceState"}, Participants}

\* chart.prepare resolved: the participants of ps are prepared in order and
\* the first one missing from ps refused.
Prepared(t, ps) ==
    /\ pc[t] = "staging"
    /\ SetStatus(t, ps, "prepared")
    /\ \/ /\ ps = Participants
          /\ Continue(t, "prepared")
          /\ baseRevision' = [baseRevision EXCEPT ![t] = accepted.revision]
       \/ /\ ps # Participants
          /\ IsCurrent(t)
          /\ Throw(t)
          /\ UNCHANGED baseRevision
       \/ /\ ps = {"chart"}
          /\ Interrupt(t)
          /\ UNCHANGED baseRevision
    /\ UNCHANGED <<decisionVars, holdsProposal, unrestored>>

StartApply(t) ==
    /\ pc[t] = "prepared"
    /\ Continue(t, "painting") \/ Interrupt(t)
    /\ UNCHANGED <<decisionVars, recordVars, status>>

ChartApplied(t) ==
    /\ pc[t] = "painting"
    /\ GoTo(t, "painted")
    /\ SetStatus(t, {"chart"}, "applied")
    /\ UNCHANGED <<decisionVars, recordVars, interruption>>

ChartFails(t) ==
    /\ pc[t] = "painting"
    /\ GoTo(t, "unpainting")
    /\ UNCHANGED <<decisionVars, recordVars, interruption, status>>

ChartUndone(t) ==
    /\ pc[t] = "unpainting"
    /\ Throw(t)
    /\ SetStatus(t, {"chart"}, "rolledBack")
    /\ UNCHANGED <<decisionVars, recordVars>>

AppliedSets == {{}, {"replay"}, {"replay", "workspaceState"}, SynchronousOwners}

\* The synchronous owners apply in order; ps is how far they get.  A refused
\* publication has already restored its port, or failed to.
OwnersApplied(t, ps, restored) ==
    /\ pc[t] = "painted"
    /\ \/ /\ ps = SynchronousOwners
          /\ Publishable(t)
          /\ Continue(t, "applied")
          /\ SetStatus(t, ps, "applied")
       \/ /\ ps # SynchronousOwners
          /\ IsCurrent(t)
          /\ Throw(t)
          /\ status' = [status EXCEPT ![t] = [p \in Participants |->
                IF p \in ps THEN "applied"
                ELSE IF restored /\ p = "publication" /\ "workspaceState" \in ps
                     THEN "rolledBack" ELSE @[p]]]
       \/ /\ ps = {}
          /\ Interrupt(t)
          /\ UNCHANGED status
    /\ UNCHANGED <<decisionVars, recordVars>>

Publish(t) == accepted' = [tx |-> t, revision |-> accepted.revision + 1]

\* finalizePreparedTransaction: publishing the snapshot is the decision.  The
\* contracts of done finalize; a finalizer that throws, before or after its
\* contract did, poisons the activation without changing the terminal.
Finalized(t, done, complete) ==
    /\ pc[t] = "applied"
    /\ Publishable(t)
    /\ "publication" \in done
    /\ complete => done = Participants
    /\ Publish(t)
    /\ SetStatus(t, done, "finalized")
    /\ poisoned' = ~complete
    /\ terminal' = [terminal EXCEPT ![t] = "committed"]
    /\ GoTo(t, "done")
    /\ UNCHANGED <<current, disposed, interruption, recordVars>>

DecisionRefused(t) ==
    /\ pc[t] = "applied"
    /\ ~Publishable(t)
    /\ Throw(t)
    /\ UNCHANGED <<decisionVars, recordVars, status>>

\* Mutant: a participant that was prepared and never applied is forgotten.
RetainedIfApplied(t) == {p \in Participants : status[t][p] = "applied"}

Retained(t) == {p \in Participants : status[t][p] \in {"prepared", "applied"}}

\* The synchronous half of rollbackPreparedTransaction, in reverse order; the
\* owners of failed throw and keep their status.
Unwind(t, failed) ==
    /\ pc[t] = "failing"
    /\ SetStatus(t, (Retained(t) \ {"chart"}) \ failed, "rolledBack")
    /\ unrestored' = [unrestored EXCEPT ![t] = failed # {}]
    /\ GoTo(t, "rollingBack")
    /\ UNCHANGED <<decisionVars, interruption, holdsProposal, baseRevision>>

\* failureTerminal
FailureStatus(t) ==
    IF interruption[t] # "none" THEN interruption[t]
    ELSE IF disposed THEN "cancelled"
    ELSE IF current # t THEN "stale" ELSE "failed"

\* The chart's rollback settled; proposal, semantic state and publication are
\* rejected, a cleanup failure poisons, and the terminal is returned.
RolledBack(t, chartRestored, rejected) ==
    /\ pc[t] = "rollingBack"
    /\ SetStatus(t, IF chartRestored THEN Retained(t) \intersect {"chart"} ELSE {},
                 "rolledBack")
    /\ poisoned' = (poisoned \/ unrestored[t] \/ ~chartRestored \/ ~rejected)
    /\ terminal' = [terminal EXCEPT ![t] = FailureStatus(t)]
    /\ GoTo(t, "done")
    /\ UNCHANGED <<current, accepted, disposed, interruption, recordVars>>

Dispose ==
    /\ ~disposed
    /\ disposed' = TRUE
    /\ UNCHANGED <<current, accepted, poisoned, terminal, pc, interruption,
                   status, recordVars>>
-----------------------------------------------------------------------------
PrepareStep(t) == \/ Proposed(t) \/ Acquired(t) \/ Projected(t) \/ PortRejects(t)
                  \/ \E ps \in PreparedSets : Prepared(t, ps)
ApplyStep(t) == \/ StartApply(t) \/ ChartApplied(t) \/ ChartFails(t) \/ ChartUndone(t)
                \/ \E ps \in AppliedSets, restored \in BOOLEAN :
                      OwnersApplied(t, ps, restored)
DecideStep(t) == \/ \E done \in SUBSET Participants, complete \in BOOLEAN :
                       Finalized(t, done, complete)
                 \/ DecisionRefused(t)
UndoStep(t) == \/ \E failed \in SUBSET SynchronousOwners : Unwind(t, failed)
               \/ \E chartRestored, rejected \in BOOLEAN :
                     RolledBack(t, chartRestored, rejected)

CoordinatorNext ==
    \/ Dispose
    \/ \E t \in Tx : Begin(t) \/ PrepareStep(t) \/ ApplyStep(t) \/ DecideStep(t)
                     \/ UndoStep(t)

CoordinatorSpec == CoordinatorInit /\ [][CoordinatorNext]_coordinatorVars
-----------------------------------------------------------------------------
(* The coordinator implements AtomicWorkspace.                             *)

Phase(t) == CASE pc[t] = "idle" -> "unsubmitted"
              [] terminal[t] = "committed" -> "committed"
              [] terminal[t] \in Terminals \ {"committed"} -> "aborted"
              [] OTHER -> "pending"

Atomic == INSTANCE AtomicWorkspace
          WITH phase <- [t \in Tx |-> Phase(t)],
               newest <- current,
               closed <- poisoned \/ disposed

\* Whatever the owners do, the coordinator is an atomic workspace: an intent
\* commits in one step or changes nothing, only the newest commits, and a
\* poisoned or disposed activation starts and commits nothing
\* (runtime-state.js, transaction-executor.js).
ImplementsAtomicWorkspace == Atomic!Spec
-----------------------------------------------------------------------------
(* Invariants.                                                             *)

\* Every coordinator variable keeps its type.
CoordinatorTypeOK ==
    /\ current \in Names
    /\ accepted \in [tx : Names, revision : Nat]
    /\ poisoned \in BOOLEAN
    /\ disposed \in BOOLEAN
    /\ pc \in [Tx -> Suspended \union {"idle", "done"}]
    /\ interruption \in [Tx -> {"none", "stale", "cancelled"}]
    /\ holdsProposal \in [Tx -> BOOLEAN]
    /\ baseRevision \in [Tx -> Nat]
    /\ status \in [Tx -> [Participants -> CommitStatus]]
    /\ unrestored \in [Tx -> BOOLEAN]
    /\ terminal \in [Tx -> Terminals \union {"none"}]

\* While the runtime is healthy, a transaction that got its terminal leaves no
\* participant reversible: a committed one has finalized all four owners, any
\* other has released or rolled back each owner it had prepared
\* (transaction-executor.js:146-237).
NoOwnerLeftReversible ==
    ~poisoned => \A t \in Tx : pc[t] = "done" =>
        \A p \in Participants :
            status[t][p] \in IF terminal[t] = "committed" THEN {"finalized"}
                             ELSE {"none", "rolledBack"}

\* The accepted revision counts the committed intents, and the accepted
\* snapshot is one of them (runtime-state.js:143-161).
AcceptedCountsCommits ==
    LET committed == {t \in Tx : terminal[t] = "committed"}
    IN  /\ accepted.revision = Cardinality(committed)
        /\ accepted.tx \in committed \union {NoTx}
        /\ accepted.tx = NoTx <=> committed = {}
=============================================================================
