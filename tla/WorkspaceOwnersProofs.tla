------------------------ MODULE WorkspaceOwnersProofs ------------------------
(***************************************************************************)
(* Proofs about the four owners of the composed workspace transaction:     *)
(* their types, what each of them holds while a transaction is between its *)
(* first apply and its decision or rollback, that they agree with the      *)
(* coordinator's accepted snapshot whenever no transaction is, and that    *)
(* what the newest intent painted stays in the chart.                      *)
(***************************************************************************)
EXTENDS WorkspaceTransactionProofs, SequenceTheorems

-----------------------------------------------------------------------------
(* Type correctness.                                                       *)

\* What one step of the composition may do to the replay clock.
ReplayMoves ==
    \/ UNCHANGED replayVars \/ Play \/ Pause
    \/ \E t \in Tx :
          \/ ProposeTarget(t) \/ PrepareVisible(t) \/ ApplyReplay(t)
          \/ ReleaseProposal(t) /\ UNCHANGED <<replay, replayPrep>>
          \/ \E applied \in BOOLEAN : RollbackReplay(t, applied)

\* The clock's operations keep its types (replay-runtime.js:120-240).
LEMMA ReplayMovesType ==
    ASSUME ReplayTypeOK, ReplayMoves
    PROVE  ReplayTypeOK'
<1> USE DEF ReplayTypeOK, Playback, Names
<1>1. CASE UNCHANGED replayVars
  BY <1>1 DEF replayVars
<1>2. CASE Play \/ Pause
  BY <1>2 DEF Play, Pause
<1>3. ASSUME NEW t \in Tx, ProposeTarget(t)
      PROVE  ReplayTypeOK'
  BY <1>3 DEF ProposeTarget
<1>4. ASSUME NEW t \in Tx, PrepareVisible(t)
      PROVE  ReplayTypeOK'
  BY <1>4 DEF PrepareVisible
<1>5. ASSUME NEW t \in Tx, ApplyReplay(t)
      PROVE  ReplayTypeOK'
  BY <1>5 DEF ApplyReplay
<1>6. ASSUME NEW t \in Tx, ReleaseProposal(t)
      PROVE  proposal' \in [Tx -> [issued : BOOLEAN, base : Nat, cursor : Names]]
  <2> DEFINE P == [issued : BOOLEAN, base : Nat, cursor : Tx \union {NoTx}]
  <2>1. proposal \in [Tx -> P] /\ Names = Tx \union {NoTx}
    OBVIOUS
  <2>2. [proposal[t] EXCEPT !.issued = FALSE] \in P
    BY <2>1
  <2>3. proposal' = [proposal EXCEPT ![t] = [proposal[t] EXCEPT !.issued = FALSE]]
    BY <1>6 DEF ReleaseProposal
  <2> HIDE DEF P, Names, ReplayTypeOK
  <2>4. proposal' \in [Tx -> P]
    BY <2>1, <2>2, <2>3
  <2> QED
    BY <2>1, <2>4 DEF P
<1>7. ASSUME NEW t \in Tx, NEW applied \in BOOLEAN, RollbackReplay(t, applied)
      PROVE  ReplayTypeOK'
  <2>1. replay' \in [cursor : Names, revision : Nat, playback : Playback]
    BY <1>7 DEF RollbackReplay
  <2> QED
    BY <1>6, <1>7, <2>1 DEF RollbackReplay
<1> QED
  BY <1>1, <1>2, <1>3, <1>4, <1>5, <1>6, <1>7 DEF ReplayMoves

\* What one step may do to the semantic workspace.
StateMoves ==
    \/ UNCHANGED stateVars \/ CommitLocal
    \/ /\ workspace' = [workspace EXCEPT !.identity = NoTx]
       /\ UNCHANGED <<basis, statePrep, editCount>>
    \/ \E t \in Tx :
          \/ DeriveCandidate(t) \/ BeginAndPrepareState(t) \/ ApplyState(t)
          \/ ReleaseState(t)
          \/ \E applied \in BOOLEAN : RollbackState(t, applied)

\* Its operations keep its types (workspace-state-runtime.js:206-348).
LEMMA StateMovesType ==
    ASSUME StateTypeOK, StateMoves
    PROVE  StateTypeOK'
<1> USE DEF StateTypeOK, Names
<1>1. CASE UNCHANGED stateVars
  BY <1>1 DEF stateVars
<1>2. CASE CommitLocal
  <2> DEFINE edited == [workspace EXCEPT !.value.edits = @ + 1]
  <2>1. edited \in [value : Values, revision : Nat, identity : Names]
    BY DEF Values
  <2>2. /\ workspace' = [edited EXCEPT !.revision = workspace.revision + 1]
        /\ workspace.revision + 1 \in Nat
    BY <1>2 DEF CommitLocal
  <2> HIDE DEF edited
  <2>3. workspace' \in [value : Values, revision : Nat, identity : Names]
    BY <2>1, <2>2
  <2> QED
    BY <1>2, <2>3 DEF CommitLocal
<1>3. CASE /\ workspace' = [workspace EXCEPT !.identity = NoTx]
           /\ UNCHANGED <<basis, statePrep, editCount>>
  BY <1>3
<1>4. ASSUME NEW t \in Tx, DeriveCandidate(t) \/ BeginAndPrepareState(t)
      PROVE  StateTypeOK'
  BY <1>4 DEF DeriveCandidate, BeginAndPrepareState, Values
<1>5. ASSUME NEW t \in Tx, ApplyState(t)
      PROVE  StateTypeOK'
  <2>1. StateCandidate(t) \in Values
    BY DEF StateCandidate, Values
  <2>2. [workspace EXCEPT !.value = StateCandidate(t)]
            \in [value : Values, revision : Nat, identity : Names]
    BY <2>1
  <2>3. statePrep[t].revision + 1 \in Nat
    OBVIOUS
  <2>4. workspace' \in [value : Values, revision : Nat, identity : Names]
    BY <1>5, <2>2, <2>3 DEF ApplyState
  <2> QED
    BY <1>5, <2>4 DEF ApplyState
<1>6. ASSUME NEW t \in Tx, ReleaseState(t)
      PROVE  StateTypeOK'
  BY <1>6 DEF ReleaseState, Released
<1>7. ASSUME NEW t \in Tx, NEW applied \in BOOLEAN, RollbackState(t, applied)
      PROVE  StateTypeOK'
  <2>1. workspace' \in [value : Values, revision : Nat, identity : Names]
    BY <1>7 DEF RollbackState, Released
  <2> QED
    BY <1>7, <2>1 DEF RollbackState
<1> QED
  BY <1>1, <1>2, <1>3, <1>4, <1>5, <1>6, <1>7 DEF StateMoves

\* What one step may do to the chart.
ChartMoves ==
    \/ UNCHANGED chartVars
    \/ \E t \in Tx :
          \/ BeginChart(t) \/ StageChart(t) \/ MutateSeries(t)
          \/ NextPaint(t) /\ CommitPaint(t)
          \/ NextPaint(t) /\ RestoreSeries(t, disposed, Tail(paints), surface.revision)
          \/ NextPaint(t) /\ RestoreSeries(t, disposed, Tail(paints), stage[t].revision + 1)
          \/ RestoreSeries(t, disposed, paints, surface.revision)
          \/ SettleRestore(t) \/ AbandonRestore(t) \/ FinalizeChart(t)

\* What remains of the animation frames is a queue of transactions.
LEMMA QueueType ==
    ASSUME ChartTypeOK, NEW t \in Tx
    PROVE  /\ NextPaint(t) => Tail(paints) \in Seq(Tx)
           /\ AfterPaint(t) \in Seq(Tx)
<1>1. paints \in Seq(Tx)
  BY DEF ChartTypeOK
<1>2. paints # << >> => Tail(paints) \in Seq(Tx)
  BY <1>1
<1>3. Painting(t) => paints # << >>
  BY DEF Painting
<1> QED
  BY <1>1, <1>2, <1>3 DEF NextPaint, AfterPaint

Surfaces == [series : Names, applied : Names, token : Nat, revision : Nat]
Stages == [state : StageStates, base : Nat, revision : Nat, token : Nat,
           series : Names, applied : Names]

\* The surface and the stages keep their types field by field.
LEMMA SurfaceFieldsType ==
    ASSUME NEW s \in Surfaces
    PROVE  /\ \A x \in Names : /\ [s EXCEPT !.series = x] \in Surfaces
                              /\ [s EXCEPT !.applied = x] \in Surfaces
           /\ \A n \in Nat : /\ [s EXCEPT !.token = n] \in Surfaces
                            /\ [s EXCEPT !.revision = n] \in Surfaces
BY DEF Surfaces

\* So do the stages.
LEMMA StageFieldsType ==
    ASSUME NEW t \in Tx, NEW f \in [Tx -> Stages]
    PROVE  /\ \A state \in StageStates : [f EXCEPT ![t].state = state] \in [Tx -> Stages]
           /\ \A n \in Nat : [f EXCEPT ![t].token = n] \in [Tx -> Stages]
           /\ \A x \in Names : /\ [f EXCEPT ![t].series = x] \in [Tx -> Stages]
                              /\ [f EXCEPT ![t].applied = x] \in [Tx -> Stages]
BY DEF Stages

\* A rollback of the pane leaves a queue, a surface and stages.
LEMMA RestoreSeriesType ==
    ASSUME ChartTypeOK, NEW t \in Tx, NEW queue \in Seq(Tx), NEW revision \in Nat,
           RestoreSeries(t, disposed, queue, revision)
    PROVE  ChartTypeOK'
<1>1. CASE OwnsSeries(t, disposed)
  <2>1. /\ surface' = [surface EXCEPT !.series = stage[t].series,
                                     !.applied = stage[t].applied,
                                     !.revision = revision]
        /\ paints' = Append(queue, t)
        /\ UNCHANGED <<chart, stage>>
    BY <1>1 DEF RestoreSeries
  <2>2. paints' \in Seq(Tx)
    BY <2>1, AppendProperties
  <2>3. surface \in Surfaces /\ stage[t].series \in Names /\ stage[t].applied \in Names
    BY DEF ChartTypeOK, Surfaces
  <2> DEFINE surface1 == [surface EXCEPT !.series = stage[t].series]
             surface2 == [surface1 EXCEPT !.applied = stage[t].applied]
  <2>4. surface' = [surface2 EXCEPT !.revision = revision]
    BY <2>1
  <2>5. surface1 \in Surfaces
    BY <2>3 DEF Surfaces
  <2> HIDE DEF surface1
  <2>6. surface2 \in Surfaces
    BY <2>3, <2>5 DEF Surfaces
  <2> HIDE DEF surface2
  <2>7. surface' \in Surfaces
    BY <2>4, <2>6 DEF Surfaces
  <2> QED
    BY <2>1, <2>2, <2>7 DEF ChartTypeOK, Surfaces
<1>2. CASE ~OwnsSeries(t, disposed)
  BY <1>2 DEF RestoreSeries, ChartTypeOK
<1> QED
  BY <1>1, <1>2

\* The chart's operations keep its types (lightweight-chart-adapter.js:144-194,
\* pane-set-adapter.js:180-195, chart-snapshot-application.js).
LEMMA ChartMovesType ==
    ASSUME ChartTypeOK, ChartMoves
    PROVE  ChartTypeOK'
<1>0. surface \in Surfaces /\ stage \in [Tx -> Stages]
  BY DEF ChartTypeOK, Surfaces, Stages
<1>1. CASE UNCHANGED chartVars
  BY <1>1 DEF chartVars, ChartTypeOK
<1>2. ASSUME NEW t \in Tx, BeginChart(t)
      PROVE  ChartTypeOK'
  BY <1>2 DEF BeginChart, ChartTypeOK, Names
<1>3. ASSUME NEW t \in Tx, StageChart(t)
      PROVE  ChartTypeOK'
  BY <1>3 DEF StageChart, ChartTypeOK, NoStage, StageStates, Names
<1>4. ASSUME NEW t \in Tx, MutateSeries(t)
      PROVE  ChartTypeOK'
  <2>1. paints' \in Seq(Tx)
    BY <1>4, AppendProperties DEF MutateSeries, ChartTypeOK
  <2> DEFINE stage1 == [stage EXCEPT ![t].state = "applying"]
             stage2 == [stage1 EXCEPT ![t].token = surface.token + 1]
             stage3 == [stage2 EXCEPT ![t].series = surface.series]
             surface1 == [surface EXCEPT !.series = t]
  <2>2. /\ surface.token + 1 \in Nat /\ t \in Names /\ "applying" \in StageStates
        /\ surface.series \in Names /\ surface.applied \in Names
    BY <1>0 DEF Surfaces, Names, StageStates
  <2>3. /\ stage' = [stage3 EXCEPT ![t].applied = surface.applied]
        /\ surface' = [surface1 EXCEPT !.token = surface.token + 1]
    <3>1. surface1.token = surface.token
      BY <1>0 DEF Surfaces
    <3> QED
      BY <1>4, <3>1 DEF MutateSeries
  <2>4. surface1 \in Surfaces /\ stage1 \in [Tx -> Stages]
    BY <1>0, <2>2, SurfaceFieldsType, StageFieldsType
  <2> HIDE DEF stage1, surface1
  <2>5. stage2 \in [Tx -> Stages]
    BY <2>2, <2>4, SurfaceFieldsType, StageFieldsType
  <2> HIDE DEF stage2
  <2>6. stage3 \in [Tx -> Stages]
    BY <2>2, <2>5, SurfaceFieldsType, StageFieldsType
  <2> HIDE DEF stage3
  <2>7. surface' \in Surfaces /\ stage' \in [Tx -> Stages]
    BY <2>2, <2>3, <2>4, <2>6, SurfaceFieldsType, StageFieldsType
  <2> QED
    BY <1>4, <2>1, <2>7 DEF MutateSeries, ChartTypeOK, Surfaces, Stages
<1>5. ASSUME NEW t \in Tx, NextPaint(t), CommitPaint(t)
      PROVE  ChartTypeOK'
  <2>1. paints' \in Seq(Tx)
    BY <1>5, QueueType DEF CommitPaint
  <2>2. stage[t].revision + 1 \in Nat /\ t \in Names /\ "applied" \in StageStates
    BY <1>0 DEF Stages, Names, StageStates
  <2> DEFINE surface1 == [surface EXCEPT !.applied = t]
  <2>3. /\ surface' = [surface1 EXCEPT !.revision = stage[t].revision + 1]
        /\ stage' = [stage EXCEPT ![t].state = "applied"]
    BY <1>5 DEF CommitPaint
  <2>4. surface1 \in Surfaces
    BY <1>0, <2>2, SurfaceFieldsType, StageFieldsType
  <2> HIDE DEF surface1
  <2>5. surface' \in Surfaces /\ stage' \in [Tx -> Stages]
    BY <1>0, <2>2, <2>3, <2>4, SurfaceFieldsType, StageFieldsType
  <2> QED
    BY <1>5, <2>1, <2>5 DEF CommitPaint, ChartTypeOK, Surfaces, Stages
<1>6. ASSUME NEW t \in Tx, NextPaint(t),
             \/ RestoreSeries(t, disposed, Tail(paints), surface.revision)
             \/ RestoreSeries(t, disposed, Tail(paints), stage[t].revision + 1)
      PROVE  ChartTypeOK'
  <2>1. /\ Tail(paints) \in Seq(Tx)
        /\ surface.revision \in Nat
        /\ stage[t].revision + 1 \in Nat
    <3>1. NextPaint(t)
      BY <1>6
    <3>2. Tail(paints) \in Seq(Tx)
      BY <3>1, QueueType
    <3>3. surface.revision \in Nat /\ stage[t].revision \in Nat
      BY DEF ChartTypeOK
    <3> QED
      BY <3>2, <3>3
  <2>2. CASE RestoreSeries(t, disposed, Tail(paints), surface.revision)
    BY <2>1, <2>2, RestoreSeriesType
  <2>3. CASE RestoreSeries(t, disposed, Tail(paints), stage[t].revision + 1)
    BY <2>1, <2>3, RestoreSeriesType
  <2> QED
    BY <1>6, <2>2, <2>3
<1>7. ASSUME NEW t \in Tx, RestoreSeries(t, disposed, paints, surface.revision)
      PROVE  ChartTypeOK'
  <2>1. paints \in Seq(Tx) /\ surface.revision \in Nat
    BY DEF ChartTypeOK
  <2> QED
    BY <1>7, <2>1, RestoreSeriesType
<1>8. ASSUME NEW t \in Tx, SettleRestore(t) \/ AbandonRestore(t)
      PROVE  ChartTypeOK'
  <2>1. paints' \in Seq(Tx)
    BY <1>8, QueueType DEF SettleRestore, AbandonRestore
  <2>2. stage[t].revision \in Nat /\ "rolledBack" \in StageStates
    BY <1>0 DEF Stages, StageStates
  <2>3. surface' \in Surfaces /\ stage' \in [Tx -> Stages]
    <3>1. /\ [surface EXCEPT !.revision = stage[t].revision] \in Surfaces
          /\ [stage EXCEPT ![t].state = "rolledBack"] \in [Tx -> Stages]
      BY <1>0, <2>2, SurfaceFieldsType, StageFieldsType
    <3> QED
      BY <1>0, <1>8, <3>1 DEF SettleRestore, AbandonRestore
  <2> QED
    BY <1>8, <2>1, <2>3
       DEF SettleRestore, AbandonRestore, ChartTypeOK, Surfaces, Stages
<1>9. ASSUME NEW t \in Tx, FinalizeChart(t)
      PROVE  ChartTypeOK'
  <2>1. stage' \in [Tx -> Stages]
    BY <1>0, <1>9, SurfaceFieldsType, StageFieldsType DEF FinalizeChart, StageStates
  <2> DEFINE chart1 == [chart EXCEPT !.accepted = t]
  <2>2. chart1 \in [accepted : Names, revision : Nat, identity : Names]
    BY DEF ChartTypeOK, Names
  <2>3. chart' = [chart1 EXCEPT !.revision = stage[t].base + 1]
    BY <1>9 DEF FinalizeChart
  <2> HIDE DEF chart1
  <2>4. chart' \in [accepted : Names, revision : Nat, identity : Names]
    BY <1>0, <2>2, <2>3 DEF Stages
  <2> QED
    BY <1>9, <2>1, <2>4 DEF FinalizeChart, ChartTypeOK, Stages
<1> QED
  BY <1>1, <1>2, <1>3, <1>4, <1>5, <1>6, <1>7, <1>8, <1>9 DEF ChartMoves

\* What one step may do to publication and the durable checkpoint.
PublicationMoves ==
    \/ UNCHANGED publicationVars
    \/ \E c \in Values : SaveLocal(c) \/ SaveLocalFails(c)
    \/ \E t \in Tx :
          \/ StagePublication(t) \/ ApplyPublication(t, StateCandidate(t))
          \/ RollbackPublication(t) \/ RefusePublication(t) \/ TearPublication(t)
          \/ \E viewFails, writeFails \in BOOLEAN :
                RollbackPublicationFails(t, viewFails, writeFails)
          \/ FinalizePublication(t, StateCandidate(t))

PublicationStates == {"none", "staged", "applying", "applied", "finalized", "rolledBack"}
Stores == [durable : Values, key : Values \union {Unset}, pending : BOOLEAN,
           previousKey : Values \union {Unset}, previousDurable : Values]

\* A store without a reversible write, and the restored one, are stores.
LEMMA StoreType ==
    ASSUME store \in Stores
    PROVE  /\ \A d \in Values, k \in Values \union {Unset} : Stored(d, k) \in Stores
           /\ RestoreStore => store' \in Stores
           /\ \A c \in Values : (Write(c) \/ WriteReversibly(c)) => store' \in Stores
<1>1. InitialValue \in Values
  BY DEF InitialValue, Values, Names
<1>2. \A d \in Values, k \in Values \union {Unset} : Stored(d, k) \in Stores
  BY <1>1 DEF Stored, Stores
<1>3. ASSUME RestoreStore
      PROVE  store' \in Stores
  <2>1. /\ store.previousDurable \in Values
        /\ store.previousKey \in Values \union {Unset}
    BY DEF Stores
  <2>2. store' \in {Stored(store.previousDurable, store.previousKey), store}
    BY <1>3 DEF RestoreStore
  <2>3. Stored(store.previousDurable, store.previousKey) \in Stores
    BY <1>2, <2>1
  <2> QED
    BY <2>2, <2>3
<1>4. ASSUME NEW c \in Values, Write(c)
      PROVE  store' \in Stores
  BY <1>2, <1>4 DEF Write
<1>5. ASSUME NEW c \in Values, WriteReversibly(c)
      PROVE  store' \in Stores
  BY <1>5 DEF WriteReversibly, Stores
<1> QED
  BY <1>2, <1>3, <1>4, <1>5

\* Rendering a transaction and moving a stage keep the types.
LEMMA StageType ==
    ASSUME PublicationTypeOK, NEW t \in Tx
    PROVE  /\ \A tx \in Names : Render(tx) =>
                 publication' \in [accepted : Values, display : Names]
           /\ \A state \in PublicationStates : SetStage(t, state) =>
                 pubStage' \in [Tx -> [state : PublicationStates, previous : Values]]
           /\ pubStage[t].previous.tx \in Names
<1>1. \A tx \in Names : Render(tx) =>
          publication' \in [accepted : Values, display : Names]
  BY DEF Render, PublicationTypeOK
<1>2. \A state \in PublicationStates : SetStage(t, state) =>
          pubStage' \in [Tx -> [state : PublicationStates, previous : Values]]
  BY DEF SetStage, PublicationTypeOK, PublicationStates
<1>3. pubStage[t].previous.tx \in Names
  BY DEF PublicationTypeOK, Values
<1> QED
  BY <1>1, <1>2, <1>3

\* The publication port and the checkpoint persistence keep their types
\* (workspace-publication-port.js, workspace-checkpoint-persistence.js).
LEMMA PublicationMovesType ==
    ASSUME PublicationTypeOK, StateTypeOK, PublicationMoves
    PROVE  PublicationTypeOK'
<1>1. /\ publication \in [accepted : Values, display : Names]
      /\ pubStage \in [Tx -> [state : PublicationStates, previous : Values]]
      /\ store \in Stores
  BY DEF PublicationTypeOK, PublicationStates, Stores
<1>2. ASSUME /\ publication' \in [accepted : Values, display : Names]
             /\ pubStage' \in [Tx -> [state : PublicationStates, previous : Values]]
             /\ store' \in Stores
      PROVE  PublicationTypeOK'
  BY <1>2 DEF PublicationTypeOK, PublicationStates, Stores
<1>3. CASE UNCHANGED publicationVars
  BY <1>1, <1>2, <1>3 DEF publicationVars
<1>4. ASSUME NEW c \in Values, SaveLocal(c) \/ SaveLocalFails(c)
      PROVE  PublicationTypeOK'
  BY <1>1, <1>2, <1>4, StoreType DEF SaveLocal, SaveLocalFails, publicationVars
<1>5. ASSUME NEW t \in Tx
      PROVE  StateCandidate(t) \in Values /\ t \in Names
  BY DEF StateCandidate, StateTypeOK, Values, Names
<1>6. ASSUME NEW t \in Tx, StagePublication(t)
      PROVE  PublicationTypeOK'
  <2>1. pubStage' \in [Tx -> [state : PublicationStates, previous : Values]]
    BY <1>1, <1>6 DEF StagePublication, PublicationStates
  <2> QED
    BY <1>1, <1>2, <1>6, <2>1 DEF StagePublication
<1>7. ASSUME NEW t \in Tx, ApplyPublication(t, StateCandidate(t))
      PROVE  PublicationTypeOK'
  BY <1>1, <1>2, <1>5, <1>7, StageType, StoreType DEF ApplyPublication, PublicationStates
<1>8. ASSUME NEW t \in Tx, RollbackPublication(t) \/ RefusePublication(t)
      PROVE  PublicationTypeOK'
  BY <1>1, <1>2, <1>8, StageType, StoreType
     DEF RollbackPublication, RefusePublication, PublicationStates
<1>9. ASSUME NEW t \in Tx, TearPublication(t)
      PROVE  PublicationTypeOK'
  BY <1>1, <1>2, <1>5, <1>9, StageType DEF TearPublication, PublicationStates
<1>10. ASSUME NEW t \in Tx, NEW viewFails \in BOOLEAN, NEW writeFails \in BOOLEAN,
              RollbackPublicationFails(t, viewFails, writeFails)
       PROVE  PublicationTypeOK'
  BY <1>1, <1>2, <1>10, StageType, StoreType DEF RollbackPublicationFails
<1>11. ASSUME NEW t \in Tx, FinalizePublication(t, StateCandidate(t))
       PROVE  PublicationTypeOK'
  <2>1. publication' \in [accepted : Values, display : Names]
    BY <1>1, <1>5, <1>11 DEF FinalizePublication
  <2>2. store' \in Stores
    <3>1. store.durable \in Values /\ store.key \in Values \union {Unset}
      BY <1>1 DEF Stores
    <3> QED
      BY <1>1, <1>11, <3>1, StoreType DEF FinalizePublication
  <2>3. pubStage' \in [Tx -> [state : PublicationStates, previous : Values]]
    BY <1>11, StageType DEF FinalizePublication, PublicationStates
  <2> QED
    BY <1>2, <2>1, <2>2, <2>3
<1> QED
  BY <1>3, <1>4, <1>6, <1>7, <1>8, <1>9, <1>10, <1>11 DEF PublicationMoves

OwnersMove == ReplayMoves /\ StateMoves /\ ChartMoves /\ PublicationMoves

\* Preparing, the owners take steps of their own.
LEMMA PrepareActionMoves ==
    ASSUME NEW t \in Tx, PrepareAction(t)
    PROVE  OwnersMove
<1> USE DEF OwnersMove, ReplayMoves, StateMoves, ChartMoves, PublicationMoves
<1>1. CASE ProposalArrives(t) \/ Acquire(t) \/ PortFails(t)
  BY <1>1 DEF ProposalArrives, Acquire, PortFails, ownerVars
<1>2. CASE TargetResolves(t)
  BY <1>2 DEF TargetResolves
<1>3. CASE Project(t)
  BY <1>3 DEF Project
<1>4. CASE Prepare(t)
  BY <1>4 DEF Prepare
<1> QED
  BY <1>1, <1>2, <1>3, <1>4 DEF PrepareAction

\* So do they applying.
LEMMA ApplyActionMoves ==
    ASSUME NEW t \in Tx, ApplyAction(t)
    PROVE  OwnersMove
<1> USE DEF OwnersMove, ReplayMoves, StateMoves, ChartMoves, PublicationMoves
<1>1. CASE StartPaint(t) \/ Painted(t)
  BY <1>1 DEF StartPaint, Painted
<1>2. CASE PaintRefused(t) \/ Unpainted(t)
  BY <1>2 DEF PaintRefused, Unpainted
<1>3. CASE ApplyOwners(t)
  BY <1>3 DEF ApplyOwners
<1> QED
  BY <1>1, <1>2, <1>3 DEF ApplyAction

\* So do they deciding and rolling back.
LEMMA DecideActionMoves ==
    ASSUME NEW t \in Tx, DecideAction(t) \/ UndoAction(t)
    PROVE  OwnersMove
<1> USE DEF OwnersMove, ReplayMoves, StateMoves, ChartMoves, PublicationMoves
<1>1. CASE Finalize(t)
  <2>1. /\ FinalizePublication(t, StateCandidate(t))
        /\ FinalizeChart(t) \/ UNCHANGED chartVars
        /\ ReleaseState(t) \/ UNCHANGED stateVars
        /\ ReleaseProposal(t) \/ UNCHANGED proposal
        /\ UNCHANGED <<replay, replayPrep>>
    BY <1>1 DEF Finalize
  <2> QED
    BY <2>1 DEF replayVars
<1>2. CASE RefuseDecision(t)
  BY <1>2 DEF RefuseDecision, ownerVars
<1>3. CASE Undo(t)
  <2>1. \/ UNCHANGED publicationVars
        \/ RollbackPublication(t)
        \/ \E viewFails, writeFails \in BOOLEAN :
              RollbackPublicationFails(t, viewFails, writeFails)
    BY <1>3 DEF Undo
  <2>2. \/ UNCHANGED stateVars
        \/ \E applied \in BOOLEAN : RollbackState(t, applied)
    BY <1>3 DEF Undo
  <2>3. \/ UNCHANGED replayVars
        \/ \E applied \in BOOLEAN : RollbackReplay(t, applied)
    BY <1>3 DEF Undo
  <2>4. RestoreSeries(t, disposed, paints, surface.revision) \/ UNCHANGED chartVars
    BY <1>3 DEF Undo
  <2> QED
    BY <2>1, <2>2, <2>3, <2>4
<1>4. CASE Settle(t)
  <2>1. /\ UNCHANGED publicationVars
        /\ UNCHANGED stateVars \/ ReleaseState(t)
        /\ ReleaseProposal(t) \/ UNCHANGED proposal
        /\ UNCHANGED <<replay, replayPrep>>
        /\ SettleRestore(t) \/ AbandonRestore(t) \/ UNCHANGED chartVars
    BY <1>4 DEF Settle
  <2> QED
    BY <2>1 DEF replayVars
<1> QED
  BY <1>1, <1>2, <1>3, <1>4 DEF DecideAction, UndoAction

\* Every step of the composition moves the owners by their own operations.
LEMMA NextMovesOwners ==
    ASSUME StateTypeOK, [Next]_vars
    PROVE  OwnersMove
<1> USE DEF OwnersMove, ReplayMoves, StateMoves, ChartMoves, PublicationMoves
<1>1. CASE UNCHANGED vars
  BY <1>1 DEF vars, ownerVars
<1>2. CASE EditViewport
  <2>1. CommitLocal /\ UNCHANGED <<replayVars, chartVars>>
    BY <1>2 DEF EditViewport
  <2>2. SaveLocal(workspace'.value) \/ SaveLocalFails(workspace'.value)
    BY <1>2 DEF EditViewport
  <2>3. StateMoves
    BY <2>1
  <2>4. workspace'.value \in Values
    BY <2>3, StateMovesType DEF StateTypeOK
  <2> QED
    BY <2>1, <2>2, <2>4
<1>3. CASE UserPlays \/ UserPauses
  BY <1>3 DEF UserPlays, UserPauses
<1>4. CASE DisposeComposition
  BY <1>4 DEF DisposeComposition
<1>5. ASSUME NEW t \in Tx, NEW deferred \in BOOLEAN, Submit(t, deferred)
      PROVE  OwnersMove
  BY <1>5 DEF Submit
<1>6. ASSUME NEW t \in Tx, Execute(t)
      PROVE  OwnersMove
  BY <1>6, PrepareActionMoves, ApplyActionMoves, DecideActionMoves DEF Execute
<1> QED
  BY <1>1, <1>2, <1>3, <1>4, <1>5, <1>6 DEF Next, Input

\* The initial state of the four owners is well typed.
LEMMA InitialOwnerTypes ==
    ASSUME Init
    PROVE  TypeOK
<1>1. CoordinatorTypeOK
  BY InitialTypes DEF Init
<1>2. ReplayTypeOK
  BY DEF Init, ReplayInit, ReplayTypeOK, Playback, Names
<1>3. InitialValue \in Values /\ NoTx \in Names
  BY DEF InitialValue, Values, Names
<1>4. StateTypeOK
  BY <1>3 DEF Init, StateInit, StateTypeOK
<1>5. ChartTypeOK
  <2>1. NoStage \in Stages
    BY <1>3 DEF NoStage, Stages, StageStates
  <2>2. stage \in [Tx -> Stages] /\ paints \in Seq(Tx)
    BY <2>1 DEF Init, ChartInit
  <2> QED
    BY <1>3, <2>2 DEF Init, ChartInit, ChartTypeOK, Stages
<1>6. PublicationTypeOK
  <2>1. store \in Stores
    <3>1. /\ Stored(InitialValue, InitialValue) \in Stores
          /\ Stored(InitialValue, Unset) \in Stores
      BY <1>3 DEF Stored, Stores
    <3> QED
      BY <3>1 DEF Init, PublicationInit
  <2>2. pubStage \in [Tx -> [state : PublicationStates, previous : Values]]
    BY <1>3 DEF Init, PublicationInit, PublicationStates
  <2>3. publication \in [accepted : Values, display : Names]
    BY <1>3 DEF Init, PublicationInit
  <2> QED
    BY <2>1, <2>2, <2>3 DEF PublicationTypeOK, PublicationStates, Stores
<1> QED
  BY <1>1, <1>2, <1>4, <1>5, <1>6 DEF TypeOK

\* Every step keeps the types of the coordinator and of the four owners.
LEMMA OwnerTypesStep ==
    ASSUME TypeOK, [Next]_vars
    PROVE  TypeOK'
<1>1. CoordinatorTypeOK'
  BY NextCoordinates, TypeStep DEF TypeOK
<1>2. OwnersMove
  BY NextMovesOwners DEF TypeOK
<1> QED
  BY <1>1, <1>2, ReplayMovesType, StateMovesType, ChartMovesType, PublicationMovesType
     DEF TypeOK, OwnersMove

\* Every variable of the composed transaction keeps its type, for any set of
\* intents, any number of edits and whichever ports and owners fail.
THEOREM CompositionTypes == Spec => []TypeOK
BY InitialOwnerTypes, OwnerTypesStep, PTL DEF Spec
-----------------------------------------------------------------------------
(* The persisted key.                                                      *)

\* What a reversible write would put back is as consistent as what it wrote.
KeyInv ==
    /\ PersistedKeyIsDurable
    /\ store.pending => store.previousKey \in {store.previousDurable, Unset}

\* Every operation on the store moves the key with what is durable.
LEMMA KeyStep ==
    ASSUME KeyInv, PublicationMoves
    PROVE  KeyInv'
<1> USE DEF KeyInv, PersistedKeyIsDurable
<1>1. ASSUME UNCHANGED store PROVE KeyInv'
  BY <1>1
<1>2. ASSUME NEW c, store' = Stored(c, c) \/ WriteReversibly(c)
      PROVE  KeyInv'
  BY <1>2 DEF Stored, WriteReversibly
<1>3. ASSUME RestoreStore PROVE KeyInv'
  BY <1>3 DEF RestoreStore, Stored
<1>4. ASSUME store' = Stored(store.durable, store.key) PROVE KeyInv'
  BY <1>4 DEF Stored
<1>5. ASSUME NEW c, SaveLocal(c) \/ SaveLocalFails(c) PROVE KeyInv'
  BY <1>1, <1>2, <1>5 DEF SaveLocal, SaveLocalFails, Write, publicationVars
<1>6. ASSUME NEW t, ApplyPublication(t, StateCandidate(t)) PROVE KeyInv'
  BY <1>1, <1>2, <1>6 DEF ApplyPublication
<1>7. ASSUME NEW t, RollbackPublication(t) \/ RefusePublication(t) PROVE KeyInv'
  BY <1>1, <1>3, <1>7 DEF RollbackPublication, RefusePublication
<1>8. ASSUME NEW t, NEW viewFails, NEW writeFails,
             RollbackPublicationFails(t, viewFails, writeFails)
      PROVE  KeyInv'
  BY <1>1, <1>3, <1>8 DEF RollbackPublicationFails
<1>9. ASSUME NEW t, \/ StagePublication(t) \/ TearPublication(t)
                   \/ FinalizePublication(t, StateCandidate(t))
      PROVE  KeyInv'
  BY <1>1, <1>4, <1>9 DEF StagePublication, TearPublication, FinalizePublication
<1> QED
  BY <1>1, <1>5, <1>6, <1>7, <1>8, <1>9 DEF PublicationMoves, publicationVars

\* The key of the last save is the key of what is durable, or the store has
\* none, whichever writes were reversed, refused or left torn: a save that is
\* suppressed as equal was not needed (workspace-checkpoint-persistence.js:41-118).
THEOREM CompositionKeysDurable == Spec => []PersistedKeyIsDurable
<1>1. Init => KeyInv
  BY DEF Init, PublicationInit, Stored, KeyInv, PersistedKeyIsDurable
<1>2. KeyInv /\ TypeOK /\ [Next]_vars => KeyInv'
  BY KeyStep, NextMovesOwners DEF TypeOK, OwnersMove
<1>3. KeyInv => PersistedKeyIsDurable
  BY DEF KeyInv
<1> QED
  BY <1>1, <1>2, <1>3, CompositionTypes, PTL DEF Spec
-----------------------------------------------------------------------------
(* The inductive invariant of agreement.                                   *)
(*                                                                         *)
(* SemanticOwnersAgree speaks of rest only.  It is inductive together with *)
(* what the owners hold while a transaction t is Hot, from its painted     *)
(* chart to its decision or rollback: only one transaction is, since the   *)
(* frame that paints the next one waits for every continuation; where each *)
(* owner stands follows from the status of its contract (Displaced); and   *)
(* what t captured to roll back to is the accepted snapshot (Captured).    *)

\* Nothing failed to be put back: the scope of everything below.
Sound == ~poisoned /\ \A t \in Tx : ~unrestored[t]

Preparing == {"idle", "proposing", "acquiring", "projecting", "staging"}
Staging == {"prepared", "painting", "unpainting", "painted"}

\* t has moved the replay clock, and neither decided nor rolled back.
Holds(t) == status[t]["replay"] = "applied"
Hot(t) == pc[t] = "painted" \/ Holds(t)

Has(t, p, s) == status[t][p] = s

\* The publication of t has touched neither the view nor the store.
StagedOnly(t) == Has(t, "publication", "prepared") /\ pubStage[t].state = "staged"

Untouched(t) == /\ ~Holds(t) /\ ~Has(t, "workspaceState", "applied")
                /\ Has(t, "publication", "none") \/ StagedOnly(t)

\* How far the owners of t got in applying, the publication refused or torn
\* included.
StateRefused(t) == Holds(t) /\ Has(t, "workspaceState", "prepared") /\ StagedOnly(t)
PublicationRefused(t) ==
    /\ Holds(t) /\ Has(t, "workspaceState", "applied")
    /\ \/ Has(t, "publication", "rolledBack") /\ pubStage[t].state = "rolledBack"
       \/ Has(t, "publication", "prepared") /\ pubStage[t].state = "applying"
AllApplied(t) == /\ \A p \in SynchronousOwners : Has(t, p, "applied")
                 /\ pubStage[t].state = "applied"

\* Where the executor of t is tells how far its synchronous owners are.
InOrder(t) ==
    /\ pc[t] \in Preparing => \A p \in SynchronousOwners : Has(t, p, "none")
    /\ pc[t] \in Staging =>
          (\A p \in SynchronousOwners : Has(t, p, "prepared")) /\ StagedOnly(t)
    /\ pc[t] = "applied" => AllApplied(t)
    /\ pc[t] = "failing" => \/ Untouched(t) \/ StateRefused(t)
                            \/ PublicationRefused(t) \/ AllApplied(t)
    /\ pc[t] \in {"rollingBack", "done"} => ~Holds(t)

\* While the accepted snapshot is the one t prepared on, it is what t's owners
\* captured.
Captured(t) ==
    pc[t] \in Staging =>
        /\ baseRevision[t] <= accepted.revision
        /\ baseRevision[t] = accepted.revision =>
              /\ statePrep[t].value.tx = accepted.tx
              /\ pubStage[t].previous.tx = accepted.tx

\* Where the owners stand while t holds the clock.
Displaced(t) ==
    /\ replay.cursor = t /\ replay.revision = accepted.revision + 1
    /\ proposal[t].cursor = accepted.tx /\ proposal[t].base = accepted.revision
    /\ IF Has(t, "workspaceState", "applied")
       THEN workspace.value.tx = t /\ statePrep[t].value.tx = accepted.tx
       ELSE workspace.value.tx = accepted.tx
    /\ pubStage[t].state \in {"applying", "applied"} =>
          pubStage[t].previous.tx = accepted.tx
    /\ pubStage[t].state \in {"staged", "rolledBack"} =>
          publication.display = accepted.tx
    /\ IF Has(t, "publication", "applied")
       THEN /\ publication.display = t
            /\ store.pending
            /\ store.durable.tx = t /\ store.previousDurable.tx = accepted.tx
       ELSE ~store.pending /\ store.durable.tx = accepted.tx

\* Where they stand while none does.
AtRest ==
    /\ replay.cursor = accepted.tx /\ replay.revision = accepted.revision
    /\ workspace.value.tx = accepted.tx
    /\ publication.display = accepted.tx
    /\ store.durable.tx = accepted.tx /\ ~store.pending

OneHot == \A t, u \in Tx : Hot(t) /\ Hot(u) => t = u

AgreementInv ==
    Sound =>
        /\ \A t \in Tx : InOrder(t) /\ Captured(t)
        /\ OneHot
        /\ publication.accepted.tx = accepted.tx
        /\ \A t \in Tx : Holds(t) => Displaced(t)
        /\ (\A t \in Tx : ~Holds(t)) => AtRest

\* A synchronous rollback fails once, on the way to the terminal.
FailsLate == \A t \in Tx : unrestored[t] => pc[t] \in {"rollingBack", "done"}

\* A failed restoration is never undone, and what failed stays on record.
LEMMA SoundLasts ==
    ASSUME CoordinatorTypeOK, FailsLate, [CoordinatorNext]_coordinatorVars
    PROVE  FailsLate' /\ (Sound' => Sound)
<1> USE DEF FailsLate, Sound
<1>1. CASE Dispose \/ UNCHANGED coordinatorVars
  BY <1>1 DEF Dispose, coordinatorVars, recordVars
<1>2. ASSUME NEW t \in Tx,
             Begin(t) \/ PrepareStep(t) \/ ApplyStep(t) \/ DecisionRefused(t)
      PROVE  /\ UNCHANGED <<poisoned, unrestored>>
             /\ \A u \in Tx \ {t} : pc'[u] = pc[u]
             /\ pc[t] \notin {"rollingBack", "done"}
  <2>1. CASE Begin(t)
    BY <1>2, <2>1 DEF Begin, GoTo, CoordinatorTypeOK, recordVars
  <2>2. CASE PrepareStep(t) \/ ApplyStep(t) \/ DecisionRefused(t)
    <3>1. pc[t] \notin {"rollingBack", "done"} /\ UNCHANGED poisoned
      BY <2>2, RunningStep DEF decisionVars
    <3>2. UNCHANGED unrestored
      BY <2>2 DEF PrepareStep, ApplyStep, Proposed, Acquired, Projected, PortRejects,
         Prepared, StartApply, ChartApplied, ChartFails, ChartUndone, OwnersApplied,
         DecisionRefused, recordVars
    <3> QED
      BY <2>2, <3>1, <3>2, OtherRecordsKept DEF DecideStep
  <2> QED
    BY <1>2, <2>1, <2>2
<1>3. ASSUME NEW t \in Tx, NEW done \in SUBSET Participants, NEW complete \in BOOLEAN,
             Finalized(t, done, complete)
      PROVE  FailsLate' /\ (Sound' => Sound)
  <2>1. ~poisoned /\ UNCHANGED unrestored /\ pc' = [pc EXCEPT ![t] = "done"]
    BY <1>3 DEF Finalized, Publishable, IsCurrent, Currency, GoTo, recordVars
  <2> QED
    BY <2>1 DEF CoordinatorTypeOK
<1>4. ASSUME NEW t \in Tx, NEW failed \in SUBSET SynchronousOwners, Unwind(t, failed)
      PROVE  FailsLate' /\ (Sound' => Sound)
  <2>1. /\ pc[t] = "failing" /\ pc' = [pc EXCEPT ![t] = "rollingBack"]
        /\ unrestored' = [unrestored EXCEPT ![t] = failed # {}]
        /\ UNCHANGED poisoned
    BY <1>4 DEF Unwind, GoTo, decisionVars
  <2>2. \A u \in Tx \ {t} : pc'[u] = pc[u] /\ unrestored'[u] = unrestored[u]
    BY <2>1 DEF CoordinatorTypeOK
  <2>3. ~unrestored[t] /\ pc'[t] = "rollingBack"
    BY <2>1 DEF CoordinatorTypeOK
  <2> QED
    BY <2>1, <2>2, <2>3
<1>5. ASSUME NEW t \in Tx, NEW chartRestored \in BOOLEAN, NEW rejected \in BOOLEAN,
             RolledBack(t, chartRestored, rejected)
      PROVE  FailsLate' /\ (Sound' => Sound)
  <2>1. /\ UNCHANGED unrestored /\ pc' = [pc EXCEPT ![t] = "done"]
        /\ poisoned => poisoned'
    BY <1>5 DEF RolledBack, GoTo, recordVars
  <2> QED
    BY <2>1 DEF CoordinatorTypeOK
<1> QED
  BY <1>1, <1>2, <1>3, <1>4, <1>5 DEF CoordinatorNext, DecideStep, UndoStep

\* A transaction that holds the clock has a continuation ready.
LEMMA HolderIsReady ==
    ASSUME CoordinatorTypeOK, NEW t \in Tx, InOrder(t), Hot(t)
    PROVE  Ready(t) /\ pc[t] \in {"painted", "applied", "failing"}
<1>1. pc[t] \in Preparing \union Staging
                \union {"applied", "failing", "rollingBack", "done"}
  BY DEF CoordinatorTypeOK, Suspended, Preparing, Staging
<1>2. CASE Holds(t)
  BY <1>1, <1>2 DEF InOrder, Holds, Has, Ready, SynchronousOwners
<1>3. CASE pc[t] = "painted"
  BY <1>3 DEF Ready
<1> QED
  BY <1>2, <1>3 DEF Hot

\* So while the event loop is idle, the owners are at rest.
LEMMA IdleAtRest ==
    ASSUME CoordinatorTypeOK, Sound, AgreementInv, Idle
    PROVE  AtRest /\ \A t \in Tx : ~Hot(t)
<1>1. \A t \in Tx : ~Hot(t)
  BY HolderIsReady DEF AgreementInv, Idle
<1> QED
  BY <1>1 DEF AgreementInv, Hot

\* Where the executor of a transaction may go without touching its owners.
Advances(t) ==
    \/ pc'[t] = pc[t]
    \/ pc[t] \in Preparing /\ pc'[t] \in (Preparing \ {"idle"}) \union {"failing"}
    \/ pc[t] \in Staging /\ pc'[t] \in Staging \union {"failing"}
    \/ pc[t] = "applied" /\ pc'[t] = "failing"
    \/ pc[t] = "rollingBack" /\ pc'[t] = "done"

\* Nothing SemanticOwnersAgree speaks of moves.
OwnersLeft ==
    /\ UNCHANGED <<accepted, baseRevision, statePrep, publicationVars>>
    /\ replay'.cursor = replay.cursor /\ replay'.revision = replay.revision
    /\ workspace'.value.tx = workspace.value.tx
    /\ \A t \in Tx :
          /\ \A p \in SynchronousOwners : status'[t][p] = status[t][p]
          /\ Holds(t) => /\ proposal'[t].cursor = proposal[t].cursor
                         /\ proposal'[t].base = proposal[t].base

\* A transaction's chart is painted while no other transaction is hot.
PaintsAlone ==
    \A t \in Tx : pc'[t] = "painted" =>
        \/ pc[t] = "painted"
        \/ \A u \in Tx \ {t} : pc'[u] = pc[u] /\ ~Hot(u)

\* Then the invariant is kept.
LEMMA LeftAloneAgrees ==
    ASSUME CoordinatorTypeOK, Sound, AgreementInv, OwnersLeft, PaintsAlone,
           \A t \in Tx : Advances(t)
    PROVE  AgreementInv'
<1>0. \A t \in Tx : /\ InOrder(t) /\ Captured(t)
                    /\ Holds(t) => Displaced(t)
  BY DEF AgreementInv
<1>1. \A t \in Tx : Holds(t)' = Holds(t)
  BY DEF OwnersLeft, Holds, SynchronousOwners
<1>2. ASSUME NEW t \in Tx
      PROVE  InOrder(t)'
  <2>1. /\ InOrder(t) /\ Advances(t)
        /\ pubStage' = pubStage
        /\ \A p \in SynchronousOwners : status'[t][p] = status[t][p]
    BY <1>0 DEF OwnersLeft, publicationVars
  <2> QED
    BY <2>1 DEF InOrder, Advances, Has, Holds, Untouched, StateRefused,
       PublicationRefused, AllApplied, StagedOnly, Preparing, Staging, SynchronousOwners
<1>3. ASSUME NEW t \in Tx
      PROVE  Captured(t)'
  <2>1. pc'[t] \in Staging => pc[t] \in Staging
    BY DEF Advances, Preparing, Staging
  <2> QED
    BY <1>0, <2>1 DEF Captured, OwnersLeft, publicationVars
<1>4. OneHot'
  <2>1. ASSUME NEW t \in Tx, NEW u \in Tx, t # u, Hot(t)', Hot(u)'
        PROVE  FALSE
    <3>1. CASE Hot(t) /\ Hot(u)
      BY <2>1, <3>1 DEF AgreementInv, OneHot
    <3>2. CASE ~Hot(t)
      BY <1>1, <2>1, <3>2 DEF Hot, PaintsAlone
    <3>3. CASE ~Hot(u)
      BY <1>1, <2>1, <3>3 DEF Hot, PaintsAlone
    <3> QED
      BY <3>1, <3>2, <3>3
  <2> QED
    BY <2>1 DEF OneHot
<1>5. ASSUME NEW t \in Tx, Holds(t)'
      PROVE  Displaced(t)'
  <2>1. Displaced(t) /\ Holds(t)
    BY <1>0, <1>1, <1>5
  <2> QED
    BY <2>1 DEF Displaced, OwnersLeft, Has, publicationVars, SynchronousOwners
<1>6. ASSUME \A t \in Tx : ~Holds(t)'
      PROVE  AtRest'
  <2>1. AtRest
    BY <1>1, <1>6 DEF AgreementInv
  <2> QED
    BY <2>1 DEF AtRest, OwnersLeft, publicationVars
<1>7. publication'.accepted.tx = accepted'.tx
  BY DEF AgreementInv, OwnersLeft, publicationVars
<1> QED
  BY <1>2, <1>3, <1>4, <1>5, <1>6, <1>7 DEF AgreementInv

\* What the coordinator does between two decisions about the synchronous owners.
Passes(t) ==
    \/ Begin(t) \/ Proposed(t) \/ Acquired(t) \/ Projected(t) \/ PortRejects(t)
    \/ Prepared(t, {"chart"}) \/ StartApply(t) \/ ChartFails(t) \/ ChartUndone(t)
    \/ OwnersApplied(t, {}, FALSE) \/ DecisionRefused(t)
    \/ \E chartRestored, rejected \in BOOLEAN : RolledBack(t, chartRestored, rejected)

\* Such a step leaves the statuses of the synchronous owners alone.
LEMMA PassingMoves ==
    ASSUME CoordinatorTypeOK, NEW t \in Tx, Passes(t)
    PROVE  /\ UNCHANGED <<accepted, baseRevision>>
           /\ \A u \in Tx, p \in SynchronousOwners : status'[u][p] = status[u][p]
           /\ \A u \in Tx \ {t} : pc'[u] = pc[u]
           /\ Advances(t) /\ pc'[t] # "painted"
<1> USE DEF Advances, Preparing, Staging, GoTo, CoordinatorTypeOK
<1>1. CASE Begin(t) \/ Proposed(t) \/ Acquired(t) \/ Projected(t)
  BY <1>1 DEF Begin, Proposed, Acquired, Projected, Continue, Interrupt,
     decisionVars, recordVars
<1>2. CASE PortRejects(t) \/ StartApply(t) \/ ChartFails(t) \/ DecisionRefused(t)
  BY <1>2 DEF PortRejects, StartApply, ChartFails, DecisionRefused, Continue,
     Interrupt, Throw, decisionVars, recordVars
<1>3. CASE Prepared(t, {"chart"})
  <2>1. {"chart"} # Participants
    <3>1. "replay" \in Participants /\ "replay" \notin {"chart"}
      BY DEF Participants, SynchronousOwners
    <3> QED
      BY <3>1
  <2>2. SetStatus(t, {"chart"}, "prepared")
    BY <1>3 DEF Prepared
  <2>3. \A u \in Tx, p \in SynchronousOwners : status'[u][p] = status[u][p]
    BY <2>2 DEF SetStatus, Participants, SynchronousOwners
  <2> QED
    BY <1>3, <2>1, <2>3 DEF Prepared, Interrupt, Throw, decisionVars, recordVars
<1>4. CASE ChartUndone(t)
  BY <1>4 DEF ChartUndone, Throw, SetStatus, decisionVars, recordVars,
     Participants, SynchronousOwners
<1>5. CASE OwnersApplied(t, {}, FALSE)
  BY <1>5 DEF OwnersApplied, Interrupt, Throw, SetStatus, decisionVars, recordVars,
     Participants, SynchronousOwners
<1>6. ASSUME NEW chartRestored \in BOOLEAN, NEW rejected \in BOOLEAN,
             RolledBack(t, chartRestored, rejected)
      PROVE  /\ UNCHANGED <<accepted, baseRevision>>
             /\ \A u \in Tx, p \in SynchronousOwners : status'[u][p] = status[u][p]
             /\ \A u \in Tx \ {t} : pc'[u] = pc[u]
             /\ pc[t] = "rollingBack" /\ pc'[t] = "done"
  BY <1>6 DEF RolledBack, SetStatus, recordVars, Participants, SynchronousOwners
<1> QED
  BY <1>1, <1>2, <1>3, <1>4, <1>5, <1>6 DEF Passes

\* An owner that does not hold the clock may be given another proposal.
LEMMA ProposalMoves ==
    ASSUME ReplayTypeOK, NEW t \in Tx, ~Holds(t), ProposeTarget(t) \/ UNCHANGED replayVars
    PROVE  /\ replay' = replay
           /\ \A u \in Tx : Holds(u) => proposal'[u] = proposal[u]
BY DEF ProposeTarget, replayVars, ReplayTypeOK

\* The actions that touch no synchronous owner keep the invariant.
LEMMA PassingAgrees ==
    ASSUME TypeOK, Sound, AgreementInv, NEW t \in Tx, Passes(t),
           UNCHANGED <<statePrep, publicationVars>>,
           replay' = replay,
           workspace'.value = workspace.value,
           \A u \in Tx : Holds(u) => /\ proposal'[u].cursor = proposal[u].cursor
                                     /\ proposal'[u].base = proposal[u].base
    PROVE  AgreementInv'
<1>1. CoordinatorTypeOK
  BY DEF TypeOK
<1>2. OwnersLeft
  BY <1>1, PassingMoves DEF OwnersLeft
<1>4. PaintsAlone
  BY <1>1, PassingMoves DEF PaintsAlone
<1>5. ASSUME NEW u \in Tx
      PROVE  Advances(u)
  <2>1. CASE u = t
    BY <1>1, <2>1, PassingMoves
  <2>2. CASE u # t
    BY <1>1, <2>2, PassingMoves DEF Advances
  <2> QED
    BY <2>1, <2>2
<1> QED
  BY <1>1, <1>2, <1>4, <1>5, LeftAloneAgrees

\* A transaction that has not finished preparing holds nothing.
LEMMA PreparingHoldsNothing ==
    ASSUME Sound, AgreementInv, NEW t \in Tx, pc[t] \in Preparing
    PROVE  ~Holds(t)
BY DEF AgreementInv, InOrder, Holds, Has, SynchronousOwners

\* A candidate, a proposal or a refused preparation moves no accepted owner.
LEMMA SubmissionAgrees ==
    ASSUME TypeOK, Sound, AgreementInv, NEW t \in Tx, NEW deferred \in BOOLEAN,
           Submit(t, deferred)
    PROVE  AgreementInv'
<1>1. Begin(t) /\ pc[t] = "idle"
  BY DEF Submit, Begin
<1>2. ~Holds(t)
  BY <1>1, PreparingHoldsNothing DEF Preparing
<1>3. ProposeTarget(t) \/ UNCHANGED replayVars
  BY DEF Submit
<1>4. /\ replay' = replay
      /\ \A u \in Tx : Holds(u) => proposal'[u] = proposal[u]
  BY <1>2, <1>3, ProposalMoves DEF TypeOK
<1>5. UNCHANGED <<statePrep, publicationVars>> /\ workspace'.value = workspace.value
  BY DEF Submit, DeriveCandidate
<1> QED
  BY <1>1, <1>4, <1>5, PassingAgrees DEF Passes

\* Steps that end the wait for a port agree.
LEMMA WaitingAgrees ==
    ASSUME TypeOK, Sound, AgreementInv, NEW t \in Tx,
           ProposalArrives(t) \/ TargetResolves(t) \/ Acquire(t) \/ Project(t)
           \/ PortFails(t)
    PROVE  AgreementInv'
<1>1. Passes(t)
  BY DEF ProposalArrives, TargetResolves, Acquire, Project, PortFails, Passes
<1>2. UNCHANGED <<workspace, statePrep, publicationVars>>
  BY DEF ProposalArrives, TargetResolves, Acquire, Project, PortFails, ownerVars, stateVars
<1>3. CASE TargetResolves(t)
  <2>1. pc[t] = "proposing" /\ (ProposeTarget(t) \/ UNCHANGED replayVars)
    BY <1>3 DEF TargetResolves, Proposed
  <2>2. ~Holds(t)
    BY <2>1, PreparingHoldsNothing DEF Preparing
  <2>3. /\ replay' = replay
        /\ \A u \in Tx : Holds(u) => proposal'[u] = proposal[u]
    BY <2>1, <2>2, ProposalMoves DEF TypeOK
  <2> QED
    BY <1>1, <1>2, <2>3, PassingAgrees
<1>4. CASE ~TargetResolves(t)
  <2>1. UNCHANGED replayVars
    BY <1>4 DEF ProposalArrives, Acquire, Project, PortFails, ownerVars
  <2> QED
    BY <1>1, <1>2, <2>1, PassingAgrees DEF replayVars
<1> QED
  BY <1>3, <1>4

\* The step of another transaction leaves the order of u's owners as it is.
LEMMA OrderKept ==
    ASSUME NEW u \in Tx, InOrder(u),
           pc'[u] = pc[u], status'[u] = status[u], pubStage'[u] = pubStage[u]
    PROVE  InOrder(u)' /\ (Hot(u)' => Hot(u)) /\ (Holds(u)' => Holds(u))
<1> DEFINE s == status[u]
           state == pubStage[u].state
<1>1. /\ \A p : status'[u][p] = s[p]
      /\ pubStage'[u].state = state
      /\ \A p : status[u][p] = s[p]
      /\ pubStage[u].state = state
  OBVIOUS
<1> HIDE DEF s, state
<1>2. /\ Holds(u)' <=> Holds(u)
      /\ Untouched(u)' <=> Untouched(u)
      /\ StateRefused(u)' <=> StateRefused(u)
      /\ PublicationRefused(u)' <=> PublicationRefused(u)
      /\ AllApplied(u)' <=> AllApplied(u)
      /\ StagedOnly(u)' <=> StagedOnly(u)
      /\ \A p, c : Has(u, p, c)' <=> Has(u, p, c)
  BY <1>1 DEF Holds, Untouched, StateRefused, PublicationRefused, AllApplied,
     StagedOnly, Has
<1> QED
  BY <1>2 DEF InOrder, Hot

\* Preparing captures the accepted snapshot of every owner, which is at rest.
LEMMA PreparationAgrees ==
    ASSUME TypeOK, Sound, AgreementInv, NEW t \in Tx, Prepare(t)
    PROVE  AgreementInv'
<1>0. CoordinatorTypeOK /\ ReplayTypeOK /\ StateTypeOK /\ PublicationTypeOK
  BY DEF TypeOK
<1>1. CASE Prepared(t, {"chart"}) /\ UNCHANGED <<replayVars, stateVars, publicationVars>>
  BY <1>1, PassingAgrees DEF Passes, replayVars, stateVars
<1>2. ASSUME Prepared(t, Participants), PrepareVisible(t), BeginAndPrepareState(t),
             StagePublication(t)
      PROVE  AgreementInv'
  <2>1. pc[t] = "staging" /\ AtRest /\ \A u \in Tx : ~Hot(u)
    BY <1>0, IdleAtRest DEF Prepare
  <2>2. /\ UNCHANGED accepted
        /\ \A p \in Participants : status'[t][p] = "prepared"
        /\ \A u \in Tx \ {t} : /\ status'[u] = status[u] /\ pc'[u] = pc[u]
                               /\ baseRevision'[u] = baseRevision[u]
    BY <1>0, <1>2 DEF Prepared, SetStatus, Continue, Interrupt, Throw, GoTo,
       CoordinatorTypeOK, decisionVars
  <2>3. pc'[t] = "prepared" /\ baseRevision'[t] = accepted.revision
    <3>1. Participants # {"chart"}
      <4>1. "replay" \in Participants /\ "replay" \notin {"chart"}
        BY DEF Participants, SynchronousOwners
      <4> QED
        BY <4>1
    <3> QED
      BY <1>0, <1>2, <3>1 DEF Prepared, Continue, GoTo, CoordinatorTypeOK
  <2>4. /\ UNCHANGED <<replay, proposal, publication, store>>
        /\ workspace'.value = workspace.value
        /\ statePrep'[t].value = workspace.value
        /\ pubStage'[t].state = "staged"
        /\ pubStage'[t].previous = publication.accepted
        /\ \A u \in Tx \ {t} : statePrep'[u] = statePrep[u] /\ pubStage'[u] = pubStage[u]
    BY <1>0, <1>2 DEF PrepareVisible, BeginAndPrepareState, StagePublication,
       StateTypeOK, PublicationTypeOK
  <2>5. \A u \in Tx : ~Hot(u)'
    BY <2>1, <2>2, <2>3 DEF Hot, Holds, Participants, SynchronousOwners
  <2>6. \A u \in Tx : InOrder(u)' /\ Captured(u)'
    <3>1. InOrder(t)'
      BY <2>2, <2>3, <2>4 DEF InOrder, Preparing, Staging, Has, StagedOnly, Participants,
                                SynchronousOwners
    <3>2. Captured(t)'
      BY <1>0, <2>1, <2>2, <2>3, <2>4
         DEF Captured, AtRest, AgreementInv, CoordinatorTypeOK
    <3>3. ASSUME NEW u \in Tx \ {t}
          PROVE  InOrder(u)' /\ Captured(u)'
      <4>1. InOrder(u) /\ Captured(u)
        BY DEF AgreementInv
      <4>2. InOrder(u)'
        BY <2>2, <2>4, <4>1, OrderKept
      <4>3. Captured(u)'
        BY <2>2, <2>4, <4>1 DEF Captured
      <4> QED
        BY <4>2, <4>3
    <3> QED
      BY <3>1, <3>2, <3>3
  <2>7. AtRest'
    BY <2>1, <2>2, <2>4 DEF AtRest
  <2>8. publication'.accepted.tx = accepted'.tx
    BY <2>2, <2>4 DEF AgreementInv
  <2> QED
    BY <2>5, <2>6, <2>7, <2>8 DEF AgreementInv, OneHot, Hot
<1> QED
  BY <1>1, <1>2 DEF Prepare

\* While the chart paints, is painted or refused, the synchronous owners wait.
LEMMA PaintingAgrees ==
    ASSUME TypeOK, Sound, AgreementInv, NEW t \in Tx,
           StartPaint(t) \/ Painted(t) \/ PaintRefused(t) \/ Unpainted(t)
    PROVE  AgreementInv'
<1>1. UNCHANGED <<replayVars, stateVars, publicationVars>>
  BY DEF StartPaint, Painted, PaintRefused, Unpainted
<1>2. CASE StartPaint(t) \/ PaintRefused(t) \/ Unpainted(t)
  <2>1. Passes(t)
    BY <1>2 DEF StartPaint, PaintRefused, Unpainted, Passes
  <2> QED
    BY <1>1, <2>1, PassingAgrees DEF replayVars, stateVars
<1>3. CASE Painted(t)
  <2>0. CoordinatorTypeOK
    BY DEF TypeOK
  <2>1. ChartApplied(t) /\ \A u \in Tx : ~Hot(u)
    BY <1>3, <2>0, IdleAtRest DEF Painted
  <2>2. /\ pc[t] = "painting" /\ pc' = [pc EXCEPT ![t] = "painted"]
        /\ UNCHANGED <<accepted, baseRevision>>
        /\ SetStatus(t, {"chart"}, "applied")
    BY <2>1 DEF ChartApplied, GoTo, decisionVars, recordVars
  <2>3. \A u \in Tx, p \in SynchronousOwners : status'[u][p] = status[u][p]
    BY <2>0, <2>2 DEF SetStatus, CoordinatorTypeOK, Participants, SynchronousOwners
  <2>4. OwnersLeft
    BY <1>1, <2>2, <2>3 DEF OwnersLeft, replayVars, stateVars
  <2>5. PaintsAlone
    BY <2>0, <2>1, <2>2 DEF PaintsAlone, CoordinatorTypeOK
  <2>6. \A u \in Tx : Advances(u)
    BY <2>0, <2>2 DEF Advances, Staging, CoordinatorTypeOK
  <2> QED
    BY <2>0, <2>4, <2>5, <2>6, LeftAloneAgrees
<1> QED
  BY <1>2, <1>3

\* A transaction that is painted or holds the clock is alone, and the owners
\* stand where the clock has not moved yet, or where it took them.
LEMMA HotIsAlone ==
    ASSUME CoordinatorTypeOK, Sound, AgreementInv, NEW t \in Tx, Hot(t)
    PROVE  /\ \A u \in Tx \ {t} : ~Hot(u) /\ InOrder(u) /\ Captured(u)
           /\ InOrder(t) /\ Captured(t)
           /\ Holds(t) => Displaced(t)
           /\ ~Holds(t) => AtRest
<1>1. \A u \in Tx \ {t} : ~Hot(u)
  BY DEF AgreementInv, OneHot
<1>2. ~Holds(t) => \A u \in Tx : ~Holds(u)
  BY <1>1 DEF Hot
<1> QED
  BY <1>1, <1>2 DEF AgreementInv

\* What is left to show when t alone was hot and only t's record moved.
LEMMA HotStepAgrees ==
    ASSUME Sound, AgreementInv, NEW t \in Tx,
           \A u \in Tx \ {t} : /\ ~Hot(u) /\ InOrder(u) /\ Captured(u)
                               /\ pc'[u] = pc[u] /\ status'[u] = status[u]
                               /\ pubStage'[u] = pubStage[u],
           UNCHANGED <<baseRevision, statePrep>>,
           baseRevision \in [Tx -> Nat], accepted.revision \in Nat,
           accepted' = accepted \/ accepted'.revision = accepted.revision + 1,
           InOrder(t)', Captured(t)', Holds(t)' => Displaced(t)', ~Holds(t)' => AtRest',
           publication'.accepted.tx = accepted'.tx
    PROVE  AgreementInv'
<1>1. \A u \in Tx \ {t} : InOrder(u)' /\ ~Hot(u)' /\ ~Holds(u)'
  BY OrderKept DEF Hot
<1>2. ASSUME NEW u \in Tx \ {t}
      PROVE  Captured(u)'
  BY <1>2 DEF Captured
<1>3. OneHot'
  BY <1>1 DEF OneHot
<1>4. (\A u \in Tx : ~Holds(u)') => AtRest'
  OBVIOUS
<1> QED
  BY <1>1, <1>2, <1>3, <1>4 DEF AgreementInv

\* How far the owners of t are after they applied, were refused or torn.
LEMMA AppliedStatus ==
    ASSUME CoordinatorTypeOK, NEW t \in Tx, NEW ps \in AppliedSets, NEW restored \in BOOLEAN,
           ps # {}, OwnersApplied(t, ps, restored)
    PROVE  /\ pc[t] = "painted"
           /\ \A u \in Tx \ {t} : pc'[u] = pc[u] /\ status'[u] = status[u]
           /\ UNCHANGED <<accepted, baseRevision>>
           /\ pc'[t] = IF ps = SynchronousOwners THEN "applied" ELSE "failing"
           /\ \A p \in ps : status'[t][p] = "applied"
           /\ \A p \in SynchronousOwners \ ps : status'[t][p] =
                 IF restored /\ p = "publication" /\ "workspaceState" \in ps
                 THEN "rolledBack" ELSE status[t][p]
<1>1. /\ pc[t] = "painted" /\ UNCHANGED <<accepted, baseRevision>>
      /\ ps \subseteq Participants /\ SynchronousOwners \subseteq Participants
  BY DEF OwnersApplied, decisionVars, recordVars, AppliedSets, Participants,
         SynchronousOwners
<1>2. CASE ps = SynchronousOwners
  BY <1>1, <1>2 DEF OwnersApplied, Continue, GoTo, SetStatus, CoordinatorTypeOK
<1>3. CASE ps # SynchronousOwners
  BY <1>1, <1>3 DEF OwnersApplied, Throw, GoTo, CoordinatorTypeOK
<1> QED
  BY <1>2, <1>3

\* The owners that apply are moved from the accepted snapshot to t's, and what
\* they captured is the accepted one.
LEMMA ApplyingAgrees ==
    ASSUME TypeOK, CountInv, KeyInv, Sound, AgreementInv, NEW t \in Tx, ApplyOwners(t)
    PROVE  AgreementInv'
<1>0. CoordinatorTypeOK /\ ReplayTypeOK /\ StateTypeOK /\ PublicationTypeOK
  BY DEF TypeOK
<1>1. pc[t] = "painted" /\ Hot(t)
  BY DEF ApplyOwners, Hot
<1>2. /\ \A u \in Tx \ {t} : ~Hot(u) /\ InOrder(u) /\ Captured(u)
      /\ InOrder(t) /\ Captured(t)
      /\ Holds(t) => Displaced(t)
      /\ ~Holds(t) => AtRest
  BY <1>0, <1>1, HotIsAlone
<1>3. /\ \A p \in SynchronousOwners : status[t][p] = "prepared"
      /\ pubStage[t].state = "staged"
  BY <1>1, <1>2 DEF InOrder, Staging, Has, StagedOnly
<1>4. ~Holds(t) /\ AtRest
  BY <1>2, <1>3 DEF Holds, SynchronousOwners
<1>5. accepted.tx # t
  <2>1. terminal[t] = "none"
    BY <1>1 DEF CountInv, TerminalsReturned
  <2>2. t # NoTx
    BY TransactionsAssumption
  <2> QED
    BY <2>1, <2>2 DEF CountInv, AcceptedCountsCommits
<1>6. /\ baseRevision \in [Tx -> Nat] /\ accepted.revision \in Nat
  BY <1>0 DEF CoordinatorTypeOK
<1>7. ASSUME Committable(t), ApplyReplay(t)
      PROVE  /\ replay'.cursor = t /\ replay'.revision = accepted.revision + 1
             /\ proposal'[t].cursor = accepted.tx
             /\ proposal'[t].base = accepted.revision
  BY <1>4, <1>7 DEF Committable, ApplyReplay, AtRest
<1>8. ASSUME ApplyState(t)
      PROVE  workspace'.value.tx = t /\ statePrep' = statePrep
  BY <1>0, <1>8 DEF ApplyState, StateCandidate, StateTypeOK
<1>9. ASSUME Publishable(t)
      PROVE  statePrep[t].value.tx = accepted.tx /\ pubStage[t].previous.tx = accepted.tx
  BY <1>1, <1>2, <1>9 DEF Captured, Publishable, Staging
<1>10. ASSUME NEW state, SetStage(t, state)
       PROVE  /\ pubStage'[t].state = state
              /\ pubStage'[t].previous = pubStage[t].previous
              /\ \A u \in Tx \ {t} : pubStage'[u] = pubStage[u]
  BY <1>0, <1>10 DEF SetStage, PublicationTypeOK
<1>11. ASSUME NEW tx, Render(tx)
       PROVE  publication'.display = tx /\ publication'.accepted = publication.accepted
  BY <1>0, <1>11 DEF Render, PublicationTypeOK
<1>12. publication.accepted.tx = accepted.tx
  BY DEF AgreementInv
<1>13. CASE /\ OwnersApplied(t, SynchronousOwners, TRUE)
            /\ Committable(t) /\ StateAppliable(t) /\ Publishable(t)
            /\ ApplyReplay(t)
            /\ ApplyState(t)
            /\ ApplyPublication(t, StateCandidate(t))
  <2>1. /\ \A u \in Tx \ {t} : pc'[u] = pc[u] /\ status'[u] = status[u]
        /\ UNCHANGED <<accepted, baseRevision>>
        /\ pc'[t] = "applied"
        /\ \A p \in SynchronousOwners : status'[t][p] = "applied"
    <3>1. SynchronousOwners \in AppliedSets /\ SynchronousOwners # {}
      BY DEF AppliedSets, SynchronousOwners
    <3> QED
      BY <1>0, <1>13, <3>1, AppliedStatus
  <2>2. StateCandidate(t) # store.key
    <3>1. StateCandidate(t).tx = t
      BY DEF StateCandidate
    <3>2. store.durable.tx # t
      BY <1>4, <1>5 DEF AtRest
    <3>3. Unset.tx # t
      BY UnsetAssumption DEF Unset
    <3> QED
      BY <3>1, <3>2, <3>3 DEF KeyInv, PersistedKeyIsDurable
  <2>3. /\ store'.pending /\ store'.durable.tx = t
        /\ store'.previousDurable.tx = accepted.tx
    BY <1>4, <1>13, <2>2
       DEF ApplyPublication, WriteReversibly, StateCandidate, AtRest
  <2>4. Render(t) /\ SetStage(t, "applied")
    BY <1>13 DEF ApplyPublication
  <2>5. Displaced(t)'
    BY <1>7, <1>8, <1>9, <1>10, <1>11, <1>13, <2>1, <2>3, <2>4
       DEF Displaced, Has, SynchronousOwners
  <2>6. InOrder(t)' /\ Captured(t)' /\ Holds(t)'
    BY <1>10, <2>1, <2>4 DEF InOrder, Captured, AllApplied, Has, Holds, Preparing,
       Staging, SynchronousOwners
  <2> QED
    BY <1>2, <1>6, <1>8, <1>10, <1>11, <1>12, <1>13, <2>1, <2>4, <2>5, <2>6, HotStepAgrees
<1>14. CASE OwnersApplied(t, {}, FALSE)
            /\ UNCHANGED <<replayVars, stateVars, publicationVars>>
  BY <1>14, PassingAgrees DEF Passes, replayVars, stateVars
<1>15. CASE /\ Committable(t)
            /\ OwnersApplied(t, {"replay"}, FALSE)
            /\ ApplyReplay(t)
            /\ UNCHANGED <<stateVars, publicationVars>>
  <2>1. /\ \A u \in Tx \ {t} : pc'[u] = pc[u] /\ status'[u] = status[u]
        /\ UNCHANGED <<accepted, baseRevision>>
        /\ pc'[t] = "failing"
        /\ status'[t]["replay"] = "applied"
        /\ status'[t]["workspaceState"] = "prepared"
        /\ status'[t]["publication"] = "prepared"
    <3>1. {"replay"} \in AppliedSets /\ {"replay"} # {}
      BY DEF AppliedSets
    <3>2. {"replay"} # SynchronousOwners
      <4>1. "publication" \in SynchronousOwners /\ "publication" \notin {"replay"}
        BY DEF SynchronousOwners
      <4> QED
        BY <4>1
    <3>3. /\ \A u \in Tx \ {t} : pc'[u] = pc[u] /\ status'[u] = status[u]
          /\ UNCHANGED <<accepted, baseRevision>>
          /\ pc'[t] = "failing"
          /\ \A p \in {"replay"} : status'[t][p] = "applied"
          /\ \A p \in SynchronousOwners \ {"replay"} : status'[t][p] = status[t][p]
      <4>1. PICK restored \in BOOLEAN :
                ~restored /\ OwnersApplied(t, {"replay"}, restored)
        BY <1>15
      <4> QED
        BY <1>0, <3>1, <3>2, <4>1, AppliedStatus
    <3> QED
      BY <1>3, <3>3 DEF SynchronousOwners
  <2>2. UNCHANGED <<workspace, statePrep, publication, pubStage, store>>
    BY <1>15 DEF stateVars, publicationVars
  <2>3. Displaced(t)'
    BY <1>3, <1>4, <1>7, <1>15, <2>1, <2>2 DEF Displaced, AtRest, Has
  <2>4. InOrder(t)' /\ Captured(t)' /\ Holds(t)'
    BY <1>3, <2>1, <2>2 DEF InOrder, Captured, StateRefused, StagedOnly, Has, Holds,
       Preparing, Staging
  <2> QED
    BY <1>2, <1>6, <1>12, <2>1, <2>2, <2>3, <2>4, HotStepAgrees
<1>16. ASSUME NEW restored \in BOOLEAN,
              OwnersApplied(t, {"replay", "workspaceState"}, restored),
              Committable(t), Publishable(t), ApplyReplay(t), ApplyState(t),
              IF restored THEN RefusePublication(t) ELSE TearPublication(t)
       PROVE  AgreementInv'
  <2>1. /\ \A u \in Tx \ {t} : pc'[u] = pc[u] /\ status'[u] = status[u]
        /\ UNCHANGED <<accepted, baseRevision>>
        /\ pc'[t] = "failing"
        /\ status'[t]["replay"] = "applied"
        /\ status'[t]["workspaceState"] = "applied"
        /\ status'[t]["publication"] = IF restored THEN "rolledBack" ELSE "prepared"
    <3>1. {"replay", "workspaceState"} \in AppliedSets /\ {"replay", "workspaceState"} # {}
      BY DEF AppliedSets
    <3>2. {"replay", "workspaceState"} # SynchronousOwners
      <4>1. /\ "publication" \in SynchronousOwners
            /\ "publication" \notin {"replay", "workspaceState"}
        BY DEF SynchronousOwners
      <4> QED
        BY <4>1
    <3>3. /\ \A u \in Tx \ {t} : pc'[u] = pc[u] /\ status'[u] = status[u]
          /\ UNCHANGED <<accepted, baseRevision>>
          /\ pc'[t] = "failing"
          /\ \A p \in {"replay", "workspaceState"} : status'[t][p] = "applied"
          /\ \A p \in SynchronousOwners \ {"replay", "workspaceState"} :
                status'[t][p] = IF restored /\ p = "publication"
                                THEN "rolledBack" ELSE status[t][p]
      BY <1>0, <1>16, <3>1, <3>2, AppliedStatus
    <3> QED
      BY <1>3, <3>3 DEF SynchronousOwners
  <2>2. /\ SetStage(t, IF restored THEN "rolledBack" ELSE "applying")
        /\ Render(IF restored THEN pubStage[t].previous.tx ELSE t)
    BY <1>16 DEF RefusePublication, TearPublication
  <2>3. store' = store
    BY <1>4, <1>16 DEF RefusePublication, TearPublication, RestoreStore, AtRest
  <2>4. Displaced(t)'
    BY <1>4, <1>7, <1>8, <1>9, <1>10, <1>11, <1>16, <2>1, <2>2, <2>3
       DEF Displaced, AtRest, Has
  <2>5. InOrder(t)' /\ Captured(t)' /\ Holds(t)'
    BY <1>10, <2>1, <2>2 DEF InOrder, Captured, PublicationRefused, Has, Holds,
       Preparing, Staging
  <2> QED
    BY <1>2, <1>6, <1>8, <1>10, <1>11, <1>12, <1>16, <2>1, <2>2, <2>4, <2>5, HotStepAgrees
<1> QED
  BY <1>13, <1>14, <1>15, <1>16 DEF ApplyOwners

\* A decision leaves the owners at the snapshot it accepts.
LEMMA DecisionAgrees ==
    ASSUME TypeOK, Sound, AgreementInv, Sound', NEW t \in Tx, Finalize(t)
    PROVE  AgreementInv'
<1>0. CoordinatorTypeOK /\ StateTypeOK /\ PublicationTypeOK
  BY DEF TypeOK
<1>1. PICK done \in SUBSET Participants, complete \in BOOLEAN :
          Finalized(t, done, complete)
  <2>1. DecideStep(t)
    BY DecideActionCoordinates DEF DecideAction
  <2>2. ~DecisionRefused(t)
    BY DEF Finalize, Finalized, DecisionRefused
  <2> QED
    BY <2>1, <2>2 DEF DecideStep
<1>2. done = Participants
  BY <1>1 DEF Finalized, Sound
<1>3. /\ pc[t] = "applied" /\ pc' = [pc EXCEPT ![t] = "done"]
      /\ SetStatus(t, Participants, "finalized")
      /\ accepted' = [tx |-> t, revision |-> accepted.revision + 1]
      /\ UNCHANGED baseRevision
  BY <1>1, <1>2 DEF Finalized, GoTo, Publish, recordVars
<1>4. /\ \A u \in Tx \ {t} : pc'[u] = pc[u] /\ status'[u] = status[u]
      /\ pc'[t] = "done"
      /\ \A p \in SynchronousOwners : status'[t][p] = "finalized"
  BY <1>0, <1>3 DEF SetStatus, CoordinatorTypeOK, Participants
<1>5. AllApplied(t) /\ Holds(t)
  BY <1>3 DEF AgreementInv, InOrder, AllApplied, Has, Holds, SynchronousOwners
<1>6. /\ \A u \in Tx \ {t} : ~Hot(u) /\ InOrder(u) /\ Captured(u)
      /\ Displaced(t)
  BY <1>0, <1>5, HotIsAlone DEF Hot
<1>7. /\ workspace'.value = workspace.value /\ UNCHANGED <<statePrep, replay>>
  <2>1. ReleaseState(t) \/ UNCHANGED stateVars
    BY DEF Finalize
  <2> QED
    BY <1>0, <2>1 DEF Finalize, ReleaseState, Released, StateTypeOK, stateVars
<1>8. /\ publication'.accepted.tx = t /\ publication'.display = publication.display
      /\ store'.durable = store.durable /\ ~store'.pending
      /\ \A u \in Tx \ {t} : pubStage'[u] = pubStage[u]
  BY <1>0 DEF Finalize, FinalizePublication, SetStage, Stored, StateCandidate,
              PublicationTypeOK
<1>9. AtRest'
  BY <1>3, <1>5, <1>6, <1>7, <1>8 DEF Displaced, AtRest, AllApplied, Has, SynchronousOwners
<1>10. InOrder(t)' /\ Captured(t)' /\ ~Holds(t)'
  BY <1>4 DEF InOrder, Captured, Holds, Preparing, Staging, SynchronousOwners
<1>11. /\ baseRevision \in [Tx -> Nat] /\ accepted.revision \in Nat
       /\ accepted'.revision = accepted.revision + 1
       /\ publication'.accepted.tx = accepted'.tx
  BY <1>0, <1>3, <1>8 DEF CoordinatorTypeOK
<1> QED
  BY <1>3, <1>4, <1>6, <1>7, <1>8, <1>9, <1>10, <1>11, HotStepAgrees

\* A refused decision leaves the owners to the rollback.
LEMMA RefusalAgrees ==
    ASSUME TypeOK, Sound, AgreementInv, NEW t \in Tx, RefuseDecision(t)
    PROVE  AgreementInv'
BY PassingAgrees DEF RefuseDecision, Passes, ownerVars, replayVars, stateVars

\* What the synchronous rollback does to the record of t, when nothing throws.
LEMMA UnwoundRecord ==
    ASSUME CoordinatorTypeOK, NEW t \in Tx, Unwind(t, {})
    PROVE  /\ \A u \in Tx \ {t} : pc'[u] = pc[u] /\ status'[u] = status[u]
           /\ UNCHANGED <<accepted, baseRevision>>
           /\ pc[t] = "failing" /\ pc'[t] = "rollingBack"
           /\ \A p \in SynchronousOwners : status'[t][p] # "applied"
           /\ InOrder(t)' /\ Captured(t)' /\ ~Holds(t)'
<1>1. /\ \A u \in Tx \ {t} : pc'[u] = pc[u] /\ status'[u] = status[u]
      /\ UNCHANGED <<accepted, baseRevision>>
      /\ pc[t] = "failing" /\ pc'[t] = "rollingBack"
      /\ SetStatus(t, (Retained(t) \ {"chart"}) \ {}, "rolledBack")
  BY DEF Unwind, SetStatus, GoTo, CoordinatorTypeOK, decisionVars
<1>2. \A p \in SynchronousOwners : p \in Participants /\ p # "chart"
  BY DEF SynchronousOwners, Participants
<1>3. \A p \in SynchronousOwners : status'[t][p] # "applied"
  BY <1>1, <1>2 DEF SetStatus, Retained, CoordinatorTypeOK
<1>4. ~Holds(t)'
  BY <1>3 DEF Holds, SynchronousOwners
<1> QED
  BY <1>1, <1>3, <1>4 DEF InOrder, Captured, Preparing, Staging

\* Only a rollback in which nothing threw stays sound.
LEMMA SoundUndo ==
    ASSUME CoordinatorTypeOK, NEW t \in Tx, Undo(t), Sound'
    PROVE  /\ Unwind(t, {})
           /\ \/ "publication" \notin Retained(t) /\ UNCHANGED publicationVars
              \/ "publication" \in Retained(t) /\ RollbackPublication(t)
<1>1. ASSUME Unwind(t, {"publication"})
      PROVE  FALSE
  <2>1. unrestored'[t]
    BY <1>1 DEF Unwind, CoordinatorTypeOK
  <2> QED
    BY <2>1 DEF Sound
<1> QED
  BY <1>1 DEF Undo

\* Which synchronous owners are there to be rolled back.
LEMMA RetainedOwners ==
    ASSUME NEW t \in Tx, NEW p \in SynchronousOwners
    PROVE  p \in Retained(t) <=> Has(t, p, "prepared") \/ Has(t, p, "applied")
BY DEF Retained, Has, SynchronousOwners, Participants

\* Rolling back a transaction whose owners applied puts them where the
\* accepted snapshot is.
LEMMA RollbackAgrees ==
    ASSUME TypeOK, Sound, AgreementInv, Sound', NEW t \in Tx, Undo(t), Holds(t)
    PROVE  AgreementInv'
<1>0. CoordinatorTypeOK /\ ReplayTypeOK /\ StateTypeOK /\ PublicationTypeOK
  BY DEF TypeOK
<1>1. /\ \A u \in Tx \ {t} : ~Hot(u) /\ InOrder(u) /\ Captured(u)
      /\ InOrder(t) /\ Displaced(t)
  BY <1>0, HotIsAlone DEF Hot
<1>2. /\ Unwind(t, {}) /\ pc[t] = "failing"
      /\ \/ "publication" \notin Retained(t) /\ UNCHANGED publicationVars
         \/ "publication" \in Retained(t) /\ RollbackPublication(t)
  BY <1>0, SoundUndo DEF Unwind
<1>3. /\ \A u \in Tx \ {t} : pc'[u] = pc[u] /\ status'[u] = status[u]
      /\ UNCHANGED <<accepted, baseRevision>>
      /\ InOrder(t)' /\ Captured(t)' /\ ~Holds(t)'
  BY <1>0, <1>2, UnwoundRecord
<1>4. StateRefused(t) \/ PublicationRefused(t) \/ AllApplied(t)
  BY <1>1, <1>2 DEF InOrder, Untouched
<1>5. replay'.cursor = accepted.tx /\ replay'.revision = accepted.revision
  <2>1. "replay" \in Retained(t)
    BY RetainedOwners DEF Holds, Has, SynchronousOwners
  <2>2. RollbackReplay(t, TRUE)
    BY <2>1 DEF Undo, Holds
  <2> QED
    BY <1>1, <2>2 DEF RollbackReplay, Displaced
<1>6. workspace'.value.tx = accepted.tx /\ UNCHANGED statePrep
  <2>1. "workspaceState" \in Retained(t)
    BY <1>4, RetainedOwners DEF StateRefused, PublicationRefused, AllApplied,
                                SynchronousOwners
  <2>2. CASE Has(t, "workspaceState", "applied")
    <3>1. RollbackState(t, TRUE)
      BY <2>1, <2>2 DEF Undo, Has
    <3>2. workspace'.value = statePrep[t].value /\ UNCHANGED statePrep
      BY <1>0, <3>1 DEF RollbackState, Released, StateTypeOK
    <3> QED
      BY <1>1, <2>2, <3>2 DEF Displaced
  <2>3. CASE ~Has(t, "workspaceState", "applied")
    <3>1. RollbackState(t, FALSE)
      BY <2>1, <2>3 DEF Undo, Has
    <3>2. workspace'.value = workspace.value /\ UNCHANGED statePrep
      BY <1>0, <3>1 DEF RollbackState, Released, StateTypeOK
    <3> QED
      BY <1>1, <2>3, <3>2 DEF Displaced
  <2> QED
    BY <2>2, <2>3
<1>7. /\ publication'.display = accepted.tx
      /\ publication'.accepted = publication.accepted
      /\ store'.durable.tx = accepted.tx /\ ~store'.pending
      /\ \A u \in Tx \ {t} : pubStage'[u] = pubStage[u]
  <2>1. CASE "publication" \notin Retained(t) /\ UNCHANGED publicationVars
    <3>1. ~Has(t, "publication", "applied") /\ ~Has(t, "publication", "prepared")
      BY <2>1, RetainedOwners DEF SynchronousOwners
    <3>2. pubStage[t].state = "rolledBack"
      BY <1>4, <3>1 DEF StateRefused, StagedOnly, PublicationRefused, AllApplied,
                        SynchronousOwners
    <3> QED
      BY <1>1, <2>1, <3>1, <3>2 DEF Displaced, publicationVars
  <2>2. CASE "publication" \in Retained(t) /\ RollbackPublication(t)
    <3>1. \A u \in Tx \ {t} : pubStage'[u] = pubStage[u]
      BY <1>0, <2>2 DEF RollbackPublication, SetStage, PublicationTypeOK
    <3>2. Has(t, "publication", "applied") \/ Has(t, "publication", "prepared")
      BY <2>2, RetainedOwners DEF SynchronousOwners
    <3>3. CASE pubStage[t].state = "staged"
      <4>1. UNCHANGED <<publication, store>>
        BY <2>2, <3>3 DEF RollbackPublication
      <4>2. ~Has(t, "publication", "applied")
        BY <1>4, <3>3 DEF StateRefused, StagedOnly, PublicationRefused, AllApplied, Has
      <4> QED
        BY <1>1, <3>1, <3>3, <4>1, <4>2 DEF Displaced
    <3>4. CASE pubStage[t].state # "staged"
      <4>1. RestoreStore /\ Render(pubStage[t].previous.tx)
        BY <2>2, <3>4 DEF RollbackPublication
      <4>2. pubStage[t].state \in {"applying", "applied"}
        BY <1>4, <3>2, <3>4 DEF StateRefused, StagedOnly, PublicationRefused,
                                AllApplied, Has
      <4>3. pubStage[t].previous.tx = accepted.tx
        BY <1>1, <4>2 DEF Displaced
      <4>4. store'.durable.tx = accepted.tx /\ ~store'.pending
        BY <1>1, <4>1 DEF RestoreStore, Stored, Displaced
      <4>5. publication'.display = accepted.tx
            /\ publication'.accepted = publication.accepted
        BY <1>0, <4>1, <4>3 DEF Render, PublicationTypeOK
      <4> QED
        BY <3>1, <4>4, <4>5
    <3> QED
      BY <3>3, <3>4
  <2> QED
    BY <1>2, <2>1, <2>2
<1>8. AtRest'
  BY <1>3, <1>5, <1>6, <1>7 DEF AtRest
<1>9. /\ baseRevision \in [Tx -> Nat] /\ accepted.revision \in Nat
      /\ publication'.accepted.tx = accepted'.tx
  BY <1>0, <1>3, <1>7 DEF CoordinatorTypeOK, AgreementInv
<1> QED
  BY <1>1, <1>3, <1>6, <1>7, <1>8, <1>9, HotStepAgrees

\* Rolling back a transaction whose owners never applied moves none of them.
LEMMA UntouchedRollbackAgrees ==
    ASSUME TypeOK, Sound, AgreementInv, Sound', NEW t \in Tx, Undo(t), ~Holds(t)
    PROVE  AgreementInv'
<1>0. CoordinatorTypeOK /\ ReplayTypeOK /\ StateTypeOK /\ PublicationTypeOK
  BY DEF TypeOK
<1>1. \A u \in Tx : InOrder(u) /\ Captured(u) /\ (Holds(u) => Displaced(u))
  BY DEF AgreementInv
<1>2. /\ Unwind(t, {}) /\ pc[t] = "failing"
      /\ \/ "publication" \notin Retained(t) /\ UNCHANGED publicationVars
         \/ "publication" \in Retained(t) /\ RollbackPublication(t)
  BY <1>0, SoundUndo DEF Unwind
<1>3. /\ \A u \in Tx \ {t} : pc'[u] = pc[u] /\ status'[u] = status[u]
      /\ UNCHANGED <<accepted, baseRevision>>
      /\ pc'[t] = "rollingBack"
      /\ InOrder(t)' /\ Captured(t)' /\ ~Holds(t)'
  BY <1>0, <1>2, UnwoundRecord
<1>4. Untouched(t)
  BY <1>1, <1>2 DEF InOrder, StateRefused, PublicationRefused, AllApplied, Holds, Has,
                    SynchronousOwners
<1>5. /\ replay' = replay
      /\ \A u \in Tx \ {t} : proposal'[u] = proposal[u]
  <2>1. RollbackReplay(t, FALSE) \/ UNCHANGED replayVars
    BY <1>4 DEF Undo, Untouched, Holds
  <2> QED
    BY <1>0, <2>1 DEF RollbackReplay, ReleaseProposal, ReplayTypeOK, replayVars
<1>6. workspace'.value = workspace.value /\ UNCHANGED statePrep
  <2>1. RollbackState(t, FALSE) \/ UNCHANGED stateVars
    BY <1>4 DEF Undo, Untouched, Has
  <2> QED
    BY <1>0, <2>1 DEF RollbackState, Released, StateTypeOK, stateVars
<1>7. /\ UNCHANGED <<publication, store>>
      /\ \A u \in Tx \ {t} : pubStage'[u] = pubStage[u]
  <2>1. CASE UNCHANGED publicationVars
    BY <2>1 DEF publicationVars
  <2>2. CASE "publication" \in Retained(t) /\ RollbackPublication(t)
    <3>1. pubStage[t].state = "staged"
      BY <1>4, <2>2, RetainedOwners DEF Untouched, StagedOnly, Has, SynchronousOwners
    <3> QED
      BY <1>0, <2>2, <3>1 DEF RollbackPublication, SetStage, PublicationTypeOK
  <2> QED
    BY <1>2, <2>1, <2>2
<1>8. ASSUME NEW u \in Tx \ {t}
      PROVE  /\ InOrder(u)' /\ Captured(u)'
             /\ Hot(u)' => Hot(u)
             /\ Holds(u)' => Displaced(u)'
  <2>1. InOrder(u)' /\ (Hot(u)' => Hot(u)) /\ (Holds(u)' => Holds(u))
    BY <1>1, <1>3, <1>7, OrderKept
  <2>2. Captured(u)'
    BY <1>1, <1>3, <1>6, <1>7 DEF Captured
  <2>3. Displaced(u) => Displaced(u)'
    BY <1>3, <1>5, <1>6, <1>7 DEF Displaced, Has
  <2> QED
    BY <1>1, <2>1, <2>2, <2>3
<1>9. ~Hot(t)'
  BY <1>3 DEF Hot
<1>10. OneHot'
  BY <1>8, <1>9 DEF OneHot, AgreementInv
<1>11. ASSUME \A u \in Tx : ~Holds(u)'
       PROVE  AtRest'
  <2>1. \A u \in Tx \ {t} : ~Holds(u)
    BY <1>3, <1>11 DEF Holds
  <2>2. AtRest
    BY <2>1 DEF AgreementInv
  <2> QED
    BY <1>3, <1>5, <1>6, <1>7, <2>2 DEF AtRest
<1>12. publication'.accepted.tx = accepted'.tx
  BY <1>3, <1>7 DEF AgreementInv
<1> QED
  BY <1>3, <1>8, <1>10, <1>11, <1>12 DEF AgreementInv

\* The cleanup after a rollback releases identities and proposals only.
LEMMA SettlingAgrees ==
    ASSUME TypeOK, Sound, AgreementInv, NEW t \in Tx, Settle(t)
    PROVE  AgreementInv'
<1>0. ReplayTypeOK /\ StateTypeOK
  BY DEF TypeOK
<1>1. Passes(t)
  <2>1. (~disposed) \in BOOLEAN
    OBVIOUS
  <2>2. RolledBack(t, TRUE, ~disposed) \/ RolledBack(t, FALSE, ~disposed)
    BY DEF Settle
  <2> QED
    BY <2>1, <2>2 DEF Passes
<1>2. /\ UNCHANGED <<replay, publicationVars>>
      /\ \A u \in Tx : /\ proposal'[u].cursor = proposal[u].cursor
                       /\ proposal'[u].base = proposal[u].base
  BY <1>0 DEF Settle, ReleaseProposal, ReplayTypeOK
<1>3. workspace'.value = workspace.value /\ UNCHANGED statePrep
  BY <1>0 DEF Settle, ReleaseState, Released, StateTypeOK, stateVars
<1> QED
  BY <1>1, <1>2, <1>3, PassingAgrees

\* Playing, pausing and leaving move no accepted owner; an edit moves the
\* workspace and the store together, and neither to another transaction.
LEMMA InputAgrees ==
    ASSUME TypeOK, Sound, AgreementInv, Input \/ UNCHANGED vars
    PROVE  AgreementInv'
<1>0. CoordinatorTypeOK /\ ReplayTypeOK /\ StateTypeOK
  BY DEF TypeOK
<1>1. CASE UserPlays \/ UserPauses \/ DisposeComposition \/ UNCHANGED vars
  <2>1. UNCHANGED <<accepted, baseRevision, statePrep, publicationVars, proposal,
                    pc, status>>
    BY <1>1 DEF UserPlays, UserPauses, DisposeComposition, Dispose, Play, Pause, vars,
       coordinatorVars, ownerVars, replayVars, stateVars, recordVars
  <2>2. replay'.cursor = replay.cursor /\ replay'.revision = replay.revision
    BY <1>0, <1>1 DEF UserPlays, UserPauses, DisposeComposition, Play, Pause, vars,
       ownerVars, replayVars, ReplayTypeOK
  <2>3. workspace'.value = workspace.value
    BY <1>0, <1>1 DEF UserPlays, UserPauses, DisposeComposition, vars, ownerVars,
       stateVars, StateTypeOK
  <2>4. OwnersLeft /\ PaintsAlone /\ \A t \in Tx : Advances(t)
    BY <2>1, <2>2, <2>3 DEF OwnersLeft, PaintsAlone, Advances
  <2> QED
    BY <1>0, <2>4, LeftAloneAgrees
<1>2. CASE EditViewport
  <2>1. AtRest /\ \A t \in Tx : ~Hot(t)
    BY <1>0, <1>2, IdleAtRest DEF EditViewport
  <2>2. UNCHANGED <<accepted, baseRevision, statePrep, replay, proposal, pc, status,
                    publication, pubStage>>
    BY <1>2 DEF EditViewport, CommitLocal, SaveLocal, SaveLocalFails, coordinatorVars,
       replayVars, publicationVars
  <2>3. workspace'.value.tx = workspace.value.tx
    BY <1>0, <1>2 DEF EditViewport, CommitLocal, StateTypeOK, Values
  <2>4. ~store'.pending /\ store'.durable.tx = accepted.tx
    <3>1. store' = store \/ store' = Stored(workspace'.value, workspace'.value)
      BY <1>2 DEF EditViewport, SaveLocal, SaveLocalFails, Write, publicationVars
    <3> QED
      BY <2>1, <2>3, <3>1 DEF Stored, AtRest
  <2>5. AtRest'
    BY <2>1, <2>2, <2>3, <2>4 DEF AtRest
  <2>6. \A t \in Tx : InOrder(t)' /\ Captured(t)' /\ ~Hot(t)'
    <3>1. ASSUME NEW t \in Tx
          PROVE  InOrder(t)' /\ Captured(t)' /\ ~Hot(t)'
      <4>1. InOrder(t) /\ Captured(t)
        BY DEF AgreementInv
      <4>2. InOrder(t)' /\ ~Hot(t)'
        BY <2>1, <2>2, <4>1, OrderKept
      <4>3. Captured(t)'
        BY <2>2, <4>1 DEF Captured
      <4> QED
        BY <4>2, <4>3
    <3> QED
      BY <3>1
  <2> QED
    BY <2>2, <2>5, <2>6 DEF AgreementInv, OneHot, Hot
<1> QED
  BY <1>1, <1>2 DEF Input

\* Every step of the composition keeps the owners in agreement.
LEMMA AgreementStep ==
    ASSUME TypeOK, CountInv, KeyInv, FailsLate, AgreementInv, [Next]_vars
    PROVE  AgreementInv'
<1>1. Sound' => Sound
  BY NextCoordinates, SoundLasts DEF TypeOK
<1>2. SUFFICES ASSUME Sound, Sound'
               PROVE  AgreementInv'
  BY <1>1 DEF AgreementInv
<1>3. CASE Input \/ UNCHANGED vars
  BY <1>2, <1>3, InputAgrees
<1>4. ASSUME NEW t \in Tx, NEW deferred \in BOOLEAN, Submit(t, deferred)
      PROVE  AgreementInv'
  BY <1>2, <1>4, SubmissionAgrees
<1>5. ASSUME NEW t \in Tx, PrepareAction(t)
      PROVE  AgreementInv'
  BY <1>2, <1>5, WaitingAgrees, PreparationAgrees DEF PrepareAction
<1>6. ASSUME NEW t \in Tx, ApplyAction(t)
      PROVE  AgreementInv'
  BY <1>2, <1>6, PaintingAgrees, ApplyingAgrees DEF ApplyAction
<1>7. ASSUME NEW t \in Tx, DecideAction(t)
      PROVE  AgreementInv'
  BY <1>2, <1>7, DecisionAgrees, RefusalAgrees DEF DecideAction
<1>8. ASSUME NEW t \in Tx, UndoAction(t)
      PROVE  AgreementInv'
  BY <1>2, <1>8, RollbackAgrees, UntouchedRollbackAgrees, SettlingAgrees DEF UndoAction
<1> QED
  BY <1>3, <1>4, <1>5, <1>6, <1>7, <1>8 DEF Next, Execute

\* Initially every owner is at the initial snapshot.
LEMMA InitialAgreement ==
    ASSUME Init
    PROVE  FailsLate /\ AgreementInv
<1>1. \A t \in Tx : /\ pc[t] = "idle" /\ ~unrestored[t]
                    /\ \A p \in SynchronousOwners : status[t][p] = "none"
  BY DEF Init, CoordinatorInit, Participants
<1>2. \A t \in Tx : InOrder(t) /\ Captured(t) /\ ~Hot(t)
  BY <1>1 DEF InOrder, Captured, Hot, Holds, Has, Preparing, Staging, SynchronousOwners
<1>3. AtRest /\ publication.accepted.tx = accepted.tx
  BY DEF Init, CoordinatorInit, ReplayInit, StateInit, PublicationInit, InitialValue,
         Stored, AtRest
<1> QED
  BY <1>1, <1>2, <1>3 DEF FailsLate, AgreementInv, OneHot, Hot

\* The invariant of the composition, with what it rests on.
OwnersInv == TypeOK /\ CountInv /\ KeyInv /\ FailsLate /\ AgreementInv

\* It holds in every state.
LEMMA CompositionOwners == Spec => []OwnersInv
<1>1. Init => OwnersInv
  <2> SUFFICES ASSUME Init PROVE OwnersInv
    OBVIOUS
  <2>1. TypeOK /\ FailsLate /\ AgreementInv
    BY InitialOwnerTypes, InitialAgreement
  <2>2. CountInv
    BY InitialCount DEF Init
  <2>3. KeyInv
    BY DEF Init, PublicationInit, Stored, KeyInv, PersistedKeyIsDurable
  <2> QED
    BY <2>1, <2>2, <2>3 DEF OwnersInv
<1>2. OwnersInv /\ [Next]_vars => OwnersInv'
  <2> SUFFICES ASSUME OwnersInv, [Next]_vars PROVE OwnersInv'
    OBVIOUS
  <2>1. TypeOK' /\ AgreementInv'
    BY OwnerTypesStep, AgreementStep DEF OwnersInv
  <2>2. CountInv' /\ FailsLate'
    BY NextCoordinates, CountStep, SoundLasts DEF OwnersInv, TypeOK
  <2>3. KeyInv'
    BY NextMovesOwners, KeyStep DEF OwnersInv, TypeOK, OwnersMove
  <2> QED
    BY <2>1, <2>2, <2>3 DEF OwnersInv
<1> QED
  BY <1>1, <1>2, PTL DEF Spec
-----------------------------------------------------------------------------
(* Revisions and edits.                                                    *)
(*                                                                         *)
(* RevisionsAccountForEdits compares the workspace with the accepted       *)
(* transaction.  Inductive is that the value a transaction captured to     *)
(* roll back to is accounted for as well, for as long as it is the         *)
(* accepted one, and what the workspace is once t replaced it.             *)

\* A workspace value v of revision r contains the edits made since the
\* accepted transaction replaced the workspace.
Accounted(v, r) ==
    IF accepted.tx = NoTx THEN v.edits = r
    ELSE v.edits + statePrep[accepted.tx].revision + 1 = r + basis[accepted.tx]

Replaces(t) == Holds(t) /\ Has(t, "workspaceState", "applied")

\* What t captured, while it may still commit.
CaptureAccounted(t) ==
    pc[t] \in Staging /\ baseRevision[t] = accepted.revision =>
        Accounted(statePrep[t].value, statePrep[t].revision)

\* The workspace t replaced, and the one it can put back.
Replaced(t) ==
    /\ workspace.value = StateCandidate(t)
    /\ workspace.revision = statePrep[t].revision + 1
    /\ statePrep[t].revision = accepted.revision + editCount
    /\ Accounted(statePrep[t].value, statePrep[t].revision)

WorkspaceAccounted ==
    /\ workspace.revision = accepted.revision + editCount
    /\ Accounted(workspace.value, workspace.revision)

EditsInv ==
    Sound =>
        /\ \A t \in Tx : CaptureAccounted(t)
        /\ \A t \in Tx : Replaces(t) => Replaced(t)
        /\ (\A t \in Tx : ~Replaces(t)) => WorkspaceAccounted

\* A transaction under way is not the accepted one.
LEMMA PendingIsNotAccepted ==
    ASSUME CountInv, NEW t \in Tx, pc[t] # "done"
    PROVE  accepted.tx # t
<1>1. terminal[t] = "none"
  BY DEF CountInv, TerminalsReturned
<1>2. t # NoTx
  BY TransactionsAssumption
<1> QED
  BY <1>1, <1>2 DEF CountInv, AcceptedCountsCommits

\* What was captured stays accounted for while nobody commits.
LEMMA AccountKept ==
    ASSUME UNCHANGED <<accepted, statePrep>>,
           accepted.tx # NoTx => basis'[accepted.tx] = basis[accepted.tx],
           NEW v, NEW r, Accounted(v, r)
    PROVE  Accounted(v, r)'
BY DEF Accounted

\* A step that moves neither the workspace nor a transaction that replaced it
\* keeps the account.
LEMMA LeftAloneAccounts ==
    ASSUME Sound, EditsInv,
           UNCHANGED <<accepted, baseRevision, statePrep, editCount>>,
           workspace'.value = workspace.value,
           workspace'.revision = workspace.revision,
           accepted.tx # NoTx => basis'[accepted.tx] = basis[accepted.tx],
           \A u \in Tx : /\ pc'[u] \in Staging => pc[u] \in Staging
                         /\ Replaces(u)' <=> Replaces(u)
                         /\ Replaces(u) => basis'[u] = basis[u]
    PROVE  EditsInv'
<1>1. \A v, r : Accounted(v, r) => Accounted(v, r)'
  BY AccountKept
<1>2. ASSUME NEW u \in Tx
      PROVE  CaptureAccounted(u)'
  <2>1. CaptureAccounted(u)
    BY DEF EditsInv
  <2> QED
    BY <1>1, <2>1 DEF CaptureAccounted
<1>3. ASSUME NEW u \in Tx, Replaces(u)'
      PROVE  Replaced(u)'
  <2>1. Replaced(u) /\ basis'[u] = basis[u]
    BY <1>3 DEF EditsInv
  <2> QED
    BY <1>1, <2>1 DEF Replaced, StateCandidate
<1>4. ASSUME \A u \in Tx : ~Replaces(u)'
      PROVE  WorkspaceAccounted'
  <2>1. WorkspaceAccounted
    BY <1>4 DEF EditsInv
  <2> QED
    BY <1>1, <2>1 DEF WorkspaceAccounted
<1> QED
  BY <1>2, <1>3, <1>4 DEF EditsInv

\* So do the steps of the executor between two decisions about the owners.
LEMMA PassingAccounts ==
    ASSUME CoordinatorTypeOK, Sound, EditsInv, NEW t \in Tx, Passes(t),
           UNCHANGED <<statePrep, editCount>>,
           workspace'.value = workspace.value,
           workspace'.revision = workspace.revision,
           accepted.tx # NoTx => basis'[accepted.tx] = basis[accepted.tx],
           \A u \in Tx : Replaces(u) => basis'[u] = basis[u]
    PROVE  EditsInv'
<1>1. /\ UNCHANGED <<accepted, baseRevision>>
      /\ \A u \in Tx, p \in SynchronousOwners : status'[u][p] = status[u][p]
      /\ \A u \in Tx \ {t} : pc'[u] = pc[u]
      /\ Advances(t)
  BY PassingMoves
<1>2. \A u \in Tx : Replaces(u)' <=> Replaces(u)
  BY <1>1 DEF Replaces, Holds, Has, SynchronousOwners
<1>3. ASSUME NEW u \in Tx, pc'[u] \in Staging
      PROVE  pc[u] \in Staging
  BY <1>1, <1>3 DEF Advances, Preparing, Staging
<1> QED
  BY <1>1, <1>2, <1>3, LeftAloneAccounts

\* Submitting an intent reads the basis of a transaction nobody counts on yet.
LEMMA SubmissionAccounts ==
    ASSUME TypeOK, CountInv, Sound, AgreementInv, EditsInv,
           NEW t \in Tx, NEW deferred \in BOOLEAN, Submit(t, deferred)
    PROVE  EditsInv'
<1>0. CoordinatorTypeOK /\ StateTypeOK
  BY DEF TypeOK
<1>1. Begin(t) /\ pc[t] = "idle" /\ DeriveCandidate(t)
  BY DEF Submit, Begin
<1>2. ~Replaces(t)
  BY <1>1, PreparingHoldsNothing DEF Preparing, Replaces
<1>3. accepted.tx # t /\ accepted.tx \in Names
  BY <1>0, <1>1, PendingIsNotAccepted DEF CoordinatorTypeOK
<1>4. /\ UNCHANGED <<workspace, statePrep, editCount>>
      /\ \A u \in Tx \ {t} : basis'[u] = basis[u]
  BY <1>0, <1>1 DEF DeriveCandidate, StateTypeOK
<1> QED
  BY <1>0, <1>1, <1>2, <1>3, <1>4, PassingAccounts DEF Passes, Names

\* Waiting for ports, painting and settling move identities only.
LEMMA WaitingAccounts ==
    ASSUME TypeOK, CountInv, Sound, AgreementInv, EditsInv, NEW t \in Tx,
           \/ ProposalArrives(t) \/ TargetResolves(t) \/ Acquire(t) \/ Project(t)
           \/ PortFails(t) \/ StartPaint(t) \/ PaintRefused(t) \/ Unpainted(t)
           \/ RefuseDecision(t) \/ Settle(t)
    PROVE  EditsInv'
<1>0. CoordinatorTypeOK /\ StateTypeOK
  BY DEF TypeOK
<1>1. Passes(t)
  <2>1. CASE Settle(t)
    <3>1. (~disposed) \in BOOLEAN
      OBVIOUS
    <3>2. RolledBack(t, TRUE, ~disposed) \/ RolledBack(t, FALSE, ~disposed)
      BY <2>1 DEF Settle
    <3> QED
      BY <3>1, <3>2 DEF Passes
  <2> QED
    BY <2>1 DEF ProposalArrives, TargetResolves, Acquire, Project, PortFails,
       StartPaint, PaintRefused, Unpainted, RefuseDecision, Passes
<1>2. /\ UNCHANGED <<statePrep, editCount, basis>>
      /\ workspace'.value = workspace.value
      /\ workspace'.revision = workspace.revision
  <2>1. UNCHANGED stateVars \/ ReleaseState(t)
    BY DEF ProposalArrives, TargetResolves, Acquire, Project, PortFails, StartPaint,
       PaintRefused, Unpainted, RefuseDecision, Settle, ownerVars
  <2> QED
    BY <1>0, <2>1 DEF ReleaseState, Released, StateTypeOK, stateVars
<1> QED
  BY <1>0, <1>1, <1>2, PassingAccounts

\* Preparing captures a workspace that is accounted for.
LEMMA PreparationAccounts ==
    ASSUME TypeOK, CountInv, Sound, AgreementInv, EditsInv, NEW t \in Tx, Prepare(t)
    PROVE  EditsInv'
<1>0. CoordinatorTypeOK /\ StateTypeOK
  BY DEF TypeOK
<1>1. CASE Prepared(t, {"chart"}) /\ UNCHANGED stateVars
  BY <1>0, <1>1, PassingAccounts DEF Passes, stateVars
<1>2. ASSUME Prepared(t, Participants), BeginAndPrepareState(t)
      PROVE  EditsInv'
  <2>1. pc[t] = "staging" /\ \A u \in Tx : ~Hot(u)
    BY <1>0, IdleAtRest DEF Prepare
  <2>2. WorkspaceAccounted
    BY <2>1 DEF EditsInv, Replaces, Hot
  <2>3. /\ UNCHANGED accepted
        /\ \A p \in SynchronousOwners : status'[t][p] = "prepared"
        /\ \A u \in Tx \ {t} : /\ status'[u] = status[u] /\ pc'[u] = pc[u]
                               /\ baseRevision'[u] = baseRevision[u]
    BY <1>0, <1>2 DEF Prepared, SetStatus, Continue, Interrupt, Throw, GoTo,
       CoordinatorTypeOK, decisionVars, Participants
  <2>4. /\ UNCHANGED <<basis, editCount>>
        /\ workspace'.value = workspace.value
        /\ workspace'.revision = workspace.revision
        /\ statePrep'[t].value = workspace.value
        /\ statePrep'[t].revision = workspace.revision
        /\ \A u \in Tx \ {t} : statePrep'[u] = statePrep[u]
    BY <1>0, <1>2 DEF BeginAndPrepareState, StateTypeOK
  <2>5. accepted.tx # t /\ accepted.tx \in Names
    BY <1>0, <2>1, PendingIsNotAccepted DEF CoordinatorTypeOK
  <2>6. ASSUME NEW v, NEW r, Accounted(v, r)
        PROVE  Accounted(v, r)'
    <3>1. accepted.tx # NoTx => statePrep'[accepted.tx] = statePrep[accepted.tx]
      BY <2>4, <2>5 DEF Names
    <3> QED
      BY <2>3, <2>4, <2>6, <3>1 DEF Accounted
  <2>7. \A u \in Tx : ~Replaces(u)'
    BY <2>1, <2>3 DEF Replaces, Holds, Hot, SynchronousOwners
  <2>8. WorkspaceAccounted'
    BY <2>2, <2>3, <2>4, <2>6 DEF WorkspaceAccounted
  <2>9. ASSUME NEW u \in Tx
        PROVE  CaptureAccounted(u)'
    <3>1. CASE u = t
      BY <2>2, <2>4, <2>6, <3>1 DEF CaptureAccounted, WorkspaceAccounted
    <3>2. CASE u # t
      <4>1. CaptureAccounted(u)
        BY DEF EditsInv
      <4> QED
        BY <2>3, <2>4, <2>6, <3>2, <4>1 DEF CaptureAccounted
    <3> QED
      BY <3>1, <3>2
  <2> QED
    BY <2>7, <2>8, <2>9 DEF EditsInv
<1> QED
  BY <1>1, <1>2 DEF Prepare

\* A step of the hot transaction accounts for the workspace it leaves.
LEMMA HotStepAccounts ==
    ASSUME TypeOK, Sound, EditsInv, NEW t \in Tx,
           \A u \in Tx \ {t} : /\ ~Hot(u) /\ Captured(u)
                               /\ pc'[u] = pc[u] /\ status'[u] = status[u],
           UNCHANGED <<baseRevision, statePrep, basis>>,
           accepted' = accepted \/ accepted'.revision = accepted.revision + 1,
           pc'[t] \notin Staging,
           Replaces(t)' => Replaced(t)', ~Replaces(t)' => WorkspaceAccounted'
    PROVE  EditsInv'
<1>0. baseRevision \in [Tx -> Nat] /\ accepted.revision \in Nat
  BY DEF TypeOK, CoordinatorTypeOK
<1>1. ASSUME NEW u \in Tx
      PROVE  CaptureAccounted(u)'
  <2>1. CASE u = t
    BY <2>1 DEF CaptureAccounted
  <2>2. CASE u # t /\ accepted' = accepted
    <3>1. \A v, r : Accounted(v, r) => Accounted(v, r)'
      BY <2>2, AccountKept
    <3>2. CaptureAccounted(u)
      BY DEF EditsInv
    <3> QED
      BY <2>2, <3>1, <3>2 DEF CaptureAccounted
  <2>3. CASE u # t /\ accepted'.revision = accepted.revision + 1
    BY <1>0, <2>3 DEF CaptureAccounted, Captured
  <2> QED
    BY <2>1, <2>2, <2>3
<1>2. \A u \in Tx \ {t} : ~Replaces(u)'
  BY DEF Replaces, Holds, Hot
<1> QED
  BY <1>1, <1>2 DEF EditsInv

\* A proved paint moves no owner that has a workspace.
LEMMA PaintedAccounts ==
    ASSUME TypeOK, Sound, EditsInv, NEW t \in Tx, Painted(t)
    PROVE  EditsInv'
<1>0. CoordinatorTypeOK
  BY DEF TypeOK
<1>1. ChartApplied(t) /\ UNCHANGED stateVars
  BY DEF Painted
<1>2. /\ pc[t] = "painting" /\ pc' = [pc EXCEPT ![t] = "painted"]
      /\ UNCHANGED <<accepted, baseRevision>>
      /\ SetStatus(t, {"chart"}, "applied")
  BY <1>1 DEF ChartApplied, GoTo, decisionVars, recordVars
<1>3. \A u \in Tx : Replaces(u)' <=> Replaces(u)
  <2>1. \A u \in Tx, p \in SynchronousOwners : status'[u][p] = status[u][p]
    BY <1>0, <1>2 DEF SetStatus, CoordinatorTypeOK, Participants, SynchronousOwners
  <2> QED
    BY <2>1 DEF Replaces, Holds, Has, SynchronousOwners
<1>4. \A u \in Tx : pc'[u] \in Staging => pc[u] \in Staging
  BY <1>0, <1>2 DEF Staging, CoordinatorTypeOK
<1> QED
  BY <1>1, <1>2, <1>3, <1>4, LeftAloneAccounts DEF stateVars

\* Applying replaces the workspace at the revision that was captured, so what
\* was captured is what is replaced.
LEMMA ApplyingAccounts ==
    ASSUME TypeOK, CountInv, Sound, AgreementInv, EditsInv, NEW t \in Tx, ApplyOwners(t)
    PROVE  EditsInv'
<1>0. CoordinatorTypeOK /\ StateTypeOK
  BY DEF TypeOK
<1>1. pc[t] = "painted" /\ Hot(t)
  BY DEF ApplyOwners, Hot
<1>2. /\ \A u \in Tx \ {t} : ~Hot(u) /\ Captured(u)
      /\ InOrder(t)
  BY <1>0, <1>1, HotIsAlone
<1>3. \A u \in Tx : ~Replaces(u)
  BY <1>1, <1>2 DEF InOrder, Staging, Has, Replaces, Holds, Hot, SynchronousOwners
<1>4. WorkspaceAccounted /\ CaptureAccounted(t)
  BY <1>3 DEF EditsInv
<1>5. CASE OwnersApplied(t, {}, FALSE) /\ UNCHANGED stateVars
  BY <1>0, <1>5, PassingAccounts DEF Passes, stateVars
<1>6. CASE OwnersApplied(t, {"replay"}, FALSE) /\ UNCHANGED stateVars
  <2>1. {"replay"} \in AppliedSets /\ {"replay"} # {}
    BY DEF AppliedSets
  <2>2. PICK restored \in BOOLEAN : ~restored /\ OwnersApplied(t, {"replay"}, restored)
    BY <1>6
  <2>3. /\ \A u \in Tx \ {t} : pc'[u] = pc[u] /\ status'[u] = status[u]
        /\ UNCHANGED <<accepted, baseRevision>>
        /\ pc'[t] \in {"applied", "failing"}
        /\ \A p \in SynchronousOwners \ {"replay"} : status'[t][p] = status[t][p]
    BY <1>0, <2>1, <2>2, AppliedStatus
  <2>4. ~Replaces(t)'
    <3>1. status'[t]["workspaceState"] = status[t]["workspaceState"]
      BY <2>3 DEF SynchronousOwners
    <3> QED
      BY <1>1, <1>2, <3>1 DEF Replaces, Has, InOrder, Staging, SynchronousOwners
  <2>5. WorkspaceAccounted'
    BY <1>4, <1>6, <2>3 DEF WorkspaceAccounted, Accounted, stateVars
  <2> QED
    BY <1>2, <1>6, <2>3, <2>4, <2>5, HotStepAccounts DEF stateVars, Staging
<1>7. ASSUME NEW ps \in {{"replay", "workspaceState"}, SynchronousOwners},
             NEW restored \in BOOLEAN, OwnersApplied(t, ps, restored),
             ApplyState(t), StateAppliable(t), Publishable(t)
      PROVE  EditsInv'
  <2>0. ps \in AppliedSets /\ ps # {} /\ {"replay", "workspaceState"} \subseteq ps
    BY <1>7 DEF AppliedSets, SynchronousOwners
  <2>1. /\ \A u \in Tx \ {t} : pc'[u] = pc[u] /\ status'[u] = status[u]
        /\ UNCHANGED <<accepted, baseRevision>>
        /\ pc'[t] \in {"applied", "failing"}
        /\ \A p \in ps : status'[t][p] = "applied"
    BY <1>0, <1>7, <2>0, AppliedStatus
  <2>2. /\ UNCHANGED <<basis, statePrep, editCount>>
        /\ workspace'.value = StateCandidate(t)
        /\ workspace'.revision = statePrep[t].revision + 1
    BY <1>0, <1>7 DEF ApplyState, StateTypeOK
  <2>3. Replaced(t)'
    <3>1. statePrep[t].revision = accepted.revision + editCount
      BY <1>4, <1>7 DEF StateAppliable, WorkspaceAccounted
    <3>2. Accounted(statePrep[t].value, statePrep[t].revision)
      BY <1>1, <1>4, <1>7 DEF CaptureAccounted, Publishable, Staging
    <3> QED
      BY <2>1, <2>2, <3>1, <3>2 DEF Replaced, Accounted, StateCandidate
  <2>4. Replaces(t)'
    BY <2>0, <2>1 DEF Replaces, Holds, Has
  <2> QED
    BY <1>2, <2>1, <2>2, <2>3, <2>4, HotStepAccounts DEF Staging
<1>8. \/ OwnersApplied(t, {}, FALSE) /\ UNCHANGED stateVars
      \/ OwnersApplied(t, {"replay"}, FALSE) /\ UNCHANGED stateVars
      \/ /\ \E ps \in {{"replay", "workspaceState"}, SynchronousOwners},
               restored \in BOOLEAN : OwnersApplied(t, ps, restored)
         /\ ApplyState(t) /\ StateAppliable(t) /\ Publishable(t)
  BY DEF ApplyOwners
<1> QED
  BY <1>5, <1>6, <1>7, <1>8

\* Committing, the workspace the transaction left is accounted for by what it
\* captured, its own commit and its own basis.
LEMMA DecisionAccounts ==
    ASSUME TypeOK, Sound, AgreementInv, EditsInv, Sound', NEW t \in Tx, Finalize(t)
    PROVE  EditsInv'
<1>0. CoordinatorTypeOK /\ StateTypeOK
  BY DEF TypeOK
<1>1. PICK done \in SUBSET Participants, complete \in BOOLEAN :
          Finalized(t, done, complete)
  <2>1. DecideStep(t)
    BY DecideActionCoordinates DEF DecideAction
  <2>2. ~DecisionRefused(t)
    BY DEF Finalize, Finalized, DecisionRefused
  <2> QED
    BY <2>1, <2>2 DEF DecideStep
<1>2. done = Participants
  BY <1>1 DEF Finalized, Sound
<1>3. /\ pc[t] = "applied" /\ pc' = [pc EXCEPT ![t] = "done"]
      /\ SetStatus(t, Participants, "finalized")
      /\ accepted' = [tx |-> t, revision |-> accepted.revision + 1]
      /\ UNCHANGED baseRevision
  BY <1>1, <1>2 DEF Finalized, GoTo, Publish, recordVars
<1>4. /\ \A u \in Tx \ {t} : pc'[u] = pc[u] /\ status'[u] = status[u]
      /\ pc'[t] = "done"
      /\ \A p \in SynchronousOwners : status'[t][p] = "finalized"
  BY <1>0, <1>3 DEF SetStatus, CoordinatorTypeOK, Participants
<1>5. AllApplied(t) /\ Holds(t)
  BY <1>3 DEF AgreementInv, InOrder, AllApplied, Has, Holds, SynchronousOwners
<1>6. \A u \in Tx \ {t} : ~Hot(u) /\ Captured(u)
  BY <1>0, <1>5, HotIsAlone DEF Hot
<1>7. Replaced(t)
  BY <1>5 DEF EditsInv, Replaces, AllApplied, SynchronousOwners
<1>8. /\ workspace'.value = workspace.value /\ workspace'.revision = workspace.revision
      /\ UNCHANGED <<statePrep, basis, editCount>>
  <2>1. ReleaseState(t) \/ UNCHANGED stateVars
    BY DEF Finalize
  <2> QED
    BY <1>0, <2>1 DEF ReleaseState, Released, StateTypeOK, stateVars
<1>9. ~Replaces(t)'
  BY <1>4 DEF Replaces, Holds, SynchronousOwners
<1>10. WorkspaceAccounted'
  <2>1. /\ accepted'.tx = t /\ accepted'.revision = accepted.revision + 1
        /\ t # NoTx
    BY <1>3, TransactionsAssumption
  <2>2. /\ accepted.revision \in Nat /\ editCount \in Nat /\ basis[t] \in Nat
        /\ statePrep[t].revision \in Nat
    BY <1>0 DEF CoordinatorTypeOK, StateTypeOK
  <2>3. /\ workspace'.value.edits = basis[t]
        /\ workspace'.revision = statePrep[t].revision + 1
        /\ statePrep[t].revision = accepted.revision + editCount
    BY <1>7, <1>8 DEF Replaced, StateCandidate
  <2> QED
    BY <1>8, <2>1, <2>2, <2>3 DEF WorkspaceAccounted, Accounted
<1>11. pc'[t] \notin Staging
  BY <1>4 DEF Staging
<1> QED
  BY <1>3, <1>4, <1>6, <1>8, <1>9, <1>10, <1>11, HotStepAccounts

\* A rollback puts back the workspace and the revision that were captured.
LEMMA RollbackAccounts ==
    ASSUME TypeOK, Sound, AgreementInv, EditsInv, Sound', NEW t \in Tx, Undo(t)
    PROVE  EditsInv'
<1>0. CoordinatorTypeOK /\ StateTypeOK
  BY DEF TypeOK
<1>1. Unwind(t, {})
  BY <1>0, SoundUndo
<1>2. /\ \A u \in Tx \ {t} : pc'[u] = pc[u] /\ status'[u] = status[u]
      /\ UNCHANGED <<accepted, baseRevision>>
      /\ pc[t] = "failing" /\ pc'[t] = "rollingBack"
      /\ ~Holds(t)'
  BY <1>0, <1>1, UnwoundRecord
<1>3. ~Replaces(t)' /\ pc'[t] \notin Staging
  BY <1>2 DEF Replaces, Staging
<1>4. CASE Replaces(t)
  <2>1. \A u \in Tx \ {t} : ~Hot(u) /\ Captured(u)
    BY <1>0, <1>4, HotIsAlone DEF Hot, Replaces
  <2>2. Replaced(t)
    BY <1>4 DEF EditsInv
  <2>3. RollbackState(t, TRUE)
    <3>1. "workspaceState" \in Retained(t)
      BY <1>4, RetainedOwners DEF Replaces, SynchronousOwners
    <3> QED
      BY <1>4, <3>1 DEF Undo, Replaces, Has
  <2>4. /\ UNCHANGED <<statePrep, basis, editCount>>
        /\ workspace'.value = statePrep[t].value
        /\ workspace'.revision = statePrep[t].revision
    BY <1>0, <2>3 DEF RollbackState, Released, StateTypeOK
  <2>5. WorkspaceAccounted'
    BY <1>2, <2>2, <2>4 DEF WorkspaceAccounted, Accounted, Replaced
  <2> QED
    BY <1>2, <1>3, <2>1, <2>4, <2>5, HotStepAccounts
<1>5. CASE ~Replaces(t)
  <2>1. RollbackState(t, FALSE) \/ UNCHANGED stateVars
    <3>1. Has(t, "workspaceState", "applied") => Holds(t)
      BY <1>2 DEF AgreementInv, InOrder, Untouched, StateRefused, PublicationRefused,
         AllApplied, Has, Holds, SynchronousOwners
    <3> QED
      BY <1>5, <3>1 DEF Undo, Replaces, Has
  <2>2. /\ UNCHANGED <<statePrep, basis, editCount>>
        /\ workspace'.value = workspace.value
        /\ workspace'.revision = workspace.revision
    BY <1>0, <2>1 DEF RollbackState, Released, StateTypeOK, stateVars
  <2>3. ASSUME NEW u \in Tx
        PROVE  /\ pc'[u] \in Staging => pc[u] \in Staging
               /\ Replaces(u)' <=> Replaces(u)
    <3>1. CASE u = t
      BY <1>3, <1>5, <3>1
    <3>2. CASE u # t
      BY <1>2, <3>2 DEF Replaces, Holds, Has
    <3> QED
      BY <3>1, <3>2
  <2> QED
    BY <1>2, <2>2, <2>3, LeftAloneAccounts
<1> QED
  BY <1>4, <1>5

\* An edit is one revision and one edit, of a workspace at rest.
LEMMA InputAccounts ==
    ASSUME TypeOK, Sound, AgreementInv, EditsInv, Input \/ UNCHANGED vars
    PROVE  EditsInv'
<1>0. CoordinatorTypeOK /\ StateTypeOK
  BY DEF TypeOK
<1>1. UNCHANGED <<accepted, baseRevision, statePrep, basis, pc, status>>
  BY DEF Input, EditViewport, UserPlays, UserPauses, DisposeComposition, CommitLocal,
     Dispose, vars, coordinatorVars, ownerVars, stateVars, recordVars
<1>2. \A u \in Tx : Replaces(u)' <=> Replaces(u)
  BY <1>1 DEF Replaces, Holds, Has
<1>3. CASE UserPlays \/ UserPauses \/ DisposeComposition \/ UNCHANGED vars
  <2>1. /\ workspace'.value = workspace.value
        /\ workspace'.revision = workspace.revision
        /\ UNCHANGED editCount
    BY <1>0, <1>3 DEF UserPlays, UserPauses, DisposeComposition, vars, ownerVars,
       stateVars, StateTypeOK
  <2> QED
    BY <1>1, <1>2, <2>1, LeftAloneAccounts
<1>4. CASE EditViewport
  <2>1. \A u \in Tx : ~Replaces(u)
    BY <1>0, <1>4, IdleAtRest DEF EditViewport, Hot, Replaces
  <2>2. /\ workspace'.value.edits = workspace.value.edits + 1
        /\ workspace'.revision = workspace.revision + 1
        /\ editCount' = editCount + 1
    BY <1>0, <1>4 DEF EditViewport, CommitLocal, StateTypeOK, Values
  <2>3. WorkspaceAccounted'
    <3>1. WorkspaceAccounted
      BY <2>1 DEF EditsInv
    <3>2. /\ workspace.value.edits \in Nat /\ workspace.revision \in Nat
          /\ accepted.revision \in Nat /\ editCount \in Nat
      BY <1>0 DEF StateTypeOK, Values, CoordinatorTypeOK
    <3>3. CASE accepted.tx = NoTx
      BY <1>1, <2>2, <3>1, <3>2, <3>3 DEF WorkspaceAccounted, Accounted
    <3>4. CASE accepted.tx # NoTx
      <4>1. statePrep[accepted.tx].revision \in Nat /\ basis[accepted.tx] \in Nat
        BY <1>0, <3>4 DEF StateTypeOK, CoordinatorTypeOK, Names
      <4> QED
        BY <1>1, <2>2, <3>1, <3>2, <3>4, <4>1 DEF WorkspaceAccounted, Accounted
    <3> QED
      BY <3>3, <3>4
  <2>4. ASSUME NEW u \in Tx
        PROVE  CaptureAccounted(u)'
    <3>1. CaptureAccounted(u)
      BY DEF EditsInv
    <3> QED
      BY <1>1, <3>1 DEF CaptureAccounted, Accounted
  <2> QED
    BY <1>2, <2>1, <2>3, <2>4 DEF EditsInv
<1> QED
  BY <1>3, <1>4 DEF Input

\* Every step of the composition accounts for its revisions and its edits.
LEMMA EditsStep ==
    ASSUME OwnersInv, EditsInv, [Next]_vars
    PROVE  EditsInv'
<1>1. TypeOK /\ CountInv /\ FailsLate /\ AgreementInv
  BY DEF OwnersInv
<1>2. Sound' => Sound
  BY <1>1, NextCoordinates, SoundLasts DEF TypeOK
<1>3. SUFFICES ASSUME Sound, Sound'
               PROVE  EditsInv'
  BY <1>2 DEF EditsInv
<1>4. CASE Input \/ UNCHANGED vars
  BY <1>1, <1>3, <1>4, InputAccounts
<1>5. ASSUME NEW t \in Tx, NEW deferred \in BOOLEAN, Submit(t, deferred)
      PROVE  EditsInv'
  BY <1>1, <1>3, <1>5, SubmissionAccounts
<1>6. ASSUME NEW t \in Tx, PrepareAction(t)
      PROVE  EditsInv'
  BY <1>1, <1>3, <1>6, WaitingAccounts, PreparationAccounts DEF PrepareAction
<1>7. ASSUME NEW t \in Tx, ApplyAction(t)
      PROVE  EditsInv'
  BY <1>1, <1>3, <1>7, WaitingAccounts, PaintedAccounts, ApplyingAccounts DEF ApplyAction
<1>8. ASSUME NEW t \in Tx, DecideAction(t)
      PROVE  EditsInv'
  BY <1>1, <1>3, <1>8, WaitingAccounts, DecisionAccounts DEF DecideAction
<1>9. ASSUME NEW t \in Tx, UndoAction(t)
      PROVE  EditsInv'
  BY <1>1, <1>3, <1>9, WaitingAccounts, RollbackAccounts DEF UndoAction
<1> QED
  BY <1>4, <1>5, <1>6, <1>7, <1>8, <1>9 DEF Next, Execute

\* At first nothing is captured, and the workspace is accounted for.
LEMMA InitialAccount ==
    ASSUME Init
    PROVE  EditsInv
<1>1. \A t \in Tx : pc[t] = "idle" /\ status[t]["replay"] = "none"
  BY DEF Init, CoordinatorInit, Participants, SynchronousOwners
<1>2. WorkspaceAccounted
  BY DEF Init, CoordinatorInit, StateInit, InitialValue, WorkspaceAccounted, Accounted
<1> QED
  BY <1>1, <1>2 DEF EditsInv, CaptureAccounted, Replaces, Holds, Staging

\* Whether or not intents overlap, and however many edits fall between the
\* steps of a transaction: the semantic revision is the number of commits and
\* edits, and the workspace contains exactly the edits made since the accepted
\* transaction replaced it.  One that was refused, superseded or rolled back
\* neither dropped nor repeated an edit (workspace-state-runtime.js:268-348).
THEOREM CompositionRevisionsAccount == Spec => []RevisionsAccountForEdits
<1>1. Init => EditsInv
  BY InitialAccount
<1>2. OwnersInv /\ EditsInv /\ [Next]_vars => EditsInv'
  BY EditsStep
<1>3. OwnersInv /\ EditsInv => RevisionsAccountForEdits
  <2> SUFFICES ASSUME OwnersInv, EditsInv, Undisturbed
               PROVE  RevisionsAccountForEdits
    BY DEF RevisionsAccountForEdits
  <2>1. WorkspaceAccounted
    BY DEF EditsInv, Undisturbed, Sound, Replaces, Holds
  <2>2. workspace.revision \in Nat /\ workspace.value.edits \in Nat
    BY DEF OwnersInv, TypeOK, StateTypeOK, Values
  <2>3. CASE accepted.tx = NoTx
    BY <2>1, <2>2, <2>3 DEF WorkspaceAccounted, Accounted, RevisionsAccountForEdits
  <2>4. CASE accepted.tx # NoTx
    <3>1. statePrep[accepted.tx].revision \in Nat /\ basis[accepted.tx] \in Nat
      BY <2>4 DEF OwnersInv, TypeOK, StateTypeOK, CoordinatorTypeOK, Names
    <3> QED
      BY <2>1, <2>2, <2>4, <3>1
         DEF WorkspaceAccounted, Accounted, RevisionsAccountForEdits
  <2> QED
    BY <2>3, <2>4
<1> QED
  BY <1>1, <1>2, <1>3, CompositionOwners, PTL DEF Spec
-----------------------------------------------------------------------------
(* What is durable.                                                        *)
(*                                                                         *)
(* The durable checkpoint is the workspace's own value, edits included, or *)
(* the one a transaction that holds the clock would put back.  That the    *)
(* value a transaction captured is the one it replaces rests on the        *)
(* account of the edits: one revision has one value.                       *)

\* The workspace that the rollback of t would leave.
Kept(t) == IF Has(t, "workspaceState", "applied") THEN statePrep[t].value
           ELSE workspace.value

\* What is durable while t holds the clock.
Recoverable(t) ==
    IF Has(t, "publication", "applied")
    THEN store.durable = workspace.value /\ store.previousDurable = Kept(t)
    ELSE store.durable = Kept(t)

DurableInv ==
    Sound /\ "save" \notin Faults =>
        /\ \A t \in Tx : Holds(t) => Recoverable(t)
        /\ (\A t \in Tx : ~Holds(t)) => store.durable = workspace.value

\* Two values of one revision, both accounted for, are one value.
LEMMA OneValuePerRevision ==
    ASSUME TypeOK, NEW v \in Values, NEW w \in Values, NEW r \in Nat,
           Accounted(v, r), Accounted(w, r), v.tx = w.tx
    PROVE  v = w
<1>1. v.edits \in Nat /\ w.edits \in Nat
  BY DEF Values
<1>2. v.edits = w.edits
  <2>1. CASE accepted.tx = NoTx
    BY <2>1 DEF Accounted
  <2>2. CASE accepted.tx # NoTx
    <3>1. statePrep[accepted.tx].revision \in Nat /\ basis[accepted.tx] \in Nat
      BY <2>2 DEF TypeOK, CoordinatorTypeOK, StateTypeOK, Names
    <3> QED
      BY <1>1, <2>2, <3>1 DEF Accounted
  <2> QED
    BY <2>1, <2>2
<1> QED
  BY <1>2 DEF Values

\* A step that moves neither the store nor the workspace keeps what is durable.
LEMMA LeftAloneDurable ==
    ASSUME Sound, DurableInv, UNCHANGED store, workspace'.value = workspace.value,
           \A u \in Tx : /\ Holds(u)' <=> Holds(u)
                         /\ Holds(u) =>
                               /\ \A p \in SynchronousOwners : status'[u][p] = status[u][p]
                               /\ statePrep'[u] = statePrep[u]
    PROVE  DurableInv'
<1> SUFFICES ASSUME "save" \notin Faults
             PROVE  DurableInv'
  BY DEF DurableInv
<1>1. ASSUME NEW u \in Tx, Holds(u)'
      PROVE  Recoverable(u)'
  <2>1. /\ Recoverable(u) /\ statePrep'[u] = statePrep[u]
        /\ \A p \in SynchronousOwners : status'[u][p] = status[u][p]
    BY <1>1 DEF DurableInv
  <2> QED
    BY <2>1 DEF Recoverable, Kept, Has, SynchronousOwners
<1>2. (\A u \in Tx : ~Holds(u)') => store'.durable = workspace'.value
  BY DEF DurableInv
<1> QED
  BY <1>1, <1>2 DEF DurableInv

\* What is left to show when t alone was hot.
LEMMA HotStepDurable ==
    ASSUME NEW t \in Tx,
           \A u \in Tx \ {t} : ~Hot(u) /\ pc'[u] = pc[u] /\ status'[u] = status[u],
           "save" \notin Faults => /\ Holds(t)' => Recoverable(t)'
                                   /\ ~Holds(t)' => store'.durable = workspace'.value
    PROVE  DurableInv'
<1>1. \A u \in Tx \ {t} : ~Holds(u)'
  BY DEF Holds, Hot
<1> QED
  BY <1>1 DEF DurableInv

\* The steps of the executor between two decisions about the owners, which move
\* identities and proposals only.
LEMMA PassingDurable ==
    ASSUME TypeOK, Sound, DurableInv, NEW t \in Tx, Passes(t),
           UNCHANGED <<store, statePrep>>, workspace'.value = workspace.value
    PROVE  DurableInv'
<1>1. \A u \in Tx, p \in SynchronousOwners : status'[u][p] = status[u][p]
  BY PassingMoves DEF TypeOK
<1>2. \A u \in Tx : Holds(u)' <=> Holds(u)
  BY <1>1 DEF Holds, SynchronousOwners
<1> QED
  BY <1>1, <1>2, LeftAloneDurable

\* Submitting, waiting for ports, painting and settling are such steps.
LEMMA WaitingDurable ==
    ASSUME TypeOK, Sound, DurableInv, NEW t \in Tx,
           \/ \E deferred \in BOOLEAN : Submit(t, deferred)
           \/ ProposalArrives(t) \/ TargetResolves(t) \/ Acquire(t) \/ Project(t)
           \/ PortFails(t) \/ StartPaint(t) \/ PaintRefused(t) \/ Unpainted(t)
           \/ RefuseDecision(t) \/ Settle(t)
    PROVE  DurableInv'
<1>0. StateTypeOK
  BY DEF TypeOK
<1>1. Passes(t)
  <2>1. CASE Settle(t)
    <3>1. (~disposed) \in BOOLEAN
      OBVIOUS
    <3>2. RolledBack(t, TRUE, ~disposed) \/ RolledBack(t, FALSE, ~disposed)
      BY <2>1 DEF Settle
    <3> QED
      BY <3>1, <3>2 DEF Passes
  <2> QED
    BY <2>1 DEF Submit, ProposalArrives, TargetResolves, Acquire, Project, PortFails,
       StartPaint, PaintRefused, Unpainted, RefuseDecision, Passes
<1>2. UNCHANGED <<store, statePrep>> /\ workspace'.value = workspace.value
  <2>1. UNCHANGED stateVars \/ ReleaseState(t) \/ DeriveCandidate(t)
    BY DEF Submit, ProposalArrives, TargetResolves, Acquire, Project, PortFails,
       StartPaint, PaintRefused, Unpainted, RefuseDecision, Settle, ownerVars
  <2>2. UNCHANGED publicationVars
    BY DEF Submit, ProposalArrives, TargetResolves, Acquire, Project, PortFails,
       StartPaint, PaintRefused, Unpainted, RefuseDecision, Settle, ownerVars
  <2> QED
    BY <1>0, <2>1, <2>2 DEF ReleaseState, Released, DeriveCandidate, StateTypeOK,
       stateVars, publicationVars
<1> QED
  BY <1>1, <1>2, PassingDurable

\* Preparing and painting happen while no transaction holds the clock.
LEMMA IdleStepDurable ==
    ASSUME TypeOK, Sound, AgreementInv, DurableInv, NEW t \in Tx, Prepare(t) \/ Painted(t)
    PROVE  DurableInv'
<1>0. CoordinatorTypeOK /\ StateTypeOK
  BY DEF TypeOK
<1>1. \A u \in Tx : ~Holds(u)
  BY <1>0, IdleAtRest DEF Prepare, Painted, Hot
<1>2. UNCHANGED store /\ workspace'.value = workspace.value
  BY <1>0 DEF Prepare, Painted, StagePublication, BeginAndPrepareState, StateTypeOK,
     stateVars, publicationVars
<1>3. \A u \in Tx : ~Holds(u)'
  <2>1. \/ \E ps \in SUBSET Participants : SetStatus(t, ps, "prepared")
        \/ SetStatus(t, {"chart"}, "applied")
        \/ UNCHANGED status
    BY DEF Prepare, Painted, Prepared, ChartApplied, Participants
  <2> QED
    BY <1>0, <1>1, <2>1 DEF SetStatus, Holds, CoordinatorTypeOK, Participants,
       SynchronousOwners
<1> QED
  BY <1>1, <1>2, <1>3 DEF DurableInv

\* Applying, what was captured is what is replaced and what is durable.
LEMMA ApplyingDurable ==
    ASSUME OwnersInv, EditsInv, DurableInv, Sound, Sound', NEW t \in Tx, ApplyOwners(t)
    PROVE  DurableInv'
<1>0. CoordinatorTypeOK /\ StateTypeOK /\ AgreementInv
  BY DEF OwnersInv, TypeOK
<1>1. pc[t] = "painted" /\ Hot(t)
  BY DEF ApplyOwners, Hot
<1>2. /\ \A u \in Tx \ {t} : ~Hot(u)
      /\ InOrder(t) /\ Captured(t) /\ (~Holds(t) => AtRest)
  BY <1>0, <1>1, HotIsAlone
<1>3. \A p \in SynchronousOwners : status[t][p] = "prepared"
  BY <1>1, <1>2 DEF InOrder, Staging, Has
<1>4. AtRest /\ \A u \in Tx : ~Holds(u)
  BY <1>2, <1>3 DEF Hot, Holds, SynchronousOwners
<1>5. "save" \notin Faults => store.durable = workspace.value
  BY <1>4 DEF DurableInv
<1>6. ASSUME StateAppliable(t), Publishable(t)
      PROVE  statePrep[t].value = workspace.value
  <2>1. WorkspaceAccounted /\ CaptureAccounted(t)
    BY <1>4 DEF EditsInv, Replaces
  <2>2. Accounted(statePrep[t].value, workspace.revision)
    BY <1>1, <1>6, <2>1 DEF CaptureAccounted, StateAppliable, Publishable, Staging
  <2>3. statePrep[t].value.tx = workspace.value.tx
    BY <1>1, <1>2, <1>4, <1>6 DEF Captured, Publishable, Staging, AtRest
  <2>4. /\ statePrep[t].value \in Values /\ workspace.value \in Values
        /\ workspace.revision \in Nat
    BY <1>0 DEF StateTypeOK
  <2> QED
    BY <2>1, <2>2, <2>3, <2>4, OneValuePerRevision DEF OwnersInv, WorkspaceAccounted
<1>7. ASSUME ApplyState(t)
      PROVE  workspace'.value = StateCandidate(t) /\ statePrep' = statePrep
  BY <1>0, <1>7 DEF ApplyState, StateTypeOK
<1>8. CASE OwnersApplied(t, {}, FALSE) /\ UNCHANGED <<replayVars, stateVars, publicationVars>>
  BY <1>8, PassingDurable DEF Passes, OwnersInv, stateVars, publicationVars
<1>9. ASSUME NEW ps \in AppliedSets, NEW restored \in BOOLEAN, ps # {},
             OwnersApplied(t, ps, restored)
      PROVE  /\ \A u \in Tx \ {t} : ~Hot(u) /\ pc'[u] = pc[u] /\ status'[u] = status[u]
             /\ \A p \in ps : status'[t][p] = "applied"
             /\ \A p \in SynchronousOwners \ ps : status'[t][p] # "applied"
  BY <1>0, <1>2, <1>3, <1>9, AppliedStatus
<1>10. SynchronousOwners = {"replay", "workspaceState", "publication"}
  BY DEF SynchronousOwners
<1>11. CASE /\ OwnersApplied(t, {"replay"}, FALSE)
            /\ UNCHANGED <<stateVars, publicationVars>>
  <2>1. /\ \A u \in Tx \ {t} : ~Hot(u) /\ pc'[u] = pc[u] /\ status'[u] = status[u]
        /\ status'[t]["replay"] = "applied"
        /\ status'[t]["workspaceState"] # "applied"
        /\ status'[t]["publication"] # "applied"
    <3>1. {"replay"} \in AppliedSets /\ {"replay"} # {}
      BY DEF AppliedSets
    <3>2. PICK restored \in BOOLEAN : ~restored /\ OwnersApplied(t, {"replay"}, restored)
      BY <1>11
    <3> QED
      BY <1>9, <1>10, <3>1, <3>2
  <2>2. UNCHANGED <<workspace, statePrep, store>>
    BY <1>11 DEF stateVars, publicationVars
  <2> QED
    BY <1>5, <2>1, <2>2, HotStepDurable DEF Recoverable, Kept, Has, Holds
<1>12. ASSUME NEW restored \in BOOLEAN,
              OwnersApplied(t, {"replay", "workspaceState"}, restored),
              StateAppliable(t), Publishable(t), ApplyState(t),
              RefusePublication(t) \/ TearPublication(t)
       PROVE  DurableInv'
  <2>1. /\ \A u \in Tx \ {t} : ~Hot(u) /\ pc'[u] = pc[u] /\ status'[u] = status[u]
        /\ status'[t]["replay"] = "applied"
        /\ status'[t]["workspaceState"] = "applied"
        /\ status'[t]["publication"] # "applied"
    <3>1. {"replay", "workspaceState"} \in AppliedSets /\ {"replay", "workspaceState"} # {}
      BY DEF AppliedSets
    <3> QED
      BY <1>9, <1>10, <1>12, <3>1
  <2>2. store' = store
    BY <1>4, <1>12 DEF RefusePublication, TearPublication, RestoreStore, AtRest
  <2> QED
    BY <1>5, <1>6, <1>7, <1>12, <2>1, <2>2, HotStepDurable
       DEF Recoverable, Kept, Has, Holds
<1>13. CASE /\ OwnersApplied(t, SynchronousOwners, TRUE)
            /\ StateAppliable(t) /\ Publishable(t)
            /\ ApplyState(t)
            /\ ApplyPublication(t, StateCandidate(t))
  <2>1. /\ \A u \in Tx \ {t} : ~Hot(u) /\ pc'[u] = pc[u] /\ status'[u] = status[u]
        /\ \A p \in SynchronousOwners : status'[t][p] = "applied"
    <3>1. SynchronousOwners \in AppliedSets /\ SynchronousOwners # {}
      BY <1>10 DEF AppliedSets
    <3> QED
      BY <1>9, <1>13, <3>1
  <2>2. store'.pending
    <3>1. AgreementInv'
      BY ApplyingAgrees DEF OwnersInv
    <3>2. Holds(t)' /\ Has(t, "publication", "applied")'
      BY <1>10, <2>1 DEF Holds, Has
    <3> QED
      BY <3>1, <3>2 DEF AgreementInv, Displaced
  <2>3. store'.durable = StateCandidate(t) /\ store'.previousDurable = store.durable
    BY <1>4, <1>13, <2>2 DEF ApplyPublication, WriteReversibly, AtRest
  <2> QED
    BY <1>5, <1>6, <1>7, <1>10, <1>13, <2>1, <2>3, HotStepDurable
       DEF Recoverable, Kept, Has, Holds
<1> QED
  BY <1>8, <1>11, <1>12, <1>13 DEF ApplyOwners

\* A decision keeps what was written.
LEMMA DecisionDurable ==
    ASSUME OwnersInv, DurableInv, Sound, Sound', NEW t \in Tx, Finalize(t)
    PROVE  DurableInv'
<1>0. CoordinatorTypeOK /\ StateTypeOK /\ AgreementInv /\ AgreementInv'
  BY DecisionAgrees DEF OwnersInv, TypeOK
<1>1. pc[t] = "applied" /\ pc'[t] = "done"
  BY <1>0 DEF Finalize, Finalized, GoTo, CoordinatorTypeOK
<1>2. AllApplied(t) /\ Holds(t)
  BY <1>0, <1>1 DEF AgreementInv, InOrder, AllApplied, Has, Holds, SynchronousOwners
<1>3. \A u \in Tx \ {t} : ~Hot(u)
  BY <1>0, <1>2, HotIsAlone DEF Hot
<1>4. \A u \in Tx \ {t} : pc'[u] = pc[u] /\ status'[u] = status[u]
  BY <1>0 DEF Finalize, Finalized, GoTo, SetStatus, CoordinatorTypeOK
<1>5. ~Holds(t)'
  BY <1>0, <1>1 DEF AgreementInv, InOrder
<1>6. workspace'.value = workspace.value /\ store'.durable = store.durable
  <2>1. ReleaseState(t) \/ UNCHANGED stateVars
    BY DEF Finalize
  <2> QED
    BY <1>0, <2>1 DEF Finalize, FinalizePublication, Stored, ReleaseState, Released,
       StateTypeOK, stateVars
<1>7. "save" \notin Faults => store.durable = workspace.value
  BY <1>2 DEF DurableInv, Recoverable, AllApplied, SynchronousOwners
<1> QED
  BY <1>3, <1>4, <1>5, <1>6, <1>7, HotStepDurable

\* A rollback restores the durable value that the write replaced.
LEMMA UndoDurable ==
    ASSUME OwnersInv, DurableInv, Sound, Sound', NEW t \in Tx, Undo(t)
    PROVE  DurableInv'
<1>0. CoordinatorTypeOK /\ StateTypeOK /\ PublicationTypeOK /\ AgreementInv
  BY DEF OwnersInv, TypeOK
<1>1. /\ Unwind(t, {}) /\ pc[t] = "failing" /\ InOrder(t)
      /\ \/ "publication" \notin Retained(t) /\ UNCHANGED publicationVars
         \/ "publication" \in Retained(t) /\ RollbackPublication(t)
  BY <1>0, SoundUndo DEF Unwind, AgreementInv
<1>2. /\ \A u \in Tx \ {t} : pc'[u] = pc[u] /\ status'[u] = status[u]
      /\ ~Holds(t)'
  BY <1>0, <1>1, UnwoundRecord
<1>3. Untouched(t) \/ StateRefused(t) \/ PublicationRefused(t) \/ AllApplied(t)
  BY <1>1 DEF InOrder
<1>4. UNCHANGED statePrep /\ workspace'.value = Kept(t)
  <2>1. CASE Has(t, "workspaceState", "applied")
    <3>1. "workspaceState" \in Retained(t)
      BY <2>1, RetainedOwners DEF SynchronousOwners
    <3>2. RollbackState(t, TRUE)
      BY <2>1, <3>1 DEF Undo, Has
    <3> QED
      BY <1>0, <2>1, <3>2 DEF RollbackState, Released, Kept, StateTypeOK
  <2>2. CASE ~Has(t, "workspaceState", "applied")
    <3>1. RollbackState(t, FALSE) \/ UNCHANGED stateVars
      BY <2>2 DEF Undo, Has
    <3> QED
      BY <1>0, <2>2, <3>1 DEF RollbackState, Released, Kept, StateTypeOK, stateVars
  <2> QED
    BY <2>1, <2>2
<1>5. CASE Holds(t)
  <2>1. Displaced(t) /\ \A u \in Tx \ {t} : ~Hot(u)
    BY <1>0, <1>5, HotIsAlone DEF Hot
  <2>2. ASSUME "save" \notin Faults
        PROVE  store'.durable = workspace'.value
    <3>1. Recoverable(t)
      BY <1>5, <2>2 DEF DurableInv
    <3>2. CASE Has(t, "publication", "applied")
      <4>1. "publication" \in Retained(t)
        BY <3>2, RetainedOwners DEF SynchronousOwners
      <4>2. pubStage[t].state # "staged"
        BY <1>3, <1>5, <3>2 DEF Untouched, StateRefused, PublicationRefused, AllApplied,
           StagedOnly, Has
      <4>3. RestoreStore /\ store.pending
        BY <1>1, <2>1, <3>2, <4>1, <4>2 DEF RollbackPublication, Displaced
      <4> QED
        BY <1>4, <3>1, <3>2, <4>3 DEF RestoreStore, Stored, Recoverable
    <3>3. CASE ~Has(t, "publication", "applied")
      <4>1. store' = store
        BY <1>1, <2>1, <3>3 DEF RollbackPublication, RestoreStore, Displaced,
           publicationVars
      <4> QED
        BY <1>4, <3>1, <3>3, <4>1 DEF Recoverable
    <3> QED
      BY <3>2, <3>3
  <2> QED
    BY <1>2, <2>1, <2>2, HotStepDurable
<1>6. CASE ~Holds(t)
  <2>1. Untouched(t)
    BY <1>3, <1>6 DEF StateRefused, PublicationRefused, AllApplied, Has, Holds,
                      SynchronousOwners
  <2>2. workspace'.value = workspace.value
    BY <1>4, <2>1 DEF Untouched, Kept
  <2>3. UNCHANGED store
    <3>1. CASE "publication" \in Retained(t) /\ RollbackPublication(t)
      <4>1. pubStage[t].state = "staged"
        BY <2>1, <3>1, RetainedOwners DEF Untouched, StagedOnly, Has, SynchronousOwners
      <4> QED
        BY <3>1, <4>1 DEF RollbackPublication
    <3> QED
      BY <1>1, <3>1 DEF publicationVars
  <2>4. ASSUME NEW u \in Tx
        PROVE  /\ Holds(u)' <=> Holds(u)
               /\ Holds(u) =>
                     /\ \A p \in SynchronousOwners : status'[u][p] = status[u][p]
                     /\ statePrep'[u] = statePrep[u]
    <3>1. CASE u = t
      BY <1>2, <1>6, <3>1
    <3>2. CASE u # t
      BY <1>2, <1>4, <3>2 DEF Holds
    <3> QED
      BY <3>1, <3>2
  <2> QED
    BY <2>2, <2>3, <2>4, LeftAloneDurable
<1> QED
  BY <1>5, <1>6

\* An edit is saved with the workspace it makes, unless saves may fail.
LEMMA InputDurable ==
    ASSUME OwnersInv, DurableInv, Sound, Input \/ UNCHANGED vars
    PROVE  DurableInv'
<1>0. CoordinatorTypeOK /\ StateTypeOK /\ AgreementInv
  BY DEF OwnersInv, TypeOK
<1>1. UNCHANGED <<statePrep, status>>
  BY DEF Input, EditViewport, UserPlays, UserPauses, DisposeComposition, CommitLocal,
     Dispose, vars, coordinatorVars, ownerVars, stateVars, recordVars
<1>2. \A u \in Tx : Holds(u)' <=> Holds(u)
  BY <1>1 DEF Holds
<1>3. CASE UserPlays \/ UserPauses \/ DisposeComposition \/ UNCHANGED vars
  <2>1. workspace'.value = workspace.value /\ UNCHANGED store
    BY <1>0, <1>3 DEF UserPlays, UserPauses, DisposeComposition, vars, ownerVars,
       stateVars, publicationVars, StateTypeOK
  <2> QED
    BY <1>1, <1>2, <2>1, LeftAloneDurable
<1>4. CASE EditViewport
  <2>1. AtRest /\ \A u \in Tx : ~Holds(u)
    BY <1>0, <1>4, IdleAtRest DEF EditViewport, Hot
  <2>2. ASSUME "save" \notin Faults
        PROVE  store'.durable = workspace'.value
    <3>1. SaveLocal(workspace'.value)
      BY <1>4, <2>1, <2>2 DEF EditViewport, Fault, AtRest
    <3>2. workspace'.value # Unset
      <4>1. /\ workspace'.value.edits = workspace.value.edits + 1
            /\ workspace.value.edits \in Nat
        BY <1>0, <1>4 DEF EditViewport, CommitLocal, StateTypeOK, Values
      <4> QED
        BY <4>1 DEF Unset
    <3> QED
      BY <3>1, <3>2 DEF SaveLocal, Write, Stored, OwnersInv, KeyInv, PersistedKeyIsDurable
  <2> QED
    BY <1>2, <2>1, <2>2 DEF DurableInv
<1> QED
  BY <1>3, <1>4 DEF Input

\* Every step of the composition keeps what is durable with the workspace.
LEMMA DurableStep ==
    ASSUME OwnersInv, EditsInv, DurableInv, [Next]_vars
    PROVE  DurableInv'
<1>1. TypeOK /\ FailsLate /\ AgreementInv
  BY DEF OwnersInv
<1>2. Sound' => Sound
  BY <1>1, NextCoordinates, SoundLasts DEF TypeOK
<1>3. SUFFICES ASSUME Sound, Sound'
               PROVE  DurableInv'
  BY <1>2 DEF DurableInv
<1>4. CASE Input \/ UNCHANGED vars
  BY <1>3, <1>4, InputDurable
<1>5. ASSUME NEW t \in Tx, NEW deferred \in BOOLEAN, Submit(t, deferred)
      PROVE  DurableInv'
  BY <1>1, <1>3, <1>5, WaitingDurable
<1>6. ASSUME NEW t \in Tx, PrepareAction(t)
      PROVE  DurableInv'
  BY <1>1, <1>3, <1>6, WaitingDurable, IdleStepDurable DEF PrepareAction
<1>7. ASSUME NEW t \in Tx, ApplyAction(t)
      PROVE  DurableInv'
  BY <1>1, <1>3, <1>7, WaitingDurable, IdleStepDurable, ApplyingDurable DEF ApplyAction
<1>8. ASSUME NEW t \in Tx, DecideAction(t)
      PROVE  DurableInv'
  BY <1>1, <1>3, <1>8, WaitingDurable, DecisionDurable DEF DecideAction
<1>9. ASSUME NEW t \in Tx, UndoAction(t)
      PROVE  DurableInv'
  BY <1>1, <1>3, <1>9, WaitingDurable, UndoDurable DEF UndoAction
<1> QED
  BY <1>4, <1>5, <1>6, <1>7, <1>8, <1>9 DEF Next, Execute

\* Whatever was superseded, refused, torn, rolled back, edited or disposed on
\* the way, and whether or not intents overlap: while nothing failed to be put
\* back and no transaction is between its first apply and its end, the clock,
\* the workspace, the view, the publication and the durable checkpoint all
\* stand at the accepted snapshot, and what is durable has the edits of the
\* workspace (transaction-executor.js:136-237).
THEOREM CompositionOwnersAgree == Spec => []SemanticOwnersAgree
<1>1. Init => EditsInv
  BY InitialAccount
<1>2. Init => DurableInv
  BY DEF Init, CoordinatorInit, StateInit, PublicationInit, Stored, DurableInv, Holds,
     Participants, SynchronousOwners
<1>3. OwnersInv /\ EditsInv /\ [Next]_vars => EditsInv'
  BY EditsStep
<1>4. OwnersInv /\ EditsInv /\ DurableInv /\ [Next]_vars => DurableInv'
  BY DurableStep
<1>5. OwnersInv /\ DurableInv => SemanticOwnersAgree
  BY DEF OwnersInv, AgreementInv, DurableInv, SemanticOwnersAgree, Undisturbed, Sound,
         Holds, AtRest
<1> QED
  BY <1>1, <1>2, <1>3, <1>4, <1>5, CompositionOwners, PTL DEF Spec
-----------------------------------------------------------------------------
(* The chart at rest, when intents come one at a time.                     *)
(*                                                                         *)
(* While an intent is in flight the surface is somewhere else, so what the *)
(* invariant says is where: untouched while t prepares, t's candles over   *)
(* the accepted adapter data while it paints, t's data once it is painted, *)
(* and the stage of t holding what to put back as long as it may have to.  *)

Healthy == ~poisoned /\ ~disposed

SurfaceRests ==
    /\ surface.series = accepted.tx /\ surface.applied = accepted.tx
    /\ surface.revision = accepted.revision

\* The stage of t was registered on the accepted chart and pane set.
Registered(t, state) ==
    /\ stage[t].state = state
    /\ stage[t].base = accepted.revision /\ stage[t].revision = accepted.revision

\* It owns the series, and captured the accepted one.
Owns(t, state) ==
    /\ Registered(t, state)
    /\ stage[t].token = surface.token
    /\ stage[t].series = accepted.tx /\ stage[t].applied = accepted.tx

Mutated(t) == /\ Owns(t, "applying")
              /\ surface.series = t
              /\ surface.applied = accepted.tx
              /\ surface.revision = accepted.revision

Shown(t) == /\ Owns(t, "applied")
            /\ surface.series = t /\ surface.applied = t
            /\ surface.revision = accepted.revision + 1

\* Where the executor of t is tells where its chart stands.
ChartStands(t) ==
    /\ pc[t] \in Preparing => Has(t, "chart", "none") /\ SurfaceRests
    /\ pc[t] = "prepared" => /\ Has(t, "chart", "prepared")
                             /\ Registered(t, "staged") /\ SurfaceRests
    /\ pc[t] = "painting" => Has(t, "chart", "prepared") /\ Mutated(t)
    /\ pc[t] = "unpainting" => /\ SurfaceRests
                               /\ stage[t].revision = accepted.revision
    /\ pc[t] \in {"painted", "applied"} => Has(t, "chart", "applied") /\ Shown(t)
    /\ pc[t] = "failing" =>
          \/ (Has(t, "chart", "none") \/ Has(t, "chart", "rolledBack")) /\ SurfaceRests
          \/ Has(t, "chart", "prepared") /\ Registered(t, "staged") /\ SurfaceRests
          \/ Has(t, "chart", "applied") /\ Shown(t)
    /\ pc[t] = "rollingBack" =>
          /\ surface.series = accepted.tx /\ surface.applied = accepted.tx
          /\ IF "chart" \in Retained(t) THEN stage[t].revision = accepted.revision
             ELSE surface.revision = accepted.revision

ChartInv ==
    SingleFlight /\ Healthy =>
        /\ chart.accepted = accepted.tx /\ chart.revision = accepted.revision
        /\ \A t, u \in Tx : InFlight(t) /\ InFlight(u) => t = u
        /\ \A t \in Tx : pc[t] = "idle" => Has(t, "chart", "none")
        /\ \A t \in Tx : InFlight(t) => ChartStands(t)
        /\ (\A t \in Tx : ~InFlight(t)) => SurfaceRests

\* Neither poison nor disposal is taken back.
LEMMA HealthLasts ==
    ASSUME CoordinatorTypeOK, [CoordinatorNext]_coordinatorVars, Healthy'
    PROVE  Healthy
<1> USE DEF Healthy
<1>1. CASE Dispose \/ UNCHANGED coordinatorVars
  BY <1>1 DEF Dispose, coordinatorVars
<1>2. ASSUME NEW t \in Tx, Begin(t)
      PROVE  Healthy
  BY <1>2 DEF Begin
<1>3. ASSUME NEW t \in Tx, PrepareStep(t) \/ ApplyStep(t) \/ DecisionRefused(t)
      PROVE  Healthy
  BY <1>3, RunningStep DEF decisionVars
<1>4. ASSUME NEW t \in Tx, NEW done \in SUBSET Participants, NEW complete \in BOOLEAN,
             Finalized(t, done, complete)
      PROVE  Healthy
  BY <1>4 DEF Finalized, Publishable, IsCurrent, Currency
<1>5. ASSUME NEW t \in Tx, NEW failed \in SUBSET SynchronousOwners, Unwind(t, failed)
      PROVE  Healthy
  BY <1>5 DEF Unwind, decisionVars
<1>6. ASSUME NEW t \in Tx, NEW chartRestored \in BOOLEAN, NEW rejected \in BOOLEAN,
             RolledBack(t, chartRestored, rejected)
      PROVE  Healthy
  BY <1>6 DEF RolledBack
<1> QED
  BY <1>1, <1>2, <1>3, <1>4, <1>5, <1>6 DEF CoordinatorNext, DecideStep, UndoStep

\* What is left to show of a step of the one transaction in flight.
LEMMA SoleStepStands ==
    ASSUME SingleFlight, Healthy, ChartInv, NEW t \in Tx,
           \A u \in Tx \ {t} : /\ ~InFlight(u)
                               /\ pc'[u] = pc[u] /\ status'[u] = status[u],
           pc'[t] # "idle",
           chart'.accepted = accepted'.tx, chart'.revision = accepted'.revision,
           InFlight(t)' => ChartStands(t)', ~InFlight(t)' => SurfaceRests'
    PROVE  ChartInv'
<1>1. \A u \in Tx \ {t} : ~InFlight(u)'
  BY DEF InFlight
<1>2. \A u \in Tx : pc'[u] = "idle" => Has(u, "chart", "none")'
  BY DEF ChartInv, Has
<1> QED
  BY <1>1, <1>2 DEF ChartInv

\* The executor of t moves on without touching the chart.
ChartWaits(t) ==
    \/ pc'[t] = pc[t]
    \/ pc[t] \in Preparing /\ pc'[t] \in Preparing \union {"failing"}
    \/ pc[t] = "prepared" /\ pc'[t] = "failing"
    \/ pc[t] = "painted" /\ pc'[t] \in {"applied", "failing"}
    \/ pc[t] = "applied" /\ pc'[t] = "failing"

\* Its chart stands where it stood.
LEMMA WaitingStands ==
    ASSUME NEW t \in Tx, ChartStands(t), ChartWaits(t),
           UNCHANGED <<accepted, surface, stage>>,
           status'[t]["chart"] = status[t]["chart"]
    PROVE  ChartStands(t)'
<1>1. /\ SurfaceRests' <=> SurfaceRests
      /\ \A s : Has(t, "chart", s)' <=> Has(t, "chart", s)
      /\ \A s : Registered(t, s)' <=> Registered(t, s)
      /\ Mutated(t)' <=> Mutated(t)
      /\ Shown(t)' <=> Shown(t)
  BY DEF SurfaceRests, Has, Registered, Owns, Mutated, Shown
<1>2. "chart" \in Retained(t)' <=> "chart" \in Retained(t)
  BY DEF Retained
<1> QED
  BY <1>1, <1>2 DEF ChartStands, ChartWaits, Preparing

\* The transaction that takes a step is the one in flight.
LEMMA SoleInFlight ==
    ASSUME CoordinatorTypeOK, SingleFlight, Healthy, ChartInv, NEW t \in Tx,
           PrepareStep(t) \/ ApplyStep(t) \/ DecideStep(t) \/ UndoStep(t)
    PROVE  /\ InFlight(t) /\ ChartStands(t)
           /\ \A u \in Tx \ {t} : /\ ~InFlight(u)
                                  /\ pc'[u] = pc[u] /\ status'[u] = status[u]
           /\ pc'[t] # "idle"
           /\ chart.accepted = accepted.tx /\ chart.revision = accepted.revision
<1>1. InFlight(t) /\ pc'[t] # "idle"
  <2>1. CASE PrepareStep(t) \/ ApplyStep(t) \/ DecisionRefused(t)
    BY <2>1, RunningStep DEF InFlight
  <2>2. ASSUME NEW done \in SUBSET Participants, NEW complete \in BOOLEAN,
               Finalized(t, done, complete)
        PROVE  pc[t] = "applied" /\ pc'[t] = "done"
    BY <2>2 DEF Finalized, GoTo, CoordinatorTypeOK
  <2>3. ASSUME NEW failed \in SUBSET SynchronousOwners, Unwind(t, failed)
        PROVE  pc[t] = "failing" /\ pc'[t] = "rollingBack"
    BY <2>3 DEF Unwind, GoTo, CoordinatorTypeOK
  <2>4. ASSUME NEW chartRestored \in BOOLEAN, NEW rejected \in BOOLEAN,
               RolledBack(t, chartRestored, rejected)
        PROVE  pc[t] = "rollingBack" /\ pc'[t] = "done"
    BY <2>4 DEF RolledBack, GoTo, CoordinatorTypeOK
  <2> QED
    BY <2>1, <2>2, <2>3, <2>4 DEF InFlight, DecideStep, UndoStep
<1>2. \A u \in Tx \ {t} : pc'[u] = pc[u] /\ status'[u] = status[u]
  BY OtherRecordsKept
<1> QED
  BY <1>1, <1>2 DEF ChartInv

\* Nothing is in flight when an intent is submitted, and the chart is at rest.
LEMMA SubmissionStands ==
    ASSUME TypeOK, SingleFlight, Healthy, ChartInv,
           NEW t \in Tx, NEW deferred \in BOOLEAN, Submit(t, deferred)
    PROVE  ChartInv'
<1>0. CoordinatorTypeOK
  BY DEF TypeOK
<1>1. /\ \A u \in Tx : ~InFlight(u)
      /\ Begin(t) /\ UNCHANGED chartVars
  BY DEF Submit
<1>2. /\ pc[t] = "idle" /\ pc'[t] = "proposing"
      /\ UNCHANGED <<accepted, status>>
      /\ \A u \in Tx \ {t} : pc'[u] = pc[u]
  BY <1>0, <1>1 DEF Begin, GoTo, CoordinatorTypeOK
<1>3. SurfaceRests /\ Has(t, "chart", "none")
  BY <1>1, <1>2 DEF ChartInv
<1>4. SurfaceRests' /\ Has(t, "chart", "none")'
  BY <1>1, <1>2, <1>3 DEF SurfaceRests, Has, chartVars
<1>5. ChartStands(t)'
  BY <1>2, <1>4 DEF ChartStands, Preparing
<1>6. chart'.accepted = accepted'.tx /\ chart'.revision = accepted'.revision
  BY <1>1, <1>2 DEF ChartInv, chartVars
<1> QED
  BY <1>1, <1>2, <1>5, <1>6, SoleStepStands DEF InFlight

\* Waiting for ports, applying the other owners and refusing the decision
\* leave the surface and the stages where they are.
LEMMA PassingStands ==
    ASSUME TypeOK, SingleFlight, Healthy, ChartInv, NEW t \in Tx,
           \/ ProposalArrives(t) \/ TargetResolves(t) \/ Acquire(t) \/ Project(t)
           \/ PortFails(t) \/ ApplyOwners(t) \/ RefuseDecision(t)
    PROVE  ChartInv'
<1>0. CoordinatorTypeOK /\ ChartTypeOK
  BY DEF TypeOK
<1>1. PrepareStep(t) \/ ApplyStep(t) \/ DecideStep(t)
  BY PrepareActionCoordinates, ApplyActionCoordinates, DecideActionCoordinates
     DEF PrepareAction, ApplyAction, DecideAction
<1>2. /\ InFlight(t) /\ ChartStands(t)
      /\ \A u \in Tx \ {t} : /\ ~InFlight(u)
                             /\ pc'[u] = pc[u] /\ status'[u] = status[u]
      /\ pc'[t] # "idle"
      /\ chart.accepted = accepted.tx /\ chart.revision = accepted.revision
  BY <1>0, <1>1, SoleInFlight
<1>3. UNCHANGED chartVars \/ BeginChart(t)
  BY DEF ProposalArrives, TargetResolves, Acquire, Project, PortFails, ApplyOwners,
         RefuseDecision, ownerVars
<1>4. UNCHANGED <<surface, stage>> /\ chart'.accepted = chart.accepted
      /\ chart'.revision = chart.revision
  BY <1>0, <1>3 DEF chartVars, BeginChart, ChartTypeOK
<1>5. /\ ChartWaits(t) /\ UNCHANGED accepted
      /\ status'[t]["chart"] = status[t]["chart"]
      /\ InFlight(t)'
  <2>1. CASE ApplyOwners(t)
    <3>1. \E ps \in AppliedSets, restored \in BOOLEAN : OwnersApplied(t, ps, restored)
      BY <2>1 DEF ApplyOwners, AppliedSets
    <3>2. "chart" \in Participants /\ \A ps \in AppliedSets : "chart" \notin ps
      BY DEF Participants, AppliedSets, SynchronousOwners
    <3> QED
      BY <1>0, <3>1, <3>2 DEF OwnersApplied, Continue, Interrupt, Throw, GoTo, SetStatus,
         ChartWaits, InFlight, CoordinatorTypeOK, decisionVars
  <2>2. CASE RefuseDecision(t)
    BY <1>0, <2>2 DEF RefuseDecision, DecisionRefused, Throw, GoTo, ChartWaits,
       InFlight, CoordinatorTypeOK, decisionVars
  <2>3. CASE ~ApplyOwners(t) /\ ~RefuseDecision(t)
    <3>1. Proposed(t) \/ Acquired(t) \/ Projected(t) \/ PortRejects(t)
      BY <2>3 DEF ProposalArrives, TargetResolves, Acquire, Project, PortFails
    <3> QED
      BY <1>0, <3>1 DEF Proposed, Acquired, Projected, PortRejects, Continue, Interrupt,
         Throw, GoTo, ChartWaits, Preparing, InFlight, CoordinatorTypeOK, decisionVars
  <2> QED
    BY <2>1, <2>2, <2>3
<1>6. ChartStands(t)'
  BY <1>2, <1>4, <1>5, WaitingStands
<1> QED
  BY <1>2, <1>4, <1>5, <1>6, SoleStepStands

\* A stage is registered on the chart and the pane set as they rest.
LEMMA PreparationStands ==
    ASSUME TypeOK, SingleFlight, Healthy, ChartInv, NEW t \in Tx, Prepare(t)
    PROVE  ChartInv'
<1>0. CoordinatorTypeOK /\ ChartTypeOK
  BY DEF TypeOK
<1>1. PrepareStep(t) /\ pc[t] = "staging" /\ StageChart(t)
  BY PrepareActionCoordinates DEF Prepare, PrepareAction
<1>2. /\ ChartStands(t)
      /\ \A u \in Tx \ {t} : /\ ~InFlight(u)
                             /\ pc'[u] = pc[u] /\ status'[u] = status[u]
      /\ pc'[t] # "idle"
      /\ chart.accepted = accepted.tx /\ chart.revision = accepted.revision
  BY <1>0, <1>1, SoleInFlight
<1>3. /\ UNCHANGED accepted
      /\ pc'[t] \in {"prepared", "failing"}
      /\ status'[t]["chart"] = "prepared"
  <2>1. PICK ps \in {Participants, {"chart"}} : Prepared(t, ps)
    BY DEF Prepare
  <2>2. "chart" \in ps /\ "chart" \in Participants
    BY <2>1 DEF Participants
  <2> QED
    BY <1>0, <2>1, <2>2 DEF Prepared, SetStatus, Continue, Interrupt, Throw, GoTo,
       CoordinatorTypeOK, decisionVars
<1>4. /\ UNCHANGED <<chart, surface>>
      /\ stage'[t].state = "staged"
      /\ stage'[t].base = chart.revision
      /\ stage'[t].revision = surface.revision
  BY <1>0, <1>1 DEF StageChart, NoStage, ChartTypeOK
<1>5. SurfaceRests' /\ Registered(t, "staged")'
  BY <1>1, <1>2, <1>3, <1>4 DEF ChartStands, Preparing, SurfaceRests, Registered
<1>6. ChartStands(t)' /\ InFlight(t)'
  BY <1>3, <1>5 DEF ChartStands, Preparing, Has, InFlight
<1> QED
  BY <1>2, <1>3, <1>4, <1>6, SoleStepStands

\* Starting to paint, the accepted candles and data are captured.
LEMMA PaintStartStands ==
    ASSUME TypeOK, SingleFlight, Healthy, ChartInv, NEW t \in Tx, StartPaint(t)
    PROVE  ChartInv'
<1>0. CoordinatorTypeOK /\ ChartTypeOK
  BY DEF TypeOK
<1>1. ApplyStep(t) /\ StartApply(t) /\ pc[t] = "prepared"
  BY ApplyActionCoordinates DEF StartPaint, ApplyAction, StartApply
<1>2. /\ ChartStands(t)
      /\ \A u \in Tx \ {t} : /\ ~InFlight(u)
                             /\ pc'[u] = pc[u] /\ status'[u] = status[u]
      /\ pc'[t] # "idle"
      /\ chart.accepted = accepted.tx /\ chart.revision = accepted.revision
  BY <1>0, <1>1, SoleInFlight
<1>3. UNCHANGED <<accepted, status>>
  BY <1>1 DEF StartApply, decisionVars
<1>4. CASE IsCurrent(t)
  <2>1. pc'[t] = "painting" /\ MutateSeries(t)
    BY <1>0, <1>1, <1>4 DEF StartPaint, StartApply, Continue, Interrupt, GoTo,
       CoordinatorTypeOK
  <2>2. /\ UNCHANGED chart
        /\ surface'.series = t /\ surface'.applied = surface.applied
        /\ surface'.revision = surface.revision
        /\ surface'.token = surface.token + 1
    BY <1>0, <2>1 DEF MutateSeries, ChartTypeOK
  <2>3. /\ stage'[t].state = "applying" /\ stage'[t].token = surface.token + 1
        /\ stage'[t].series = surface.series /\ stage'[t].applied = surface.applied
        /\ stage'[t].base = stage[t].base /\ stage'[t].revision = stage[t].revision
    BY <1>0, <2>1 DEF MutateSeries, ChartTypeOK
  <2>4. Mutated(t)'
    BY <1>1, <1>2, <1>3, <2>2, <2>3
       DEF ChartStands, SurfaceRests, Registered, Owns, Mutated
  <2>5. ChartStands(t)' /\ InFlight(t)'
    BY <1>1, <1>2, <1>3, <2>1, <2>4 DEF ChartStands, Preparing, Has, InFlight
  <2> QED
    BY <1>2, <1>3, <2>2, <2>5, SoleStepStands
<1>5. CASE ~IsCurrent(t)
  <2>1. pc'[t] = "failing" /\ UNCHANGED chartVars
    BY <1>0, <1>1, <1>5 DEF StartPaint, StartApply, Continue, Interrupt, GoTo,
       CoordinatorTypeOK
  <2>2. ChartStands(t)' /\ InFlight(t)'
    BY <1>1, <1>2, <1>3, <2>1, WaitingStands DEF ChartWaits, InFlight, chartVars
  <2> QED
    BY <1>2, <1>3, <2>1, <2>2, SoleStepStands DEF chartVars
<1> QED
  BY <1>4, <1>5

\* A proved paint shows t, one pane-set revision on.
LEMMA PaintedStands ==
    ASSUME TypeOK, SingleFlight, Healthy, ChartInv, NEW t \in Tx, Painted(t)
    PROVE  ChartInv'
<1>0. CoordinatorTypeOK /\ ChartTypeOK
  BY DEF TypeOK
<1>1. ApplyStep(t) /\ ChartApplied(t) /\ pc[t] = "painting" /\ CommitPaint(t)
  BY ApplyActionCoordinates DEF Painted, ApplyAction, ChartApplied
<1>2. /\ ChartStands(t)
      /\ \A u \in Tx \ {t} : /\ ~InFlight(u)
                             /\ pc'[u] = pc[u] /\ status'[u] = status[u]
      /\ pc'[t] # "idle"
      /\ chart.accepted = accepted.tx /\ chart.revision = accepted.revision
  BY <1>0, <1>1, SoleInFlight
<1>3. UNCHANGED accepted /\ pc'[t] = "painted" /\ status'[t]["chart"] = "applied"
  BY <1>0, <1>1 DEF ChartApplied, GoTo, SetStatus, CoordinatorTypeOK, Participants,
     decisionVars
<1>4. /\ UNCHANGED chart
      /\ surface'.applied = t /\ surface'.series = surface.series
      /\ surface'.token = surface.token
      /\ surface'.revision = stage[t].revision + 1
  BY <1>0, <1>1 DEF CommitPaint, ChartTypeOK
<1>5. /\ stage'[t].state = "applied" /\ stage'[t].token = stage[t].token
      /\ stage'[t].series = stage[t].series /\ stage'[t].applied = stage[t].applied
      /\ stage'[t].base = stage[t].base /\ stage'[t].revision = stage[t].revision
  BY <1>0, <1>1 DEF CommitPaint, ChartTypeOK
<1>6. Shown(t)'
  BY <1>1, <1>2, <1>3, <1>4, <1>5 DEF ChartStands, Mutated, Registered, Owns, Shown
<1>7. ChartStands(t)' /\ InFlight(t)'
  BY <1>3, <1>6 DEF ChartStands, Preparing, Has, InFlight
<1> QED
  BY <1>2, <1>3, <1>4, <1>7, SoleStepStands

\* A transaction that owns the series puts back what it captured, one that
\* does not leaves the surface; the revision is the one it is given.
LEMMA RestoringSeries ==
    ASSUME ChartTypeOK, Healthy, NEW t \in Tx, NEW queue, NEW revision \in Nat,
           RestoreSeries(t, disposed, queue, revision)
    PROVE  /\ UNCHANGED <<chart, stage>>
           /\ surface'.revision = revision
           /\ \A s \in {"applying", "applied"} : Owns(t, s) =>
                 surface'.series = accepted.tx /\ surface'.applied = accepted.tx
           /\ stage[t].state = "staged" =>
                 surface'.series = surface.series /\ surface'.applied = surface.applied
<1>1. CASE OwnsSeries(t, disposed)
  <2>1. /\ surface'.series = stage[t].series /\ surface'.applied = stage[t].applied
        /\ surface'.revision = revision
        /\ UNCHANGED <<chart, stage>>
    BY <1>1 DEF RestoreSeries, ChartTypeOK
  <2> QED
    BY <1>1, <2>1 DEF Owns, OwnsSeries
<1>2. CASE ~OwnsSeries(t, disposed)
  <2>1. /\ surface'.series = surface.series /\ surface'.applied = surface.applied
        /\ surface'.revision = revision
        /\ UNCHANGED <<chart, stage>>
    BY <1>2 DEF RestoreSeries, ChartTypeOK
  <2>2. \A s \in {"applying", "applied"} : ~Owns(t, s)
    BY <1>2 DEF Owns, OwnsSeries, Registered, Healthy
  <2> QED
    BY <2>1, <2>2
<1> QED
  BY <1>1, <1>2

\* A paint that is not proved or is refused is taken back at once, and its
\* receipt cannot be the reason: the stage is of the accepted revision.
LEMMA PaintRefusalStands ==
    ASSUME TypeOK, SingleFlight, Healthy, ChartInv, NEW t \in Tx, PaintRefused(t)
    PROVE  ChartInv'
<1>0. CoordinatorTypeOK /\ ChartTypeOK
  BY DEF TypeOK
<1>1. ApplyStep(t) /\ ChartFails(t) /\ pc[t] = "painting"
  BY ApplyActionCoordinates DEF PaintRefused, ApplyAction, ChartFails
<1>2. /\ ChartStands(t)
      /\ \A u \in Tx \ {t} : /\ ~InFlight(u)
                             /\ pc'[u] = pc[u] /\ status'[u] = status[u]
      /\ pc'[t] # "idle"
      /\ chart.accepted = accepted.tx /\ chart.revision = accepted.revision
  BY <1>0, <1>1, SoleInFlight
<1>3. Mutated(t)
  BY <1>1, <1>2 DEF ChartStands
<1>4. RestoreSeries(t, disposed, Tail(paints), surface.revision)
  BY <1>3 DEF PaintRefused, ReceiptMatches, Mutated, Owns, Registered
<1>5. /\ UNCHANGED <<chart, stage>>
      /\ surface'.revision = surface.revision
      /\ surface'.series = accepted.tx /\ surface'.applied = accepted.tx
  <2>1. surface.revision \in Nat
    BY <1>0 DEF ChartTypeOK
  <2> QED
    BY <1>0, <1>3, <1>4, <2>1, RestoringSeries DEF Mutated
<1>6. UNCHANGED accepted /\ pc'[t] = "unpainting"
  BY <1>0, <1>1 DEF ChartFails, GoTo, CoordinatorTypeOK, decisionVars
<1>7. SurfaceRests' /\ stage'[t].revision = accepted'.revision
  BY <1>3, <1>5, <1>6 DEF SurfaceRests, Mutated, Owns, Registered
<1>8. ChartStands(t)' /\ InFlight(t)'
  BY <1>6, <1>7 DEF ChartStands, Preparing, InFlight
<1> QED
  BY <1>2, <1>5, <1>6, <1>8, SoleStepStands

\* Whether or not the restoring paint is proved, the surface stays at rest.
LEMMA UnpaintedStands ==
    ASSUME TypeOK, SingleFlight, Healthy, ChartInv, NEW t \in Tx, Unpainted(t)
    PROVE  ChartInv'
<1>0. CoordinatorTypeOK /\ ChartTypeOK
  BY DEF TypeOK
<1>1. ApplyStep(t) /\ ChartUndone(t) /\ pc[t] = "unpainting"
  BY ApplyActionCoordinates DEF Unpainted, ApplyAction, ChartUndone
<1>2. /\ ChartStands(t)
      /\ \A u \in Tx \ {t} : /\ ~InFlight(u)
                             /\ pc'[u] = pc[u] /\ status'[u] = status[u]
      /\ pc'[t] # "idle"
      /\ chart.accepted = accepted.tx /\ chart.revision = accepted.revision
  BY <1>0, <1>1, SoleInFlight
<1>3. UNCHANGED accepted /\ pc'[t] = "failing" /\ status'[t]["chart"] = "rolledBack"
  BY <1>0, <1>1 DEF ChartUndone, Throw, GoTo, SetStatus, CoordinatorTypeOK, Participants,
     decisionVars
<1>4. SurfaceRests /\ stage[t].revision = accepted.revision
  BY <1>1, <1>2 DEF ChartStands
<1>5. UNCHANGED chart /\ SurfaceRests'
  <2>1. /\ UNCHANGED chart
        /\ surface'.series = surface.series /\ surface'.applied = surface.applied
        /\ surface'.revision \in {stage[t].revision, surface.revision}
    BY <1>0 DEF Unpainted, SettleRestore, AbandonRestore, ChartTypeOK
  <2> QED
    BY <1>3, <1>4, <2>1 DEF SurfaceRests
<1>6. ChartStands(t)' /\ InFlight(t)'
  BY <1>3, <1>5 DEF ChartStands, Preparing, Has, InFlight
<1> QED
  BY <1>2, <1>3, <1>5, <1>6, SoleStepStands

\* A decision takes the chart it painted for accepted.
LEMMA ChartDecisionStands ==
    ASSUME TypeOK, SingleFlight, Healthy, ChartInv, Healthy', NEW t \in Tx, Finalize(t)
    PROVE  ChartInv'
<1>0. CoordinatorTypeOK /\ ChartTypeOK
  BY DEF TypeOK
<1>1. DecideStep(t)
  BY DecideActionCoordinates DEF DecideAction
<1>2. /\ ChartStands(t)
      /\ \A u \in Tx \ {t} : /\ ~InFlight(u)
                             /\ pc'[u] = pc[u] /\ status'[u] = status[u]
      /\ pc'[t] # "idle"
      /\ chart.accepted = accepted.tx /\ chart.revision = accepted.revision
  BY <1>0, <1>1, SoleInFlight
<1>3. PICK done : /\ Finalized(t, done, TRUE)
                  /\ IF "chart" \in done THEN FinalizeChart(t) ELSE UNCHANGED chartVars
  BY DEF Finalize, Finalized, Healthy
<1>4. /\ pc[t] = "applied" /\ pc'[t] = "done"
      /\ accepted'.tx = t /\ accepted'.revision = accepted.revision + 1
      /\ FinalizeChart(t)
  BY <1>0, <1>3 DEF Finalized, GoTo, Publish, CoordinatorTypeOK, Participants
<1>5. Shown(t)
  BY <1>2, <1>4 DEF ChartStands
<1>6. /\ UNCHANGED surface
      /\ chart'.accepted = t /\ chart'.revision = stage[t].base + 1
  BY <1>0, <1>4 DEF FinalizeChart, ChartTypeOK
<1>7. SurfaceRests' /\ ~InFlight(t)'
  BY <1>4, <1>5, <1>6 DEF SurfaceRests, Shown, InFlight
<1>8. chart'.accepted = accepted'.tx /\ chart'.revision = accepted'.revision
  BY <1>4, <1>5, <1>6 DEF Shown, Owns, Registered
<1> QED
  BY <1>2, <1>4, <1>7, <1>8, SoleStepStands

\* A rollback of the chart mutates the series only if t did, and knows the
\* revision to put back.
LEMMA ChartUndoStands ==
    ASSUME TypeOK, SingleFlight, Healthy, ChartInv, NEW t \in Tx, Undo(t)
    PROVE  ChartInv'
<1>0. CoordinatorTypeOK /\ ChartTypeOK
  BY DEF TypeOK
<1>1. UndoStep(t) /\ pc[t] = "failing"
  BY UndoActionCoordinates DEF Undo, UndoAction
<1>2. /\ ChartStands(t)
      /\ \A u \in Tx \ {t} : /\ ~InFlight(u)
                             /\ pc'[u] = pc[u] /\ status'[u] = status[u]
      /\ pc'[t] # "idle"
      /\ chart.accepted = accepted.tx /\ chart.revision = accepted.revision
  BY <1>0, <1>1, SoleInFlight
<1>3. /\ UNCHANGED accepted /\ pc'[t] = "rollingBack"
      /\ status'[t]["chart"] = status[t]["chart"]
  BY <1>0 DEF Undo, Unwind, GoTo, SetStatus, CoordinatorTypeOK, Participants, decisionVars
<1>4. "chart" \in Retained(t)' <=> "chart" \in Retained(t)
  BY <1>3 DEF Retained
<1>5. "chart" \in Retained(t) <=> Has(t, "chart", "prepared") \/ Has(t, "chart", "applied")
  BY DEF Retained, Has, Participants
<1>6. surface.revision \in Nat
  BY <1>0 DEF ChartTypeOK
<1>7. /\ UNCHANGED <<chart, stage>>
      /\ surface'.series = accepted.tx /\ surface'.applied = accepted.tx
      /\ IF "chart" \in Retained(t) THEN stage[t].revision = accepted.revision
         ELSE surface'.revision = accepted.revision
  <2>1. CASE (Has(t, "chart", "none") \/ Has(t, "chart", "rolledBack")) /\ SurfaceRests
    <3>1. "chart" \notin Retained(t) /\ UNCHANGED chartVars
      BY <1>5, <2>1 DEF Has, Undo
    <3> QED
      BY <2>1, <3>1 DEF SurfaceRests, chartVars
  <2>2. CASE Has(t, "chart", "prepared") /\ Registered(t, "staged") /\ SurfaceRests
    <3>1. /\ "chart" \in Retained(t)
          /\ RestoreSeries(t, disposed, paints, surface.revision)
      BY <1>5, <2>2 DEF Undo
    <3> QED
      BY <1>0, <1>6, <2>2, <3>1, RestoringSeries DEF SurfaceRests, Registered
  <2>3. CASE Has(t, "chart", "applied") /\ Shown(t)
    <3>1. /\ "chart" \in Retained(t)
          /\ RestoreSeries(t, disposed, paints, surface.revision)
      BY <1>5, <2>3 DEF Undo
    <3> QED
      BY <1>0, <1>6, <2>3, <3>1, RestoringSeries DEF Shown, Owns, Registered
  <2> QED
    BY <1>1, <1>2, <2>1, <2>2, <2>3 DEF ChartStands
<1>8. ChartStands(t)' /\ InFlight(t)'
  BY <1>3, <1>4, <1>7 DEF ChartStands, Preparing, InFlight
<1> QED
  BY <1>2, <1>3, <1>7, <1>8, SoleStepStands

\* A rollback that settles healthily leaves the chart at rest.
LEMMA SettlingStands ==
    ASSUME TypeOK, SingleFlight, Healthy, ChartInv, Healthy', NEW t \in Tx, Settle(t)
    PROVE  ChartInv'
<1>0. CoordinatorTypeOK /\ ChartTypeOK
  BY DEF TypeOK
<1>1. UndoStep(t) /\ pc[t] = "rollingBack"
  BY UndoActionCoordinates DEF Settle, UndoAction
<1>2. /\ ChartStands(t)
      /\ \A u \in Tx \ {t} : /\ ~InFlight(u)
                             /\ pc'[u] = pc[u] /\ status'[u] = status[u]
      /\ pc'[t] # "idle"
      /\ chart.accepted = accepted.tx /\ chart.revision = accepted.revision
  BY <1>0, <1>1, SoleInFlight
<1>3. /\ RolledBack(t, TRUE, ~disposed)
      /\ IF "chart" \in Retained(t) THEN SettleRestore(t) ELSE UNCHANGED chartVars
  BY DEF Settle, RolledBack, Healthy
<1>4. UNCHANGED accepted /\ pc'[t] = "done"
  BY <1>0, <1>3 DEF RolledBack, GoTo, CoordinatorTypeOK
<1>5. UNCHANGED chart /\ SurfaceRests'
  <2>1. CASE "chart" \in Retained(t)
    <3>1. /\ UNCHANGED chart
          /\ surface'.series = surface.series /\ surface'.applied = surface.applied
          /\ surface'.revision = stage[t].revision
      BY <1>0, <1>3, <2>1 DEF SettleRestore, ChartTypeOK
    <3> QED
      BY <1>1, <1>2, <1>4, <2>1, <3>1 DEF ChartStands, SurfaceRests
  <2>2. CASE "chart" \notin Retained(t)
    BY <1>1, <1>2, <1>3, <1>4, <2>2 DEF ChartStands, SurfaceRests, chartVars
  <2> QED
    BY <2>1, <2>2
<1>6. ~InFlight(t)'
  BY <1>4 DEF InFlight
<1> QED
  BY <1>2, <1>4, <1>5, <1>6, SoleStepStands

\* The user touches neither the series nor the executor.
LEMMA InputStands ==
    ASSUME ChartInv, EditViewport \/ UserPlays \/ UserPauses \/ UNCHANGED vars
    PROVE  ChartInv'
<1>1. UNCHANGED <<chartVars, coordinatorVars>>
  BY DEF EditViewport, UserPlays, UserPauses, vars, ownerVars
<1>2. UNCHANGED <<chart, surface, stage, accepted, pc, status, poisoned, disposed>>
  BY <1>1 DEF chartVars, coordinatorVars
<1>3. /\ Healthy' <=> Healthy
      /\ SurfaceRests' <=> SurfaceRests
      /\ \A t \in Tx : /\ InFlight(t)' <=> InFlight(t)
                       /\ \A s : Has(t, "chart", s)' <=> Has(t, "chart", s)
  BY <1>2 DEF Healthy, SurfaceRests, InFlight, Has
<1>4. ASSUME NEW t \in Tx, ChartStands(t)
      PROVE  ChartStands(t)'
  BY <1>2, <1>4, WaitingStands DEF ChartWaits
<1> QED
  BY <1>2, <1>3, <1>4 DEF ChartInv

\* Every step of the production composition keeps the invariant of the chart.
LEMMA ChartStep ==
    ASSUME TypeOK, ChartInv, [Next]_vars
    PROVE  ChartInv'
<1>1. Healthy' => Healthy
  BY NextCoordinates, HealthLasts DEF TypeOK
<1>2. SUFFICES ASSUME SingleFlight, Healthy, Healthy'
               PROVE  ChartInv'
  BY <1>1 DEF ChartInv
<1>3. CASE EditViewport \/ UserPlays \/ UserPauses \/ UNCHANGED vars
  BY <1>3, InputStands
<1>4. CASE DisposeComposition
  BY <1>2, <1>4 DEF DisposeComposition, Dispose, Healthy
<1>5. ASSUME NEW t \in Tx, NEW deferred \in BOOLEAN, Submit(t, deferred)
      PROVE  ChartInv'
  BY <1>2, <1>5, SubmissionStands
<1>6. ASSUME NEW t \in Tx, PrepareAction(t)
      PROVE  ChartInv'
  BY <1>2, <1>6, PassingStands, PreparationStands DEF PrepareAction
<1>7. ASSUME NEW t \in Tx, ApplyAction(t)
      PROVE  ChartInv'
  BY <1>2, <1>7, PassingStands, PaintStartStands, PaintedStands, PaintRefusalStands,
     UnpaintedStands DEF ApplyAction
<1>8. ASSUME NEW t \in Tx, DecideAction(t)
      PROVE  ChartInv'
  BY <1>2, <1>8, PassingStands, ChartDecisionStands DEF DecideAction
<1>9. ASSUME NEW t \in Tx, UndoAction(t)
      PROVE  ChartInv'
  BY <1>2, <1>9, ChartUndoStands, SettlingStands DEF UndoAction
<1> QED
  BY <1>3, <1>4, <1>5, <1>6, <1>7, <1>8, <1>9 DEF Next, Input, Execute

\* In the production composition, which lets one intent be in flight: whatever
\* was refused, unproved, rolled back or edited, with nothing in flight the
\* series, the adapter's data, the accepted Chart snapshot and both chart
\* revisions are those of the accepted snapshot
\* (lightweight-chart-adapter.js:144-194, pane-set-adapter.js:180-195).
THEOREM CompositionChartAgrees == SingleFlight => (Spec => []ChartAgreesAtRest)
<1> SUFFICES ASSUME SingleFlight
             PROVE  Spec => []ChartAgreesAtRest
  OBVIOUS
<1>1. Init => ChartInv
  <2> SUFFICES ASSUME Init PROVE ChartInv
    OBVIOUS
  <2>1. \A t \in Tx : pc[t] = "idle" /\ Has(t, "chart", "none")
    BY DEF Init, CoordinatorInit, Participants, Has
  <2>2. SurfaceRests /\ chart.accepted = accepted.tx /\ chart.revision = accepted.revision
    BY DEF Init, CoordinatorInit, ChartInit, SurfaceRests
  <2> QED
    BY <2>1, <2>2 DEF ChartInv, InFlight
<1>2. TypeOK /\ ChartInv /\ [Next]_vars => ChartInv'
  BY ChartStep
<1>3. ChartInv => ChartAgreesAtRest
  BY DEF ChartInv, ChartAgreesAtRest, Healthy, SurfaceRests
<1> QED
  BY <1>1, <1>2, <1>3, CompositionTypes, PTL DEF Spec
-----------------------------------------------------------------------------
(* What the newest intent painted stays shown.                             *)
(*                                                                         *)
(* The series belongs to the transaction that took the newest token, and   *)
(* only the current one takes tokens.  From its mutation of the series on, *)
(* the current transaction is ahead: every other stage that could still be *)
(* put back has an older token, so its rollback leaves the series alone.   *)

\* A stage whose rollback would mutate the series if its token allowed it.
Reversible(u) == stage[u].state \in {"applying", "applied"}

TokensTaken == \A u \in Tx : stage[u].token <= surface.token

\* t is the newest intent, and mutated the series without being undone.
Ahead(t) == /\ t = current
            /\ \/ pc[t] \in {"painting", "painted", "applied"}
               \/ terminal[t] = "committed"

HasSeries(t) ==
    /\ surface.series = t
    /\ pc[t] # "painting" => surface.applied = t
    /\ \A u \in Tx \ {t} : Reversible(u) => stage[u].token < surface.token

ShownInv == TokensTaken /\ \A t \in Tx : Ahead(t) => HasSeries(t)

\* No token is ahead of the surface's.
LEMMA TokensStep ==
    ASSUME ChartTypeOK, TokensTaken, ChartMoves
    PROVE  TokensTaken'
<1>0. /\ surface \in Surfaces /\ stage \in [Tx -> Stages]
      /\ surface.token \in Nat /\ \A u \in Tx : stage[u].token \in Nat
  BY DEF ChartTypeOK, Surfaces, Stages
<1>1. CASE surface'.token = surface.token /\ \A u \in Tx : stage'[u].token = stage[u].token
  BY <1>1 DEF TokensTaken
<1>2. ASSUME NEW t \in Tx, StageChart(t)
      PROVE  TokensTaken'
  BY <1>0, <1>2 DEF StageChart, NoStage, TokensTaken
<1>3. ASSUME NEW t \in Tx, MutateSeries(t)
      PROVE  TokensTaken'
  <2>1. surface'.token = surface.token + 1
    BY <1>0, <1>3 DEF MutateSeries, Surfaces
  <2>2. \A u \in Tx : stage'[u].token = IF u = t THEN surface.token + 1 ELSE stage[u].token
    BY <1>0, <1>3 DEF MutateSeries, Stages
  <2> QED
    BY <1>0, <2>1, <2>2 DEF TokensTaken
<1>4. CASE UNCHANGED chartVars \/ \E t \in Tx : BeginChart(t)
  BY <1>1, <1>4 DEF chartVars, BeginChart
<1>5. ASSUME NEW t \in Tx, CommitPaint(t) \/ SettleRestore(t) \/ AbandonRestore(t)
                           \/ FinalizeChart(t)
      PROVE  TokensTaken'
  <2>1. surface'.token = surface.token
    BY <1>0, <1>5 DEF CommitPaint, SettleRestore, AbandonRestore, FinalizeChart, Surfaces
  <2>2. stage' = stage \/ \E state : stage' = [stage EXCEPT ![t].state = state]
    BY <1>5 DEF CommitPaint, SettleRestore, AbandonRestore, FinalizeChart
  <2>3. \A u \in Tx : stage'[u].token = stage[u].token
    BY <1>0, <2>2 DEF Stages
  <2> QED
    BY <1>1, <2>1, <2>3
<1>6. ASSUME NEW t \in Tx, NEW queue, NEW revision, RestoreSeries(t, disposed, queue, revision)
      PROVE  TokensTaken'
  <2>1. surface'.token = surface.token /\ stage' = stage
    BY <1>0, <1>6 DEF RestoreSeries, Surfaces
  <2> QED
    BY <1>1, <2>1
<1> QED
  BY <1>2, <1>3, <1>4, <1>5, <1>6 DEF ChartMoves

\* What t may do to the chart when it is not, or no longer, current.
LateMoves(t) ==
    \/ UNCHANGED chartVars
    \/ BeginChart(t) \/ StageChart(t)
    \/ \E queue \in Seq(Tx), revision \in Nat : RestoreSeries(t, disposed, queue, revision)
    \/ SettleRestore(t) \/ AbandonRestore(t) \/ FinalizeChart(t)

\* None of it reaches the series of the one that is ahead.
LEMMA LateMovesSpare ==
    ASSUME ChartTypeOK, NEW a \in Tx, NEW t \in Tx \ {a}, HasSeries(a), pc'[a] = pc[a],
           LateMoves(t)
    PROVE  HasSeries(a)'
<1>0. surface \in Surfaces /\ stage \in [Tx -> Stages]
  BY DEF ChartTypeOK, Surfaces, Stages
<1>1. ASSUME surface'.series = surface.series, surface'.applied = surface.applied,
             surface'.token = surface.token,
             \A u \in Tx \ {a} : Reversible(u)' =>
                 Reversible(u) /\ stage'[u].token = stage[u].token
      PROVE  HasSeries(a)'
  BY <1>1 DEF HasSeries
<1>2. CASE UNCHANGED chartVars \/ BeginChart(t) \/ AbandonRestore(t)
  BY <1>1, <1>2 DEF chartVars, BeginChart, AbandonRestore, Reversible
<1>3. CASE StageChart(t)
  BY <1>0, <1>1, <1>3 DEF StageChart, NoStage, Reversible
<1>4. ASSUME NEW queue \in Seq(Tx), NEW revision \in Nat,
             RestoreSeries(t, disposed, queue, revision)
      PROVE  HasSeries(a)'
  <2>1. ~OwnsSeries(t, disposed)
    <3>1. Reversible(t) => stage[t].token < surface.token
      BY DEF HasSeries
    <3>2. stage[t].token \in Nat /\ surface.token \in Nat
      BY <1>0 DEF Stages, Surfaces
    <3> QED
      BY <3>1, <3>2 DEF OwnsSeries, Reversible
  <2>2. surface' = [surface EXCEPT !.revision = revision] /\ stage' = stage
    BY <1>4, <2>1 DEF RestoreSeries
  <2> QED
    BY <1>0, <1>1, <2>2 DEF Surfaces, Reversible
<1>5. CASE SettleRestore(t) \/ FinalizeChart(t)
  BY <1>0, <1>1, <1>5 DEF SettleRestore, FinalizeChart, Surfaces, Stages, Reversible
<1> QED
  BY <1>2, <1>3, <1>4, <1>5 DEF LateMoves

\* Only the current transaction mutates the series or commits a paint.
LEMMA LateStep ==
    ASSUME ChartTypeOK, NEW t \in Tx, t # current, Execute(t)
    PROVE  LateMoves(t)
<1>0. ~IsCurrent(t)
  BY DEF IsCurrent, Currency
<1>1. CASE PrepareAction(t)
  BY <1>0, <1>1 DEF PrepareAction, ProposalArrives, TargetResolves, Acquire, Project,
     PortFails, Prepare, ownerVars, LateMoves
<1>2. CASE StartPaint(t) \/ ApplyOwners(t) \/ RefuseDecision(t)
  BY <1>0, <1>2 DEF StartPaint, ApplyOwners, RefuseDecision, ownerVars, LateMoves
<1>3. CASE Painted(t)
  BY <1>0, <1>3 DEF Painted, ChartIsCurrent
<1>4. CASE PaintRefused(t)
  <2>1. /\ Tail(paints) \in Seq(Tx)
        /\ surface.revision \in Nat /\ stage[t].revision + 1 \in Nat
    BY <1>4, QueueType DEF PaintRefused, ChartTypeOK
  <2> QED
    BY <1>4, <2>1 DEF PaintRefused, LateMoves
<1>5. CASE Undo(t)
  <2>1. paints \in Seq(Tx) /\ surface.revision \in Nat
    BY DEF ChartTypeOK
  <2> QED
    BY <1>5, <2>1 DEF Undo, LateMoves
<1>6. CASE Unpainted(t) \/ Settle(t) \/ Finalize(t)
  BY <1>6 DEF Unpainted, Settle, Finalize, LateMoves
<1> QED
  BY <1>1, <1>2, <1>3, <1>4, <1>5, <1>6
     DEF Execute, ApplyAction, DecideAction, UndoAction

\* The one that comes ahead takes the series, and keeps it to its decision.
LEMMA OwnStepShows ==
    ASSUME TypeOK, TerminalsReturned, ShownInv, NEW t \in Tx, Execute(t), Ahead(t)'
    PROVE  HasSeries(t)'
<1>0. /\ CoordinatorTypeOK
      /\ surface \in Surfaces /\ stage \in [Tx -> Stages]
  BY DEF TypeOK, ChartTypeOK, Surfaces, Stages
<1>1. CASE StartPaint(t)
  <2>1. IsCurrent(t) /\ MutateSeries(t) /\ pc'[t] = "painting"
    <3>1. terminal'[t] # "committed"
      BY <1>0, <1>1 DEF StartPaint, StartApply, TerminalsReturned, decisionVars
    <3> QED
      BY <1>0, <1>1, <3>1 DEF StartPaint, StartApply, Continue, Interrupt, GoTo, Ahead,
         CoordinatorTypeOK
  <2>2. surface'.series = t /\ surface'.token = surface.token + 1
    BY <1>0, <2>1 DEF MutateSeries, Surfaces
  <2>3. \A u \in Tx \ {t} : stage'[u] = stage[u]
    BY <1>0, <2>1 DEF MutateSeries
  <2>4. \A u \in Tx : stage[u].token \in Nat /\ stage[u].token <= surface.token
    BY <1>0 DEF ShownInv, TokensTaken, Stages
  <2>5. surface.token \in Nat
    BY <1>0 DEF Surfaces
  <2> QED
    BY <2>1, <2>2, <2>3, <2>4, <2>5 DEF HasSeries
<1>2. CASE Painted(t)
  <2>1. HasSeries(t) /\ CommitPaint(t)
    BY <1>2 DEF Painted, ChartApplied, ChartIsCurrent, IsCurrent, Currency, ShownInv, Ahead
  <2>2. /\ surface'.series = surface.series /\ surface'.applied = t
        /\ surface'.token = surface.token
        /\ \A u \in Tx \ {t} : stage'[u] = stage[u]
    BY <1>0, <2>1 DEF CommitPaint, Surfaces
  <2> QED
    BY <2>1, <2>2 DEF HasSeries, Reversible
<1>3. CASE ApplyOwners(t)
  <2>1. pc[t] = "painted" /\ UNCHANGED <<current, chartVars>>
    BY <1>3 DEF ApplyOwners, OwnersApplied, decisionVars
  <2>2. pc'[t] \in {"applied", "failing"}
    BY <1>0, <1>3 DEF ApplyOwners, OwnersApplied, Continue, Interrupt, Throw, GoTo,
       CoordinatorTypeOK
  <2>3. HasSeries(t)
    BY <2>1 DEF ShownInv, Ahead
  <2> QED
    BY <2>1, <2>2, <2>3 DEF HasSeries, Reversible, chartVars
<1>4. CASE Finalize(t)
  <2>1. HasSeries(t) /\ pc[t] = "applied"
    BY <1>4 DEF Finalize, Finalized, Publishable, IsCurrent, Currency, ShownInv, Ahead
  <2>2. FinalizeChart(t) \/ UNCHANGED chartVars
    BY <1>4 DEF Finalize
  <2>3. /\ surface' = surface
        /\ \A u \in Tx \ {t} : stage'[u] = stage[u]
    BY <1>0, <2>2 DEF FinalizeChart, chartVars
  <2> QED
    BY <2>1, <2>3 DEF HasSeries, Reversible
<1>5. ASSUME PrepareAction(t) \/ PaintRefused(t) \/ Unpainted(t) \/ RefuseDecision(t)
             \/ Undo(t)
      PROVE  ~Ahead(t)'
  <2>1. pc[t] # "done" /\ terminal'[t] = terminal[t]
    <3>1. CASE PrepareAction(t) \/ PaintRefused(t) \/ Unpainted(t) \/ RefuseDecision(t)
      <4>1. PrepareStep(t) \/ ApplyStep(t) \/ DecisionRefused(t)
        BY <3>1, PrepareActionCoordinates
           DEF PaintRefused, Unpainted, RefuseDecision, ApplyStep
      <4> QED
        BY <1>0, <4>1, RunningStep DEF decisionVars
    <3>2. CASE Undo(t)
      BY <3>2 DEF Undo, Unwind, decisionVars
    <3> QED
      BY <1>5, <3>1, <3>2
  <2>2. pc'[t] \notin {"painting", "painted", "applied"}
    <3>1. CASE PrepareAction(t)
      BY <1>0, <3>1, PrepareActionCoordinates DEF PrepareStep, Proposed, Acquired, Projected,
         PortRejects, Prepared, Continue, Interrupt, Throw, GoTo, CoordinatorTypeOK
    <3>2. CASE PaintRefused(t) \/ Unpainted(t) \/ RefuseDecision(t) \/ Undo(t)
      BY <1>0, <3>2 DEF PaintRefused, ChartFails, Unpainted, ChartUndone, RefuseDecision,
         DecisionRefused, Undo, Unwind, Throw, GoTo, CoordinatorTypeOK
    <3> QED
      BY <1>5, <3>1, <3>2
  <2> QED
    BY <2>1, <2>2 DEF Ahead, TerminalsReturned
<1>6. CASE Settle(t)
  <2>1. PICK chartRestored \in BOOLEAN : RolledBack(t, chartRestored, ~disposed)
    BY <1>6 DEF Settle
  <2>2. pc'[t] = "done" /\ terminal'[t] = FailureStatus(t)
    BY <1>0, <2>1 DEF RolledBack, GoTo, CoordinatorTypeOK
  <2>3. FailureStatus(t) # "committed"
    BY <1>0 DEF FailureStatus, CoordinatorTypeOK
  <2> QED
    BY <2>2, <2>3 DEF Ahead
<1> QED
  BY <1>1, <1>2, <1>3, <1>4, <1>5, <1>6
     DEF Execute, ApplyAction, DecideAction, UndoAction

\* Every step of the composition keeps the series with the newest paint.
LEMMA ShownStep ==
    ASSUME TypeOK, TerminalsReturned, ShownInv, [Next]_vars
    PROVE  ShownInv'
<1>0. CoordinatorTypeOK /\ ChartTypeOK
  BY DEF TypeOK
<1>1. TokensTaken'
  BY <1>0, NextMovesOwners, TokensStep DEF TypeOK, OwnersMove, ShownInv
<1>2. CASE Input \/ UNCHANGED vars
  <2>1. UNCHANGED <<current, pc, terminal, chartVars>>
    BY <1>2 DEF Input, EditViewport, UserPlays, UserPauses, DisposeComposition, Dispose,
       vars, coordinatorVars, ownerVars
  <2> QED
    BY <1>1, <2>1 DEF ShownInv, Ahead, HasSeries, Reversible, chartVars
<1>3. ASSUME NEW t \in Tx, NEW deferred \in BOOLEAN, Submit(t, deferred), NEW a \in Tx
      PROVE  ~Ahead(a)'
  <2>1. /\ current' = t /\ pc[t] = "idle" /\ pc'[t] = "proposing"
        /\ terminal' = terminal
    BY <1>0, <1>3 DEF Submit, Begin, GoTo, CoordinatorTypeOK
  <2> QED
    BY <2>1 DEF Ahead, TerminalsReturned
<1>4. ASSUME NEW t \in Tx, Execute(t), NEW a \in Tx, Ahead(a)'
      PROVE  HasSeries(a)'
  <2>1. CASE a = t
    BY <1>4, <2>1, OwnStepShows
  <2>2. CASE a # t
    <3>1. PrepareStep(t) \/ ApplyStep(t) \/ DecideStep(t) \/ UndoStep(t)
      BY <1>4, PrepareActionCoordinates, ApplyActionCoordinates, DecideActionCoordinates,
         UndoActionCoordinates DEF Execute
    <3>2. pc'[a] = pc[a] /\ terminal'[a] = terminal[a]
      BY <1>0, <2>2, <3>1, OtherRecordsKept
    <3>3. current' = current
      <4>1. CASE PrepareStep(t) \/ ApplyStep(t) \/ DecisionRefused(t)
        BY <1>0, <4>1, RunningStep DEF decisionVars
      <4>2. CASE UndoStep(t) \/ DecideStep(t)
        BY <1>0, <4>1, <4>2 DEF UndoStep, Unwind, RolledBack, DecideStep, Finalized,
           decisionVars
      <4> QED
        BY <3>1, <4>1, <4>2
    <3>4. HasSeries(a) /\ t # current
      BY <1>4, <2>2, <3>2, <3>3 DEF ShownInv, Ahead
    <3> QED
      BY <1>0, <1>4, <2>2, <3>2, <3>4, LateStep, LateMovesSpare
  <2> QED
    BY <2>1, <2>2
<1>5. ASSUME NEW t \in Tx, Execute(t) \/ \E deferred \in BOOLEAN : Submit(t, deferred)
      PROVE  ShownInv'
  BY <1>1, <1>3, <1>4, <1>5 DEF ShownInv
<1> QED
  BY <1>2, <1>5 DEF Next

\* However intents overlap and whichever paints fail: once the newest intent's
\* paint is proved its candles are in the series and its data in the adapter,
\* until it is rolled back itself; no late rollback of a superseded paint
\* restores anything over it (lightweight-chart-adapter.js:144-166).
THEOREM CompositionShowsNewest == Spec => []PaintedIsShown
<1>1. Init => ShownInv
  BY DEF Init, CoordinatorInit, ChartInit, NoStage, ShownInv, TokensTaken, Ahead
<1>2. TypeOK /\ TerminalsReturned /\ ShownInv /\ [Next]_vars => ShownInv'
  BY ShownStep
<1>3. TerminalsReturned /\ ShownInv => PaintedIsShown
  BY DEF TerminalsReturned, ShownInv, Ahead, HasSeries, PaintedIsShown
<1>4. OwnersInv => TypeOK /\ TerminalsReturned
  BY DEF OwnersInv, CountInv
<1> QED
  BY <1>1, <1>2, <1>3, <1>4, CompositionOwners, PTL DEF Spec
=============================================================================
