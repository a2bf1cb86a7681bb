----------------------------- MODULE ChartPaneSet -----------------------------
(***************************************************************************)
(* The chart participant: the application state and prepared application   *)
(* of chart-snapshot-application, over pane-set-adapter.js and one pane's  *)
(* lightweight-chart-adapter.js with its segmented-candle-series.js        *)
(* writer.  Candles are named by the transaction whose snapshot they show. *)
(***************************************************************************)
EXTENDS Transactions, Sequences

VARIABLES
    chart,     \* application state: accepted snapshot, revision, current identity
    surface,   \* series in the writer, appliedData, visibleMutationToken, and the
               \* pane set's adapterRevision
    stage,     \* stage[t]: what the adapters captured for the stage of t
    paints     \* transactions waiting for their two animation frames, in order

chartVars == <<chart, surface, stage, paints>>

StageStates == {"none", "staged", "applying", "applied", "finalized", "rolledBack"}

NoStage == [state |-> "none", base |-> 0, revision |-> 0, token |-> 0,
            series |-> NoTx, applied |-> NoTx]

ChartInit ==
    /\ chart = [accepted |-> NoTx, revision |-> 0, identity |-> NoTx]
    /\ surface = [series |-> NoTx, applied |-> NoTx, token |-> 0, revision |-> 0]
    /\ stage = [t \in Tx |-> NoStage]
    /\ paints = << >>

\* prepare() up to its await: only the application state learns of t.
BeginChart(t) ==
    /\ chart' = [chart EXCEPT !.identity = t]
    /\ UNCHANGED <<surface, stage, paints>>

\* stage() registers the pane-set stage and prepare() reads its base revision.
StageChart(t) ==
    /\ stage' = [stage EXCEPT ![t] = [NoStage EXCEPT !.state = "staged",
                    !.base = chart.revision, !.revision = surface.revision]]
    /\ UNCHANGED <<chart, surface, paints>>

\* applyStaged up to its await: capture, take the token, mutate the series.
MutateSeries(t) ==
    /\ stage' = [stage EXCEPT ![t].state = "applying",
                              ![t].token = surface.token + 1,
                              ![t].series = surface.series,
                              ![t].applied = surface.applied]
    /\ surface' = [surface EXCEPT !.series = t, !.token = @ + 1]
    /\ paints' = Append(paints, t)
    /\ UNCHANGED chart

Painting(t) == \E i \in DOMAIN paints : paints[i] = t
NextPaint(t) == paints # << >> /\ Head(paints) = t

\* The receipt of the pane set must carry the contract's target revision.
ReceiptMatches(t) == stage[t].revision = stage[t].base

\* commitVisible, the surface and the receipt.
CommitPaint(t) ==
    /\ surface' = [surface EXCEPT !.applied = t, !.revision = stage[t].revision + 1]
    /\ stage' = [stage EXCEPT ![t].state = "applied"]
    /\ paints' = Tail(paints)
    /\ UNCHANGED chart

\* Mutant: the pane's rollback does not look at its token.
OwnsSeriesAnyToken(t, detached) ==
    /\ stage[t].state \in {"applying", "applied"}
    /\ ~detached

\* The pane's rollback mutates only while its token is the newest one.
OwnsSeries(t, detached) ==
    /\ stage[t].state \in {"applying", "applied"}
    /\ stage[t].token = surface.token
    /\ ~detached

\* rollbackVisible up to its await; queue is what remains of paints and
\* revision what the pane set's adapterRevision had reached.
RestoreSeries(t, detached, queue, revision) ==
    /\ IF OwnsSeries(t, detached)
       THEN /\ surface' = [surface EXCEPT !.series = stage[t].series,
                                          !.applied = stage[t].applied,
                                          !.revision = revision]
            /\ paints' = Append(queue, t)
       ELSE /\ surface' = [surface EXCEPT !.revision = revision]
            /\ paints' = queue
    /\ UNCHANGED <<chart, stage>>

Restored(t) == Painting(t) => NextPaint(t)

\* Mutant: a restoring paint is awaited and never taken out of the queue.
AfterPaintKept(t) == paints

AfterPaint(t) == IF Painting(t) THEN Tail(paints) ELSE paints

\* Mutant: the adapter revision stays where the refused paint advanced it.
SettleRestoreOfSeries(t) ==
    /\ stage' = [stage EXCEPT ![t].state = "rolledBack"]
    /\ paints' = AfterPaint(t)
    /\ UNCHANGED <<chart, surface>>

\* The rest of rollbackPaneSet: the adapter revision is put back whether or
\* not this stage ever advanced it.
SettleRestore(t) ==
    /\ surface' = [surface EXCEPT !.revision = stage[t].revision]
    /\ stage' = [stage EXCEPT ![t].state = "rolledBack"]
    /\ paints' = AfterPaint(t)
    /\ UNCHANGED chart

\* The restoring paint is not proved: the stage keeps its state.
AbandonRestore(t) ==
    /\ paints' = AfterPaint(t)
    /\ UNCHANGED <<chart, surface, stage>>

ChartPublishable(t) == chart.identity = t /\ chart.revision = stage[t].base

FinalizeChart(t) ==
    /\ chart' = [chart EXCEPT !.accepted = t, !.revision = stage[t].base + 1]
    /\ stage' = [stage EXCEPT ![t].state = "finalized"]
    /\ UNCHANGED <<surface, paints>>

ChartTypeOK ==
    /\ chart \in [accepted : Names, revision : Nat, identity : Names]
    /\ surface \in [series : Names, applied : Names, token : Nat, revision : Nat]
    /\ stage \in [Tx -> [state : StageStates, base : Nat, revision : Nat,
                         token : Nat, series : Names, applied : Names]]
    /\ paints \in Seq(Tx)
=============================================================================
