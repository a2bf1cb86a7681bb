------------------------------ MODULE Autoplay ------------------------------
(***************************************************************************)
(* Who may start a transaction of a replay workspace, and when:            *)
(*   - autoplay-scheduler.js, one timer or one step at a time;             *)
(*   - workspace-execution.js, one slot, a command that finds it taken is  *)
(*     dropped;                                                            *)
(*   - navigation-executor.js, which plays or pauses the replay clock;     *)
(*   - the queue of Next clicks of workspace-replay-commands.js;           *)
(*   - the transport's Play/Pause button, which shows the playback it was  *)
(*     last told.                                                          *)
(* A transaction is here what its caller sees of it: it prepares, then it  *)
(* commits or fails (WorkspaceTransaction has the inside).                 *)
(*                                                                         *)
(* A promise continuation runs before any timer, response or click, and    *)
(* the waiters for an idle slot run before the caller of the command that  *)
(* held it.                                                                *)
(***************************************************************************)
EXTENDS Naturals

CONSTANTS
    End,       \* cursor at the end of the replay range; it starts at 0
    MaxInputs  \* bound on clicks and history requests

ASSUME AutoplayAssumption == End \in Nat /\ MaxInputs \in Nat

VARIABLES
    clock,     \* the replay clock: cursor and playback
    shown,     \* playback the transport was last told
    rendered,  \* playback of the accepted publication, rendered on rollback
    cadence,   \* the scheduler: active, generation, token of its timer or 0
    tick,      \* token of the tick that is ticking, or 0
    answer,    \* what runNext() answered the tick
    slot,      \* the pending command of workspace-execution.js
    queued,    \* Next clicks whose command has not begun
    disposed,
    lastWord,  \* history: the last transport command that took effect
    inputs     \* clicks and requests so far

vars == <<clock, shown, rendered, cadence, tick, answer, slot, queued, disposed,
          lastWord, inputs>>

Playback == {"paused", "playing"}
Command == {"none", "autoplay-next", "manual-next", "navigate", "materialize"}
Cursor == 0..End
Free == [kind |-> "none", target |-> 0, prepared |-> FALSE, captured |-> "paused"]

Init == /\ clock = [cursor |-> 0, playback |-> "paused"]
        /\ shown = "paused"
        /\ rendered = "paused"
        /\ cadence = [active |-> FALSE, generation |-> 0, timer |-> 0]
        /\ tick = 0
        /\ answer = "none"
        /\ slot = Free
        /\ queued = 0
        /\ disposed = FALSE
        /\ lastWord = "pause"
        /\ inputs = 0
-----------------------------------------------------------------------------
Complete == clock.cursor = End
Pending == slot.kind # "none"
Paused == [clock EXCEPT !.playback = "paused"]

\* The first waiter for an idle slot continues.
HeadReady == queued > 0 /\ ~Pending

\* Timers, responses and clicks wait for every continuation.
Idle == ~HeadReady /\ answer = "none"

\* run(): the command takes the slot.
Take(kind, target) ==
    slot' = [kind |-> kind, target |-> target, prepared |-> FALSE, captured |-> "paused"]

\* A click or request from outside; disposed commands return at once.
Input == /\ Idle
         /\ ~disposed
         /\ inputs < MaxInputs
         /\ inputs' = inputs + 1
         /\ UNCHANGED disposed
-----------------------------------------------------------------------------
(* The scheduler.                                                          *)

\* Mutant: the timer is left running.
StopKeepingTimer ==
    /\ cadence' = [cadence EXCEPT !.active = FALSE, !.generation = @ + 1]
    /\ clock' = Paused
    /\ shown' = "paused"

Stop == /\ cadence' = [active |-> FALSE, generation |-> cadence.generation + 1, timer |-> 0]
        /\ clock' = Paused
        /\ shown' = "paused"

\* runNext(): a taken slot answers null.
RunNext(token) ==
    /\ tick' = token
    /\ IF Pending
       THEN answer' = "refused" /\ UNCHANGED slot
       ELSE Take("autoplay-next", clock.cursor + 1) /\ UNCHANGED answer

TimerFires ==
    /\ Idle
    /\ cadence.timer # 0
    /\ IF cadence.active /\ tick = 0 /\ cadence.timer = cadence.generation
       THEN IF clock.playback # "playing" \/ Complete
            THEN Stop /\ UNCHANGED <<tick, answer, slot>>
            ELSE /\ cadence' = [cadence EXCEPT !.timer = 0]
                 /\ RunNext(cadence.timer)
                 /\ UNCHANGED <<clock, shown>>
       ELSE /\ cadence' = [cadence EXCEPT !.timer = 0]
            /\ UNCHANGED <<tick, answer, slot, clock, shown>>
    /\ UNCHANGED <<rendered, queued, disposed, lastWord, inputs>>

\* Mutant: an answer that is not a commit ends the tick, not the cadence.
TickContinuesWithoutStop ==
    /\ answer # "none" /\ ~HeadReady
    /\ answer' = "none"
    /\ tick' = 0
    /\ cadence' = IF cadence.active /\ answer = "committed"
                  THEN [cadence EXCEPT !.timer = tick] ELSE cadence
    /\ UNCHANGED <<clock, shown, rendered, slot, queued, disposed, lastWord, inputs>>

\* The rest of tick() after runNext() answered.
TickContinues ==
    /\ answer # "none"
    /\ ~HeadReady
    /\ answer' = "none"
    /\ tick' = 0
    /\ IF disposed \/ ~cadence.active \/ tick # cadence.generation
       THEN UNCHANGED <<cadence, clock, shown>>
       ELSE IF answer # "committed" \/ clock.playback # "playing" \/ Complete
            THEN Stop
            ELSE /\ cadence' = [cadence EXCEPT !.timer = tick]
                 /\ UNCHANGED <<clock, shown>>
    /\ UNCHANGED <<rendered, slot, queued, disposed, lastWord, inputs>>
-----------------------------------------------------------------------------
(* The transport.                                                          *)

\* Mutant: Play is not disabled while a command is pending.
PlayOfferedWhenBusy == shown = "paused" /\ ~Complete

\* The button plays when it shows "paused"; it is disabled while busy.
PlayOffered == shown = "paused" /\ ~Complete /\ ~Pending

\* play() of an active scheduler returns; otherwise its first tick runs now,
\* unless an older one is still ticking.
UserPlays ==
    /\ Input
    /\ PlayOffered
    /\ lastWord' = "play"
    /\ IF cadence.active
       THEN UNCHANGED <<clock, shown, cadence, tick, answer, slot>>
       ELSE /\ clock' = [clock EXCEPT !.playback = "playing"]
            /\ shown' = "playing"
            /\ cadence' = [cadence EXCEPT !.active = TRUE, !.generation = @ + 1]
            /\ IF tick = 0
               THEN RunNext(cadence.generation + 1)
               ELSE UNCHANGED <<tick, answer, slot>>
    /\ UNCHANGED <<rendered, queued>>

UserPauses ==
    /\ Input
    /\ shown = "playing"
    /\ lastWord' = "pause"
    /\ Stop
    /\ UNCHANGED <<rendered, tick, answer, slot, queued>>

\* setCadenceMs(): a timer is replaced, or a running tick will use the value.
UserSetsCadence ==
    /\ Input
    /\ IF cadence.active /\ tick = 0
       THEN cadence' = [cadence EXCEPT !.timer = cadence.generation]
       ELSE UNCHANGED cadence
    /\ UNCHANGED <<clock, shown, rendered, tick, answer, slot, queued, lastWord>>

UserPressesNext ==
    /\ Input
    /\ ~Complete
    /\ queued' = queued + 1
    /\ UNCHANGED <<clock, shown, rendered, cadence, tick, answer, slot, lastWord>>

\* Mutant: the queue does not wait for the slot.
QueuedNextUnawaited ==
    /\ queued > 0
    /\ queued' = queued - 1
    /\ IF disposed \/ Complete \/ Pending
       THEN UNCHANGED <<clock, slot, lastWord>>
       ELSE Take("manual-next", clock.cursor + 1) /\ clock' = Paused /\ lastWord' = "navigate"
    /\ UNCHANGED <<shown, rendered, cadence, tick, answer, disposed, inputs>>

\* Mutant: manual navigation leaves the playback alone.
QueuedNextPlaying ==
    /\ HeadReady
    /\ queued' = queued - 1
    /\ IF disposed \/ Complete
       THEN UNCHANGED <<slot, lastWord>>
       ELSE Take("manual-next", clock.cursor + 1) /\ lastWord' = "navigate"
    /\ UNCHANGED <<clock, shown, rendered, cadence, tick, answer, disposed, inputs>>

\* The head of the queue finds the slot idle: navigation pauses the clock, and
\* the transport is not told.
QueuedNext ==
    /\ HeadReady
    /\ queued' = queued - 1
    /\ IF disposed \/ Complete
       THEN UNCHANGED <<clock, slot, lastWord>>
       ELSE /\ Take("manual-next", clock.cursor + 1)
            /\ clock' = Paused
            /\ lastWord' = "navigate"
    /\ UNCHANGED <<shown, rendered, cadence, tick, answer, disposed, inputs>>

\* Previous, restart, GoTo or truncation; the retained target is a noop.
UserNavigates(target) ==
    /\ Input
    /\ ~Pending
    /\ clock' = Paused
    /\ lastWord' = "navigate"
    /\ IF target = clock.cursor
       THEN shown' = "paused" /\ UNCHANGED slot
       ELSE Take("navigate", target) /\ UNCHANGED shown
    /\ UNCHANGED <<rendered, cadence, tick, answer, queued>>

\* A history extension, a layout or a replacement: the cursor is retained and
\* the clock plays on.
RequestMaterialization ==
    /\ Input
    /\ ~Pending
    /\ Take("materialize", clock.cursor)
    /\ UNCHANGED <<clock, shown, rendered, cadence, tick, answer, queued, lastWord>>
-----------------------------------------------------------------------------
(* The transaction of the pending command, as its caller sees it.          *)

\* Mutant: the slot is freed only when the task succeeds.
AnswerFreeingOnSuccess(result) ==
    /\ slot' = IF result = "committed" THEN Free ELSE slot
    /\ answer' = IF slot.kind = "autoplay-next" THEN result ELSE answer

\* finally of run(): the slot is freed and the caller gets its result.
Answer(result) ==
    /\ slot' = Free
    /\ answer' = IF slot.kind = "autoplay-next" THEN result ELSE answer

\* prepareVisible() captures the playback that commit and rollback will write.
Prepare ==
    /\ Idle /\ Pending /\ ~slot.prepared /\ ~disposed
    /\ slot' = [slot EXCEPT !.prepared = TRUE, !.captured = clock.playback]
    /\ UNCHANGED <<clock, shown, rendered, cadence, tick, answer, queued, disposed,
                   lastWord, inputs>>

Commit ==
    /\ Idle /\ Pending /\ slot.prepared /\ ~disposed
    /\ clock' = [cursor |-> slot.target,
                 playback |-> IF slot.target = End THEN "paused" ELSE slot.captured]
    /\ shown' = clock'.playback
    /\ rendered' = clock'.playback
    /\ Answer("committed")
    /\ UNCHANGED <<cadence, tick, queued, disposed, lastWord, inputs>>

\* The failure of a navigation pauses, and the transport is told unless the
\* executor throws; that of a materialization does not pause, and when it had
\* been applied its rollback puts back what it captured.
Fail ==
    /\ Idle /\ Pending /\ ~disposed
    /\ \/ /\ slot.kind # "materialize"
          /\ clock' = Paused
          /\ shown' \in {"paused", shown}
       \/ /\ slot.kind = "materialize"
          /\ UNCHANGED <<clock, shown>>
       \/ /\ slot.kind = "materialize"
          /\ slot.prepared
          /\ clock' = [clock EXCEPT !.playback = slot.captured]
          /\ shown' = rendered
    /\ Answer("refused")
    /\ UNCHANGED <<rendered, cadence, tick, queued, disposed, lastWord, inputs>>

\* After disposal the transaction is cancelled and nothing of it is shown.
Cancel ==
    /\ Idle /\ Pending /\ disposed
    /\ Answer("refused")
    /\ UNCHANGED <<clock, shown, rendered, cadence, tick, queued, disposed, lastWord, inputs>>

\* The first waiter of the queue is released even when the slot is taken.
Dispose ==
    /\ ~disposed
    /\ disposed' = TRUE
    /\ cadence' = [active |-> FALSE, generation |-> cadence.generation + 1, timer |-> 0]
    /\ queued' = IF queued > 0 /\ Pending THEN queued - 1 ELSE queued
    /\ UNCHANGED <<clock, shown, rendered, tick, answer, slot, lastWord, inputs>>
-----------------------------------------------------------------------------
User == \/ UserPlays \/ UserPauses \/ UserSetsCadence \/ UserPressesNext
        \/ RequestMaterialization \/ \E target \in Cursor : UserNavigates(target)

Transaction == Prepare \/ Commit \/ Fail \/ Cancel

Continuation == TickContinues \/ QueuedNext

Next == User \/ Transaction \/ Continuation \/ TimerFires \/ Dispose

Spec == Init /\ [][Next]_vars

\* Transactions end, continuations run and timers fire; the user owes nothing.
FairSpec == /\ Spec
            /\ WF_vars(Transaction)
            /\ WF_vars(Continuation)
            /\ WF_vars(TimerFires)
-----------------------------------------------------------------------------
(* Properties.                                                             *)

\* Every variable keeps its type.
TypeOK ==
    /\ clock \in [cursor : Cursor, playback : Playback]
    /\ shown \in Playback
    /\ rendered \in Playback
    /\ cadence \in [active : BOOLEAN, generation : Nat, timer : Nat]
    /\ tick \in Nat
    /\ answer \in {"none", "committed", "refused"}
    /\ slot \in [kind : Command, target : Cursor, prepared : BOOLEAN, captured : Playback]
    /\ queued \in Nat
    /\ disposed \in BOOLEAN
    /\ lastWord \in {"play", "pause", "navigate"}
    /\ inputs \in Nat

\* No overlap and no backlog: a timer is that of the active generation, and
\* none is set while a step runs (autoplay-scheduler.js:51-89).
OneCadence ==
    cadence.timer # 0 => /\ cadence.active
                         /\ cadence.timer = cadence.generation
                         /\ tick = 0

\* An active cadence always has its next tick: a timer, or a step running for
\* its generation.  The scheduler alone does not see to it, since play() after
\* pause() during a step would leave it with neither; the disabled button does
\* (autoplay-scheduler.js:69-97, replay-transport.js:153).
ActiveCadenceHasNextTick ==
    cadence.active => cadence.timer # 0 \/ tick = cadence.generation

\* An autoplay step begins only while Play is the last transport command that
\* took effect: neither a step in flight nor a timer outlives a pause or a
\* manual navigation (autoplay-scheduler.js:51-89, navigation-executor.js:92-101).
StepsOnlyAfterPlay ==
    [][slot'.kind = "autoplay-next" /\ ~Pending => lastWord' = "play"]_vars

\* A Next click leaves the queue to take the slot, unless there is nothing left
\* to replay: it is never dropped because another command was pending
\* (workspace-replay-commands.js:27-37).
NextIsNeverDropped ==
    [][queued' < queued => disposed' \/ Complete \/ slot'.kind = "manual-next"]_vars

\* Every Next click is eventually taken up (workspace-execution.js:42-79).
NextsAreTaken == queued > 0 ~> queued = 0

\* Autoplay comes to an end: at the end of the range, by a command, or by the
\* first step that does not commit (autoplay-scheduler.js:75-85).
AutoplayEnds == cadence.active ~> ~cadence.active

\* The Play button starts the playback
\* (V7_CONTINUOUS_AUTOPLAY_R6_7.md, "Cadence And Stop Semantics").
PlayPublishesPlaying == [][UserPlays => clock'.playback = "playing"]_vars
=============================================================================
