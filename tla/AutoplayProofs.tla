---------------------------- MODULE AutoplayProofs ----------------------------
(***************************************************************************)
(* Theorems about Autoplay, for every range and any number of clicks.      *)
(***************************************************************************)
EXTENDS Autoplay, TLAPS

\* A tick is in flight exactly while an autoplay step holds the slot or its
\* answer is on the way.
TickAwaitsStep ==
    /\ slot.kind = "autoplay-next" => tick # 0 /\ answer = "none"
    /\ tick # 0 /\ answer = "none" => slot.kind = "autoplay-next"
    /\ answer # "none" => tick # 0

\* Tokens start at 1, so that 0 is no token.
GenerationStarted == cadence.active => cadence.generation # 0

\* The slot of no command holds nothing.
FreeIsEmpty == slot.kind = "none" => slot = Free

\* Disposal ends the cadence for good.
DisposedIsStopped == disposed => ~cadence.active

\* The inductive invariant of the cadence.
CadenceInv == /\ TypeOK
              /\ TickAwaitsStep
              /\ GenerationStarted
              /\ FreeIsEmpty
              /\ DisposedIsStopped
              /\ OneCadence
              /\ ActiveCadenceHasNextTick

\* After a pause there is no cadence; after a navigation what is left of one
\* finds the clock paused, now and when the pending command settles.
WordInv == cadence.active =>
               \/ lastWord = "play"
               \/ /\ lastWord = "navigate"
                  /\ clock.playback = "paused"
                  /\ slot.captured = "paused"

-----------------------------------------------------------------------------
\* The cadence invariant holds at first.
LEMMA CadenceInit == Init => CadenceInv
<1> SUFFICES ASSUME Init PROVE CadenceInv
  OBVIOUS
<1>1. TypeOK
  <2>1. 0 \in Cursor
    BY AutoplayAssumption DEF AutoplayAssumption, Cursor
  <2>2. Free \in [kind : Command, target : Cursor, prepared : BOOLEAN, captured : Playback]
    BY <2>1 DEF Free, Command, Playback
  <2>3. clock \in [cursor : Cursor, playback : Playback]
    BY <2>1 DEF Init, Playback
  <2> QED
    BY <2>2, <2>3 DEF Init, TypeOK, Playback
<1>2. TickAwaitsStep
  BY DEF Init, TickAwaitsStep, Free
<1>3. GenerationStarted /\ FreeIsEmpty /\ DisposedIsStopped
        /\ OneCadence /\ ActiveCadenceHasNextTick
  BY DEF Init, GenerationStarted, FreeIsEmpty, DisposedIsStopped, OneCadence,
     ActiveCadenceHasNextTick
<1> QED
  BY <1>1, <1>2, <1>3 DEF CadenceInv

\* A command that takes the slot aims at a cursor of the range.
LEMMA TakeTypes ==
    ASSUME NEW kind \in Command, NEW target \in Cursor, Take(kind, target)
    PROVE  /\ slot' \in [kind : Command, target : Cursor, prepared : BOOLEAN,
                         captured : Playback]
           /\ slot'.kind = kind
           /\ slot'.captured = "paused"
  BY DEF Take, Command, Playback

\* The cursor after this one is in the range while the range is not complete.
LEMMA NextInRange == TypeOK /\ ~Complete => clock.cursor + 1 \in Cursor
  BY AutoplayAssumption DEF AutoplayAssumption, TypeOK, Complete, Cursor

\* Starting a tick keeps the types.
LEMMA RunNextTypes ==
    ASSUME TypeOK, ~Complete, NEW token \in Nat, RunNext(token)
    PROVE  /\ tick' = token
           /\ answer' \in {"none", "committed", "refused"}
           /\ slot' \in [kind : Command, target : Cursor, prepared : BOOLEAN,
                         captured : Playback]
  BY NextInRange, TakeTypes DEF RunNext, TypeOK, Command

\* The clock is paused, or it plays on where it is.
LEMMA PausedTypes == TypeOK => Paused \in [cursor : Cursor, playback : Playback]
  BY DEF TypeOK, Paused, Playback

\* Stopping keeps the types and leaves neither a cadence nor a timer.
LEMMA StopTypes ==
    ASSUME TypeOK, Stop
    PROVE  /\ cadence' \in [active : BOOLEAN, generation : Nat, timer : Nat]
           /\ ~cadence'.active
           /\ cadence'.timer = 0
           /\ clock' \in [cursor : Cursor, playback : Playback]
           /\ shown' \in Playback
  BY PausedTypes DEF Stop, TypeOK, Playback

\* A user's command keeps the cadence invariant.  Play finds the slot free,
\* hence no tick in flight: its own first tick runs at once.
LEMMA UserKeepsCadence == CadenceInv /\ User => CadenceInv'
<1> SUFFICES ASSUME CadenceInv, User PROVE CadenceInv'
  OBVIOUS
<1> USE DEF CadenceInv, TickAwaitsStep, GenerationStarted, FreeIsEmpty, DisposedIsStopped,
     OneCadence, ActiveCadenceHasNextTick, Input, Idle, Pending
<1>1. CASE UserPlays
  <2>1. slot = Free /\ slot.kind = "none" /\ tick = 0 /\ answer = "none" /\ ~Complete
    BY <1>1 DEF UserPlays, PlayOffered
  <2>2. CASE cadence.active
    BY <1>1, <2>2 DEF UserPlays, TypeOK
  <2>3. CASE ~cadence.active
    <3>1. /\ RunNext(cadence.generation + 1)
          /\ cadence' = [cadence EXCEPT !.active = TRUE, !.generation = @ + 1]
          /\ clock' = [clock EXCEPT !.playback = "playing"]
      BY <1>1, <2>1, <2>3 DEF UserPlays
    <3>2. cadence.generation + 1 \in Nat /\ cadence.generation + 1 # 0
      BY DEF TypeOK
    <3>3. /\ cadence' \in [active : BOOLEAN, generation : Nat, timer : Nat]
          /\ cadence'.generation = cadence.generation + 1
          /\ cadence'.timer = 0
      BY <2>3, <3>1, <3>2 DEF TypeOK
    <3>4. TypeOK'
      BY <1>1, <2>1, <2>3, <3>1, <3>2, <3>3, RunNextTypes DEF UserPlays, TypeOK, Playback
    <3>5. tick' = cadence.generation + 1 /\ slot'.kind = "autoplay-next" /\ answer' = "none"
      BY <2>1, <3>1 DEF RunNext, Take
    <3>6. UNCHANGED disposed /\ ~disposed
      BY <1>1 DEF UserPlays
    <3> QED
      BY <3>2, <3>3, <3>4, <3>5, <3>6
  <2> QED
    BY <2>2, <2>3
<1>2. CASE UserPauses
  BY <1>2, PausedTypes DEF UserPauses, Stop, TypeOK, Playback
<1>3. CASE UserSetsCadence
  BY <1>3 DEF UserSetsCadence, TypeOK
<1>4. CASE UserPressesNext
  BY <1>4 DEF UserPressesNext, TypeOK
<1>5. CASE RequestMaterialization
  <2>1. clock.cursor \in Cursor /\ "materialize" \in Command
    BY DEF TypeOK, Command
  <2> QED
    BY <1>5, <2>1, TakeTypes DEF RequestMaterialization, TypeOK
<1>6. ASSUME NEW target \in Cursor, UserNavigates(target) PROVE CadenceInv'
  <2>1. "navigate" \in Command
    BY DEF Command
  <2> QED
    BY <1>6, <2>1, TakeTypes, PausedTypes DEF UserNavigates, TypeOK, Playback
<1> QED
  BY <1>1, <1>2, <1>3, <1>4, <1>5, <1>6 DEF User

\* The transaction of the pending command answers the tick that waits for it.
LEMMA TransactionKeepsCadence == CadenceInv /\ Transaction => CadenceInv'
<1> SUFFICES ASSUME CadenceInv, Transaction PROVE CadenceInv'
  OBVIOUS
<1> USE AutoplayAssumption DEF AutoplayAssumption, CadenceInv, TypeOK, TickAwaitsStep,
     GenerationStarted, FreeIsEmpty, DisposedIsStopped, OneCadence,
     ActiveCadenceHasNextTick, Free, Cursor, Playback, Command, Idle, Pending, Paused
<1>1. CASE Prepare
  BY <1>1 DEF Prepare
<1>2. CASE Commit
  BY <1>2 DEF Commit, Answer
<1>3. CASE Fail
  BY <1>3 DEF Fail, Answer
<1>4. CASE Cancel
  BY <1>4 DEF Cancel, Answer
<1> QED
  BY <1>1, <1>2, <1>3, <1>4 DEF Transaction

\* Continuations, the timer and disposal keep the cadence invariant.  A tick
\* that finds itself outdated finds the cadence inactive.
LEMMA SchedulerKeepsCadence ==
    CadenceInv /\ (Continuation \/ TimerFires \/ Dispose) => CadenceInv'
<1> SUFFICES ASSUME CadenceInv, Continuation \/ TimerFires \/ Dispose PROVE CadenceInv'
  OBVIOUS
<1> USE DEF CadenceInv, TickAwaitsStep, GenerationStarted, FreeIsEmpty, DisposedIsStopped,
     OneCadence, ActiveCadenceHasNextTick, Idle, Pending
<1>1. CASE TickContinues
  <2>1. cadence.timer = 0 /\ tick # 0 /\ slot.kind # "autoplay-next"
    BY <1>1 DEF TickContinues
  <2>2. /\ answer' = "none" /\ tick' = 0
        /\ UNCHANGED <<rendered, slot, queued, disposed, lastWord, inputs>>
    BY <1>1 DEF TickContinues
  <2>3. CASE disposed \/ ~cadence.active \/ tick # cadence.generation
    <3>1. UNCHANGED <<cadence, clock, shown>>
      BY <1>1, <2>3 DEF TickContinues
    <3>2. TypeOK'
      BY <2>2, <3>1 DEF TypeOK
    <3>3. ~cadence.active
      BY <2>1, <2>3
    <3> QED
      BY <2>1, <2>2, <3>1, <3>2, <3>3
  <2>4. CASE Stop
    <3>1. TypeOK'
      BY <2>2, <2>4, StopTypes DEF TypeOK
    <3> QED
      BY <2>1, <2>2, <2>4, <3>1, StopTypes
  <2>5. CASE /\ cadence.active /\ tick = cadence.generation
             /\ cadence' = [cadence EXCEPT !.timer = tick]
             /\ UNCHANGED <<clock, shown>>
    <3>1. /\ cadence' \in [active : BOOLEAN, generation : Nat, timer : Nat]
          /\ cadence'.active
          /\ cadence'.timer = cadence'.generation
          /\ cadence'.generation # 0
      BY <2>1, <2>5 DEF TypeOK
    <3>2. TypeOK'
      BY <2>2, <2>5, <3>1 DEF TypeOK
    <3>3. ~disposed
      BY <2>5
    <3> QED
      BY <2>1, <2>2, <3>1, <3>2, <3>3
  <2> QED
    BY <1>1, <2>3, <2>4, <2>5 DEF TickContinues
<1>2. CASE QueuedNext
  <2>1. CASE disposed \/ Complete
    BY <1>2, <2>1 DEF QueuedNext, HeadReady, TypeOK
  <2>2. CASE ~(disposed \/ Complete)
    <3>1. clock.cursor + 1 \in Cursor /\ "manual-next" \in Command
      BY <2>2, NextInRange DEF Command
    <3> QED
      BY <1>2, <2>2, <3>1, TakeTypes, PausedTypes DEF QueuedNext, HeadReady, TypeOK
  <2> QED
    BY <2>1, <2>2
<1>3. CASE TimerFires
  <2>1. cadence.active /\ tick = 0 /\ cadence.timer = cadence.generation /\ answer = "none"
    BY <1>3 DEF TimerFires
  <2>2. CASE clock.playback # "playing" \/ Complete
    <3>1. /\ Stop
          /\ UNCHANGED <<tick, answer, slot>>
          /\ UNCHANGED <<rendered, queued, disposed, lastWord, inputs>>
      BY <1>3, <2>1, <2>2 DEF TimerFires
    <3>2. TypeOK'
      BY <3>1, StopTypes DEF TypeOK
    <3> QED
      BY <2>1, <3>1, <3>2, StopTypes
  <2>3. CASE clock.playback = "playing" /\ ~Complete
    <3>1. /\ RunNext(cadence.timer)
          /\ cadence' = [cadence EXCEPT !.timer = 0]
          /\ UNCHANGED <<clock, shown>>
      BY <1>3, <2>1, <2>3 DEF TimerFires
    <3>2. TypeOK'
      BY <1>3, <2>3, <3>1, RunNextTypes DEF TimerFires, TypeOK
    <3>3. /\ tick' = cadence.timer
          /\ slot'.kind = "autoplay-next" \/ answer' = "refused"
          /\ slot'.kind = "autoplay-next" => answer' = "none"
          /\ slot'.kind = "none" => slot' = Free
      BY <2>1, <3>1 DEF RunNext, Take
    <3> QED
      BY <1>3, <2>1, <3>1, <3>2, <3>3 DEF TimerFires, TypeOK
  <2> QED
    BY <2>2, <2>3
<1>4. CASE Dispose
  BY <1>4 DEF Dispose, TypeOK
<1> QED
  BY <1>1, <1>2, <1>3, <1>4 DEF Continuation

\* Every step keeps the cadence invariant.
LEMMA CadenceStep == CadenceInv /\ [Next]_vars => CadenceInv'
<1>1. CadenceInv /\ UNCHANGED vars => CadenceInv'
  BY DEF CadenceInv, TypeOK, TickAwaitsStep, GenerationStarted, FreeIsEmpty,
     DisposedIsStopped, OneCadence, ActiveCadenceHasNextTick, vars
<1> QED
  BY <1>1, UserKeepsCadence, TransactionKeepsCadence, SchedulerKeepsCadence DEF Next

\* The cadence invariant holds of every behavior.
LEMMA CadenceAlways == Spec => []CadenceInv
  BY CadenceInit, CadenceStep, PTL DEF Spec

\* Every variable keeps its type: no command aims past the end of the range.
THEOREM AutoplayTypes == Spec => []TypeOK
<1>1. CadenceInv => TypeOK
  BY DEF CadenceInv
<1> QED
  BY <1>1, CadenceAlways, PTL

\* The cadence never has two next ticks (autoplay-scheduler.js:51-89).
THEOREM CadenceIsSingle == Spec => []OneCadence
<1>1. CadenceInv => OneCadence
  BY DEF CadenceInv
<1> QED
  BY <1>1, CadenceAlways, PTL

\* An active cadence never loses its next tick
\* (autoplay-scheduler.js:69-97 under replay-transport.js:153).
THEOREM CadenceIsNeverLost == Spec => []ActiveCadenceHasNextTick
<1>1. CadenceInv => ActiveCadenceHasNextTick
  BY DEF CadenceInv
<1> QED
  BY <1>1, CadenceAlways, PTL
-----------------------------------------------------------------------------
\* The last word of the user is kept: the commit or the rollback of a command
\* begun before it cannot revive a cadence the user ended.
LEMMA WordStep == CadenceInv /\ WordInv /\ [Next]_vars => WordInv'
<1> SUFFICES ASSUME CadenceInv, WordInv, [Next]_vars PROVE WordInv'
  OBVIOUS
<1>t. /\ TypeOK /\ FreeIsEmpty
  BY DEF CadenceInv
<1> USE <1>t DEF WordInv, TypeOK, FreeIsEmpty, Free, Pending, Paused, Input
<1>1. CASE UserPlays
  BY <1>1 DEF UserPlays
<1>2. CASE UserPauses
  BY <1>2 DEF UserPauses, Stop
<1>3. CASE UserSetsCadence
  BY <1>3 DEF UserSetsCadence
<1>4. CASE UserPressesNext
  BY <1>4 DEF UserPressesNext
<1>5. CASE RequestMaterialization
  BY <1>5 DEF RequestMaterialization, Take
<1>6. ASSUME NEW target \in Cursor, UserNavigates(target) PROVE WordInv'
  BY <1>6 DEF UserNavigates, Take
<1>7. CASE Prepare
  BY <1>7 DEF Prepare
<1>8. CASE Commit
  BY <1>8 DEF Commit, Answer
<1>9. CASE Fail
  BY <1>9 DEF Fail, Answer
<1>10. CASE Cancel
  BY <1>10 DEF Cancel, Answer
<1>11. CASE TickContinues
  BY <1>11 DEF TickContinues, Stop
<1>12. CASE QueuedNext
  BY <1>12 DEF QueuedNext, HeadReady, Take
<1>13. CASE TimerFires
  BY <1>13 DEF TimerFires, Stop, RunNext, Take
<1>14. CASE Dispose
  BY <1>14 DEF Dispose
<1>15. CASE UNCHANGED vars
  BY <1>15 DEF vars
<1> QED
  BY <1>1, <1>2, <1>3, <1>4, <1>5, <1>6, <1>7, <1>8, <1>9, <1>10, <1>11, <1>12, <1>13,
     <1>14, <1>15 DEF Next, User, Transaction, Continuation

\* An autoplay step begins in a timer or a Play click only, and the timer finds
\* the clock playing.
LEMMA StepBeginsAfterPlay ==
    ASSUME CadenceInv, WordInv, [Next]_vars,
           slot'.kind = "autoplay-next", ~Pending
    PROVE  lastWord' = "play"
<1> USE DEF Pending
<1>1. UserPlays \/ TimerFires
  BY DEF CadenceInv, TypeOK, Next, User, Transaction, Continuation, vars, UserPauses,
     UserSetsCadence, UserPressesNext, RequestMaterialization, UserNavigates, Take,
     Prepare, Commit, Fail, Cancel, Answer, Free, TickContinues, QueuedNext, Dispose
<1>2. CASE UserPlays
  BY <1>2 DEF UserPlays
<1>3. CASE TimerFires
  BY <1>3 DEF TimerFires, WordInv, Stop
<1> QED
  BY <1>1, <1>2, <1>3

\* An autoplay step begins only while Play is the user's last word
\* (autoplay-scheduler.js:51-89, navigation-executor.js:92-101).
THEOREM AutoplayObeysLastWord == Spec => StepsOnlyAfterPlay
<1>1. Init => WordInv
  BY DEF Init, WordInv
<1>2. CadenceInv /\ WordInv /\ [Next]_vars
        => [slot'.kind = "autoplay-next" /\ ~Pending => lastWord' = "play"]_vars
  BY StepBeginsAfterPlay
<1> QED
  BY <1>1, <1>2, WordStep, CadenceAlways, PTL DEF Spec, StepsOnlyAfterPlay

\* A Next click leaves the queue only to take the slot, or when there is nothing
\* left to replay (workspace-replay-commands.js:27-37).
THEOREM NextClicksAreKept == Spec => NextIsNeverDropped
<1>1. TypeOK /\ [Next]_vars
        => [queued' < queued => disposed' \/ Complete \/ slot'.kind = "manual-next"]_vars
  <2> SUFFICES ASSUME TypeOK, [Next]_vars, queued' < queued
               PROVE  disposed' \/ Complete \/ slot'.kind = "manual-next"
    OBVIOUS
  <2>1. queued \in Nat
    BY DEF TypeOK
  <2>2. QueuedNext \/ Dispose
    BY <2>1 DEF Next, User, Transaction, Continuation, vars, UserPlays, UserPauses,
       UserSetsCadence, UserPressesNext, RequestMaterialization, UserNavigates,
       Prepare, Commit, Fail, Cancel, TickContinues, TimerFires
  <2> QED
    BY <2>2 DEF QueuedNext, Dispose, Take
<1> QED
  BY <1>1, AutoplayTypes, PTL DEF Spec, NextIsNeverDropped
=============================================================================
