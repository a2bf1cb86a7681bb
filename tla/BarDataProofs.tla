----------------------------- MODULE BarDataProofs -----------------------------
(***************************************************************************)
(* Theorems about BarData, for any panes, transactions, windows, cache and *)
(* concurrency: the shared provider calls, the leases and disposal; then    *)
(* the windows of the leases and of the coverage they become.               *)
(***************************************************************************)
EXTENDS BarData, FiniteSetTheorems, WellFoundedInduction, TLAPS

Acquisition == {"none", "planned", "waiting", "answered", "registered", "held", "failed"}

\* A queue and provider calls that share the windows between them, with open
\* settled calls that still hold their slot.
GoodCalls(q, calls, open) ==
    /\ q \in Seq(Window) /\ calls \subseteq Window /\ IsFiniteSet(calls)
    /\ open \in Nat /\ Cardinality(calls) + open <= Concurrency
    /\ \A i, j \in 1..Len(q) : q[i] = q[j] => i = j
    /\ \A i \in 1..Len(q) : q[i] \notin calls

Full(q, calls, open) == q # <<>> => Cardinality(calls) + open = Concurrency
Flying(q, calls, w) == w \in calls \/ \E i \in 1..Len(q) : q[i] = w

AcquisitionTypes ==
    /\ request \in [Transaction -> [Pane -> Request \union {None}]]
    /\ acq \in [Transaction -> [Pane -> Acquisition]]
    /\ tx \in [Transaction -> {"new", "running", "committed", "rejected"}]
    /\ \E S : staged \in [Transaction -> [Pane -> S]]

WaitersFly ==
    \A t \in Transaction, p \in Pane :
       acq[t][p] = "waiting" => Flying(queue, active, request[t][p].window)

\* Whom an acquisition belongs to, and where its lease is: of transaction t and
\* pane p, at stage a, for request r, with t in state x and lease s.
Belongs(t, p, a, r, x, s, ended) ==
    /\ a = "none" => r = None
    /\ r = None => a = "none"
    /\ x = "new" => a = "none"
    /\ a # "none" => x = "running" \/ <<t, p>> \in ended
    /\ s # <<>> => a \in {"registered", "held"}

AcquisitionsBelong ==
    \A t \in Transaction, p \in Pane :
       Belongs(t, p, acq[t][p], request[t][p], tx[t], staged[t][p], outlived)

NobodyWaitsAfterDisposal ==
    disposed => \A t \in Transaction, p \in Pane : acq[t][p] # "waiting"

\* The inductive invariant.
BarInv ==
    /\ AcquisitionTypes
    /\ GoodCalls(queue, active, closing)
    /\ Full(queue, active, closing)
    /\ WaitersFly
    /\ AcquisitionsBelong
    /\ NothingAfterDisposal
    /\ NobodyWaitsAfterDisposal
-----------------------------------------------------------------------------
\* A call that settles is no longer in flight and keeps its slot.
LEMMA CallEnds ==
    ASSUME NEW q, NEW calls, NEW open, NEW w \in calls, GoodCalls(q, calls, open)
    PROVE  /\ GoodCalls(q, calls \ {w}, open + 1)
           /\ Full(q, calls, open) => Full(q, calls \ {w}, open + 1)
           /\ \A v : v # w => (Flying(q, calls \ {w}, v) <=> Flying(q, calls, v))
<1>1. /\ IsFiniteSet(calls) /\ Cardinality(calls) \in Nat /\ Concurrency \in Nat
      /\ open \in Nat /\ Cardinality(calls) + open <= Concurrency
  BY FS_CardinalityType, BarDataAssumption DEF GoodCalls
<1>2. IsFiniteSet(calls \ {w}) /\ Cardinality(calls \ {w}) = Cardinality(calls) - 1
  BY <1>1, FS_RemoveElement
<1>3. Cardinality(calls \ {w}) + (open + 1) = Cardinality(calls) + open /\ open + 1 \in Nat
  BY <1>1, <1>2
<1>4. GoodCalls(q, calls \ {w}, open + 1)
  BY <1>1, <1>2, <1>3 DEF GoodCalls
<1>5. Full(q, calls, open) => Full(q, calls \ {w}, open + 1)
  BY <1>3 DEF Full
<1> QED
  BY <1>4, <1>5 DEF Flying

\* A window that nobody has asked for joins the queue.
LEMMA QueueGrows ==
    ASSUME NEW q, NEW calls, NEW open, NEW w \in Window, GoodCalls(q, calls, open),
           ~Flying(q, calls, w)
    PROVE  /\ GoodCalls(Append(q, w), calls, open)
           /\ Append(q, w) # <<>>
           /\ q = <<>> => Len(Append(q, w)) = 1
           /\ Flying(Append(q, w), calls, w)
           /\ \A v : Flying(q, calls, v) => Flying(Append(q, w), calls, v)
<1> DEFINE r == Append(q, w)
<1>1. /\ q \in Seq(Window) /\ r \in Seq(Window) /\ Len(r) = Len(q) + 1 /\ Len(q) \in Nat
      /\ \A i \in 1..Len(q) : r[i] = q[i]
      /\ r[Len(r)] = w
  BY DEF GoodCalls
<1>2. \A i \in 1..Len(r) : i \in 1..Len(q) \/ i = Len(r)
  BY <1>1
<1>3. \A i \in 1..Len(q) : q[i] # w
  BY DEF Flying
<1>4. 1..Len(q) \subseteq 1..Len(r) /\ Len(r) \in 1..Len(r)
  BY <1>1
<1> HIDE DEF r
<1>5. GoodCalls(r, calls, open)
  BY <1>1, <1>2, <1>3, <1>4 DEF GoodCalls, Flying
<1>6. r # <<>> /\ (q = <<>> => Len(r) = 1)
  BY <1>1
<1>7. Flying(r, calls, w) /\ \A v : Flying(q, calls, v) => Flying(r, calls, v)
  BY <1>1, <1>4 DEF Flying
<1> QED
  BY <1>5, <1>6, <1>7 DEF r

\* pump() moves the head of the queue when a provider slot is free; then the
\* queue is empty or every slot is taken, and every window still has its call.
LEMMA PumpKeeps ==
    ASSUME NEW q, NEW calls, NEW open, GoodCalls(q, calls, open), Pump(q, calls, open),
           \/ Full(q, calls, open)
           \/ Cardinality(calls) + open = Concurrency - 1
           \/ Len(q) = 1
    PROVE  /\ GoodCalls(queue', active', closing')
           /\ Full(queue', active', closing')
           /\ \A v : Flying(q, calls, v) => Flying(queue', active', v)
<1>1. /\ q \in Seq(Window) /\ calls \subseteq Window /\ IsFiniteSet(calls)
      /\ Cardinality(calls) \in Nat /\ Concurrency \in Nat /\ open \in Nat
      /\ Cardinality(calls) + open <= Concurrency
      /\ closing' = open
  BY FS_CardinalityType, BarDataAssumption DEF GoodCalls, Pump
<1>2. CASE q # <<>> /\ Cardinality(calls) + open < Concurrency
  <2> DEFINE r == Tail(q)
             more == calls \union {Head(q)}
  <2>1. queue' = r /\ active' = more
    BY <1>2 DEF Pump, Pumped
  <2>2. /\ r \in Seq(Window) /\ Len(q) = Len(r) + 1 /\ Len(r) \in Nat /\ Head(q) = q[1]
        /\ \A i \in 1..Len(r) : r[i] = q[i + 1]
    BY <1>1, <1>2
  <2>3. /\ \A i \in 1..Len(r) : i + 1 \in 1..Len(q) /\ i + 1 # 1
        /\ 1 \in 1..Len(q)
        /\ \A i \in 1..Len(q) : i = 1 \/ (i - 1 \in 1..Len(r) /\ (i - 1) + 1 = i)
    BY <2>2
  <2>4. q[1] \in Window /\ q[1] \notin calls
    BY <1>1, <2>3 DEF GoodCalls
  <2>5. IsFiniteSet(more) /\ Cardinality(more) = Cardinality(calls) + 1
    BY <1>1, <2>2, <2>4, FS_AddElement
  <2> HIDE DEF r
  <2>6. \A i, j \in 1..Len(r) : r[i] = r[j] => i = j
    BY <2>2, <2>3 DEF GoodCalls
  <2>7. \A i \in 1..Len(r) : r[i] \notin more
    BY <2>2, <2>3 DEF GoodCalls
  <2>8. more \subseteq Window /\ Cardinality(more) + open <= Concurrency
    BY <1>1, <1>2, <2>2, <2>4, <2>5
  <2>9. GoodCalls(r, more, open)
    BY <1>1, <2>2, <2>5, <2>6, <2>7, <2>8 DEF GoodCalls
  <2>10. Full(r, more, open)
    <3>1. CASE Cardinality(calls) + open = Concurrency - 1
      BY <1>1, <2>5, <3>1 DEF Full
    <3>2. CASE Len(q) = 1
      <4>1. Len(r) \in Nat /\ 1 = Len(r) + 1
        BY <2>2, <3>2
      <4>2. Len(r) = 0
        BY <4>1
      <4> QED
        BY <2>2, <4>2 DEF Full
    <3> QED
      BY <1>1, <1>2, <3>1, <3>2 DEF Full
  <2>11. \A v : Flying(q, calls, v) => Flying(r, more, v)
    <3> SUFFICES ASSUME NEW v, Flying(q, calls, v) PROVE Flying(r, more, v)
      OBVIOUS
    <3>1. CASE v \in calls
      BY <3>1 DEF Flying
    <3>2. ASSUME NEW i \in 1..Len(q), q[i] = v PROVE Flying(r, more, v)
      <4>1. CASE i = 1
        BY <2>2, <3>2, <4>1 DEF Flying
      <4>2. CASE i # 1
        <5>1. i - 1 \in 1..Len(r) /\ r[i - 1] = v
          BY <2>2, <2>3, <3>2, <4>2
        <5> QED
          BY <5>1 DEF Flying
      <4> QED
        BY <4>1, <4>2
    <3> QED
      BY <3>1, <3>2 DEF Flying
  <2> QED
    BY <1>1, <2>1, <2>9, <2>10, <2>11
<1>3. CASE ~(q # <<>> /\ Cardinality(calls) + open < Concurrency)
  <2>1. queue' = q /\ active' = calls
    BY <1>3 DEF Pump, Pumped
  <2>2. Full(q, calls, open)
    BY <1>1, <1>3 DEF Full
  <2> QED
    BY <1>1, <2>1, <2>2
<1> QED
  BY <1>2, <1>3

\* An acquisition that moves on is the only one that does.
LEMMA Moves ==
    ASSUME acq \in [Transaction -> [Pane -> Acquisition]], NEW t \in Transaction, NEW p \in Pane,
           NEW stage \in Acquisition, To(t, p, stage)
    PROVE  /\ acq' \in [Transaction -> [Pane -> Acquisition]]
           /\ acq'[t][p] = stage
           /\ \A u \in Transaction, q \in Pane : u # t \/ q # p => acq'[u][q] = acq[u][q]
BY DEF To

LEMMA AskMoves ==
    ASSUME NEW t \in Transaction, NEW p \in Pane, Ask(t, p)
    PROVE  \E stage \in {"failed", "answered", "waiting"} : To(t, p, stage)
BY DEF Ask

\* A slot that falls free goes to the head of the queue.
LEMMA SlotFrees ==
    ASSUME BarInv, FreeSlot
    PROVE  /\ GoodCalls(queue', active', closing')
           /\ Full(queue', active', closing')
           /\ \A v : Flying(queue, active, v) => Flying(queue', active', v)
<1>1. /\ GoodCalls(queue, active, closing) /\ Full(queue, active, closing)
      /\ closing > 0 /\ Pump(queue, active, closing - 1)
  BY DEF BarInv, FreeSlot
<1>2. /\ Cardinality(active) \in Nat /\ Concurrency \in Nat /\ closing \in Nat
      /\ Cardinality(active) + closing <= Concurrency
  BY <1>1, FS_CardinalityType, BarDataAssumption DEF GoodCalls
<1>3. closing - 1 \in Nat /\ Cardinality(active) + (closing - 1) <= Concurrency
  BY <1>1, <1>2
<1>4. GoodCalls(queue, active, closing - 1)
  BY <1>1, <1>3 DEF GoodCalls
<1>5. Full(queue, active, closing - 1) \/ Cardinality(active) + (closing - 1) = Concurrency - 1
  BY <1>1, <1>2 DEF Full
<1> QED
  BY <1>1, <1>4, <1>5, PumpKeeps

LEMMA StageMoves ==
    ASSUME NEW t \in Transaction, NEW p \in Pane, Stage(t, p)
    PROVE  \E stage \in {"failed", "registered"} : To(t, p, stage)
BY DEF Stage

LEMMA AskedWindow ==
    ASSUME AcquisitionTypes, AcquisitionsBelong, NEW t \in Transaction, NEW p \in Pane,
           acq[t][p] # "none"
    PROVE  request[t][p] \in Request /\ request[t][p].window \in Window
<1>1. request[t][p] \in Request \union {None}
  BY DEF AcquisitionTypes
<1>2. request[t][p] # None
  BY DEF AcquisitionsBelong, Belongs
<1>3. request[t][p] \in Request
  BY <1>1, <1>2
<1> QED
  BY <1>3 DEF Request

LEMMA RequestTypes ==
    ASSUME NEW f \in Requests, NEW p \in Pane
    PROVE  f[p] \in Request \union {None} /\ f \in [Pane -> Request \union {None}]
<1>1. \A q \in Pane : Plans(q) \subseteq Request
  BY BarDataAssumption DEF Plans, Request
<1>2. \A q \in Pane : f[q] \in Request \union {None}
  BY <1>1 DEF Requests
<1> QED
  BY <1>2 DEF Requests

\* Every step keeps the types of the acquisitions.
LEMMA AcquisitionTypesStep == ASSUME BarInv, [Next]_vars PROVE AcquisitionTypes'
<1>0. AcquisitionTypes
  BY DEF BarInv
<1>a. PICK S : staged \in [Transaction -> [Pane -> S]]
  BY <1>0 DEF AcquisitionTypes
<1>b. /\ request \in [Transaction -> [Pane -> Request \union {None}]]
      /\ acq \in [Transaction -> [Pane -> Acquisition]]
      /\ tx \in [Transaction -> {"new", "running", "committed", "rejected"}]
  BY <1>0 DEF AcquisitionTypes
<1>1. ASSUME NEW t \in Transaction, Begin(t) PROVE AcquisitionTypes'
  <2>1. PICK f \in Requests :
          /\ request' = [request EXCEPT ![t] = f]
          /\ acq' = [acq EXCEPT ![t] = [p \in Pane |-> IF f[p] = None THEN "none" ELSE "planned"]]
    BY <1>1 DEF Begin
  <2>2. request' \in [Transaction -> [Pane -> Request \union {None}]]
    <3>1. f \in [Pane -> Request \union {None}]
      BY RequestTypes DEF Requests
    <3> QED
      BY <1>b, <2>1, <3>1
  <2>3. acq' \in [Transaction -> [Pane -> Acquisition]]
    BY <1>b, <2>1 DEF Acquisition
  <2>4. tx' \in [Transaction -> {"new", "running", "committed", "rejected"}] /\ staged' = staged
    BY <1>1, <1>b DEF Begin
  <2> QED
    BY <1>0, <2>2, <2>3, <2>4 DEF AcquisitionTypes
<1>2. ASSUME NEW t \in Transaction, Reject(t) PROVE AcquisitionTypes'
  <2>1. Release(t) /\ tx' \in [Transaction -> {"new", "running", "committed", "rejected"}]
    BY <1>2, <1>b DEF Reject
  <2>2. staged' \in [Transaction -> [Pane -> S \union {<<>>}]]
    BY <2>1, <1>a DEF Release
  <2>3. acq' \in [Transaction -> [Pane -> Acquisition]]
    BY <2>1, <1>b DEF Release, Forget, Acquisition
  <2>4. request' \in [Transaction -> [Pane -> Request \union {None}]]
    BY <2>1, <1>b DEF Release, Forget
  <2> QED
    BY <2>1, <2>2, <2>3, <2>4 DEF AcquisitionTypes
<1>3. ASSUME NEW t \in Transaction, Commit(t) PROVE AcquisitionTypes'
  <2>1. Release(t) /\ tx' \in [Transaction -> {"new", "running", "committed", "rejected"}]
    BY <1>3, <1>b DEF Commit
  <2>2. staged' \in [Transaction -> [Pane -> S \union {<<>>}]]
    BY <2>1, <1>a DEF Release
  <2>3. acq' \in [Transaction -> [Pane -> Acquisition]]
    BY <2>1, <1>b DEF Release, Forget, Acquisition
  <2>4. request' \in [Transaction -> [Pane -> Request \union {None}]]
    BY <2>1, <1>b DEF Release, Forget
  <2> QED
    BY <2>1, <2>2, <2>3, <2>4 DEF AcquisitionTypes
<1>4. ASSUME NEW t \in Transaction, NEW p \in Pane, Ask(t, p) PROVE AcquisitionTypes'
  <2>1. acq' \in [Transaction -> [Pane -> Acquisition]]
    BY <1>4, <1>b, AskMoves, Moves DEF Acquisition
  <2> QED
    BY <1>4, <1>0, <2>1 DEF Ask, AcquisitionTypes
<1>5. ASSUME NEW t \in Transaction, NEW p \in Pane, ResolutionFails(t, p) \/ LeaveCall(t, p)
      PROVE  AcquisitionTypes'
  <2>1. acq' \in [Transaction -> [Pane -> Acquisition]]
    BY <1>5, <1>b DEF ResolutionFails, LeaveCall, To, Acquisition
  <2> QED
    BY <1>5, <1>0, <2>1 DEF ResolutionFails, LeaveCall, AcquisitionTypes
<1>6. ASSUME NEW t \in Transaction, NEW p \in Pane, Stage(t, p) PROVE AcquisitionTypes'
  <2> DEFINE batches == StagedBatches(accepted[p], request[t][p].window, request[t][p].operation)
  <2>1. staged' = staged \/ staged' = [staged EXCEPT ![t][p] = batches]
    BY <1>6 DEF Stage
  <2>2. staged' \in [Transaction -> [Pane -> S \union {batches}]]
    BY <1>a, <2>1
  <2>3. acq' \in [Transaction -> [Pane -> Acquisition]]
    BY <1>6, <1>b, StageMoves, Moves DEF Acquisition
  <2>4. request' = request /\ tx' = tx
    BY <1>6 DEF Stage
  <2> QED
    BY <1>0, <2>2, <2>3, <2>4 DEF AcquisitionTypes
<1>7. ASSUME NEW t \in Transaction, NEW p \in Pane, Hold(t, p) PROVE AcquisitionTypes'
  <2>1. acq' \in [Transaction -> [Pane -> Acquisition]]
    BY <1>7, <1>b DEF Hold, To, Acquisition
  <2> QED
    BY <1>7, <1>0, <2>1 DEF Hold, AcquisitionTypes
<1>8. ASSUME NEW w \in Window, Answer(w) PROVE AcquisitionTypes'
  <2>1. acq' \in [Transaction -> [Pane -> Acquisition]]
    BY <1>8, <1>b DEF Answer, Settle, Acquisition
  <2> QED
    BY <1>8, <1>0, <2>1 DEF Answer, AcquisitionTypes
<1>9. ASSUME NEW w \in Window, ProviderFails(w) PROVE AcquisitionTypes'
  <2>1. acq' \in [Transaction -> [Pane -> Acquisition]]
    BY <1>9, <1>b DEF ProviderFails, Settle, Acquisition
  <2> QED
    BY <1>9, <1>0, <2>1 DEF ProviderFails, AcquisitionTypes
<1>10. CASE Dispose
  <2>1. staged' \in [Transaction -> [Pane -> {<<>>}]]
    BY <1>10 DEF Dispose
  <2>2. acq' \in [Transaction -> [Pane -> Acquisition]] /\ request' = request /\ tx' = tx
    BY <1>10, <1>b DEF Dispose, Acquisition
  <2> QED
    BY <1>0, <2>1, <2>2 DEF AcquisitionTypes
<1>11. CASE UNCHANGED vars
  BY <1>11, <1>0 DEF vars, AcquisitionTypes
<1>12. CASE FreeSlot
  BY <1>12, <1>0 DEF FreeSlot, AcquisitionTypes
<1> QED
  BY <1>1, <1>2, <1>3, <1>4, <1>5, <1>6, <1>7, <1>8, <1>9, <1>10, <1>11, <1>12 DEF Next, PaneStep

\* Every step shares the calls and fills the provider's slots.
LEMMA CallsStep ==
    ASSUME BarInv, [Next]_vars
    PROVE  GoodCalls(queue', active', closing') /\ Full(queue', active', closing')
<1>0. GoodCalls(queue, active, closing) /\ Full(queue, active, closing)
  BY DEF BarInv
<1>a. ASSUME UNCHANGED <<queue, active, closing>>
      PROVE  GoodCalls(queue', active', closing') /\ Full(queue', active', closing')
  BY <1>0, <1>a
<1>1. ASSUME NEW t \in Transaction, Begin(t)
      PROVE  GoodCalls(queue', active', closing') /\ Full(queue', active', closing')
  BY <1>1, <1>a DEF Begin, provider
<1>2. ASSUME NEW t \in Transaction, Reject(t)
      PROVE  GoodCalls(queue', active', closing') /\ Full(queue', active', closing')
  BY <1>2, <1>a DEF Reject, provider
<1>3. ASSUME NEW t \in Transaction, Commit(t)
      PROVE  GoodCalls(queue', active', closing') /\ Full(queue', active', closing')
  BY <1>3, <1>a DEF Commit, provider
<1>4. ASSUME NEW t \in Transaction, NEW p \in Pane, Ask(t, p)
      PROVE  GoodCalls(queue', active', closing') /\ Full(queue', active', closing')
  <2> DEFINE w == request[t][p].window
  <2>1. CASE UNCHANGED <<queue, active, closing>>
    BY <1>a, <2>1
  <2>2. CASE ~InFlight(w) /\ acq[t][p] = "planned" /\ Pump(Append(queue, w), active, closing)
    <3>1. w \in Window
      BY <2>2, AskedWindow DEF BarInv
    <3>2. ~Flying(queue, active, w)
      BY <2>2 DEF InFlight, Flying
    <3> HIDE DEF w
    <3>3. /\ GoodCalls(Append(queue, w), active, closing) /\ Append(queue, w) # <<>>
          /\ queue = <<>> => Len(Append(queue, w)) = 1
      BY <1>0, <3>1, <3>2, QueueGrows
    <3>4. Full(Append(queue, w), active, closing) \/ Len(Append(queue, w)) = 1
      BY <1>0, <3>3 DEF Full
    <3> QED
      BY <2>2, <3>3, <3>4, PumpKeeps
  <2> QED
    BY <1>4, <2>1, <2>2 DEF Ask, provider
<1>5. ASSUME NEW t \in Transaction, NEW p \in Pane, ResolutionFails(t, p) \/ LeaveCall(t, p)
      PROVE  GoodCalls(queue', active', closing') /\ Full(queue', active', closing')
  BY <1>5, <1>a DEF ResolutionFails, LeaveCall, provider
<1>6. ASSUME NEW t \in Transaction, NEW p \in Pane, Stage(t, p)
      PROVE  GoodCalls(queue', active', closing') /\ Full(queue', active', closing')
  BY <1>6, <1>a DEF Stage, provider
<1>7. ASSUME NEW t \in Transaction, NEW p \in Pane, Hold(t, p)
      PROVE  GoodCalls(queue', active', closing') /\ Full(queue', active', closing')
  BY <1>7, <1>a DEF Hold, provider
<1>8. ASSUME NEW w \in Window, CallSettles(w)
      PROVE  GoodCalls(queue', active', closing') /\ Full(queue', active', closing')
  BY <1>0, <1>8, CallEnds DEF CallSettles
<1>9. ASSUME NEW w \in Window, Answer(w) \/ ProviderFails(w) PROVE CallSettles(w)
  BY <1>9 DEF Answer, ProviderFails
<1>10. CASE Dispose
  <2>1. queue' = <<>> /\ active' = active /\ closing' = closing
    BY <1>10 DEF Dispose
  <2> QED
    BY <1>0, <2>1 DEF GoodCalls, Full
<1>11. CASE UNCHANGED vars
  BY <1>11, <1>a DEF vars, provider
<1>12. CASE FreeSlot
  BY <1>12, SlotFrees
<1> QED
  BY <1>1, <1>2, <1>3, <1>4, <1>5, <1>6, <1>7, <1>8, <1>9, <1>10, <1>11, <1>12 DEF Next, PaneStep

\* Nobody is left waiting for a call that is not there.
LEMMA WaitersStep == ASSUME BarInv, [Next]_vars PROVE WaitersFly'
<1>0. /\ GoodCalls(queue, active, closing) /\ Full(queue, active, closing) /\ WaitersFly
      /\ acq \in [Transaction -> [Pane -> Acquisition]]
      /\ request \in [Transaction -> [Pane -> Request \union {None}]]
  BY DEF BarInv, AcquisitionTypes
<1>a. ASSUME \A v : Flying(queue, active, v) => Flying(queue', active', v),
             \A u \in Transaction, q \in Pane : acq'[u][q] = "waiting" =>
                acq[u][q] = "waiting" /\ request'[u][q].window = request[u][q].window
      PROVE  WaitersFly'
  BY <1>0, <1>a DEF WaitersFly
<1>1. ASSUME NEW t \in Transaction, Begin(t) PROVE WaitersFly'
  <2>1. \A v : Flying(queue, active, v) => Flying(queue', active', v)
    BY <1>1 DEF Begin, provider
  <2>2. \A u \in Transaction, q \in Pane : acq'[u][q] = "waiting" =>
           acq[u][q] = "waiting" /\ request'[u][q].window = request[u][q].window
    <3>1. PICK f \in Requests :
            /\ request' = [request EXCEPT ![t] = f]
            /\ acq' = [acq EXCEPT ![t] = [p \in Pane |-> IF f[p] = None THEN "none" ELSE "planned"]]
      BY <1>1 DEF Begin
    <3> QED
      BY <1>0, <3>1
  <2> QED
    BY <1>a, <2>1, <2>2
<1>2. ASSUME NEW t \in Transaction, Reject(t) PROVE WaitersFly'
  <2>1. \A v : Flying(queue, active, v) => Flying(queue', active', v)
    BY <1>2 DEF Reject, provider
  <2>2. \A u \in Transaction, q \in Pane : acq'[u][q] = "waiting" =>
           acq[u][q] = "waiting" /\ request'[u][q].window = request[u][q].window
    BY <1>2, <1>0 DEF Reject, Release, Forget, Over
  <2> QED
    BY <1>a, <2>1, <2>2
<1>3. ASSUME NEW t \in Transaction, Commit(t) PROVE WaitersFly'
  <2>1. \A v : Flying(queue, active, v) => Flying(queue', active', v)
    BY <1>3 DEF Commit, provider
  <2>2. \A u \in Transaction, q \in Pane : acq'[u][q] = "waiting" =>
           acq[u][q] = "waiting" /\ request'[u][q].window = request[u][q].window
    BY <1>3, <1>0 DEF Commit, Release, Forget, Over
  <2> QED
    BY <1>a, <2>1, <2>2
<1>4. ASSUME NEW t \in Transaction, NEW p \in Pane, Ask(t, p) PROVE WaitersFly'
  <2> DEFINE w == request[t][p].window
  <2>1. request' = request /\ acq[t][p] = "planned"
    BY <1>4 DEF Ask
  <2>2. CASE UNCHANGED <<queue, active>> /\ (To(t, p, "failed") \/ To(t, p, "answered"))
    <3>1. \A u \in Transaction, q \in Pane : acq'[u][q] = "waiting" => acq[u][q] = "waiting"
      BY <1>0, <2>2, Moves DEF Acquisition
    <3> QED
      BY <1>a, <2>1, <2>2, <3>1
  <2>3. ASSUME \A v : Flying(queue, active, v) => Flying(queue', active', v),
               Flying(queue', active', w), To(t, p, "waiting")
        PROVE  WaitersFly'
    <3>1. \A u \in Transaction, q \in Pane :
             acq'[u][q] = "waiting" => acq[u][q] = "waiting" \/ (u = t /\ q = p)
      BY <1>0, <2>3, Moves DEF Acquisition
    <3> QED
      BY <1>0, <2>1, <2>3, <3>1 DEF WaitersFly
  <2>4. CASE InFlight(w) /\ To(t, p, "waiting") /\ UNCHANGED <<queue, active>>
    BY <2>3, <2>4 DEF InFlight, Flying
  <2>5. CASE ~InFlight(w) /\ To(t, p, "waiting") /\ Pump(Append(queue, w), active, closing)
    <3>1. w \in Window
      BY <2>1, AskedWindow DEF BarInv
    <3>2. ~Flying(queue, active, w)
      BY <2>5 DEF InFlight, Flying
    <3>3. /\ GoodCalls(Append(queue, w), active, closing)
          /\ Full(Append(queue, w), active, closing) \/ Len(Append(queue, w)) = 1
          /\ Flying(Append(queue, w), active, w)
          /\ \A v : Flying(queue, active, v) => Flying(Append(queue, w), active, v)
      <4> HIDE DEF w
      <4>1. /\ GoodCalls(Append(queue, w), active, closing) /\ Append(queue, w) # <<>>
            /\ queue = <<>> => Len(Append(queue, w)) = 1
            /\ Flying(Append(queue, w), active, w)
            /\ \A v : Flying(queue, active, v) => Flying(Append(queue, w), active, v)
        BY <1>0, <3>1, <3>2, QueueGrows
      <4> QED
        BY <1>0, <4>1 DEF Full
    <3>4. \A v : Flying(Append(queue, w), active, v) => Flying(queue', active', v)
      BY <2>5, <3>3, PumpKeeps
    <3> QED
      BY <2>3, <2>5, <3>3, <3>4
  <2> QED
    BY <1>4, <2>2, <2>4, <2>5 DEF Ask, provider
<1>5. ASSUME NEW t \in Transaction, NEW p \in Pane, ResolutionFails(t, p) \/ LeaveCall(t, p)
      PROVE  WaitersFly'
  <2>1. \A v : Flying(queue, active, v) => Flying(queue', active', v)
    BY <1>5 DEF ResolutionFails, LeaveCall, provider
  <2>2. \A u \in Transaction, q \in Pane : acq'[u][q] = "waiting" =>
           acq[u][q] = "waiting" /\ request'[u][q].window = request[u][q].window
    BY <1>5, <1>0 DEF ResolutionFails, LeaveCall, To
  <2> QED
    BY <1>a, <2>1, <2>2
<1>6. ASSUME NEW t \in Transaction, NEW p \in Pane, Stage(t, p) PROVE WaitersFly'
  <2>1. \A v : Flying(queue, active, v) => Flying(queue', active', v)
    BY <1>6 DEF Stage, provider
  <2>2. \A u \in Transaction, q \in Pane : acq'[u][q] = "waiting" => acq[u][q] = "waiting"
    <3>1. PICK stage \in {"failed", "registered"} : To(t, p, stage)
      BY <1>6, StageMoves
    <3>2. /\ acq'[t][p] = stage
          /\ \A u \in Transaction, q \in Pane : u # t \/ q # p => acq'[u][q] = acq[u][q]
      BY <1>0, <3>1, Moves DEF Acquisition
    <3> QED
      BY <3>1, <3>2
  <2>3. request' = request
    BY <1>6 DEF Stage
  <2> QED
    BY <1>a, <2>1, <2>2, <2>3
<1>7. ASSUME NEW t \in Transaction, NEW p \in Pane, Hold(t, p) PROVE WaitersFly'
  <2>1. \A v : Flying(queue, active, v) => Flying(queue', active', v)
    BY <1>7 DEF Hold, provider
  <2>2. \A u \in Transaction, q \in Pane : acq'[u][q] = "waiting" =>
           acq[u][q] = "waiting" /\ request'[u][q].window = request[u][q].window
    BY <1>7, <1>0 DEF Hold, To
  <2> QED
    BY <1>a, <2>1, <2>2
<1>8. ASSUME NEW w \in Window, Answer(w) PROVE WaitersFly'
  <2>1. w \in active /\ queue' = queue /\ active' = active \ {w} /\ request' = request
    BY <1>8 DEF Answer, CallSettles
  <2>2. \A v : v # w /\ Flying(queue, active, v) => Flying(queue', active', v)
    BY <2>1 DEF Flying
  <2>3. \A u \in Transaction, q \in Pane : acq'[u][q] = "waiting" =>
           acq[u][q] = "waiting" /\ request[u][q].window # w
    BY <1>8 DEF Answer, Settle
  <2> QED
    BY <1>0, <2>1, <2>2, <2>3 DEF WaitersFly
<1>9. ASSUME NEW w \in Window, ProviderFails(w) PROVE WaitersFly'
  <2>1. w \in active /\ queue' = queue /\ active' = active \ {w} /\ request' = request
    BY <1>9 DEF ProviderFails, CallSettles
  <2>2. \A v : v # w /\ Flying(queue, active, v) => Flying(queue', active', v)
    BY <2>1 DEF Flying
  <2>3. \A u \in Transaction, q \in Pane : acq'[u][q] = "waiting" =>
           acq[u][q] = "waiting" /\ request[u][q].window # w
    BY <1>9 DEF ProviderFails, Settle
  <2> QED
    BY <1>0, <2>1, <2>2, <2>3 DEF WaitersFly
<1>10. CASE Dispose
  BY <1>10 DEF Dispose, WaitersFly
<1>11. CASE UNCHANGED vars
  <2>1. \A v : Flying(queue, active, v) => Flying(queue', active', v)
    BY <1>11 DEF vars, provider
  <2>2. \A u \in Transaction, q \in Pane : acq'[u][q] = "waiting" =>
           acq[u][q] = "waiting" /\ request'[u][q].window = request[u][q].window
    BY <1>11, <1>0 DEF vars, provider
  <2> QED
    BY <1>a, <2>1, <2>2
<1>12. CASE FreeSlot
  <2>1. \A v : Flying(queue, active, v) => Flying(queue', active', v)
    BY <1>12, SlotFrees
  <2>2. request' = request /\ acq' = acq
    BY <1>12 DEF FreeSlot
  <2> QED
    BY <1>a, <2>1, <2>2
<1> QED
  BY <1>1, <1>2, <1>3, <1>4, <1>5, <1>6, <1>7, <1>8, <1>9, <1>10, <1>11, <1>12 DEF Next, PaneStep

\* Every acquisition belongs to a transaction that runs, or has outlived it.
LEMMA BelongStep == ASSUME BarInv, [Next]_vars PROVE AcquisitionsBelong'
<1>0. /\ AcquisitionTypes /\ AcquisitionsBelong
      /\ request \in [Transaction -> [Pane -> Request \union {None}]]
      /\ acq \in [Transaction -> [Pane -> Acquisition]]
      /\ tx \in [Transaction -> {"new", "running", "committed", "rejected"}]
  BY DEF BarInv, AcquisitionTypes
<1>a. PICK S : staged \in [Transaction -> [Pane -> S]]
  BY <1>0 DEF AcquisitionTypes
<1>b. \A u \in Transaction, q \in Pane :
         Belongs(u, q, acq[u][q], request[u][q], tx[u], staged[u][q], outlived)
  BY DEF BarInv, AcquisitionsBelong
<1>1. ASSUME NEW t \in Transaction, Begin(t) PROVE AcquisitionsBelong'
  <2>1. PICK f \in Requests :
          /\ request' = [request EXCEPT ![t] = f]
          /\ acq' = [acq EXCEPT ![t] = [p \in Pane |-> IF f[p] = None THEN "none" ELSE "planned"]]
    BY <1>1 DEF Begin
  <2>2. /\ tx[t] = "new" /\ tx' = [tx EXCEPT ![t] = "running"] /\ staged' = staged
        /\ outlived' = outlived
    BY <1>1 DEF Begin
  <2>3. \A u \in Transaction \ {t}, q \in Pane :
           acq'[u][q] = acq[u][q] /\ request'[u][q] = request[u][q] /\ tx'[u] = tx[u]
    BY <1>0, <2>1, <2>2
  <2>4. \A q \in Pane : request'[t][q] = f[q]
                        /\ acq'[t][q] = IF f[q] = None THEN "none" ELSE "planned"
    BY <1>0, <2>1
  <2>5. tx'[t] = "running" /\ \A q \in Pane : staged[t][q] = <<>>
    BY <1>0, <1>b, <2>2 DEF Belongs
  <2> SUFFICES ASSUME NEW u \in Transaction, NEW q \in Pane
               PROVE  Belongs(u, q, acq'[u][q], request'[u][q], tx'[u], staged'[u][q], outlived')
    BY DEF AcquisitionsBelong
  <2>6. CASE u = t
    BY <2>2, <2>4, <2>5, <2>6 DEF Belongs
  <2>7. CASE u # t
    BY <1>b, <2>2, <2>3, <2>7
  <2> QED
    BY <2>6, <2>7
<1>2. ASSUME NEW t \in Transaction, Reject(t) PROVE AcquisitionsBelong'
  <2>1. /\ tx[t] = "running" /\ tx' = [tx EXCEPT ![t] = "rejected"] /\ Release(t)
        /\ outlived' = outlived \union {<<t, p>> : p \in Shown(t) \ Held(t)}
    BY <1>2 DEF Reject
  <2>2. \A u \in Transaction \ {t}, q \in Pane :
           /\ acq'[u][q] = acq[u][q] /\ request'[u][q] = request[u][q]
           /\ staged'[u][q] = staged[u][q] /\ tx'[u] = tx[u]
    BY <1>0, <1>a, <2>1 DEF Release, Forget
  <2>3. \A q \in Pane :
           IF acq[t][q] \in {"held", "failed"}
           THEN acq'[t][q] = "none" /\ request'[t][q] = None
           ELSE acq'[t][q] = acq[t][q] /\ request'[t][q] = request[t][q]
    BY <1>0, <2>1 DEF Release, Forget, Over
  <2>4. \A q \in Pane : staged'[t][q] = IF acq[t][q] = "held" THEN <<>> ELSE staged[t][q]
    BY <1>a, <2>1 DEF Release, Held
  <2>5. tx'[t] = "rejected"
    BY <1>0, <2>1
  <2>6. \A q \in Pane : acq[t][q] \notin {"none", "held"} => <<t, q>> \in outlived'
    BY <1>b, <2>1 DEF Belongs, Shown, Held, AllHeld
  <2>7. outlived \subseteq outlived'
    BY <2>1
  <2> SUFFICES ASSUME NEW u \in Transaction, NEW q \in Pane
               PROVE  Belongs(u, q, acq'[u][q], request'[u][q], tx'[u], staged'[u][q], outlived')
    BY DEF AcquisitionsBelong
  <2>8. CASE u = t
    BY <1>b, <2>3, <2>4, <2>5, <2>6, <2>8 DEF Belongs
  <2>9. CASE u # t
    <3>1. Belongs(u, q, acq'[u][q], request'[u][q], tx'[u], staged'[u][q], outlived)
      BY <1>b, <2>2, <2>9
    <3> QED
      BY <2>7, <3>1 DEF Belongs
  <2> QED
    BY <2>8, <2>9
<1>3. ASSUME NEW t \in Transaction, Commit(t) PROVE AcquisitionsBelong'
  <2>1. /\ tx[t] = "running" /\ tx' = [tx EXCEPT ![t] = "committed"] /\ Release(t)
        /\ AllHeld(t) /\ outlived' = outlived
    BY <1>3 DEF Commit, Committable
  <2>2. \A u \in Transaction \ {t}, q \in Pane :
           /\ acq'[u][q] = acq[u][q] /\ request'[u][q] = request[u][q]
           /\ staged'[u][q] = staged[u][q] /\ tx'[u] = tx[u]
    BY <1>0, <1>a, <2>1 DEF Release, Forget
  <2>3. \A q \in Pane :
           IF acq[t][q] \in {"held", "failed"}
           THEN acq'[t][q] = "none" /\ request'[t][q] = None
           ELSE acq'[t][q] = acq[t][q] /\ request'[t][q] = request[t][q]
    BY <1>0, <2>1 DEF Release, Forget, Over
  <2>4. \A q \in Pane : staged'[t][q] = IF acq[t][q] = "held" THEN <<>> ELSE staged[t][q]
    BY <1>a, <2>1 DEF Release, Held
  <2>5. tx'[t] = "committed"
    BY <1>0, <2>1
  <2>6. \A q \in Pane : acq[t][q] \notin {"none", "held"} => FALSE
    BY <1>b, <2>1 DEF Belongs, Shown, Held, AllHeld
  <2>7. outlived \subseteq outlived'
    BY <2>1
  <2> SUFFICES ASSUME NEW u \in Transaction, NEW q \in Pane
               PROVE  Belongs(u, q, acq'[u][q], request'[u][q], tx'[u], staged'[u][q], outlived')
    BY DEF AcquisitionsBelong
  <2>8. CASE u = t
    BY <1>b, <2>3, <2>4, <2>5, <2>6, <2>8 DEF Belongs
  <2>9. CASE u # t
    <3>1. Belongs(u, q, acq'[u][q], request'[u][q], tx'[u], staged'[u][q], outlived)
      BY <1>b, <2>2, <2>9
    <3> QED
      BY <2>7, <3>1 DEF Belongs
  <2> QED
    BY <2>8, <2>9
<1>4. ASSUME NEW t \in Transaction, NEW p \in Pane, Ask(t, p) PROVE AcquisitionsBelong'
  <2>1. /\ acq[t][p] # "none" /\ request' = request /\ tx' = tx /\ staged' = staged
        /\ outlived' = outlived /\ acq[t][p] = "planned"
    BY <1>4 DEF Ask
  <2>2. PICK stage \in {"failed", "answered", "waiting"} : To(t, p, stage)
    BY <1>4, AskMoves
  <2>3. acq'[t][p] = stage /\ \A u \in Transaction, q \in Pane : u # t \/ q # p => acq'[u][q] = acq[u][q]
    BY <1>0, <2>2, Moves DEF Acquisition
  <2> SUFFICES ASSUME NEW u \in Transaction, NEW q \in Pane
               PROVE  Belongs(u, q, acq'[u][q], request'[u][q], tx'[u], staged'[u][q], outlived')
    BY DEF AcquisitionsBelong
  <2>4. CASE u = t /\ q = p
    BY <1>b, <2>1, <2>2, <2>3, <2>4 DEF Belongs
  <2>5. CASE u # t \/ q # p
    BY <1>b, <2>1, <2>3, <2>5
  <2> QED
    BY <2>4, <2>5
<1>5. ASSUME NEW t \in Transaction, NEW p \in Pane, ResolutionFails(t, p) \/ LeaveCall(t, p)
      PROVE  AcquisitionsBelong'
  <2>1. /\ acq[t][p] # "none" /\ request' = request /\ tx' = tx /\ staged' = staged
        /\ outlived' = outlived /\ acq[t][p] \in {"planned", "waiting"}
    BY <1>5 DEF ResolutionFails, LeaveCall
  <2>2. PICK stage \in {"failed"} : To(t, p, stage)
    BY <1>5 DEF ResolutionFails, LeaveCall
  <2>3. acq'[t][p] = stage /\ \A u \in Transaction, q \in Pane : u # t \/ q # p => acq'[u][q] = acq[u][q]
    BY <1>0, <2>2, Moves DEF Acquisition
  <2> SUFFICES ASSUME NEW u \in Transaction, NEW q \in Pane
               PROVE  Belongs(u, q, acq'[u][q], request'[u][q], tx'[u], staged'[u][q], outlived')
    BY DEF AcquisitionsBelong
  <2>4. CASE u = t /\ q = p
    BY <1>b, <2>1, <2>2, <2>3, <2>4 DEF Belongs
  <2>5. CASE u # t \/ q # p
    BY <1>b, <2>1, <2>3, <2>5
  <2> QED
    BY <2>4, <2>5
<1>6. ASSUME NEW t \in Transaction, NEW p \in Pane, Stage(t, p) PROVE AcquisitionsBelong'
  <2> DEFINE batches == StagedBatches(accepted[p], request[t][p].window, request[t][p].operation)
  <2>1. /\ acq[t][p] = "answered" /\ request' = request /\ tx' = tx /\ outlived' = outlived
        /\ \/ To(t, p, "failed") /\ staged' = staged
           \/ To(t, p, "registered") /\ staged' = [staged EXCEPT ![t][p] = batches]
    BY <1>6 DEF Stage
  <2>2. \A u \in Transaction, q \in Pane : u # t \/ q # p =>
           acq'[u][q] = acq[u][q] /\ staged'[u][q] = staged[u][q]
    BY <1>0, <1>a, <2>1, Moves DEF Acquisition
  <2>3. acq'[t][p] = "registered" \/ (acq'[t][p] = "failed" /\ staged'[t][p] = staged[t][p])
    BY <1>0, <2>1, Moves DEF Acquisition
  <2> SUFFICES ASSUME NEW u \in Transaction, NEW q \in Pane
               PROVE  Belongs(u, q, acq'[u][q], request'[u][q], tx'[u], staged'[u][q], outlived')
    BY DEF AcquisitionsBelong
  <2>4. CASE u = t /\ q = p
    BY <1>b, <2>1, <2>3, <2>4 DEF Belongs
  <2>5. CASE u # t \/ q # p
    BY <1>b, <2>1, <2>2, <2>5
  <2> QED
    BY <2>4, <2>5
<1>7. ASSUME NEW t \in Transaction, NEW p \in Pane, Hold(t, p) PROVE AcquisitionsBelong'
  <2>1. /\ acq[t][p] # "none" /\ request' = request /\ tx' = tx /\ staged' = staged
        /\ outlived' = outlived /\ acq[t][p] = "registered"
    BY <1>7 DEF Hold
  <2>2. PICK stage \in {"held"} : To(t, p, stage)
    BY <1>7 DEF Hold
  <2>3. acq'[t][p] = stage /\ \A u \in Transaction, q \in Pane : u # t \/ q # p => acq'[u][q] = acq[u][q]
    BY <1>0, <2>2, Moves DEF Acquisition
  <2> SUFFICES ASSUME NEW u \in Transaction, NEW q \in Pane
               PROVE  Belongs(u, q, acq'[u][q], request'[u][q], tx'[u], staged'[u][q], outlived')
    BY DEF AcquisitionsBelong
  <2>4. CASE u = t /\ q = p
    BY <1>b, <2>1, <2>2, <2>3, <2>4 DEF Belongs
  <2>5. CASE u # t \/ q # p
    BY <1>b, <2>1, <2>3, <2>5
  <2> QED
    BY <2>4, <2>5
<1>8. ASSUME NEW w \in Window, Answer(w) PROVE AcquisitionsBelong'
  <2>1. request' = request /\ tx' = tx /\ outlived' = outlived /\ staged' = staged
    BY <1>8 DEF Answer
  <2>2. \A u \in Transaction, q \in Pane :
           acq'[u][q] = acq[u][q] \/ (acq[u][q] = "waiting" /\ acq'[u][q] = "answered")
    BY <1>8 DEF Answer, Settle
  <2> SUFFICES ASSUME NEW u \in Transaction, NEW q \in Pane
               PROVE  Belongs(u, q, acq'[u][q], request'[u][q], tx'[u], staged'[u][q], outlived')
    BY DEF AcquisitionsBelong
  <2>3. CASE acq'[u][q] = acq[u][q]
    BY <1>b, <2>1, <2>3
  <2>4. CASE acq[u][q] = "waiting" /\ acq'[u][q] = "answered"
    BY <1>b, <2>1, <2>4 DEF Belongs
  <2> QED
    BY <2>2, <2>3, <2>4
<1>9. ASSUME NEW w \in Window, ProviderFails(w) PROVE AcquisitionsBelong'
  <2>1. request' = request /\ tx' = tx /\ outlived' = outlived /\ staged' = staged
    BY <1>9 DEF ProviderFails
  <2>2. \A u \in Transaction, q \in Pane :
           acq'[u][q] = acq[u][q] \/ (acq[u][q] = "waiting" /\ acq'[u][q] = "failed")
    BY <1>9 DEF ProviderFails, Settle
  <2> SUFFICES ASSUME NEW u \in Transaction, NEW q \in Pane
               PROVE  Belongs(u, q, acq'[u][q], request'[u][q], tx'[u], staged'[u][q], outlived')
    BY DEF AcquisitionsBelong
  <2>3. CASE acq'[u][q] = acq[u][q]
    BY <1>b, <2>1, <2>3
  <2>4. CASE acq[u][q] = "waiting" /\ acq'[u][q] = "failed"
    BY <1>b, <2>1, <2>4 DEF Belongs
  <2> QED
    BY <2>2, <2>3, <2>4
<1>10. CASE Dispose
  <2>1. /\ \A u \in Transaction, q \in Pane : staged'[u][q] = <<>>
        /\ \A u \in Transaction, q \in Pane : acq'[u][q] = "none" <=> acq[u][q] = "none"
        /\ request' = request /\ tx' = tx /\ outlived' = outlived
    BY <1>10 DEF Dispose
  <2> QED
    BY <1>b, <2>1 DEF AcquisitionsBelong, Belongs
<1>11. CASE UNCHANGED vars
  BY <1>11, <1>0 DEF vars, AcquisitionsBelong
<1>12. CASE FreeSlot
  BY <1>12, <1>0 DEF FreeSlot, AcquisitionsBelong
<1> QED
  BY <1>1, <1>2, <1>3, <1>4, <1>5, <1>6, <1>7, <1>8, <1>9, <1>10, <1>11, <1>12 DEF Next, PaneStep

\* Nothing comes back after disposal.
LEMMA DisposalStep == ASSUME BarInv, [Next]_vars PROVE NothingAfterDisposal' /\ NobodyWaitsAfterDisposal'
<1>0. /\ NothingAfterDisposal /\ NobodyWaitsAfterDisposal /\ AcquisitionTypes
      /\ acq \in [Transaction -> [Pane -> Acquisition]]
  BY DEF BarInv, AcquisitionTypes
<1>a. PICK S : staged \in [Transaction -> [Pane -> S]]
  BY <1>0 DEF AcquisitionTypes
<1>b. ASSUME disposed' = disposed, disposed =>
                /\ cache' = cache /\ queue' = <<>> /\ accepted' = accepted
                /\ \A u \in Transaction, q \in Pane : staged'[u][q] \in {staged[u][q], <<>>}
                /\ \A u \in Transaction, q \in Pane : acq'[u][q] = "waiting" => acq[u][q] = "waiting"
      PROVE  NothingAfterDisposal' /\ NobodyWaitsAfterDisposal'
  BY <1>0, <1>b DEF NothingAfterDisposal, NobodyWaitsAfterDisposal
<1>c. disposed => queue = <<>>
  BY <1>0 DEF NothingAfterDisposal
<1>1. ASSUME NEW t \in Transaction, Begin(t) PROVE NothingAfterDisposal' /\ NobodyWaitsAfterDisposal'
  BY <1>1, <1>b DEF Begin
<1>2. ASSUME NEW t \in Transaction, Reject(t) PROVE NothingAfterDisposal' /\ NobodyWaitsAfterDisposal'
  <2>1. Release(t) /\ disposed' = disposed /\ cache' = cache /\ queue' = queue /\ accepted' = accepted
    BY <1>2 DEF Reject, provider
  <2>2. \A u \in Transaction, q \in Pane : staged'[u][q] \in {staged[u][q], <<>>}
    BY <1>a, <2>1 DEF Release
  <2>3. \A u \in Transaction, q \in Pane : acq'[u][q] = "waiting" => acq[u][q] = "waiting"
    BY <1>0, <2>1 DEF Release, Forget
  <2> QED
    BY <1>b, <1>c, <2>1, <2>2, <2>3
<1>3. ASSUME NEW t \in Transaction, Commit(t) PROVE NothingAfterDisposal' /\ NobodyWaitsAfterDisposal'
  BY <1>3, <1>b DEF Commit
<1>4. ASSUME NEW t \in Transaction, NEW p \in Pane, Ask(t, p) PROVE NothingAfterDisposal' /\ NobodyWaitsAfterDisposal'
  <2>1. disposed' = disposed /\ accepted' = accepted /\ staged' = staged
    BY <1>4 DEF Ask
  <2>2. CASE disposed
    <3>1. To(t, p, "failed") /\ cache' = cache /\ queue' = queue
      BY <1>4, <2>2 DEF Ask, provider
    <3>2. \A u \in Transaction, q \in Pane : acq'[u][q] = "waiting" => acq[u][q] = "waiting"
      BY <1>0, <3>1, Moves DEF Acquisition
    <3> QED
      BY <1>b, <1>c, <2>1, <3>1, <3>2
  <2> QED
    BY <1>b, <2>1, <2>2
<1>5. ASSUME NEW t \in Transaction, NEW p \in Pane, ResolutionFails(t, p) \/ LeaveCall(t, p)
      PROVE  NothingAfterDisposal' /\ NobodyWaitsAfterDisposal'
  <2>1. /\ disposed' = disposed /\ cache' = cache /\ queue' = queue /\ accepted' = accepted
        /\ staged' = staged
    BY <1>5 DEF ResolutionFails, LeaveCall, provider
  <2>2. \A u \in Transaction, q \in Pane : acq'[u][q] = "waiting" => acq[u][q] = "waiting"
    BY <1>5, <1>0 DEF ResolutionFails, LeaveCall, To
  <2> QED
    BY <1>b, <1>c, <2>1, <2>2
<1>6. ASSUME NEW t \in Transaction, NEW p \in Pane, Stage(t, p) PROVE NothingAfterDisposal' /\ NobodyWaitsAfterDisposal'
  <2>1. /\ disposed' = disposed /\ cache' = cache /\ queue' = queue /\ accepted' = accepted
        /\ disposed => staged' = staged
    BY <1>6 DEF Stage, provider
  <2>2. \A u \in Transaction, q \in Pane : acq'[u][q] = "waiting" => acq[u][q] = "waiting"
    BY <1>6, <1>0, StageMoves, Moves DEF Acquisition
  <2> QED
    BY <1>b, <1>c, <2>1, <2>2
<1>7. ASSUME NEW t \in Transaction, NEW p \in Pane, Hold(t, p) PROVE NothingAfterDisposal' /\ NobodyWaitsAfterDisposal'
  <2>1. /\ disposed' = disposed /\ cache' = cache /\ queue' = queue /\ accepted' = accepted
        /\ staged' = staged
    BY <1>7 DEF Hold, provider
  <2>2. \A u \in Transaction, q \in Pane : acq'[u][q] = "waiting" => acq[u][q] = "waiting"
    BY <1>7, <1>0 DEF Hold, To
  <2> QED
    BY <1>b, <1>c, <2>1, <2>2
<1>8. ASSUME NEW w \in Window, Answer(w) PROVE NothingAfterDisposal' /\ NobodyWaitsAfterDisposal'
  <2>1. /\ disposed' = disposed /\ accepted' = accepted /\ staged' = staged
        /\ disposed => cache' = cache
    BY <1>8 DEF Answer, Store
  <2>2. disposed => queue' = <<>>
    BY <1>8, <1>c DEF Answer, CallSettles
  <2>3. \A u \in Transaction, q \in Pane : acq'[u][q] = "waiting" => acq[u][q] = "waiting"
    BY <1>8 DEF Answer, Settle
  <2> QED
    BY <1>b, <2>1, <2>2, <2>3
<1>9. ASSUME NEW w \in Window, ProviderFails(w) PROVE NothingAfterDisposal' /\ NobodyWaitsAfterDisposal'
  <2>1. /\ disposed' = disposed /\ accepted' = accepted /\ staged' = staged
        /\ disposed => cache' = cache
    BY <1>9 DEF ProviderFails, Store
  <2>2. disposed => queue' = <<>>
    BY <1>9, <1>c DEF ProviderFails, CallSettles
  <2>3. \A u \in Transaction, q \in Pane : acq'[u][q] = "waiting" => acq[u][q] = "waiting"
    BY <1>9 DEF ProviderFails, Settle
  <2> QED
    BY <1>b, <2>1, <2>2, <2>3
<1>10. CASE Dispose
  BY <1>10 DEF Dispose, NothingAfterDisposal, NobodyWaitsAfterDisposal
<1>11. CASE UNCHANGED vars
  <2>1. /\ disposed' = disposed /\ cache' = cache /\ queue' = queue /\ accepted' = accepted
        /\ staged' = staged
    BY <1>11 DEF vars, provider
  <2>2. \A u \in Transaction, q \in Pane : acq'[u][q] = "waiting" => acq[u][q] = "waiting"
    BY <1>11, <1>0 DEF vars
  <2> QED
    BY <1>b, <1>c, <2>1, <2>2
<1>12. CASE FreeSlot
  <2>1. /\ disposed' = disposed /\ cache' = cache /\ accepted' = accepted
        /\ staged' = staged /\ acq' = acq
    BY <1>12 DEF FreeSlot
  <2>2. disposed => queue' = <<>>
    BY <1>12, <1>c DEF FreeSlot, Pump, Pumped
  <2> QED
    BY <1>b, <2>1, <2>2
<1> QED
  BY <1>1, <1>2, <1>3, <1>4, <1>5, <1>6, <1>7, <1>8, <1>9, <1>10, <1>11, <1>12 DEF Next, PaneStep

LEMMA BarsStart == Init => BarInv
<1> SUFFICES ASSUME Init PROVE BarInv
  OBVIOUS
<1>1. AcquisitionTypes
  <2>1. staged \in [Transaction -> [Pane -> {<<>>}]]
    BY DEF Init
  <2> QED
    BY <2>1 DEF Init, AcquisitionTypes, Acquisition
<1>2. GoodCalls(queue, active, closing) /\ Full(queue, active, closing)
  BY FS_EmptySet, BarDataAssumption DEF Init, GoodCalls, Full
<1>3. WaitersFly /\ AcquisitionsBelong
  BY DEF Init, WaitersFly, AcquisitionsBelong, Belongs
<1>4. NothingAfterDisposal /\ NobodyWaitsAfterDisposal
  BY DEF Init, NothingAfterDisposal, NobodyWaitsAfterDisposal
<1> QED
  BY <1>1, <1>2, <1>3, <1>4 DEF BarInv

\* The invariant holds in every reachable state, whatever is aborted, fails,
\* overtakes or outlives its transaction.
THEOREM BarsAlways == Spec => []BarInv
<1>1. BarInv /\ [Next]_vars => BarInv'
  BY AcquisitionTypesStep, CallsStep, WaitersStep, BelongStep, DisposalStep DEF BarInv
<1> QED
  BY <1>1, BarsStart, PTL DEF Spec

\* acquire() and pump() share one provider call per window, and never exceed
\* the provider's concurrency.
THEOREM CallsAreShared == Spec => []OneCallPerWindow
<1>1. BarInv => OneCallPerWindow
  BY DEF BarInv, GoodCalls, OneCallPerWindow
<1> QED
  BY <1>1, BarsAlways, PTL

\* No acquisition waits for a call that is neither queued nor active, and no
\* window is queued while a provider slot is free.
THEOREM NobodyWaitsForNothing == Spec => []WaitersHaveACall
<1>1. BarInv => WaitersHaveACall
  BY DEF BarInv, WaitersFly, Full, Flying, InFlight, WaitersHaveACall
<1> QED
  BY <1>1, BarsAlways, PTL

\* Every lease is of a running transaction, or of an acquisition that outlived
\* the rejection of its transaction.
THEOREM LeasesReturn == Spec => []LeasesAreReturned
<1>1. BarInv => LeasesAreReturned
  BY DEF BarInv, AcquisitionsBelong, Belongs, LeasesAreReturned
<1> QED
  BY <1>1, BarsAlways, PTL

\* dispose() drops all raw bars, and none comes back.
THEOREM DisposalIsFinal == Spec => []NothingAfterDisposal
<1>1. BarInv => NothingAfterDisposal
  BY DEF BarInv
<1> QED
  BY <1>1, BarsAlways, PTL
-----------------------------------------------------------------------------
(* The walks over a sequence of windows, covers() and contiguousPrefix().  *)
(* They are folds: recursive functions on the sets of positions still to   *)
(* be visited.  A set that holds 0 and, with every number, the next one    *)
(* holds them all: that is the only induction they need.                   *)

LEMMA CountingUp ==
    ASSUME NEW n \in Nat, NEW B, 0 \in B, \A k \in 1..n : k - 1 \in B => k \in B
    PROVE  0..n \subseteq B
<1> DEFINE R == {ss \in Nat \X Nat : ss[1] < ss[2]}
           T == {k \in 0..n : k \notin B}
<1>1. IsWellFoundedOn(R, Nat)
  BY NatLessThanWellFounded DEF OpToRel
<1>2. SUFFICES ASSUME T # {} PROVE FALSE
  OBVIOUS
<1>3. T \subseteq Nat
  OBVIOUS
<1>4. PICK k \in T : \A y \in T : <<y, k>> \notin R
  <2> HIDE DEF R, T
  <2> QED
    BY <1>1, <1>2, <1>3, WFMin
<1>5. k \in 1..n /\ k - 1 \notin B
  OBVIOUS
<1>6. k - 1 \in T /\ k - 1 \in Nat /\ k \in Nat /\ k - 1 < k
  BY <1>5
<1>7. <<k - 1, k>> \in R
  BY <1>6
<1> QED
  BY <1>4, <1>6, <1>7

\* c[s] is an element of s, for every set s of elements of S.
Chooses(c, S) == \A s \in SUBSET S : s # {} => c[s] \in s

\* h[s] is the outcome of the walk over s that takes c[s] last and makes, with
\* g, a new value of that element and of the value so far.
Walks(h, S, c, base, g) ==
    \A s \in SUBSET S : h[s] = IF s = {} THEN base ELSE g[<<c[s], h[s \ {c[s]}]>>]

\* A walk over a finite set exists: the recursion has a solution.
LEMMA WalksExist ==
    ASSUME NEW S, IsFiniteSet(S), NEW c, Chooses(c, S),
           NEW D, NEW base \in D, NEW g \in [S \X D -> D]
    PROVE  \E h \in [SUBSET S -> D] : Walks(h, S, c, base, g)
<1> DEFINE Then(h, s) == IF s = {} THEN base ELSE g[<<c[s], h[s \ {c[s]}]>>]
           Solves(h, k) == \A s \in SUBSET S : Cardinality(s) <= k => h[s] = Then(h, s)
           n == Cardinality(S)
           B == {k \in 0..n : \E h \in [SUBSET S -> D] : Solves(h, k)}
<1>1. n \in Nat /\ \A s \in SUBSET S : IsFiniteSet(s) /\ Cardinality(s) \in Nat /\ Cardinality(s) <= n
  BY FS_CardinalityType, FS_Subset
<1>2. \A h \in [SUBSET S -> D], s \in SUBSET S : Then(h, s) \in D
  BY DEF Chooses
<1>3. \A s \in SUBSET S : s # {} =>
         /\ s \ {c[s]} \in SUBSET S
         /\ Cardinality(s \ {c[s]}) = Cardinality(s) - 1
         /\ Cardinality(s) # 0
  BY <1>1, FS_RemoveElement, FS_EmptySet DEF Chooses
<1>4. 0 \in B
  <2> DEFINE h == [s \in SUBSET S |-> base]
  <2>1. h \in [SUBSET S -> D]
    OBVIOUS
  <2>2. ASSUME NEW s \in SUBSET S, Cardinality(s) <= 0 PROVE h[s] = Then(h, s)
    <3>1. Cardinality(s) = 0
      BY <1>1, <2>2
    <3>2. s = {}
      BY <1>3, <3>1
    <3> QED
      BY <3>2
  <2>3. Solves(h, 0)
    BY <2>2
  <2> HIDE DEF h, Solves
  <2> QED
    BY <1>1, <2>1, <2>3
<1>5. ASSUME NEW k \in 1..n, k - 1 \in B PROVE k \in B
  <2>1. PICK h \in [SUBSET S -> D] : Solves(h, k - 1)
    BY <1>5
  <2> DEFINE l == [s \in SUBSET S |-> Then(h, s)]
  <2>2. l \in [SUBSET S -> D]
    BY <1>2
  <2>3. ASSUME NEW s \in SUBSET S, Cardinality(s) <= k - 1 PROVE l[s] = h[s]
    BY <2>1, <2>3
  <2>4. ASSUME NEW s \in SUBSET S, Cardinality(s) <= k PROVE l[s] = Then(l, s)
    <3>1. CASE s = {}
      BY <3>1
    <3>2. CASE s # {}
      <4>1. s \ {c[s]} \in SUBSET S /\ Cardinality(s \ {c[s]}) <= k - 1
        BY <1>1, <1>3, <2>4, <3>2
      <4>2. l[s \ {c[s]}] = h[s \ {c[s]}]
        BY <2>3, <4>1
      <4> QED
        BY <3>2, <4>2
    <3> QED
      BY <3>1, <3>2
  <2>5. Solves(l, k)
    BY <2>4
  <2> HIDE DEF l, Solves
  <2> QED
    BY <2>2, <2>5
<1>6. n \in B
  <2> HIDE DEF B
  <2>1. 0..n \subseteq B
    BY <1>1, <1>4, <1>5, CountingUp
  <2> QED
    BY <1>1, <2>1
<1>7. PICK h \in [SUBSET S -> D] : Solves(h, n)
  BY <1>6
<1>8. ASSUME NEW s \in SUBSET S PROVE h[s] = Then(h, s)
  BY <1>1, <1>7
<1> QED
  BY <1>8 DEF Walks

\* What contiguousPrefix() knows after the windows from some position on: its
\* prefix and the acquired window adjoin, from the epoch it goes on from.
PrefixData(w) ==
    {at \in [prefix : Seq(Window), from : Int, going : BOOLEAN] :
       LET r == at.prefix \o <<w>>
       IN  Contiguous(r) /\ SameSource(r[1], w) /\ r[1].from = at.from}
PrefixStep(b, at, w) ==
    IF ~at.going \/ (SameSource(b, w) /\ b.to > at.from) THEN at
    ELSE IF SameSource(b, w) /\ b.to = at.from
         THEN [prefix |-> <<b>> \o at.prefix, from |-> b.from, going |-> TRUE]
         ELSE [at EXCEPT !.going = FALSE]
PrefixStart(w) == [prefix |-> <<>>, from |-> w.from, going |-> TRUE]
PrefixFrom(batches, w, f, s) ==
    IF s = {} THEN PrefixStart(w) ELSE PrefixStep(batches[Min(s)], f[s \ {Min(s)}], w)
PrefixWalk(batches, w) ==
    CHOOSE f : f = [s \in SUBSET DOMAIN batches |-> PrefixFrom(batches, w, f, s)]

LEMMA PrefixIsAWalk ==
    ASSUME NEW batches, NEW w
    PROVE  ContiguousPrefix(batches, w) = PrefixWalk(batches, w)[DOMAIN batches].prefix
BY DEF ContiguousPrefix, PrefixWalk, PrefixFrom, PrefixStart, PrefixStep, FoldRight, MapThenFoldSet

LEMMA MinOfNumbers ==
    ASSUME NEW n \in Nat, NEW s \in SUBSET (1..n), s # {}
    PROVE  Min(s) \in s /\ \A x \in s : Min(s) <= x
<1> DEFINE T == {k \in 0..n : \A x \in s : k < x}
<1>1. 0 \in T
  OBVIOUS
<1>2. n \notin T
  <2>1. PICK x : x \in s
    OBVIOUS
  <2>2. x \in 1..n
    BY <2>1
  <2>3. x <= n
    BY <2>2
  <2> QED
    BY <2>1, <2>3
<1>3. PICK k \in 1..n : k - 1 \in T /\ k \notin T
  <2> HIDE DEF T
  <2>1. ~ (0..n \subseteq T)
    BY <1>2
  <2> QED
    BY <1>1, <2>1, CountingUp
<1>4. PICK x \in s : ~ (k < x)
  BY <1>3
<1>5. \A y \in s : k - 1 < y
  BY <1>3
<1>6. x = k /\ \A y \in s : x <= y
  BY <1>4, <1>5
<1> QED
  BY <1>6 DEF Min

LEMMA MaxOfNumbers ==
    ASSUME NEW n \in Nat, NEW s \in SUBSET (1..n), s # {}
    PROVE  Max(s) \in s /\ \A x \in s : Max(s) >= x
<1> DEFINE T == {k \in 0..n : \E x \in s : x >= n - k}
<1>1. n \in T
  <2>1. PICK x : x \in s
    OBVIOUS
  <2>2. x \in 1..n
    BY <2>1
  <2>3. x >= n - n
    BY <2>2
  <2> QED
    BY <2>1, <2>3
<1>2. PICK x \in s : \A y \in s : x >= y
  <2>1. CASE n \in s
    BY <2>1
  <2>2. CASE n \notin s
    <3>1. 0 \notin T
      BY <2>2
    <3> DEFINE U == (0..n) \ T
    <3>2. PICK k \in 1..n : k - 1 \in U /\ k \notin U
      <4> HIDE DEF T
      <4>1. 0 \in U /\ n \notin U
        BY <1>1, <3>1
      <4> HIDE DEF U
      <4>2. ~ (0..n \subseteq U)
        BY <4>1
      <4> QED
        BY <4>1, <4>2, CountingUp
    <3>3. PICK x \in s : x >= n - k
      BY <3>2
    <3>4. \A y \in s : y < n - (k - 1)
      BY <3>2
    <3>5. \A y \in s : x >= y
      BY <3>3, <3>4
    <3> QED
      BY <3>5
  <2> QED
    BY <2>1, <2>2
<1> QED
  BY <1>2 DEF Max

\* A window before contiguous ones that adjoins them.
LEMMA PrependContiguous ==
    ASSUME NEW r \in Seq(Window), r # <<>>, Contiguous(r), NEW b \in Window,
           SameSource(b, r[1]), b.to = r[1].from,
           NEW l, Len(l) = Len(r) + 1, l[1] = b, \A i \in 1..Len(r) : l[i + 1] = r[i]
    PROVE  Contiguous(l)
<1> DEFINE n == Len(r)
<1>1. n \in Nat /\ 1 \in 1..n
  OBVIOUS
<1>2. ASSUME NEW i \in 1..(Len(l) - 1)
      PROVE  SameSource(l[i], l[i + 1]) /\ l[i].to = l[i + 1].from
  <2>1. CASE i = 1
    BY <1>1, <2>1
  <2>2. CASE i # 1
    <3>1. /\ i \in Int /\ i - 1 \in 1..n /\ (i - 1) + 1 = i /\ i \in 1..n
          /\ i - 1 \in 1..(n - 1)
      BY <1>1, <2>2
    <3>2. l[i] = r[i - 1] /\ l[i + 1] = r[i]
      BY <3>1
    <3>3. SameSource(r[i - 1], r[i]) /\ r[i - 1].to = r[i].from
      BY <3>1 DEF Contiguous, SameSource
    <3> QED
      BY <3>2, <3>3
  <2> QED
    BY <2>1, <2>2
<1> QED
  BY <1>2 DEF Contiguous

\* contiguousPrefix() returns windows that adjoin each other and, at their end,
\* the acquired one, whatever it is given.
LEMMA PrefixAdjoins ==
    ASSUME NEW batches \in Seq(Window), NEW w \in Window
    PROVE  /\ ContiguousPrefix(batches, w) \in Seq(Window)
           /\ Contiguous(ContiguousPrefix(batches, w) \o <<w>>)
<1> DEFINE n == Len(batches)
           S == DOMAIN batches
           f == PrefixWalk(batches, w)
           B == {k \in 0..n : f[(n - k + 1)..n] \in PrefixData(w)}
<1>1. n \in Nat /\ S = 1..n /\ IsFiniteSet(S) /\ \A i \in S : batches[i] \in Window
  BY FS_Interval
<1>2. \A v \in Window : v.from \in Nat /\ v.to \in Nat
  BY BarDataAssumption
<1>3. PrefixStart(w) \in PrefixData(w)
  <2> DEFINE r == <<>> \o <<w>>
  <2>1. r = <<w>>
    OBVIOUS
  <2>2. Contiguous(r) /\ r[1] = w
    BY <2>1 DEF Contiguous
  <2>3. <<>> \in Seq(Window) /\ w.from \in Int /\ TRUE \in BOOLEAN
    BY <1>2
  <2> QED
    BY <2>2, <2>3 DEF PrefixStart, PrefixData, SameSource
<1>4. ASSUME NEW b \in Window, NEW at \in PrefixData(w) PROVE PrefixStep(b, at, w) \in PrefixData(w)
  <2> DEFINE r == at.prefix \o <<w>>
  <2>1. /\ at.prefix \in Seq(Window) /\ at.from \in Int /\ at.going \in BOOLEAN
        /\ at = [prefix |-> at.prefix, from |-> at.from, going |-> at.going]
        /\ Contiguous(r) /\ SameSource(r[1], w) /\ r[1].from = at.from
    BY DEF PrefixData
  <2>2. CASE ~at.going \/ (SameSource(b, w) /\ b.to > at.from)
    BY <2>2 DEF PrefixStep
  <2>3. CASE ~(~at.going \/ (SameSource(b, w) /\ b.to > at.from)) /\ SameSource(b, w) /\ b.to = at.from
    <3> DEFINE p == <<b>> \o at.prefix
               l == p \o <<w>>
    <3>1. PrefixStep(b, at, w) = [prefix |-> p, from |-> b.from, going |-> TRUE]
      BY <2>3 DEF PrefixStep
    <3>2. p \in Seq(Window) /\ b.from \in Int
      BY <1>2, <2>1
    <3>3. r \in Seq(Window) /\ r # <<>> /\ Len(r) = Len(at.prefix) + 1 /\ Len(at.prefix) \in Nat
      BY <2>1
    <3>4. Len(l) = Len(r) + 1 /\ l[1] = b /\ \A i \in 1..Len(r) : l[i + 1] = r[i]
      BY <2>1
    <3> HIDE DEF l, r
    <3>5. SameSource(b, r[1]) /\ b.to = r[1].from
      BY <2>1, <2>3 DEF SameSource
    <3>6. Contiguous(l)
      BY <2>1, <3>3, <3>4, <3>5, PrependContiguous
    <3>7. SameSource(l[1], w) /\ l[1].from = b.from
      BY <2>3, <3>4
    <3> HIDE DEF p
    <3> QED
      BY <3>1, <3>2, <3>6, <3>7 DEF PrefixData, l
  <2>4. CASE ~(~at.going \/ (SameSource(b, w) /\ b.to > at.from)) /\ ~(SameSource(b, w) /\ b.to = at.from)
    <3> DEFINE to == [at EXCEPT !.going = FALSE]
    <3>1. PrefixStep(b, at, w) = to
      BY <2>4 DEF PrefixStep
    <3>2. at \in [prefix : Seq(Window), from : Int, going : BOOLEAN]
      BY DEF PrefixData
    <3>3. /\ to \in [prefix : Seq(Window), from : Int, going : BOOLEAN]
          /\ to.prefix = at.prefix /\ to.from = at.from
      BY <3>2
    <3> HIDE DEF to
    <3>4. to \in PrefixData(w)
      BY <2>1, <3>3 DEF PrefixData
    <3> QED
      BY <3>1, <3>4
  <2> QED
    BY <2>2, <2>3, <2>4
<1>5. \A s \in SUBSET S : s # {} => Min(s) \in s
  BY <1>1, MinOfNumbers
<1>6. f = [s \in SUBSET S |-> PrefixFrom(batches, w, f, s)]
  <2> DEFINE c == [s \in SUBSET S |-> Min(s)]
             g == [x \in S \X PrefixData(w) |-> PrefixStep(batches[x[1]], x[2], w)]
  <2>1. g \in [S \X PrefixData(w) -> PrefixData(w)]
    BY <1>1, <1>4
  <2>2. Chooses(c, S)
    BY <1>5 DEF Chooses
  <2>3. PICK h \in [SUBSET S -> PrefixData(w)] : Walks(h, S, c, PrefixStart(w), g)
    <3>1. IsFiniteSet(S)
      BY <1>1
    <3> HIDE DEF S, c, g
    <3> QED
      BY <3>1, <1>3, <2>1, <2>2, WalksExist
  <2>4. ASSUME NEW s \in SUBSET S PROVE h[s] = PrefixFrom(batches, w, h, s)
    <3>1. CASE s = {}
      BY <2>3, <3>1 DEF PrefixFrom, Walks
    <3>2. CASE s # {}
      <4>1. Min(s) \in S /\ s \ {Min(s)} \in SUBSET S /\ c[s] = Min(s)
        BY <1>5, <3>2
      <4>2. h[s \ {Min(s)}] \in PrefixData(w)
        BY <4>1
      <4>3. g[<<Min(s), h[s \ {Min(s)}]>>] = PrefixStep(batches[Min(s)], h[s \ {Min(s)}], w)
        BY <4>1, <4>2
      <4>4. h[s] = g[<<Min(s), h[s \ {Min(s)}]>>]
        BY <2>3, <3>2, <4>1 DEF Walks
      <4> QED
        BY <3>2, <4>3, <4>4 DEF PrefixFrom
    <3> QED
      BY <3>1, <3>2
  <2>5. h = [s \in SUBSET S |-> PrefixFrom(batches, w, h, s)]
    BY <2>4
  <2> QED
    BY <2>5 DEF PrefixWalk
<1> HIDE DEF f
<1>7. 0 \in B
  <2>1. (n - 0 + 1)..n = {}
    BY <1>1
  <2>2. f[{}] = PrefixStart(w)
    BY <1>6 DEF PrefixFrom
  <2> QED
    BY <1>1, <1>3, <2>1, <2>2
<1>8. ASSUME NEW k \in 1..n, k - 1 \in B PROVE k \in B
  <2> DEFINE i == n - k + 1
             s == i..n
  <2>0. n \in Nat /\ k \in Int /\ i \in Int /\ i \in 1..n
    BY <1>1
  <2>1. /\ s \in SUBSET S /\ s # {} /\ i \in s /\ i \in S
        /\ s \ {i} = (n - (k - 1) + 1)..n
    <3>1. S = 1..n
      BY <1>1
    <3>2. i \in s /\ s \subseteq 1..n
      BY <2>0
    <3>3. n - (k - 1) + 1 = i + 1 /\ (i..n) \ {i} = (i + 1)..n
      BY <2>0
    <3> QED
      BY <2>0, <3>1, <3>2, <3>3
  <2>2. Min(s) = i
    <3>1. Min(s) \in s /\ \A x \in s : Min(s) <= x
      BY <1>1, <2>1, MinOfNumbers
    <3> QED
      BY <1>1, <2>1, <3>1
  <2>3. f[s] = PrefixStep(batches[i], f[s \ {i}], w)
    BY <1>6, <2>1, <2>2 DEF PrefixFrom
  <2>4. f[s \ {i}] \in PrefixData(w)
    BY <1>8, <2>1
  <2> QED
    BY <1>1, <1>4, <2>1, <2>3, <2>4
<1>9. n \in B
  <2> HIDE DEF B
  <2>1. 0..n \subseteq B
    BY <1>1, <1>7, <1>8, CountingUp
  <2> QED
    BY <1>1, <2>1
<1>10. f[S] \in PrefixData(w)
  <2>1. (n - n + 1)..n = S
    BY <1>1
  <2> QED
    BY <1>9, <2>1
<1> QED
  BY <1>10, PrefixIsAWalk DEF PrefixData, f

\* Contiguous windows are of one source, and each ends before the later begin.
LEMMA ContiguousOrder ==
    ASSUME NEW batches \in Seq(Window), Contiguous(batches)
    PROVE  \A i, j \in 1..Len(batches) :
              /\ batches[i].source = batches[j].source
              /\ i < j => batches[i].to <= batches[j].from
<1> DEFINE n == Len(batches)
           B == {k \in 0..n : \A i \in 1..k :
                    /\ batches[i].source = batches[k].source
                    /\ i < k => batches[i].to <= batches[k].from}
<1>1. n \in Nat /\ \A i \in 1..n : batches[i] \in Window
  OBVIOUS
<1>2. \A v \in Window : v.from \in Nat /\ v.to \in Nat /\ v.from < v.to
  BY BarDataAssumption
<1>3. 0 \in B
  OBVIOUS
<1>4. ASSUME NEW k \in 1..n, k - 1 \in B PROVE k \in B
  <2>1. CASE k = 1
    BY <2>1
  <2>2. CASE k # 1
    <3>1. /\ k \in Int /\ k - 1 \in 1..(n - 1) /\ (k - 1) + 1 = k
          /\ k \in 1..n /\ k - 1 \in 1..n
      BY <1>1, <2>2
    <3>2. /\ batches[k - 1].source = batches[k].source
          /\ batches[k - 1].to = batches[k].from
      BY <3>1 DEF Contiguous, SameSource
    <3>3. ASSUME NEW i \in 1..k
          PROVE  /\ batches[i].source = batches[k].source
                 /\ i < k => batches[i].to <= batches[k].from
      <4>1. CASE i = k
        BY <4>1
      <4>2. CASE i = k - 1
        <5>1. batches[k].from \in Nat
          BY <1>1, <1>2, <3>1
        <5> QED
          BY <3>2, <4>2, <5>1
      <4>3. CASE i < k - 1
        <5>1. i \in 1..(k - 1) /\ i \in 1..n
          BY <1>1, <3>1, <4>3
        <5>2. batches[i].source = batches[k - 1].source /\ batches[i].to <= batches[k - 1].from
          BY <1>4, <4>3, <5>1
        <5>3. /\ batches[i].to \in Nat /\ batches[k - 1].from \in Nat /\ batches[k - 1].to \in Nat
              /\ batches[k - 1].from < batches[k - 1].to /\ batches[k].from \in Nat
          BY <1>1, <1>2, <3>1, <5>1
        <5> QED
          BY <3>2, <5>2, <5>3
      <4> QED
        BY <3>1, <4>1, <4>2, <4>3
    <3> QED
      BY <3>1, <3>3
  <2> QED
    BY <2>1, <2>2
<1>5. 0..n \subseteq B
  <2> HIDE DEF B
  <2> QED
    BY <1>1, <1>3, <1>4, CountingUp
<1>6. \A k \in 1..n : k \in B
  BY <1>1, <1>5
<1>7. ASSUME NEW i \in 1..n, NEW j \in 1..n, i <= j
      PROVE  /\ batches[i].source = batches[j].source
             /\ i < j => batches[i].to <= batches[j].from
  <2>1. j \in B /\ i \in 1..j
    BY <1>1, <1>6, <1>7
  <2> QED
    BY <2>1
<1> QED
  <2> TAKE i, j \in 1..n
  <2>1. i \in Int /\ j \in Int /\ (i <= j \/ j <= i)
    OBVIOUS
  <2>2. CASE i <= j
    BY <1>7, <2>2
  <2>3. CASE j <= i
    <3>1. batches[j].source = batches[i].source /\ ~ (i < j)
      BY <1>7, <2>1, <2>3
    <3> QED
      BY <3>1
  <2> QED
    BY <2>1, <2>2, <2>3

\* What covers() knows after the windows up to some position.
CoverData == [through : Int, gap : BOOLEAN]
CoverStep(b, at, w) ==
    IF at.gap \/ ~SameSource(b, w) \/ b.to <= at.through THEN at
    ELSE IF b.from > at.through THEN [at EXCEPT !.gap = TRUE]
    ELSE [at EXCEPT !.through = b.to]
CoverStart(w) == [through |-> w.from, gap |-> FALSE]
CoverFrom(batches, w, f, s) ==
    IF s = {} THEN CoverStart(w) ELSE CoverStep(batches[Max(s)], f[s \ {Max(s)}], w)
CoverWalk(batches, w) ==
    CHOOSE f : f = [s \in SUBSET DOMAIN batches |-> CoverFrom(batches, w, f, s)]

LEMMA CoversIsAWalk ==
    ASSUME NEW batches, NEW w
    PROVE  Covers(batches, w) <=> CoverWalk(batches, w)[DOMAIN batches].through >= w.to
BY DEF Covers, CoverWalk, CoverFrom, CoverStart, CoverStep, FoldLeft, MapThenFoldSet

\* It starts at the window's begin and takes the windows one after the other.
LEMMA CoverSteps ==
    ASSUME NEW batches \in Seq(Window), NEW w \in Window,
           NEW f, f = CoverWalk(batches, w)
    PROVE  /\ f[{}] = CoverStart(w)
           /\ \A k \in 1..Len(batches) : f[1..k] = CoverStep(batches[k], f[1..(k - 1)], w)
<1> DEFINE n == Len(batches)
           S == DOMAIN batches
<1>1. n \in Nat /\ S = 1..n /\ IsFiniteSet(S) /\ \A i \in S : batches[i] \in Window
  BY FS_Interval
<1>2. \A v \in Window : v.from \in Nat /\ v.to \in Nat
  BY BarDataAssumption
<1>3. CoverStart(w) \in CoverData
  BY <1>2 DEF CoverStart, CoverData
<1>4. ASSUME NEW b \in Window, NEW at \in CoverData PROVE CoverStep(b, at, w) \in CoverData
  <2>1. b.to \in Int
    BY <1>2
  <2>2. [at EXCEPT !.gap = TRUE] \in CoverData
    BY DEF CoverData
  <2>3. [at EXCEPT !.through = b.to] \in CoverData
    BY <2>1 DEF CoverData
  <2> QED
    BY <2>2, <2>3 DEF CoverStep
<1>5. \A s \in SUBSET S : s # {} => Max(s) \in s
  BY <1>1, MaxOfNumbers
<1>6. f = [s \in SUBSET S |-> CoverFrom(batches, w, f, s)]
  <2> DEFINE c == [s \in SUBSET S |-> Max(s)]
             g == [x \in S \X CoverData |-> CoverStep(batches[x[1]], x[2], w)]
  <2>1. g \in [S \X CoverData -> CoverData]
    BY <1>1, <1>4
  <2>2. Chooses(c, S)
    BY <1>5 DEF Chooses
  <2>3. PICK h \in [SUBSET S -> CoverData] : Walks(h, S, c, CoverStart(w), g)
    <3>1. IsFiniteSet(S)
      BY <1>1
    <3> HIDE DEF S, c, g
    <3> QED
      BY <3>1, <1>3, <2>1, <2>2, WalksExist
  <2>4. ASSUME NEW s \in SUBSET S PROVE h[s] = CoverFrom(batches, w, h, s)
    <3>1. CASE s = {}
      BY <2>3, <3>1 DEF CoverFrom, Walks
    <3>2. CASE s # {}
      <4>1. Max(s) \in S /\ s \ {Max(s)} \in SUBSET S /\ c[s] = Max(s)
        BY <1>5, <3>2
      <4>2. h[s \ {Max(s)}] \in CoverData
        BY <4>1
      <4>3. g[<<Max(s), h[s \ {Max(s)}]>>] = CoverStep(batches[Max(s)], h[s \ {Max(s)}], w)
        BY <4>1, <4>2
      <4>4. h[s] = g[<<Max(s), h[s \ {Max(s)}]>>]
        BY <2>3, <3>2, <4>1 DEF Walks
      <4> QED
        BY <3>2, <4>3, <4>4 DEF CoverFrom
    <3> QED
      BY <3>1, <3>2
  <2>5. h = [s \in SUBSET S |-> CoverFrom(batches, w, h, s)]
    BY <2>4
  <2> QED
    BY <2>5 DEF CoverWalk
<1>7. f[{}] = CoverStart(w)
  BY <1>6 DEF CoverFrom
<1>8. ASSUME NEW k \in 1..n PROVE f[1..k] = CoverStep(batches[k], f[1..(k - 1)], w)
  <2> DEFINE s == 1..k
  <2>1. s \in SUBSET S /\ s # {} /\ k \in s /\ s \ {k} = 1..(k - 1)
    BY <1>1
  <2>2. Max(s) = k
    <3>1. Max(s) \in s /\ \A x \in s : Max(s) >= x
      BY <1>1, <2>1, MaxOfNumbers
    <3> QED
      BY <1>1, <2>1, <3>1
  <2>3. f[s] = CoverStep(batches[k], f[s \ {k}], w)
    BY <1>6, <2>1, <2>2 DEF CoverFrom
  <2> QED
    BY <2>1, <2>3
<1> QED
  BY <1>7, <1>8

\* The windows of w's source that hold an epoch, among the first k.
HeldBy(batches, w, k, e) ==
    \E i \in 1..k : batches[i].source = w.source /\ batches[i].from <= e /\ e < batches[i].to

\* What covers() knows after k windows is true: they hold all epochs up to the
\* last one it counts, none of them reaches further, and a gap is one for good.
CoverTrue(batches, w, k, at) ==
    /\ at \in CoverData
    /\ at.through >= w.from
    /\ \A e \in w.from..(at.through - 1) : HeldBy(batches, w, k, e)
    /\ ~at.gap => \A i \in 1..k : batches[i].source = w.source => batches[i].to <= at.through
    /\ at.gap => ~HeldBy(batches, w, Len(batches), at.through)

LEMMA CoverStepTrue ==
    ASSUME NEW batches \in Seq(Window), Contiguous(batches), NEW w \in Window,
           NEW k \in 1..Len(batches), NEW at, CoverTrue(batches, w, k - 1, at)
    PROVE  CoverTrue(batches, w, k, CoverStep(batches[k], at, w))
<1> DEFINE n == Len(batches)
           b == batches[k]
<1>1. n \in Nat /\ k \in Int /\ k \in 1..n /\ \A i \in 1..n : batches[i] \in Window
  OBVIOUS
<1>2. \A v \in Window : v.from \in Nat /\ v.to \in Nat /\ v.from < v.to
  BY BarDataAssumption
<1>3. /\ at \in CoverData /\ at.through \in Int /\ at.gap \in BOOLEAN
      /\ at.through >= w.from
      /\ \A e \in w.from..(at.through - 1) : HeldBy(batches, w, k - 1, e)
      /\ ~at.gap => \A i \in 1..(k - 1) :
            batches[i].source = w.source => batches[i].to <= at.through
      /\ at.gap => ~HeldBy(batches, w, n, at.through)
  BY DEF CoverTrue, CoverData
<1>4. \A e : HeldBy(batches, w, k - 1, e) => HeldBy(batches, w, k, e)
  <2>1. 1..(k - 1) \subseteq 1..k
    BY <1>1
  <2> QED
    BY <2>1 DEF HeldBy
<1>5. \A i \in 1..k : i = k \/ i \in 1..(k - 1)
  BY <1>1
<1>6. /\ b \in Window /\ b.from \in Nat /\ b.to \in Nat /\ b.from < b.to
      /\ w.from \in Nat /\ w.to \in Nat
  BY <1>1, <1>2
<1>7. CASE at.gap \/ b.source # w.source \/ b.to <= at.through
  <2>1. CoverStep(b, at, w) = at
    BY <1>7 DEF CoverStep, SameSource
  <2>2. ~at.gap => \A i \in 1..k : batches[i].source = w.source => batches[i].to <= at.through
    BY <1>3, <1>5, <1>7
  <2> QED
    BY <1>3, <1>4, <2>1, <2>2 DEF CoverTrue
<1>8. CASE ~at.gap /\ b.source = w.source /\ ~(b.to <= at.through) /\ b.from > at.through
  <2> DEFINE to == [at EXCEPT !.gap = TRUE]
  <2>1. /\ CoverStep(b, at, w) = to
        /\ to \in CoverData /\ to.gap = TRUE /\ to.through = at.through
    BY <1>3, <1>8 DEF CoverStep, SameSource, CoverData
  <2> HIDE DEF to
  <2>2. ASSUME NEW i \in 1..n, batches[i].source = w.source
        PROVE  ~(batches[i].from <= at.through /\ at.through < batches[i].to)
    <3>1. /\ batches[i].from \in Nat /\ batches[i].to \in Nat
          /\ batches[i].from < batches[i].to /\ i \in Int
      BY <1>1, <1>2
    <3>2. CASE i \in 1..(k - 1)
      <4>1. batches[i].to <= at.through
        BY <1>3, <1>8, <2>2, <3>2
      <4> QED
        BY <1>3, <3>1, <4>1
    <3>3. CASE i = k
      BY <1>3, <1>6, <1>8, <3>3
    <3>4. CASE k < i
      <4>1. b.to <= batches[i].from
        BY <1>1, <3>4, ContiguousOrder
      <4> QED
        BY <1>3, <1>6, <1>8, <3>1, <4>1
    <3> QED
      BY <1>1, <3>1, <3>2, <3>3, <3>4
  <2>3. ~HeldBy(batches, w, n, at.through)
    BY <2>2 DEF HeldBy
  <2> QED
    BY <1>3, <1>4, <2>1, <2>3 DEF CoverTrue
<1>9. CASE ~at.gap /\ b.source = w.source /\ ~(b.to <= at.through) /\ ~(b.from > at.through)
  <2> DEFINE to == [at EXCEPT !.through = b.to]
  <2>1. /\ CoverStep(b, at, w) = to
        /\ to \in CoverData /\ to.gap = FALSE /\ to.through = b.to
    <3>1. CoverStep(b, at, w) = to
      BY <1>9 DEF CoverStep, SameSource
    <3> QED
      BY <1>3, <1>6, <1>9, <3>1 DEF CoverData
  <2> HIDE DEF to
  <2>2. b.to >= w.from
    BY <1>3, <1>6, <1>9
  <2>3. ASSUME NEW e \in w.from..(b.to - 1) PROVE HeldBy(batches, w, k, e)
    <3>1. CASE e < at.through
      <4>1. e \in w.from..(at.through - 1)
        BY <1>3, <1>6, <3>1
      <4> QED
        BY <1>3, <1>4, <4>1
    <3>2. CASE ~(e < at.through)
      <4>1. b.from <= e /\ e < b.to
        BY <1>3, <1>6, <1>9, <3>2
      <4>2. k \in 1..k
        BY <1>1
      <4> QED
        BY <1>9, <4>1, <4>2 DEF HeldBy
    <3> QED
      BY <3>1, <3>2
  <2>4. ASSUME NEW i \in 1..k, batches[i].source = w.source PROVE batches[i].to <= b.to
    <3>1. CASE i = k
      BY <1>6, <3>1
    <3>2. CASE i \in 1..(k - 1)
      <4>1. batches[i].to <= at.through
        BY <1>3, <1>9, <2>4, <3>2
      <4>2. batches[i].to \in Nat
        BY <1>1, <1>2
      <4> QED
        BY <1>3, <1>6, <1>9, <4>1, <4>2
    <3> QED
      BY <1>5, <3>1, <3>2
  <2> QED
    BY <2>1, <2>2, <2>3, <2>4 DEF CoverTrue
<1> QED
  BY <1>7, <1>8, <1>9

\* covers() says of contiguous windows that they hold a window of epochs
\* exactly when each of its epochs lies in one of them.
LEMMA CoversMeansHolds ==
    ASSUME NEW batches \in Seq(Window), Contiguous(batches), NEW w \in Window
    PROVE  Covers(batches, w) <=> \A e \in w.from..(w.to - 1) : Holds(batches, w.source, e)
<1> DEFINE n == Len(batches)
           f == CoverWalk(batches, w)
           B == {k \in 0..n : CoverTrue(batches, w, k, f[1..k])}
<1>1. n \in Nat /\ DOMAIN batches = 1..n /\ \A i \in 1..n : batches[i] \in Window
  OBVIOUS
<1>2. /\ w.from \in Nat /\ w.to \in Nat
      /\ \A v \in Window : v.from \in Nat /\ v.to \in Nat
  BY BarDataAssumption
<1>3. /\ f[{}] = CoverStart(w)
      /\ \A k \in 1..n : f[1..k] = CoverStep(batches[k], f[1..(k - 1)], w)
  BY CoverSteps
<1> HIDE DEF f
<1>4. 0 \in B
  <2>1. 1..0 = {}
    OBVIOUS
  <2>2. /\ CoverStart(w) \in CoverData
        /\ CoverStart(w).through = w.from /\ CoverStart(w).gap = FALSE
    BY <1>2 DEF CoverStart, CoverData
  <2>3. w.from >= w.from /\ w.from..(w.from - 1) = {}
    BY <1>2
  <2>4. CoverTrue(batches, w, 0, CoverStart(w))
    BY <2>1, <2>2, <2>3 DEF CoverTrue
  <2> QED
    BY <1>1, <1>3, <2>1, <2>4
<1>5. ASSUME NEW k \in 1..n, k - 1 \in B PROVE k \in B
  <2>1. CoverTrue(batches, w, k - 1, f[1..(k - 1)])
    BY <1>5
  <2>2. CoverTrue(batches, w, k, CoverStep(batches[k], f[1..(k - 1)], w))
    BY <2>1, CoverStepTrue
  <2> QED
    BY <1>1, <1>3, <2>2
<1>6. CoverTrue(batches, w, n, f[1..n])
  <2>1. 0..n \subseteq B
    <3> HIDE DEF B
    <3> QED
      BY <1>1, <1>4, <1>5, CountingUp
  <2> QED
    BY <1>1, <2>1
<1> DEFINE at == f[1..n]
<1>7. Covers(batches, w) <=> at.through >= w.to
  BY <1>1, CoversIsAWalk DEF f
<1> HIDE DEF at
<1>8. /\ at.through \in Int /\ at.gap \in BOOLEAN /\ at.through >= w.from
      /\ \A e \in w.from..(at.through - 1) : HeldBy(batches, w, n, e)
      /\ ~at.gap => \A i \in 1..n : batches[i].source = w.source => batches[i].to <= at.through
      /\ at.gap => ~HeldBy(batches, w, n, at.through)
  BY <1>6 DEF CoverTrue, CoverData, at
<1>9. \A e : Holds(batches, w.source, e) <=> HeldBy(batches, w, n, e)
  BY DEF Holds, HeldBy
<1>10. CASE at.through >= w.to
  <2>1. w.from..(w.to - 1) \subseteq w.from..(at.through - 1)
    BY <1>2, <1>8, <1>10
  <2> QED
    BY <1>7, <1>8, <1>9, <1>10, <2>1
<1>11. CASE ~(at.through >= w.to)
  <2>1. at.through \in w.from..(w.to - 1)
    BY <1>2, <1>8, <1>11
  <2>2. ~HeldBy(batches, w, n, at.through)
    <3>1. CASE ~at.gap
      <4>1. ASSUME NEW i \in 1..n, batches[i].source = w.source PROVE ~(at.through < batches[i].to)
        <5>1. batches[i].to <= at.through /\ batches[i].to \in Nat
          BY <1>1, <1>2, <1>8, <3>1, <4>1
        <5> QED
          BY <1>8, <5>1
      <4> QED
        BY <4>1 DEF HeldBy
    <3> QED
      BY <1>8, <3>1
  <2> QED
    BY <1>7, <1>9, <1>11, <2>1, <2>2
<1> QED
  BY <1>10, <1>11
-----------------------------------------------------------------------------
(* What a transaction stages is what it commits: the windows of its leases. *)

\* begin() leaves one transaction whose signal is not aborted, dispose() none.
LoneCurrent ==
    /\ \A t, u \in Running : t \notin aborted /\ u \notin aborted => t = u
    /\ disposed => Running \subseteq aborted

\* A lease of that transaction was staged on the coverage still accepted.
StagedFresh ==
    \A t \in Transaction, p \in Pane :
       tx[t] = "running" /\ t \notin aborted /\ acq[t][p] \in {"registered", "held"} =>
          staged[t][p] = StagedBatches(accepted[p], request[t][p].window, request[t][p].operation)

StagedBounded == \A t \in Transaction, p \in Pane : Len(staged[t][p]) <= MaxWindows

\* The inductive invariant of the coverage, on top of BarInv.
CoverageInv == TypeOK /\ LoneCurrent /\ StagedFresh /\ StagedBounded /\ AcceptedIsContiguous

\* stage() returns a sequence of windows.
LEMMA StagedType ==
    ASSUME NEW batches \in Seq(Window), NEW r \in Request, r.window \in Window
    PROVE  StagedBatches(batches, r.window, r.operation) \in Seq(Window)
<1>1. ContiguousPrefix(batches, r.window) \in Seq(Window)
  BY PrefixAdjoins
<1>2. /\ <<r.window>> \in Seq(Window)
      /\ <<r.window>> \o batches \in Seq(Window)
      /\ ContiguousPrefix(batches, r.window) \o <<r.window>> \in Seq(Window)
  BY <1>1
<1>3. r.operation \in {"navigation", "history-extension", "source-replacement"}
  BY DEF Request, Operation
<1> QED
  BY <1>2, <1>3 DEF StagedBatches

\* The cache keeps windows, at most as many as its bound.
LEMMA TouchedType ==
    ASSUME cache \in Seq(Window), Len(cache) <= CacheSize, NEW w \in Window
    PROVE  Touched(w) \in Seq(Window) /\ Len(Touched(w)) <= CacheSize
<1> DEFINE rest == RemoveFirst(cache, w)
           c == Append(rest, w)
           n == Len(cache)
<1>1. CacheSize \in Nat \ {0} /\ n \in Nat
  BY BarDataAssumption
<1>2. rest \in Seq(Window) /\ Len(rest) <= n
  <2>1. CASE \E i \in 1..n : cache[i] = w
    <3> DEFINE I == {i \in 1..n : cache[i] = w}
    <3>1. I \in SUBSET (1..n) /\ I # {}
      BY <2>1
    <3>2. Min(I) \in 1..n
      <4> HIDE DEF I
      <4> QED
        BY <1>1, <3>1, MinOfNumbers
    <3>3. rest = SubSeq(cache, 1, Min(I) - 1) \o SubSeq(cache, Min(I) + 1, n)
      BY <2>1, <3>1 DEF RemoveFirst, RemoveAt, SelectInSeq
    <3> HIDE DEF rest, I
    <3> DEFINE i == Min(I)
    <3>4. i \in 1..n
      BY <3>2
    <3> HIDE DEF i
    <3> DEFINE before == SubSeq(cache, 1, i - 1)
               after == SubSeq(cache, i + 1, n)
    <3>5. /\ before \in Seq(Window) /\ Len(before) = i - 1
          /\ after \in Seq(Window) /\ Len(after) = n - i
      BY <1>1, <3>4
    <3>6. rest = before \o after
      BY <3>3 DEF i
    <3> HIDE DEF before, after
    <3>7. before \o after \in Seq(Window) /\ Len(before \o after) = Len(before) + Len(after)
      BY <3>5
    <3>8. (i - 1) + (n - i) <= n
      BY <1>1, <3>4
    <3> QED
      BY <3>5, <3>6, <3>7, <3>8
  <2>2. CASE ~ \E i \in 1..n : cache[i] = w
    BY <1>1, <2>2 DEF RemoveFirst
  <2> QED
    BY <2>1, <2>2
<1> HIDE DEF rest
<1>3. c \in Seq(Window) /\ Len(c) = Len(rest) + 1 /\ Len(rest) \in Nat /\ c # <<>>
  BY <1>2
<1>4. Touched(w) = IF Len(c) > CacheSize THEN Tail(c) ELSE c
  BY DEF Touched, rest
<1> HIDE DEF c
<1>5. Tail(c) \in Seq(Window) /\ Len(Tail(c)) = Len(c) - 1
  BY <1>3
<1> QED
  BY <1>1, <1>2, <1>3, <1>4, <1>5

LEMMA CacheStep ==
    ASSUME BarInv, CoverageInv, [Next]_vars
    PROVE  cache' \in Seq(Window) /\ Len(cache') <= CacheSize
<1>0. cache \in Seq(Window) /\ Len(cache) <= CacheSize
  BY DEF CoverageInv, TypeOK
<1>a. AcquisitionTypes /\ AcquisitionsBelong
  BY DEF BarInv
<1>1. ASSUME NEW w \in Window, cache' = Touched(w)
      PROVE  cache' \in Seq(Window) /\ Len(cache') <= CacheSize
  BY <1>0, <1>1, TouchedType
<1>2. ASSUME NEW t \in Transaction, Begin(t) \/ Reject(t) \/ Commit(t) PROVE cache' = cache
  BY <1>2 DEF Begin, Reject, Commit, provider
<1>3. ASSUME NEW t \in Transaction, NEW p \in Pane, Ask(t, p)
      PROVE  cache' = cache \/ \E w \in Window : cache' = Touched(w)
  <2>1. acq[t][p] # "none"
    BY <1>3 DEF Ask
  <2>2. request[t][p].window \in Window
    BY <1>a, <2>1, AskedWindow
  <2> QED
    BY <1>3, <2>2 DEF Ask, provider
<1>4. ASSUME NEW t \in Transaction, NEW p \in Pane,
             ResolutionFails(t, p) \/ LeaveCall(t, p) \/ Stage(t, p) \/ Hold(t, p)
      PROVE  cache' = cache
  BY <1>4 DEF ResolutionFails, LeaveCall, Stage, Hold, provider
<1>5. ASSUME NEW w \in Window, Answer(w) PROVE cache' = cache \/ cache' = Touched(w)
  BY <1>5 DEF Answer, Store
<1>6. ASSUME NEW w \in Window, ProviderFails(w) PROVE cache' = cache
  BY <1>6 DEF ProviderFails
<1>9. FreeSlot => cache' = cache
  BY DEF FreeSlot
<1>7. CASE Dispose
  <2>1. cache' = <<>> /\ CacheSize \in Nat
    BY <1>7, BarDataAssumption DEF Dispose
  <2> QED
    BY <2>1
<1>8. CASE UNCHANGED vars
  BY <1>0, <1>8 DEF vars, provider
<1> QED
  BY <1>0, <1>1, <1>2, <1>3, <1>4, <1>5, <1>6, <1>7, <1>8, <1>9 DEF Next, PaneStep

\* What a transaction stages for a pane changes only when it stages, or to
\* nothing: the leases are returned or disposed of.
LEMMA StagedChanges ==
    ASSUME BarInv, CoverageInv, [Next]_vars
    PROVE  /\ staged' \in [Transaction -> [Pane -> Seq(Window)]]
           /\ StagedBounded'
<1>0. /\ staged \in [Transaction -> [Pane -> Seq(Window)]]
      /\ accepted \in [Pane -> Seq(Window)]
      /\ request \in [Transaction -> [Pane -> Request \union {None}]]
      /\ StagedBounded /\ MaxWindows \in Nat
  BY BarDataAssumption DEF CoverageInv, TypeOK
<1>a. /\ <<>> \in Seq(Window) /\ Len(<<>>) = 0
  OBVIOUS
<1>1. ASSUME staged' = staged PROVE staged' \in [Transaction -> [Pane -> Seq(Window)]] /\ StagedBounded'
  BY <1>0, <1>1 DEF StagedBounded
<1>2. ASSUME NEW t \in Transaction, Release(t)
      PROVE  staged' \in [Transaction -> [Pane -> Seq(Window)]] /\ StagedBounded'
  <2> DEFINE s == [p \in Pane |-> IF p \in Held(t) THEN <<>> ELSE staged[t][p]]
  <2>1. staged' = [staged EXCEPT ![t] = s]
    BY <1>0, <1>2 DEF Release
  <2>2. s \in [Pane -> Seq(Window)] /\ \A p \in Pane : Len(s[p]) <= MaxWindows
    BY <1>0, <1>a DEF StagedBounded
  <2> HIDE DEF s
  <2>3. staged' \in [Transaction -> [Pane -> Seq(Window)]]
    BY <1>0, <2>1, <2>2
  <2>4. StagedBounded'
    BY <1>0, <2>1, <2>2 DEF StagedBounded
  <2> QED
    BY <2>3, <2>4
<1>3. ASSUME NEW t \in Transaction, Begin(t) PROVE staged' = staged
  BY <1>3 DEF Begin
<1>4. ASSUME NEW t \in Transaction, Reject(t) \/ Commit(t) PROVE Release(t)
  BY <1>4 DEF Reject, Commit
<1>5. ASSUME NEW t \in Transaction, NEW p \in Pane,
             ResolutionFails(t, p) \/ Ask(t, p) \/ LeaveCall(t, p) \/ Hold(t, p)
      PROVE  staged' = staged
  BY <1>5 DEF Ask, ResolutionFails, LeaveCall, Hold
<1>6. ASSUME NEW t \in Transaction, NEW p \in Pane, Stage(t, p)
      PROVE  staged' \in [Transaction -> [Pane -> Seq(Window)]] /\ StagedBounded'
  <2> DEFINE batches == StagedBatches(accepted[p], request[t][p].window, request[t][p].operation)
  <2>1. CASE staged' = staged
    BY <1>1, <2>1
  <2>2. CASE staged' # staged
    <3>1. staged' = [staged EXCEPT ![t][p] = batches] /\ ~(Len(batches) > MaxWindows)
      BY <1>6, <2>2 DEF Stage
    <3>2. acq[t][p] # "none"
      BY <1>6 DEF Stage
    <3>3. request[t][p] \in Request /\ request[t][p].window \in Window
      BY <1>6, <3>2, AskedWindow DEF BarInv
    <3>4. batches \in Seq(Window)
      BY <1>0, <3>3, StagedType
    <3> HIDE DEF batches
    <3>5. Len(batches) <= MaxWindows
      BY <1>0, <3>1, <3>4
    <3>6. staged' \in [Transaction -> [Pane -> Seq(Window)]]
      BY <1>0, <3>1, <3>4
    <3>7. StagedBounded'
      BY <1>0, <3>1, <3>5 DEF StagedBounded
    <3> QED
      BY <3>6, <3>7
  <2> QED
    BY <2>1, <2>2
<1>7. ASSUME NEW w \in Window, Answer(w) \/ ProviderFails(w) PROVE staged' = staged
  BY <1>7 DEF Answer, ProviderFails
<1>8. CASE Dispose
  <2>1. staged' = [t \in Transaction |-> [p \in Pane |-> <<>>]]
    BY <1>8 DEF Dispose
  <2> QED
    BY <1>0, <1>a, <2>1 DEF StagedBounded
<1>9. CASE UNCHANGED vars
  BY <1>1, <1>9 DEF vars
<1>10. FreeSlot => staged' = staged
  BY DEF FreeSlot
<1> QED
  BY <1>1, <1>2, <1>3, <1>4, <1>5, <1>6, <1>7, <1>8, <1>9, <1>10 DEF Next, PaneStep

\* A commit takes the windows its transaction staged on the coverage it
\* replaces, and the projection has accepted them.
LEMMA CommitTakesStaged ==
    ASSUME CoverageInv, NEW t \in Transaction, Commit(t), NEW p \in Shown(t)
    PROVE  /\ accepted'[p] = staged[t][p]
           /\ staged[t][p] = StagedBatches(accepted[p], request[t][p].window, request[t][p].operation)
           /\ Projectable(staged[t][p], request[t][p].operation)
<1>1. p \in Pane /\ tx[t] = "running" /\ t \notin aborted /\ acq[t][p] = "held"
  BY DEF Shown, Commit, Committable, AllHeld
<1>2. accepted'[p] = staged[t][p]
  BY <1>1 DEF Commit
<1>3. Projectable(staged[t][p], request[t][p].operation)
  BY DEF Commit, Committable, Projects, Batches
<1>4. staged[t][p] = StagedBatches(accepted[p], request[t][p].window, request[t][p].operation)
  BY <1>1 DEF CoverageInv, StagedFresh
<1> QED
  BY <1>2, <1>3, <1>4

\* Putting a window that adjoins them before contiguous windows keeps them so.
LEMMA ExtensionContiguous ==
    ASSUME NEW batches \in Seq(Window), Contiguous(batches), NEW w \in Window,
           NEW r, r = <<w>> \o batches,
           Len(r) > 2 => Contiguous(SubSeq(r, 1, 2)), ~(Len(r) > 2) => Contiguous(r)
    PROVE  Contiguous(r)
<1>1. CASE ~(Len(r) > 2)
  BY <1>1
<1>2. CASE Len(r) > 2
  <2> DEFINE h == SubSeq(r, 1, 2)
  <2>1. /\ r \in Seq(Window) /\ Len(r) = Len(batches) + 1 /\ r[1] = w
        /\ \A i \in 1..Len(batches) : r[i + 1] = batches[i]
        /\ Len(batches) \in Nat
    OBVIOUS
  <2>2. Len(h) = 2 /\ h[1] = r[1] /\ h[2] = r[2] /\ 1 \in 1..Len(batches) /\ batches # <<>>
    BY <1>2, <2>1
  <2> HIDE DEF h
  <2>3. 1 \in 1..(Len(h) - 1) /\ 1 + 1 = 2 /\ Contiguous(h)
    BY <1>2, <2>2 DEF h
  <2>4. SameSource(r[1], r[2]) /\ r[1].to = r[2].from
    BY <2>2, <2>3 DEF Contiguous, SameSource
  <2>5. r[2] = batches[1]
    BY <2>1, <2>2
  <2> QED
    BY <2>1, <2>2, <2>4, <2>5, PrependContiguous
<1> QED
  BY <1>1, <1>2

\* One window alone is contiguous, and so are none.
LEMMA FewAreContiguous == Contiguous(<<>>) /\ \A w : Contiguous(<<w>>)
BY DEF Contiguous

\* Every step keeps the accepted windows contiguous.
LEMMA AcceptedStep ==
    ASSUME BarInv, CoverageInv, [Next]_vars
    PROVE  accepted' \in [Pane -> Seq(Window)] /\ AcceptedIsContiguous'
<1>0. /\ accepted \in [Pane -> Seq(Window)] /\ AcceptedIsContiguous
      /\ staged \in [Transaction -> [Pane -> Seq(Window)]] /\ StagedBounded
      /\ MaxWindows \in Nat
  BY BarDataAssumption DEF CoverageInv, TypeOK
<1>a. ASSUME accepted' = accepted
      PROVE  accepted' \in [Pane -> Seq(Window)] /\ AcceptedIsContiguous'
  BY <1>0, <1>a DEF AcceptedIsContiguous
<1>b. <<>> \in Seq(Window) /\ Len(<<>>) = 0 /\ Contiguous(<<>>)
  BY FewAreContiguous
<1>1. ASSUME NEW t \in Transaction, Commit(t)
      PROVE  accepted' \in [Pane -> Seq(Window)] /\ AcceptedIsContiguous'
  <2>1. accepted' = [p \in Pane |-> IF p \in Shown(t) THEN staged[t][p] ELSE <<>>]
    BY <1>1 DEF Commit
  <2>2. accepted' \in [Pane -> Seq(Window)]
    BY <1>0, <1>b, <2>1
  <2>3. ASSUME NEW p \in Pane PROVE Contiguous(accepted'[p]) /\ Len(accepted'[p]) <= MaxWindows
    <3>1. CASE p \notin Shown(t)
      BY <1>0, <1>b, <2>1, <3>1
    <3>2. CASE p \in Shown(t)
      <4> DEFINE r == request[t][p]
                 s == staged[t][p]
      <4>1. /\ accepted'[p] = s
            /\ s = StagedBatches(accepted[p], r.window, r.operation)
            /\ Projectable(s, r.operation)
        BY <1>1, <3>2, CommitTakesStaged
      <4>2. Len(s) <= MaxWindows
        BY <1>0 DEF StagedBounded
      <4>3. acq[t][p] # "none"
        BY <1>1, <3>2 DEF Commit, Committable, AllHeld
      <4>4. r \in Request /\ r.window \in Window
        BY <4>3, AskedWindow DEF BarInv
      <4>5. accepted[p] \in Seq(Window) /\ Contiguous(accepted[p])
        BY <1>0 DEF AcceptedIsContiguous
      <4> HIDE DEF r, s
      <4>6. CASE r.operation # "history-extension"
        BY <4>1, <4>2, <4>6 DEF Projectable
      <4>7. CASE r.operation = "history-extension"
        <5>1. CASE accepted[p] # <<>> /\ ~SameSource(accepted[p][1], r.window)
          <6>1. s = <<r.window>>
            BY <4>1, <5>1 DEF StagedBatches
          <6> QED
            BY <4>1, <4>2, <6>1, FewAreContiguous
        <5>2. CASE ~(accepted[p] # <<>> /\ ~SameSource(accepted[p][1], r.window))
          <6>1. s = <<r.window>> \o accepted[p]
            BY <4>1, <4>7, <5>2 DEF StagedBatches
          <6>2. /\ Len(s) > 2 => Contiguous(SubSeq(s, 1, 2))
                /\ ~(Len(s) > 2) => Contiguous(s)
            BY <4>1, <4>7 DEF Projectable
          <6>3. Contiguous(s)
            BY <4>4, <4>5, <6>1, <6>2, ExtensionContiguous
          <6> QED
            BY <4>1, <4>2, <6>3
        <5> QED
          BY <5>1, <5>2
      <4> QED
        BY <4>6, <4>7
    <3> QED
      BY <3>1, <3>2
  <2> QED
    BY <2>2, <2>3 DEF AcceptedIsContiguous
<1>2. ASSUME NEW t \in Transaction, Begin(t) \/ Reject(t) PROVE accepted' = accepted
  BY <1>2 DEF Begin, Reject
<1>3. ASSUME NEW t \in Transaction, NEW p \in Pane, PaneStep(t, p) PROVE accepted' = accepted
  BY <1>3 DEF PaneStep, ResolutionFails, Ask, LeaveCall, Stage, Hold
<1>4. ASSUME NEW w \in Window, Answer(w) \/ ProviderFails(w) PROVE accepted' = accepted
  BY <1>4 DEF Answer, ProviderFails
<1>5. CASE Dispose
  <2>1. accepted' = [p \in Pane |-> <<>>]
    BY <1>5 DEF Dispose
  <2> QED
    BY <1>0, <1>b, <2>1 DEF AcceptedIsContiguous
<1>6. CASE UNCHANGED vars
  BY <1>a, <1>6 DEF vars
<1>7. FreeSlot => accepted' = accepted
  BY DEF FreeSlot
<1> QED
  BY <1>a, <1>1, <1>2, <1>3, <1>4, <1>5, <1>6, <1>7 DEF Next

\* The variables that only count or remember keep their types.
LEMMA RestTypes ==
    ASSUME CoverageInv, [Next]_vars
    PROVE  /\ aborted' \subseteq Transaction
           /\ disposed' \in BOOLEAN
           /\ outlived' \subseteq Transaction \X Pane
           /\ faults' \in 0..MaxFaults
<1>0. /\ aborted \subseteq Transaction /\ disposed \in BOOLEAN
      /\ outlived \subseteq Transaction \X Pane
      /\ faults \in 0..MaxFaults /\ MaxFaults \in Nat
  BY BarDataAssumption DEF CoverageInv, TypeOK
<1>1. ASSUME NEW t \in Transaction, Begin(t)
      PROVE  aborted' \subseteq Transaction /\ UNCHANGED <<disposed, outlived, faults>>
  BY <1>0, <1>1 DEF Begin, Running
<1>2. ASSUME NEW t \in Transaction, Reject(t)
      PROVE  /\ UNCHANGED <<aborted, disposed>>
             /\ outlived' \subseteq Transaction \X Pane
             /\ faults' \in 0..MaxFaults
  <2>1. UNCHANGED <<aborted, disposed>>
    BY <1>2 DEF Reject
  <2>2. outlived' \subseteq Transaction \X Pane
    BY <1>0, <1>2 DEF Reject, Shown
  <2>3. faults' = faults \/ (faults < MaxFaults /\ faults' = faults + 1)
    BY <1>2 DEF Reject, Fault
  <2> QED
    BY <1>0, <2>1, <2>2, <2>3
<1>3. ASSUME NEW t \in Transaction, Commit(t) PROVE UNCHANGED <<aborted, disposed, outlived, faults>>
  BY <1>3 DEF Commit
<1>4. ASSUME NEW t \in Transaction, NEW p \in Pane, PaneStep(t, p)
      PROVE  UNCHANGED <<aborted, disposed, outlived>> /\ faults' \in 0..MaxFaults
  <2>1. UNCHANGED <<aborted, disposed, outlived>>
    BY <1>4 DEF PaneStep, ResolutionFails, Ask, LeaveCall, Stage, Hold
  <2>2. faults' = faults \/ (faults < MaxFaults /\ faults' = faults + 1)
    BY <1>4 DEF PaneStep, ResolutionFails, Ask, LeaveCall, Stage, Hold, Fault
  <2> QED
    BY <1>0, <2>1, <2>2
<1>5. ASSUME NEW w \in Window, Answer(w) PROVE UNCHANGED <<aborted, disposed, outlived, faults>>
  BY <1>5 DEF Answer
<1>6. ASSUME NEW w \in Window, ProviderFails(w)
      PROVE  UNCHANGED <<aborted, disposed, outlived>> /\ faults' \in 0..MaxFaults
  <2>1. UNCHANGED <<aborted, disposed, outlived>> /\ faults < MaxFaults /\ faults' = faults + 1
    BY <1>6 DEF ProviderFails, Fault
  <2> QED
    BY <1>0, <2>1
<1>7. CASE Dispose
  BY <1>0, <1>7 DEF Dispose, Running
<1>8. CASE UNCHANGED vars
  BY <1>0, <1>8 DEF vars
<1>9. FreeSlot => UNCHANGED <<aborted, disposed, outlived, faults>>
  BY DEF FreeSlot
<1> QED
  BY <1>0, <1>1, <1>2, <1>3, <1>4, <1>5, <1>6, <1>7, <1>8, <1>9 DEF Next

LEMMA TypesStep == ASSUME BarInv, CoverageInv, [Next]_vars PROVE TypeOK'
<1>1. AcquisitionTypes' /\ GoodCalls(queue', active', closing')
  BY AcquisitionTypesStep, CallsStep
<1>2. queue' \in Seq(Window) /\ active' \subseteq Window
  BY <1>1 DEF GoodCalls
<1>6. closing' \in 0..Concurrency
  <2>1. /\ Cardinality(active') \in Nat /\ closing' \in Nat /\ Concurrency \in Nat
        /\ Cardinality(active') + closing' <= Concurrency
    BY <1>1, FS_CardinalityType, BarDataAssumption DEF GoodCalls
  <2> QED
    BY <2>1
<1>3. /\ request' \in [Transaction -> [Pane -> Request \union {None}]]
      /\ acq' \in [Transaction -> [Pane -> Acquisition]]
      /\ tx' \in [Transaction -> {"new", "running", "committed", "rejected"}]
  BY <1>1 DEF AcquisitionTypes
<1>4. cache' \in Seq(Window) /\ Len(cache') <= CacheSize
  BY CacheStep
<1>5. accepted' \in [Pane -> Seq(Window)] /\ staged' \in [Transaction -> [Pane -> Seq(Window)]]
  BY AcceptedStep, StagedChanges
<1> QED
  BY <1>2, <1>3, <1>4, <1>5, <1>6, RestTypes DEF TypeOK, Acquisition

LEMMA LoneCurrentStep == ASSUME BarInv, CoverageInv, [Next]_vars PROVE LoneCurrent'
<1>0. /\ LoneCurrent
      /\ tx \in [Transaction -> {"new", "running", "committed", "rejected"}]
  BY DEF CoverageInv, TypeOK
<1>a. ASSUME tx' = tx, aborted' = aborted, disposed' = disposed PROVE LoneCurrent'
  BY <1>0, <1>a DEF LoneCurrent, Running
<1>1. ASSUME NEW t \in Transaction, Begin(t) PROVE LoneCurrent'
  <2>1. /\ tx' = [tx EXCEPT ![t] = "running"] /\ aborted' = aborted \union Running
        /\ ~disposed /\ disposed' = disposed
    BY <1>1 DEF Begin
  <2>2. \A u \in Running' : u \in Running \/ u = t
    BY <1>0, <2>1 DEF Running
  <2> QED
    BY <2>1, <2>2 DEF LoneCurrent
<1>2. ASSUME NEW t \in Transaction, Reject(t) \/ Commit(t) PROVE LoneCurrent'
  <2>1. /\ tx' = [tx EXCEPT ![t] = "rejected"] \/ tx' = [tx EXCEPT ![t] = "committed"]
        /\ aborted' = aborted /\ disposed' = disposed
    BY <1>2 DEF Reject, Commit
  <2>2. Running' \subseteq Running
    BY <1>0, <2>1 DEF Running
  <2> QED
    BY <1>0, <2>1, <2>2 DEF LoneCurrent
<1>3. ASSUME NEW t \in Transaction, NEW p \in Pane, PaneStep(t, p) PROVE LoneCurrent'
  BY <1>a, <1>3 DEF PaneStep, ResolutionFails, Ask, LeaveCall, Stage, Hold
<1>4. ASSUME NEW w \in Window, Answer(w) \/ ProviderFails(w) PROVE LoneCurrent'
  BY <1>a, <1>4 DEF Answer, ProviderFails
<1>5. CASE Dispose
  <2>1. tx' = tx /\ aborted' = aborted \union Running
    BY <1>5 DEF Dispose
  <2> QED
    BY <2>1 DEF LoneCurrent, Running
<1>6. CASE UNCHANGED vars
  BY <1>a, <1>6 DEF vars
<1>7. CASE FreeSlot
  BY <1>a, <1>7 DEF FreeSlot
<1> QED
  BY <1>1, <1>2, <1>3, <1>4, <1>5, <1>6, <1>7 DEF Next

\* What StagedFresh says of one acquisition.
FreshAt(a, s, b, r) ==
    a \in {"registered", "held"} => s = StagedBatches(b, r.window, r.operation)

LEMMA FreshAtIsFresh ==
    StagedFresh <=>
       \A t \in Transaction, p \in Pane :
          tx[t] = "running" /\ t \notin aborted =>
             FreshAt(acq[t][p], staged[t][p], accepted[p], request[t][p])
BY DEF StagedFresh, FreshAt

LEMMA FreshStep == ASSUME BarInv, CoverageInv, [Next]_vars PROVE StagedFresh'
<1>0. /\ LoneCurrent
      /\ \A t \in Transaction, p \in Pane :
            tx[t] = "running" /\ t \notin aborted =>
               FreshAt(acq[t][p], staged[t][p], accepted[p], request[t][p])
      /\ tx \in [Transaction -> {"new", "running", "committed", "rejected"}]
      /\ acq \in [Transaction -> [Pane -> Acquisition]]
      /\ staged \in [Transaction -> [Pane -> Seq(Window)]]
      /\ request \in [Transaction -> [Pane -> Request \union {None}]]
  BY FreshAtIsFresh DEF CoverageInv, TypeOK, Acquisition
<1> SUFFICES ASSUME NEW u \in Transaction, NEW q \in Pane, tx'[u] = "running", u \notin aborted'
             PROVE  FreshAt(acq'[u][q], staged'[u][q], accepted'[q], request'[u][q])
  BY FreshAtIsFresh DEF FreshAt, StagedFresh
<1>a. ASSUME tx[u] = "running", u \notin aborted, acq'[u][q] = acq[u][q],
             staged'[u][q] = staged[u][q], accepted' = accepted, request'[u][q] = request[u][q]
      PROVE  FreshAt(acq'[u][q], staged'[u][q], accepted'[q], request'[u][q])
  BY <1>0, <1>a
<1>b. ASSUME acq'[u][q] \notin {"registered", "held"}
      PROVE  FreshAt(acq'[u][q], staged'[u][q], accepted'[q], request'[u][q])
  BY <1>b DEF FreshAt
<1>1. ASSUME NEW t \in Transaction, Begin(t)
      PROVE  FreshAt(acq'[u][q], staged'[u][q], accepted'[q], request'[u][q])
  <2>1. PICK f \in Requests :
          /\ request' = [request EXCEPT ![t] = f]
          /\ acq' = [acq EXCEPT ![t] = [p \in Pane |-> IF f[p] = None THEN "none" ELSE "planned"]]
    BY <1>1 DEF Begin
  <2>2. /\ tx' = [tx EXCEPT ![t] = "running"] /\ aborted' = aborted \union Running
        /\ accepted' = accepted /\ staged' = staged
    BY <1>1 DEF Begin
  <2>3. CASE u = t
    <3>1. acq'[u][q] \in {"none", "planned"}
      BY <1>0, <2>1, <2>3
    <3> QED
      BY <1>b, <3>1
  <2>4. CASE u # t
    BY <1>0, <1>a, <2>1, <2>2, <2>4
  <2> QED
    BY <2>3, <2>4
<1>2. ASSUME NEW t \in Transaction, Reject(t)
      PROVE  FreshAt(acq'[u][q], staged'[u][q], accepted'[q], request'[u][q])
  <2>1. /\ Release(t) /\ tx' = [tx EXCEPT ![t] = "rejected"]
        /\ aborted' = aborted /\ accepted' = accepted
    BY <1>2 DEF Reject
  <2>2. u # t
    BY <1>0, <2>1
  <2>3. staged'[u] = staged[u] /\ acq'[u] = acq[u] /\ request'[u] = request[u]
    BY <1>0, <2>1, <2>2 DEF Release, Forget
  <2> QED
    BY <1>0, <1>a, <2>1, <2>2, <2>3
<1>3. ASSUME NEW t \in Transaction, Commit(t)
      PROVE  FreshAt(acq'[u][q], staged'[u][q], accepted'[q], request'[u][q])
  <2>1. /\ tx' = [tx EXCEPT ![t] = "committed"] /\ aborted' = aborted
        /\ tx[t] = "running" /\ t \notin aborted
    BY <1>3 DEF Commit, Committable
  <2>2. u # t /\ tx[u] = "running"
    BY <1>0, <2>1
  <2>3. u = t
    BY <1>0, <2>1, <2>2 DEF LoneCurrent, Running
  <2> QED
    BY <2>2, <2>3
<1>4. ASSUME NEW t \in Transaction, NEW p \in Pane,
             ResolutionFails(t, p) \/ Ask(t, p) \/ LeaveCall(t, p)
      PROVE  FreshAt(acq'[u][q], staged'[u][q], accepted'[q], request'[u][q])
  <2>1. PICK stage \in {"failed", "answered", "waiting"} : To(t, p, stage)
    BY <1>4, AskMoves DEF ResolutionFails, LeaveCall
  <2>2. acq'[t][p] = stage /\ (u # t \/ q # p => acq'[u][q] = acq[u][q])
    BY <1>0, <2>1, Moves DEF Acquisition
  <2>3. tx' = tx /\ aborted' = aborted /\ staged' = staged /\ accepted' = accepted /\ request' = request
    BY <1>4 DEF Ask, ResolutionFails, LeaveCall
  <2>4. CASE u = t /\ q = p
    BY <1>b, <2>1, <2>2, <2>4
  <2>5. CASE u # t \/ q # p
    BY <1>a, <2>2, <2>3, <2>5
  <2> QED
    BY <2>4, <2>5
<1>5. ASSUME NEW t \in Transaction, NEW p \in Pane, Stage(t, p)
      PROVE  FreshAt(acq'[u][q], staged'[u][q], accepted'[q], request'[u][q])
  <2> DEFINE r == request[t][p]
             batches == StagedBatches(accepted[p], r.window, r.operation)
  <2>1. /\ tx' = tx /\ aborted' = aborted /\ accepted' = accepted /\ request' = request
        /\ \/ To(t, p, "failed") /\ staged' = staged
           \/ To(t, p, "registered") /\ staged' = [staged EXCEPT ![t][p] = batches]
    BY <1>5 DEF Stage
  <2>2. PICK stage \in {"failed", "registered"} : To(t, p, stage)
    BY <1>5, StageMoves
  <2>3. /\ acq'[t][p] = stage
        /\ u # t \/ q # p => acq'[u][q] = acq[u][q]
    BY <1>0, <2>2, Moves DEF Acquisition
  <2>4. CASE u # t \/ q # p
    <3>1. staged'[u][q] = staged[u][q]
      BY <1>0, <2>1, <2>4
    <3> QED
      BY <1>a, <2>1, <2>3, <2>4, <3>1
  <2>5. CASE u = t /\ q = p /\ To(t, p, "failed") /\ staged' = staged
    <3>1. acq'[u][q] = "failed"
      BY <1>0, <2>5, Moves DEF Acquisition
    <3> QED
      BY <1>b, <3>1
  <2>6. CASE u = t /\ q = p /\ staged' = [staged EXCEPT ![t][p] = batches]
    <3>1. staged'[u][q] = batches /\ accepted'[q] = accepted[p] /\ request'[u][q] = r
      BY <1>0, <2>1, <2>6
    <3> QED
      BY <3>1 DEF FreshAt
  <2> QED
    BY <2>1, <2>4, <2>5, <2>6
<1>6. ASSUME NEW t \in Transaction, NEW p \in Pane, Hold(t, p)
      PROVE  FreshAt(acq'[u][q], staged'[u][q], accepted'[q], request'[u][q])
  <2>1. /\ tx' = tx /\ aborted' = aborted /\ accepted' = accepted /\ request' = request
        /\ staged' = staged /\ To(t, p, "held") /\ acq[t][p] = "registered"
    BY <1>6 DEF Hold
  <2>2. u # t \/ q # p => acq'[u][q] = acq[u][q]
    BY <1>0, <2>1, Moves DEF Acquisition
  <2>3. CASE u # t \/ q # p
    BY <1>a, <2>1, <2>2, <2>3
  <2>4. CASE u = t /\ q = p
    <3>1. FreshAt("registered", staged[t][p], accepted[p], request[t][p])
      BY <1>0, <2>1, <2>4
    <3> QED
      BY <2>1, <2>4, <3>1 DEF FreshAt
  <2> QED
    BY <2>3, <2>4
<1>7. ASSUME NEW w \in Window, Answer(w) \/ ProviderFails(w)
      PROVE  FreshAt(acq'[u][q], staged'[u][q], accepted'[q], request'[u][q])
  <2>1. /\ tx' = tx /\ aborted' = aborted /\ accepted' = accepted /\ request' = request
        /\ staged' = staged
        /\ Settle(w, "answered") \/ Settle(w, "failed")
    BY <1>7 DEF Answer, ProviderFails
  <2>2. acq'[u][q] = acq[u][q] \/ acq'[u][q] \in {"answered", "failed"}
    BY <2>1 DEF Settle
  <2>3. CASE acq'[u][q] = acq[u][q]
    BY <1>a, <2>1, <2>3
  <2>4. CASE acq'[u][q] \in {"answered", "failed"}
    BY <1>b, <2>4
  <2> QED
    BY <2>2, <2>3, <2>4
<1>8. CASE Dispose
  <2>1. tx' = tx /\ aborted' = aborted \union Running
    BY <1>8 DEF Dispose
  <2>2. u \in aborted'
    BY <2>1 DEF Running
  <2> QED
    BY <2>2
<1>9. CASE UNCHANGED vars
  BY <1>a, <1>9 DEF vars
<1>10. CASE FreeSlot
  BY <1>a, <1>10 DEF FreeSlot
<1> QED
  BY <1>1, <1>2, <1>3, <1>4, <1>5, <1>6, <1>7, <1>8, <1>9, <1>10 DEF Next, PaneStep

LEMMA CoverageStarts == Init => CoverageInv
<1> SUFFICES ASSUME Init PROVE CoverageInv
  OBVIOUS
<1>1. /\ <<>> \in Seq(Window) /\ Len(<<>>) = 0 /\ Contiguous(<<>>)
      /\ CacheSize \in Nat /\ MaxWindows \in Nat /\ MaxFaults \in Nat /\ 0 \in 0..MaxFaults
  BY BarDataAssumption, FewAreContiguous
<1>2. /\ queue = <<>> /\ active = {} /\ closing = 0 /\ cache = <<>>
      /\ accepted = [p \in Pane |-> <<>>]
      /\ staged = [t \in Transaction |-> [p \in Pane |-> <<>>]]
      /\ request = [t \in Transaction |-> [p \in Pane |-> None]]
      /\ acq = [t \in Transaction |-> [p \in Pane |-> "none"]]
      /\ tx = [t \in Transaction |-> "new"]
      /\ aborted = {} /\ disposed = FALSE /\ outlived = {} /\ faults = 0
  BY DEF Init
<1>3. TypeOK
  <2>1. /\ queue \in Seq(Window) /\ active \subseteq Window
        /\ cache \in Seq(Window) /\ Len(cache) <= CacheSize
    BY <1>1, <1>2
  <2>5. aborted \subseteq Transaction /\ outlived \subseteq Transaction \X Pane
    BY <1>2
  <2>6. faults \in 0..MaxFaults /\ closing \in 0..Concurrency
    BY <1>1, <1>2, BarDataAssumption
  <2>7. disposed \in BOOLEAN
    BY <1>2
  <2>2. accepted \in [Pane -> Seq(Window)] /\ staged \in [Transaction -> [Pane -> Seq(Window)]]
    BY <1>1, <1>2
  <2>3. AcquisitionTypes
    BY BarsStart DEF BarInv
  <2>4. /\ request \in [Transaction -> [Pane -> Request \union {None}]]
        /\ acq \in [Transaction -> [Pane -> Acquisition]]
        /\ tx \in [Transaction -> {"new", "running", "committed", "rejected"}]
    BY <2>3 DEF AcquisitionTypes
  <2> QED
    BY <2>1, <2>2, <2>4, <2>5, <2>6, <2>7 DEF TypeOK, Acquisition
<1>4. LoneCurrent /\ StagedFresh
  BY <1>2 DEF LoneCurrent, StagedFresh, Running
<1>5. StagedBounded /\ AcceptedIsContiguous
  BY <1>1, <1>2 DEF StagedBounded, AcceptedIsContiguous
<1> QED
  BY <1>3, <1>4, <1>5 DEF CoverageInv

\* The coverage's invariant holds in every reachable state.
THEOREM CoverageAlways == Spec => [](BarInv /\ CoverageInv)
<1>1. Init => BarInv /\ CoverageInv
  BY BarsStart, CoverageStarts
<1>2. BarInv /\ [Next]_vars => BarInv'
  BY AcquisitionTypesStep, CallsStep, WaitersStep, BelongStep, DisposalStep DEF BarInv
<1>3. BarInv /\ CoverageInv /\ [Next]_vars => CoverageInv'
  BY TypesStep, LoneCurrentStep, FreshStep, StagedChanges, AcceptedStep DEF CoverageInv
<1> QED
  BY <1>1, <1>2, <1>3, PTL DEF Spec

\* Every variable of the bar data runtime has its type: what contiguousPrefix()
\* and stage() return are windows, and the cache never exceeds its bound.
THEOREM BarDataTypes == Spec => []TypeOK
<1>1. CoverageInv => TypeOK
  BY DEF CoverageInv
<1> QED
  BY <1>1, CoverageAlways, PTL

\* Whatever is extended, navigated, replaced or overtaken, finalize() leaves a
\* pane one unbroken run of windows of one source, at most the store's bound.
THEOREM AcceptedStaysContiguous == Spec => []AcceptedIsContiguous
<1>1. CoverageInv => AcceptedIsContiguous
  BY DEF CoverageInv
<1> QED
  BY <1>1, CoverageAlways, PTL

\* covers() of the committed coverage says yes exactly to the windows whose
\* every epoch some committed window holds.
THEOREM CoverageIsWhatIsHeld == Spec => []CoveredMeansHeld
<1>1. CoverageInv => CoveredMeansHeld
  <2> SUFFICES ASSUME CoverageInv, NEW p \in Pane, NEW w \in Window
               PROVE  Covers(accepted[p], w) <=>
                         \A e \in w.from..(w.to - 1) : Holds(accepted[p], w.source, e)
    BY DEF CoveredMeansHeld
  <2>1. accepted[p] \in Seq(Window) /\ Contiguous(accepted[p])
    BY DEF CoverageInv, TypeOK, AcceptedIsContiguous
  <2> QED
    BY <2>1, CoversMeansHolds
<1> QED
  BY <1>1, CoverageAlways, PTL

\* What a pane would stage for a window it navigates to adjoins: the scope of
\* a lease and the projection never refuse a navigation.
NavigationsAdjoin ==
    \A p \in Pane, w \in Window : Contiguous(StagedBatches(accepted[p], w, "navigation"))

\* contiguousPrefix() drops every accepted window that would leave a gap or an
\* overlap before the window a navigation acquires.
THEOREM NavigationsAreProjected == Spec => []NavigationsAdjoin
<1>1. CoverageInv => NavigationsAdjoin
  <2> SUFFICES ASSUME CoverageInv, NEW p \in Pane, NEW w \in Window
               PROVE  Contiguous(StagedBatches(accepted[p], w, "navigation"))
    BY DEF NavigationsAdjoin
  <2>1. accepted[p] \in Seq(Window) /\ Contiguous(accepted[p])
    BY DEF CoverageInv, TypeOK, AcceptedIsContiguous
  <2>2. Contiguous(ContiguousPrefix(accepted[p], w) \o <<w>>) /\ Contiguous(<<w>>)
    BY <2>1, PrefixAdjoins, FewAreContiguous
  <2> QED
    BY <2>1, <2>2 DEF StagedBatches
<1> QED
  BY <1>1, CoverageAlways, PTL

\* No commit puts back what it staged on older coverage: between stage() and
\* finalize() no other transaction of the workspace commits.
THEOREM CommitsBuildOnAccepted == Spec => CommitBuildsOnAccepted
<1> DEFINE Builds ==
      \A t \in Transaction : tx'[t] = "committed" /\ tx[t] # "committed" =>
         \A p \in Shown(t) :
            accepted'[p] = StagedBatches(accepted[p], request[t][p].window, request[t][p].operation)
<1>1. BarInv /\ CoverageInv /\ [Next]_vars => [Builds]_vars
  <2> SUFFICES ASSUME CoverageInv, Next PROVE Builds
    OBVIOUS
  <2>0. tx \in [Transaction -> {"new", "running", "committed", "rejected"}]
    BY DEF CoverageInv, TypeOK
  <2> SUFFICES ASSUME NEW t \in Transaction, tx'[t] = "committed", tx[t] # "committed",
                      NEW p \in Shown(t)
               PROVE  accepted'[p] =
                        StagedBatches(accepted[p], request[t][p].window, request[t][p].operation)
    OBVIOUS
  <2>1. ASSUME NEW u \in Transaction, Begin(u) \/ Reject(u) PROVE FALSE
    <3>1. tx' = [tx EXCEPT ![u] = "running"] \/ tx' = [tx EXCEPT ![u] = "rejected"]
      BY <2>1 DEF Begin, Reject
    <3> QED
      BY <2>0, <3>1
  <2>2. ASSUME NEW u \in Transaction, Commit(u) PROVE u = t
    <3>1. tx' = [tx EXCEPT ![u] = "committed"]
      BY <2>2 DEF Commit
    <3> QED
      BY <2>0, <3>1
  <2>3. ASSUME NEW u \in Transaction, NEW q \in Pane, PaneStep(u, q) PROVE FALSE
    BY <2>3 DEF PaneStep, ResolutionFails, Ask, LeaveCall, Stage, Hold
  <2>4. ASSUME NEW w \in Window, Answer(w) \/ ProviderFails(w) PROVE FALSE
    BY <2>4 DEF Answer, ProviderFails
  <2>5. ~Dispose /\ ~FreeSlot
    BY DEF Dispose, FreeSlot
  <2>6. Commit(t)
    BY <2>1, <2>2, <2>3, <2>4, <2>5 DEF Next
  <2> QED
    BY <2>6, CommitTakesStaged
<1>2. [][Builds]_vars => CommitBuildsOnAccepted
  BY DEF CommitBuildsOnAccepted
<1> QED
  BY <1>1, <1>2, CoverageAlways, PTL DEF Spec
================================================================================
