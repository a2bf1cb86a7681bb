------------------------------- MODULE BarData -------------------------------
(***************************************************************************)
(* The raw bars of the panes, from a transaction's request to the coverage  *)
(* it commits:                                                             *)
(*   - bar-data-runtime/bar-data-runtime.js, shared provider calls, queue;  *)
(*   - bar-data-runtime/exact-window-cache.js, the LRU of exact windows;    *)
(*   - bar-data-runtime/coverage-lease-runtime.js, a lease per request;     *)
(*   - bar-data-runtime/raw-coverage-store.js, staged and accepted windows; *)
(*   - replay-workspace-composition/pane-data-composition.js and            *)
(*     pane-set-materialization/materialization-ports.js, which acquire     *)
(*     for all the panes of a transaction.                                 *)
(* A transaction that begins aborts the older ones, which end when an       *)
(* await of theirs notices.                                                *)
(***************************************************************************)
EXTENDS RawCoverage, FiniteSets, SequencesExt

CONSTANTS
    Pane,         \* pane identities
    Transaction,  \* transaction identities, each used once
    Window,       \* windows a request may ask for: [source, from, to]
    Asks,         \* Asks[p]: the windows pane p may ask for
    None,         \* a pane the transaction does not show
    CacheSize,    \* maxCacheEntries
    Concurrency,  \* maxConcurrentRequests
    MaxWindows,   \* maxWindowCount of the accepted coverage
    MaxFaults     \* bound on provider failures and failing transactions

ASSUME BarDataAssumption ==
    /\ \A w \in Window : w.from \in Nat /\ w.to \in Nat /\ w.from < w.to
    /\ Asks \in [Pane -> SUBSET Window]
    /\ CacheSize \in Nat \ {0} /\ Concurrency \in Nat \ {0}
    /\ MaxWindows \in Nat \ {0} /\ MaxFaults \in Nat

VARIABLES
    queue,     \* windows that wait for a provider call
    active,    \* windows with a provider call
    closing,   \* number of calls that have settled and still hold their slot
    cache,     \* the exact windows kept, least recently used first
    accepted,  \* accepted[p]: windows of the committed coverage of p
    staged,    \* staged[t][p]: windows a lease of t would commit for p
    request,   \* request[t][p]: what t asks for p, or None
    acq,       \* acq[t][p]: how far the acquisition of p has come
    tx,        \* tx[t]: new, running, committed or rejected
    aborted,   \* transactions whose signal is aborted
    disposed,
    outlived,  \* history: acquisitions their transaction's rejection did not reach
    faults

provider == <<queue, active, closing, cache>>
vars == <<queue, active, closing, cache, accepted, staged, request, acq, tx, aborted,
          disposed, outlived, faults>>

Operation == {"navigation", "history-extension", "source-replacement"}
Request == [operation : Operation, window : Window]

Init ==
    /\ queue = <<>>
    /\ active = {}
    /\ closing = 0
    /\ cache = <<>>
    /\ accepted = [p \in Pane |-> <<>>]
    /\ staged = [t \in Transaction |-> [p \in Pane |-> <<>>]]
    /\ request = [t \in Transaction |-> [p \in Pane |-> None]]
    /\ acq = [t \in Transaction |-> [p \in Pane |-> "none"]]
    /\ tx = [t \in Transaction |-> "new"]
    /\ aborted = {}
    /\ disposed = FALSE
    /\ outlived = {}
    /\ faults = 0
-----------------------------------------------------------------------------
Fault == faults < MaxFaults /\ faults' = faults + 1

Running == {t \in Transaction : tx[t] = "running"}
Shown(t) == {p \in Pane : request[t][p] # None}
Batches(t, p) == staged[t][p]

To(t, p, stage) == acq' = [acq EXCEPT ![t][p] = stage]

\* Every acquisition that awaits the call for w goes on with its outcome.
Settle(w, outcome) ==
    acq' = [t \in Transaction |-> [p \in Pane |->
        IF acq[t][p] = "waiting" /\ request[t][p].window = w THEN outcome ELSE acq[t][p]]]

\* createRequest() of each pane: at most one of them extends its history,
\* before the oldest epoch it shows now, or replaces its source.
Plans(p) ==
    {r \in [operation : Operation, window : Asks[p]] :
        r.operation = "history-extension" =>
            accepted[p] # <<>> /\ r.window.to <= accepted[p][1].from}

Requests ==
    {f \in [Pane -> UNION {Plans(p) : p \in Pane} \union {None}] :
        /\ \E p \in Pane : f[p] # None
        /\ \A p \in Pane : f[p] # None => f[p] \in Plans(p)
        /\ Cardinality({p \in Pane : f[p] # None /\ f[p].operation # "navigation"}) <= 1}

\* begin(): the signals of all active transactions are aborted.
Begin(t) ==
    /\ ~disposed
    /\ tx[t] = "new"
    /\ \E f \in Requests :
         /\ request' = [request EXCEPT ![t] = f]
         /\ acq' = [acq EXCEPT ![t] = [p \in Pane |-> IF f[p] = None THEN "none" ELSE "planned"]]
    /\ tx' = [tx EXCEPT ![t] = "running"]
    /\ aborted' = aborted \union Running
    /\ UNCHANGED <<provider, accepted, staged, disposed, outlived, faults>>
-----------------------------------------------------------------------------
(* acquire(): accepted coverage, cache, a call in flight, or a new one.    *)

\* The queue and the calls after pump(), with open settled calls not yet gone.
Pumped(q, calls, open) ==
    IF q # <<>> /\ Cardinality(calls) + open < Concurrency
    THEN [queue |-> Tail(q), active |-> calls \union {Head(q)}]
    ELSE [queue |-> q, active |-> calls]

Pump(q, calls, open) ==
    /\ queue' = Pumped(q, calls, open).queue
    /\ active' = Pumped(q, calls, open).active
    /\ closing' = open

Kept(w) == \E p \in Pane : Covers(accepted[p], w)
Cached(w) == \E i \in 1..Len(cache) : cache[i] = w
InFlight(w) == w \in active \/ \E i \in 1..Len(queue) : queue[i] = w

TouchedUnbounded(w) == Append(RemoveFirst(cache, w), w)

\* The cache after w was used or stored; beyond its bound the oldest goes.
Touched(w) ==
    LET c == Append(RemoveFirst(cache, w), w)
    IN  IF Len(c) > CacheSize THEN Tail(c) ELSE c

\* resolveDatasetRevision() comes before the request, and may fail.
ResolutionFails(t, p) ==
    /\ acq[t][p] = "planned"
    /\ Fault
    /\ To(t, p, "failed")
    /\ UNCHANGED <<provider, accepted, staged, request, tx, aborted, disposed, outlived>>

\* An aborted signal ends the acquisition before it asks.
Ask(t, p) ==
    /\ acq[t][p] = "planned"
    /\ LET w == request[t][p].window IN
       \/ /\ disposed \/ t \in aborted
          /\ To(t, p, "failed")
          /\ UNCHANGED provider
       \/ /\ ~disposed /\ t \notin aborted
          /\ \/ Kept(w) /\ To(t, p, "answered") /\ UNCHANGED provider
             \/ /\ ~Kept(w) /\ Cached(w)
                /\ To(t, p, "answered")
                /\ cache' = Touched(w)
                /\ UNCHANGED <<queue, active, closing>>
             \/ ~Kept(w) /\ ~Cached(w) /\ InFlight(w) /\ To(t, p, "waiting") /\ UNCHANGED provider
             \/ /\ ~Kept(w) /\ ~Cached(w) /\ ~InFlight(w)
                /\ To(t, p, "waiting")
                /\ Pump(Append(queue, w), active, closing)
                /\ UNCHANGED cache
    /\ UNCHANGED <<accepted, staged, request, tx, aborted, disposed, outlived, faults>>

StoreLate(w) == cache' = Touched(w)
Store(w) == IF disposed THEN UNCHANGED cache ELSE cache' = Touched(w)

\* A call that has settled is no longer in flight; its slot is not free yet.
CallSettles(w) ==
    /\ w \in active
    /\ active' = active \ {w}
    /\ closing' = closing + 1
    /\ UNCHANGED queue

\* The provider's answer; after disposal it changes nothing.
Answer(w) ==
    /\ CallSettles(w)
    /\ Store(w)
    /\ Settle(w, "answered")
    /\ UNCHANGED <<accepted, staged, request, tx, aborted, disposed, outlived, faults>>

ProviderFails(w) ==
    /\ CallSettles(w)
    /\ Fault
    /\ Settle(w, "failed")
    /\ UNCHANGED <<cache, accepted, staged, request, tx, aborted, disposed, outlived>>

\* The finally clause of a call, some microtasks after its outcome.
FreeSlot ==
    /\ closing > 0
    /\ Pump(queue, active, closing - 1)
    /\ UNCHANGED <<cache, accepted, staged, request, acq, tx, aborted, disposed, outlived, faults>>

LeaveCallCancelled(t, p) ==
    /\ acq[t][p] = "waiting"
    /\ t \in aborted
    /\ To(t, p, "failed")
    /\ Pump(queue, active \ {request[t][p].window}, closing)
    /\ UNCHANGED <<cache, accepted, staged, request, tx, aborted, disposed, outlived, faults>>

\* awaitWhileActive(): the consumer leaves; the call goes on for the others.
LeaveCall(t, p) ==
    /\ acq[t][p] = "waiting"
    /\ t \in aborted
    /\ To(t, p, "failed")
    /\ UNCHANGED <<provider, accepted, staged, request, tx, aborted, disposed, outlived, faults>>
-----------------------------------------------------------------------------
(* acquireCoverageLease() after its await, and stageLease()                *)

\* The checks after the await, then stage(): its bounds and the lease's scope.
Stage(t, p) ==
    /\ acq[t][p] = "answered"
    /\ LET r == request[t][p]
           batches == StagedBatches(accepted[p], r.window, r.operation)
       IN  IF disposed \/ t \in aborted \/ Len(batches) > MaxWindows \/ ~Leasable(batches)
           THEN To(t, p, "failed") /\ UNCHANGED staged
           ELSE To(t, p, "registered") /\ staged' = [staged EXCEPT ![t][p] = batches]
    /\ UNCHANGED <<provider, accepted, request, tx, aborted, disposed, outlived, faults>>

\* The lease reaches the transaction's bucket in a later microtask, also when
\* the transaction has been rejected in between.
Hold(t, p) ==
    /\ acq[t][p] = "registered"
    /\ To(t, p, "held")
    /\ UNCHANGED <<provider, accepted, staged, request, tx, aborted, disposed, outlived, faults>>

AllHeld(t) == \A p \in Shown(t) : acq[t][p] = "held"
SomeFailed(t) == \E p \in Shown(t) : acq[t][p] = "failed"
Projects(t) == \A p \in Shown(t) : Projectable(Batches(t, p), request[t][p].operation)
Held(t) == {p \in Pane : acq[t][p] = "held"}

\* What is over for an ended transaction; acquisitions under way go on.
Over(t) == {p \in Pane : acq[t][p] \in {"held", "failed"}}
Forget(t) ==
    /\ acq' = [acq EXCEPT ![t] = [p \in Pane |-> IF p \in Over(t) THEN "none" ELSE @[p]]]
    /\ request' = [request EXCEPT ![t] = [p \in Pane |-> IF p \in Over(t) THEN None ELSE @[p]]]

ReleaseFirst(t) ==
    LET kept == IF Held(t) = {} THEN {} ELSE {CHOOSE p \in Held(t) : TRUE} IN
    /\ staged' = [staged EXCEPT ![t] = [p \in Pane |-> IF p \in kept THEN <<>> ELSE @[p]]]
    /\ Forget(t)

\* takeLeases() and rejectCoverageLeases(): the leases in the bucket by now.
Release(t) ==
    /\ staged' = [staged EXCEPT ![t] = [p \in Pane |-> IF p \in Held(t) THEN <<>> ELSE @[p]]]
    /\ Forget(t)

\* One pane failed, the projection refuses the windows, the transaction is no
\* longer current, or a later participant fails.
Reject(t) ==
    /\ tx[t] = "running"
    /\ \/ SomeFailed(t) /\ UNCHANGED faults
       \/ AllHeld(t) /\ (t \in aborted \/ ~Projects(t)) /\ UNCHANGED faults
       \/ AllHeld(t) /\ Fault
    /\ Release(t)
    /\ tx' = [tx EXCEPT ![t] = "rejected"]
    /\ outlived' = outlived \union {<<t, p>> : p \in Shown(t) \ Held(t)}
    /\ UNCHANGED <<provider, accepted, aborted, disposed>>

CommittableStale(t) == AllHeld(t) /\ Projects(t)
Committable(t) == AllHeld(t) /\ Projects(t) /\ t \notin aborted

\* finalize(): the leases replace the accepted windows of their panes, and the
\* panes the workspace no longer shows lose theirs.
Commit(t) ==
    /\ tx[t] = "running"
    /\ ~disposed
    /\ Committable(t)
    /\ accepted' = [p \in Pane |-> IF p \in Shown(t) THEN staged[t][p] ELSE <<>>]
    /\ Release(t)
    /\ tx' = [tx EXCEPT ![t] = "committed"]
    /\ UNCHANGED <<provider, aborted, disposed, outlived, faults>>

\* dispose() of the workspace: signals, leases, queue, calls and all coverage.
Dispose ==
    /\ ~disposed
    /\ disposed' = TRUE
    /\ aborted' = aborted \union Running
    /\ queue' = <<>>
    /\ cache' = <<>>
    /\ accepted' = [p \in Pane |-> <<>>]
    /\ staged' = [t \in Transaction |-> [p \in Pane |-> <<>>]]
    /\ acq' = [t \in Transaction |-> [p \in Pane |->
                  IF acq[t][p] = "waiting" THEN "failed" ELSE acq[t][p]]]
    /\ UNCHANGED <<active, closing, request, tx, outlived, faults>>

PaneStep(t, p) ==
    ResolutionFails(t, p) \/ Ask(t, p) \/ LeaveCall(t, p) \/ Stage(t, p) \/ Hold(t, p)
Next ==
    \/ \E t \in Transaction : Begin(t) \/ Reject(t) \/ Commit(t)
    \/ \E t \in Transaction, p \in Pane : PaneStep(t, p)
    \/ \E w \in Window : Answer(w) \/ ProviderFails(w)
    \/ FreeSlot \/ Dispose

Spec == Init /\ [][Next]_vars
-----------------------------------------------------------------------------
\* Every variable has its type.
TypeOK ==
    /\ queue \in Seq(Window)
    /\ active \subseteq Window
    /\ closing \in 0..Concurrency
    /\ cache \in Seq(Window) /\ Len(cache) <= CacheSize
    /\ accepted \in [Pane -> Seq(Window)]
    /\ staged \in [Transaction -> [Pane -> Seq(Window)]]
    /\ request \in [Transaction -> [Pane -> Request \union {None}]]
    /\ acq \in [Transaction -> [Pane -> {"none", "planned", "waiting", "answered", "registered",
                                         "held", "failed"}]]
    /\ tx \in [Transaction -> {"new", "running", "committed", "rejected"}]
    /\ aborted \subseteq Transaction
    /\ disposed \in BOOLEAN
    /\ outlived \subseteq Transaction \X Pane
    /\ faults \in 0..MaxFaults

\* The committed coverage of a pane is one unbroken run of windows of one
\* source, whatever was extended, navigated or replaced in between.
AcceptedIsContiguous == \A p \in Pane : Contiguous(accepted[p]) /\ Len(accepted[p]) <= MaxWindows

\* acquire() answers from accepted coverage exactly when every epoch of the
\* request lies in a committed window of its source.
Holds(batches, source, epoch) ==
    \E i \in 1..Len(batches) :
        batches[i].source = source /\ batches[i].from <= epoch /\ epoch < batches[i].to
CoveredMeansHeld ==
    \A p \in Pane, w \in Window :
        Covers(accepted[p], w) <=> \A e \in w.from..(w.to - 1) : Holds(accepted[p], w.source, e)

\* Requests for one window share one provider call, queued or active, and the
\* calls, with those that still hold their slot, stay within the concurrency.
OneCallPerWindow ==
    /\ Cardinality(active) + closing <= Concurrency
    /\ \A i, j \in 1..Len(queue) : queue[i] = queue[j] => i = j
    /\ \A i \in 1..Len(queue) : queue[i] \notin active

\* Nobody waits for nothing: an acquisition that waits has its call queued or
\* active, whoever left or failed it, and a window waits in the queue only
\* while every provider slot is taken, by a call or by one about to free it.
WaitersHaveACall ==
    /\ \A t \in Transaction, p \in Pane :
          acq[t][p] = "waiting" => InFlight(request[t][p].window)
    /\ queue # <<>> => Cardinality(active) + closing = Concurrency

\* A lease is staged for a running transaction, or for one that was rejected
\* before the acquisition of this pane reached its bucket.
LeasesAreReturned ==
    \A t \in Transaction, p \in Pane :
        staged[t][p] # <<>> => tx[t] = "running" \/ <<t, p>> \in outlived

\* Disposal drops all raw bars for good: no late answer, acquisition or
\* rejection brings any back.
NothingAfterDisposal ==
    disposed => /\ cache = <<>> /\ queue = <<>>
                /\ \A p \in Pane : accepted[p] = <<>>
                /\ \A t \in Transaction, p \in Pane : staged[t][p] = <<>>

\* A commit builds on the coverage it replaces: what it staged before its
\* later awaits is what it would stage now.
CommitBuildsOnAccepted ==
    [][\A t \in Transaction : tx'[t] = "committed" /\ tx[t] # "committed" =>
         \A p \in Shown(t) :
            accepted'[p] = StagedBatches(accepted[p], request[t][p].window, request[t][p].operation)]_vars
=============================================================================
