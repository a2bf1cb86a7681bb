------------------------------ MODULE StateSync ------------------------------
(***************************************************************************)
(* Replication of one user's saved state between devices:                  *)
(*   - server-state-sync/state-sync-client.js, one per device, local-first *)
(*     over Web Storage;                                                   *)
(*   - server/state_store.py, one SQLite row replaced by compare-and-swap  *)
(*     on its revision.                                                    *)
(* The complete replicated state of a device is one content; every edit    *)
(* writes a content nobody has written before.                             *)
(*                                                                         *)
(* A device runs at most two flows at a time: its chain of pushes, and the *)
(* command it or its user started (initialize, retry, resolveConflict).    *)
(* Nothing serializes the two, and each awaits digests and responses.      *)
(***************************************************************************)
EXTENDS Naturals, Sequences

CONSTANTS
    Device,     \* devices of one user
    Content,    \* contents users write
    Empty,      \* no replicated entry
    Torn,       \* entries left by a replacement that could not be undone
    None,       \* no snapshot, no metadata, no revision
    MaxFaults   \* bound on lost requests, timeouts, storage faults and reloads

ASSUME StateSyncAssumption ==
    /\ MaxFaults \in Nat
    /\ Empty # Torn /\ Empty \notin Content /\ Torn \notin Content
    /\ None \notin Nat /\ None \notin [revision : Nat, content : Content \union {Empty, Torn}]

VARIABLES
    history,  \* server: accepted snapshots; its revision is their number
    late,     \* replacements still on their way that nobody waits for
    disk,     \* disk[d]: content, sync metadata and backups in Web Storage
    client,   \* client[d]: the page's status, revision, conflict, ...
    flow,     \* flow[d][slot]: where the push or the command of d stands
    trace,    \* history: revisions seen and settled, and whether flows overlapped
    written,  \* contents written so far
    faults

vars == <<history, late, disk, client, flow, trace, written, faults>>

Contents == Content \union {Empty, Torn}
Snapshot == [revision : Nat, content : Contents]
Slot == {"push", "command"}
Status == {"initializing", "syncing", "synced", "offline", "conflict", "local", "poisoned"}
Kind == {"initialize", "retry", "resolve", "push"}
Stage == {"get", "got", "compare", "adopt", "digest", "put", "accepted", "refused", "seal"}
Waiting == [stage : Stage, kind : Kind, entries : Contents,
            remote : Snapshot \union {None}, expected : Nat, metadata : Snapshot \union {None}]
Storage == [content : Contents, known : Snapshot \union {None}, backups : SUBSET Contents]
Page == [status : Status, revision : Nat \union {None}, conflict : Snapshot \union {None},
         initialized : BOOLEAN, queued : Nat]
Request == [device : Device, entries : Contents, expected : Nat]

\* No flow under way differs from every flow.
ASSUME NoneIsNoFlow == None \notin Waiting

NewPage == [status |-> "initializing", revision |-> None, conflict |-> None,
            initialized |-> FALSE, queued |-> 0]
NoFlow == [s \in Slot |-> None]

Init ==
    /\ history = <<>>
    /\ late = {}
    /\ \E start \in [Device -> Content \union {Empty}] :
          /\ \A d, e \in Device : start[d] = start[e] => d = e \/ start[d] = Empty
          /\ disk = [d \in Device |-> [content |-> start[d], known |-> None, backups |-> {}]]
          /\ written = {start[d] : d \in Device} \ {Empty}
    /\ client = [d \in Device |-> NewPage]
    /\ flow = [d \in Device |-> NoFlow]
    /\ trace = [d \in Device |-> [seen |-> {}, settled |-> {0}, overlapped |-> FALSE]]
    /\ faults = 0
-----------------------------------------------------------------------------
LatestByIndex == [revision |-> Len(history) - 1,
                  content |-> IF history = <<>> THEN Empty ELSE history[Len(history)]]
Latest == [revision |-> Len(history),
           content |-> IF history = <<>> THEN Empty ELSE history[Len(history)]]

Busy(d, s) == flow[d][s] # None
At(d, s, stage) == Busy(d, s) /\ flow[d][s].stage = stage
Healthy(d) == client[d].status # "poisoned"

Start(stage, kind, entries, remote, expected) ==
    [stage |-> stage, kind |-> kind, entries |-> entries, remote |-> remote,
     expected |-> expected, metadata |-> None]

SetFlow(d, s, f) == flow' = [flow EXCEPT ![d][s] = f]
Advance(d, s, stage) == flow' = [flow EXCEPT ![d][s].stage = stage]
End(d, s) == SetFlow(d, s, None)

\* A finished initialize() starts the application.
Ready(d, s) == client[d].initialized \/ flow[d][s].kind = "initialize"

Show(d, s, status) ==
    client' = [client EXCEPT ![d].status = status, ![d].initialized = Ready(d, s)]

See(d, revision) == trace' = [trace EXCEPT ![d].seen = @ \union {revision}]

Fault == faults < MaxFaults /\ faults' = faults + 1

\* A flow that stops waiting, and a page that ends, leave behind the requests
\* they have sent.  One that is never served after that was lost.
Orphan(d, s) ==
    late' = late \union {[device |-> d, entries |-> flow[d][t].entries,
                          expected |-> flow[d][t].expected] : t \in {u \in s : At(d, u, "put")}}

PageEnds(d) ==
    /\ client' = [client EXCEPT ![d] = NewPage]
    /\ flow' = [flow EXCEPT ![d] = NoFlow]
    /\ Orphan(d, Slot)

\* The two flows of a device have run at the same time, or its user has
\* edited while a command was under way.
Overlap(d, s) ==
    trace' = [trace EXCEPT ![d].overlapped = @ \/ \E t \in Slot \ {s} : Busy(d, t)]
-----------------------------------------------------------------------------
(* The user's edits and the page's life.                                   *)

\* The storage wrapper: the write, then enqueueSync().
Edit(d) ==
    /\ client[d].initialized
    /\ Healthy(d)
    /\ \E c \in Content \ written :
          /\ disk' = [disk EXCEPT ![d].content = c]
          /\ written' = written \union {c}
    /\ client' = [client EXCEPT ![d].queued = @ + 1]
    /\ Overlap(d, "push")
    /\ UNCHANGED <<history, late, flow, faults>>

Reload(d) ==
    /\ client[d].status # "initializing"
    /\ Fault
    /\ PageEnds(d)
    /\ UNCHANGED <<history, disk, trace, written>>
-----------------------------------------------------------------------------
(* The server.                                                             *)

AcceptsOlder(expected) == expected <= Len(history)
Accepts(expected) == expected = Len(history)

\* StateStore.replace(), for a page that waits for the answer.
ServerReplaces(d, s) ==
    /\ At(d, s, "put")
    /\ LET f == flow[d][s] IN
       IF Accepts(f.expected)
       THEN /\ history' = Append(history, f.entries)
            /\ SetFlow(d, s, [f EXCEPT !.stage = "accepted",
                 !.remote = [revision |-> f.expected + 1, content |-> f.entries]])
       ELSE /\ SetFlow(d, s, [f EXCEPT !.stage = "refused", !.remote = Latest])
            /\ UNCHANGED history
    /\ UNCHANGED <<late, disk, client, trace, written, faults>>

\* StateStore.replace(), for a page that has given up or is gone.
ServerReplacesLate ==
    \E r \in late :
       /\ late' = late \ {r}
       /\ history' = IF Accepts(r.expected) THEN Append(history, r.entries) ELSE history
       /\ UNCHANGED <<disk, client, flow, trace, written, faults>>

\* StateStore.read()
ServerReads(d) ==
    /\ At(d, "command", "get")
    /\ flow' = [flow EXCEPT ![d]["command"].stage = "got", ![d]["command"].remote = Latest]
    /\ UNCHANGED <<history, late, disk, client, trace, written, faults>>
-----------------------------------------------------------------------------
(* reconcile(), for initialize() and retry().                              *)

Reconcile(d, kind) ==
    /\ ~Busy(d, "command")
    /\ SetFlow(d, "command", Start("get", kind, Empty, None, 0))
    /\ client' = [client EXCEPT ![d].status = "syncing"]
    /\ Overlap(d, "command")
    /\ UNCHANGED <<history, late, disk, written, faults>>

Initialize(d) == client[d].status = "initializing" /\ Reconcile(d, "initialize")

\* The retry button shows while the status is offline.
Retry(d) == client[d].status = "offline" /\ Reconcile(d, "retry")

ReadFails(d) ==
    /\ At(d, "command", "get") \/ At(d, "command", "got")
    /\ Healthy(d)
    /\ Fault
    /\ Show(d, "command", "offline")
    /\ End(d, "command")
    /\ UNCHANGED <<history, late, disk, trace, written>>

\* 404 or 405: there is no state service, the device keeps to itself.
ServiceAbsent(d) ==
    /\ At(d, "command", "get")
    /\ Healthy(d)
    /\ Fault
    /\ client' = [client EXCEPT ![d].status = "local", ![d].revision = None,
                                ![d].initialized = Ready(d, "command")]
    /\ End(d, "command")
    /\ UNCHANGED <<history, late, disk, trace, written>>

CaptureForReconcile(d) ==
    /\ At(d, "command", "got")
    /\ Healthy(d)
    /\ flow' = [flow EXCEPT ![d]["command"].stage = "compare",
                            ![d]["command"].entries = disk[d].content]
    /\ See(d, flow[d]["command"].remote.revision)
    /\ UNCHANGED <<history, late, disk, client, written, faults>>

\* The snapshots a reconcile has digested, and the metadata read after it.
Comparing(d) == At(d, "command", "compare") /\ Healthy(d)
Entries(d) == flow[d]["command"].entries
Remote(d) == flow[d]["command"].remote
LocalUnchanged(d) == disk[d].known # None /\ disk[d].known.content = Entries(d)
RemoteUnchanged(d) == disk[d].known # None /\ disk[d].known.revision = Remote(d).revision
Differs(d) == Entries(d) # Remote(d).content
MustDecide(d) == Differs(d) /\ Remote(d).revision > 0 /\ Entries(d) # Empty

\* Device d and revision r hold the same state from here on.
Settle(d, r) == trace' = [trace EXCEPT ![d].seen = @ \union {r}, ![d].settled = @ \union {r}]

Synced(d, s, remote, conflict) ==
    client' = [client EXCEPT ![d].status = "synced", ![d].revision = remote.revision,
                             ![d].conflict = conflict, ![d].initialized = Ready(d, s)]

Metadata(content, remote) == [revision |-> remote.revision, content |-> content]

Converge(d) ==
    /\ Comparing(d)
    /\ ~Differs(d)
    /\ disk' = [disk EXCEPT ![d].known = Metadata(Entries(d), Remote(d))]
    /\ Synced(d, "command", Remote(d), client[d].conflict)
    /\ Settle(d, Remote(d).revision)
    /\ End(d, "command")
    /\ UNCHANGED <<history, late, written, faults>>

Diverge(d) ==
    /\ Comparing(d)
    /\ MustDecide(d)
    /\ LocalUnchanged(d) = RemoteUnchanged(d)
    /\ client' = [client EXCEPT ![d].status = "conflict", ![d].revision = Remote(d).revision,
                   ![d].conflict = Remote(d), ![d].initialized = Ready(d, "command")]
    /\ End(d, "command")
    /\ UNCHANGED <<history, late, disk, trace, written, faults>>
-----------------------------------------------------------------------------
(* hydrateRemote(): the entries and the metadata are replaced, restored to *)
(* what they were when it began, or neither.                               *)

Hydrated(d, remote, backups) ==
    /\ disk' = [disk EXCEPT ![d] = [content |-> remote.content,
                  known |-> Metadata(remote.content, remote), backups |-> @.backups \union backups]]
    /\ Settle(d, remote.revision)
    /\ UNCHANGED faults

\* Nothing is awaited between the capture of the device and its replacement.
HydrationRestored == Fault /\ UNCHANGED <<disk, trace>>

HydrationBroken(d) ==
    /\ Fault
    /\ disk' = [disk EXCEPT ![d].content = Torn]
    /\ client' = [client EXCEPT ![d].status = "poisoned", ![d].conflict = None]
    /\ UNCHANGED trace

MayHydrateOverEdits(d) ==
    /\ Comparing(d)
    /\ Differs(d)
    /\ Remote(d).revision > 0
    /\ Entries(d) = Empty \/ ~RemoteUnchanged(d)
MayHydrate(d) ==
    /\ Comparing(d)
    /\ Differs(d)
    /\ Remote(d).revision > 0
    /\ Entries(d) = Empty \/ (LocalUnchanged(d) /\ ~RemoteUnchanged(d))

HydrateAutomatically(d) ==
    /\ MayHydrate(d)
    /\ \/ Hydrated(d, Remote(d), {}) /\ Synced(d, "command", Remote(d), None)
       \/ HydrationRestored /\ Show(d, "command", "offline")
       \/ HydrationBroken(d)
    /\ End(d, "command")
    /\ UNCHANGED <<history, late, written>>

\* The user keeps the server's copy: the device is captured, and a digest
\* comes before it is replaced.
ResolveWithServer(d) ==
    /\ client[d].status = "conflict"
    /\ client[d].conflict # None
    /\ ~Busy(d, "command")
    /\ SetFlow(d, "command",
         [Start("adopt", "resolve", disk[d].content, client[d].conflict, 0)
            EXCEPT !.metadata = disk[d].known])
    /\ Overlap(d, "command")
    /\ UNCHANGED <<history, late, disk, client, written, faults>>

\* The rollback undoes what was written to the device during the digest.
AdoptionRestored(d) ==
    /\ Fault
    /\ \E backups \in {{}, {Entries(d)}} :
          disk' = [disk EXCEPT ![d] = [content |-> Entries(d),
                     known |-> flow[d]["command"].metadata, backups |-> @.backups \union backups]]
    /\ UNCHANGED trace

\* The page is reloaded at once; a failure leaves the conflict standing.
AdoptServer(d) ==
    /\ At(d, "command", "adopt")
    /\ Healthy(d)
    /\ \/ /\ Hydrated(d, Remote(d), {Entries(d)})
          /\ PageEnds(d)
       \/ /\ AdoptionRestored(d)
          /\ Show(d, "command", "conflict")
          /\ End(d, "command")
          /\ UNCHANGED late
       \/ HydrationBroken(d) /\ End(d, "command") /\ UNCHANGED late
    /\ UNCHANGED <<history, written>>
-----------------------------------------------------------------------------
(* upload(), for pushes, reconcile() and resolveConflict('device').        *)

Upload(d, s, kind, entries, expected) ==
    /\ SetFlow(d, s, Start("put", kind, entries, None, expected))
    /\ client' = [client EXCEPT ![d].status = "syncing"]

UploadFirst(d) ==
    /\ Comparing(d)
    /\ Differs(d)
    /\ Remote(d).revision = 0
    /\ Upload(d, "command", flow[d]["command"].kind, Entries(d), 0)
    /\ UNCHANGED <<history, late, disk, trace, written, faults>>

UploadChange(d) ==
    /\ Comparing(d)
    /\ MustDecide(d)
    /\ ~LocalUnchanged(d)
    /\ RemoteUnchanged(d)
    /\ Upload(d, "command", flow[d]["command"].kind, Entries(d), Remote(d).revision)
    /\ UNCHANGED <<history, late, disk, trace, written, faults>>

\* The user keeps this device's copy: the server's is backed up first.
ResolveWithDevice(d) ==
    /\ client[d].status = "conflict"
    /\ client[d].conflict # None
    /\ ~Busy(d, "command")
    /\ LET remote == client[d].conflict IN
       /\ disk' = [disk EXCEPT ![d].backups = @ \union {remote.content}]
       /\ Upload(d, "command", "resolve", disk[d].content, remote.revision)
       /\ trace' = [trace EXCEPT ![d].settled = @ \union {remote.revision},
                                 ![d].overlapped = @ \/ Busy(d, "push")]
    /\ UNCHANGED <<history, late, written, faults>>

PushableInConflict(d) ==
    client[d].initialized /\ client[d].status \in {"synced", "syncing", "conflict"}
Pushable(d) == client[d].initialized /\ client[d].status \in {"synced", "syncing"}

\* pushCurrent() begins, and captures the entries; the status it looks at
\* may change before its digest is there.
PushStart(d) ==
    /\ client[d].queued > 0
    /\ ~Busy(d, "push")
    /\ client' = [client EXCEPT ![d].queued = @ - 1]
    /\ IF Pushable(d)
       THEN /\ SetFlow(d, "push", Start("digest", "push", disk[d].content, None, 0))
            /\ Overlap(d, "push")
       ELSE UNCHANGED <<flow, trace>>
    /\ UNCHANGED <<history, late, disk, written, faults>>

AlreadyPushedByUser(d) == disk[d].known # None /\ client[d].revision # None
AlreadyPushedNever(d) == FALSE
AlreadyPushed(d) ==
    /\ disk[d].known # None
    /\ client[d].revision # None
    /\ disk[d].known.content = flow[d]["push"].entries

PushDigested(d) ==
    /\ At(d, "push", "digest")
    /\ Healthy(d)
    /\ \/ AlreadyPushed(d) /\ End(d, "push") /\ UNCHANGED client
       \/ /\ ~AlreadyPushed(d)
          /\ client[d].revision # None
          /\ Upload(d, "push", "push", flow[d]["push"].entries, client[d].revision)
       \/ \* no revision was ever read: the request cannot even be built
          /\ ~AlreadyPushed(d)
          /\ client[d].revision = None
          /\ Show(d, "push", "offline")
          /\ End(d, "push")
    /\ UNCHANGED <<history, late, disk, trace, written, faults>>

Accepted(d, s) ==
    /\ At(d, s, "accepted")
    /\ Healthy(d)
    /\ Advance(d, s, "seal")
    /\ See(d, flow[d][s].remote.revision)
    /\ UNCHANGED <<history, late, disk, client, written, faults>>

Refused(d, s) ==
    /\ At(d, s, "refused")
    /\ Healthy(d)
    /\ LET current == flow[d][s].remote IN
       /\ client' = [client EXCEPT ![d].status = "conflict", ![d].revision = current.revision,
                       ![d].conflict = current, ![d].initialized = Ready(d, s)]
       /\ See(d, current.revision)
    /\ End(d, s)
    /\ UNCHANGED <<history, late, disk, written, faults>>

SealedDisk(d, s) == Metadata(disk[d].content, flow[d][s].remote)
Sealed(d, s) == Metadata(flow[d][s].entries, flow[d][s].remote)

\* A resolved conflict reloads the page.
Seal(d, s) ==
    /\ At(d, s, "seal")
    /\ Healthy(d)
    /\ LET f == flow[d][s] IN
       /\ disk' = [disk EXCEPT ![d].known = Sealed(d, s)]
       /\ Settle(d, f.remote.revision)
       /\ IF f.kind = "resolve"
          THEN PageEnds(d)
          ELSE Synced(d, s, f.remote, None) /\ End(d, s) /\ UNCHANGED late
    /\ UNCHANGED <<history, written, faults>>

\* No answer in five seconds, or an error: the server may have stored the
\* entries, may still store them, or never will.  reconcile() does not catch
\* what upload() throws.
UploadFails(d, s) ==
    /\ \E stage \in {"put", "accepted", "refused"} : At(d, s, stage)
    /\ Healthy(d)
    /\ Fault
    /\ Orphan(d, {s})
    /\ IF flow[d][s].kind \in {"push", "resolve"}
       THEN client' = [client EXCEPT ![d].status = "offline"]
       ELSE UNCHANGED client
    /\ End(d, s)
    /\ UNCHANGED <<history, disk, trace, written>>

\* requireHealthyMutation() and the checks after each await.
PoisonedFlowEnds(d, s) ==
    /\ ~Healthy(d)
    /\ Busy(d, s)
    /\ Orphan(d, {s})
    /\ End(d, s)
    /\ UNCHANGED <<history, disk, client, trace, written, faults>>
-----------------------------------------------------------------------------
ReconcileStep(d) ==
    \/ Initialize(d) \/ CaptureForReconcile(d) \/ Converge(d) \/ Diverge(d)
    \/ HydrateAutomatically(d) \/ AdoptServer(d) \/ UploadFirst(d) \/ UploadChange(d)

UploadStep(d, s) ==
    Accepted(d, s) \/ Refused(d, s) \/ Seal(d, s) \/ PoisonedFlowEnds(d, s)

UserStep(d) ==
    Edit(d) \/ Reload(d) \/ Retry(d) \/ ResolveWithServer(d) \/ ResolveWithDevice(d)

FailureStep(d) ==
    ReadFails(d) \/ ServiceAbsent(d) \/ \E s \in Slot : UploadFails(d, s)

ServerStep(d) == ServerReads(d) \/ \E s \in Slot : ServerReplaces(d, s)

\* A push whose predecessor is done begins in a microtask: nothing else
\* happens in its page before.
Microtask(d) == client[d].queued > 0 /\ ~Busy(d, "push")

PageStep(d) ==
    \/ PushStart(d)
    \/ /\ ~Microtask(d)
       /\ \/ ReconcileStep(d) \/ PushDigested(d) \/ \E s \in Slot : UploadStep(d, s)

Next ==
    \/ ServerReplacesLate
    \/ \E d \in Device :
          \/ ServerStep(d)
          \/ PageStep(d)
          \/ ~Microtask(d) /\ (UserStep(d) \/ FailureStep(d))

Spec == Init /\ [][Next]_vars

-----------------------------------------------------------------------------
\* Every variable has its type.
TypeOK ==
    /\ history \in Seq(Contents)
    /\ late \subseteq Request
    /\ disk \in [Device -> Storage]
    /\ client \in [Device -> Page]
    /\ flow \in [Device -> [Slot -> Waiting \union {None}]]
    /\ trace \in [Device -> [seen : SUBSET Nat, settled : SUBSET Nat, overlapped : BOOLEAN]]
    /\ written \subseteq Content
    /\ faults \in 0..MaxFaults

Shared == INSTANCE SharedHistory WITH
             Content <- Contents, seen <- [d \in Device |-> trace[d].seen]

\* The service and its clients implement SharedHistory: whichever pushes,
\* commands, retries and late requests race, a snapshot is replaced only by a
\* device that has been shown it (BEGIN IMMEDIATE and the revision comparison
\* of StateStore.replace, and every expectedRevision the clients send).
NoBlindReplacement == Shared!Spec

\* The metadata a device keeps is true of the server's history: the content
\* it names is the snapshot of the revision it names.  A later decision to
\* hydrate over the device or to upload over the server rests on it.
MetadataIsTrue ==
    \A d \in Device :
       LET known == disk[d].known IN
       known # None => /\ known.revision <= Len(history)
                       /\ known.revision > 0 => history[known.revision] = known.content

Quiet(d) == client[d].queued = 0 /\ \A s \in Slot : ~Busy(d, s)

\* A page that says "Synced" and has nothing under way has saved what is on
\* the device (pushCurrent, upload and enqueueSync miss no edit), unless a
\* command ran into the pushes.
SyncedMeansSaved ==
    \A d \in Device :
       client[d].status = "synced" /\ Quiet(d) /\ ~trace[d].overlapped
          => disk[d].known # None /\ disk[d].known.content = disk[d].content

\* d replaces a snapshot it has neither taken over nor been told to replace.
ReplacesUndecided(d) ==
    /\ Len(history') > Len(history)
    /\ Len(history) \notin trace[d].settled
    /\ \/ \E s \in Slot : At(d, s, "put") /\ flow'[d][s] # flow[d][s]
       \/ \E r \in late \ late' : r.device = d

\* reconcile() and pushCurrent() replace the server's copy only when the
\* device has held it or the user chose to, also through requests that are
\* served late, unless a command ran into the pushes.
ServerCopyKept == [][\A d \in Device : ReplacesUndecided(d) => trace[d].overlapped]_vars

\* V7_SERVER_STATE_SYNC_R10_8.md: "divergent or unknown non-empty state enters
\* `conflict` and changes neither side"; here of the server's side, always.
DivergenceIsDecided == [][\A d \in Device : ~ReplacesUndecided(d)]_vars

Copies(d) == {history[r] : r \in DOMAIN history} \union disk'[d].backups

\* hydrateRemote() and its rollback overwrite what the device holds only when
\* the server or a backup has it, whichever pushes race the command; but for
\* an edit made after the command captured the device.
DeviceCopyKept ==
    [][\A d \in Device :
          disk'[d].content \notin {disk[d].content, Torn} /\ written' = written
             => \/ disk[d].content \in Copies(d) \union {Empty, Torn}
                \/ disk[d].content # Entries(d)]_vars

\* Whatever answers are lost and however many pushes are queued, the latest
\* snapshot is not stored a second time as a new revision unless the user
\* resolves a conflict with it.
StoredOnce ==
    [][\A d \in Device : \A s \in Slot :
          At(d, s, "put") /\ history' # history /\ flow'[d][s] # flow[d][s]
             => \/ history'[Len(history')] # Latest.content
                \/ flow[d][s].kind = "resolve" \/ trace[d].overlapped]_vars

\* V7_SERVER_STATE_SYNC_R10_8.md: "Every remote read/write has a five-second
\* hard timeout ... Offline presentation includes an explicit retry action":
\* a page that shows "Syncing" has something under way that can end.
SyncingMeansBusy ==
    \A d \in Device : client[d].status = "syncing" => ~Quiet(d)
=============================================================================
