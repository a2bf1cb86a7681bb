---------------------------- MODULE StateSyncProofs ----------------------------
(***************************************************************************)
(* Theorems about StateSync, for any devices, contents and faults.         *)
(***************************************************************************)
EXTENDS StateSync, TLAPS

\* What the types of the variables are made of.
Marks == [seen : SUBSET Nat, settled : SUBSET Nat, overlapped : BOOLEAN]
Flows == [Device -> [Slot -> Waiting \union {None}]]

\* What the service with history h has stored as revision r.
Stored(h, r) == IF r = 0 THEN Empty ELSE h[r]

\* x is a snapshot that it has accepted, or the empty one.
IsTrue(h, x) ==
    /\ x.revision <= Len(h)
    /\ x.content = Stored(h, x.revision)

\* The stages in which a flow holds a snapshot.
Holding == {"got", "compare", "adopt", "accepted", "refused", "seal"}

\* A flow holds what the service has accepted, seals what it has uploaded, and
\* names only revisions its device has been shown.
FlowIsGood(h, shown, f) ==
    f # None =>
       /\ f.stage \in Holding => f.remote # None /\ IsTrue(h, f.remote)
       /\ f.stage \in {"accepted", "seal"} => f.remote.content = f.entries
       /\ f.stage = "compare" => f.remote.revision \in shown \union {0}
       /\ f.stage = "put" => f.expected \in shown \union {0}
       /\ f.metadata # None => IsTrue(h, f.metadata)

\* So does a page with its revision and with the snapshot of its conflict.
PageIsGood(h, shown, c) ==
    /\ c.revision # None => c.revision \in shown \union {0}
    /\ c.conflict # None => IsTrue(h, c.conflict) /\ c.conflict.revision \in shown \union {0}

StorageIsGood(h, k) == k.known # None => IsTrue(h, k.known)

\* Only revisions that exist have been shown.
ShownExists == \A d \in Device : trace[d].seen \subseteq 0..Len(history)
FlowsAreGood == \A d \in Device, s \in Slot : FlowIsGood(history, trace[d].seen, flow[d][s])
PagesAreGood == \A d \in Device : PageIsGood(history, trace[d].seen, client[d])
StoragesAreGood == \A d \in Device : StorageIsGood(history, disk[d])
LateAreGood == \A r \in late : r.expected \in trace[r.device].seen \union {0}

\* The inductive invariant.
SyncInv ==
    /\ TypeOK
    /\ ShownExists
    /\ FlowsAreGood
    /\ PagesAreGood
    /\ StoragesAreGood
    /\ LateAreGood
-----------------------------------------------------------------------------
\* The latest snapshot is one, and it is true.
LEMMA LatestType ==
    ASSUME history \in Seq(Contents)
    PROVE  Latest \in Snapshot /\ IsTrue(history, Latest) /\ Latest.revision = Len(history)
<1>1. Empty \in Contents
  BY DEF Contents
<1>2. CASE history = <<>>
  BY <1>1, <1>2 DEF Latest, Snapshot, IsTrue, Stored
<1>3. CASE history # <<>>
  BY <1>3 DEF Latest, Snapshot, IsTrue, Stored
<1> QED
  BY <1>2, <1>3

\* A flow at a stage, and what it holds.
LEMMA AtType ==
    ASSUME TypeOK, NEW d \in Device, NEW s \in Slot, Busy(d, s)
    PROVE  /\ flow[d][s] \in Waiting
           /\ flow[d][s].stage \in Stage /\ flow[d][s].kind \in Kind
           /\ flow[d][s].entries \in Contents /\ flow[d][s].expected \in Nat
           /\ flow[d][s].remote \in Snapshot \union {None}
           /\ flow[d][s].metadata \in Snapshot \union {None}
BY DEF TypeOK, Busy, Waiting

LEMMA HeldSnapshot ==
    ASSUME TypeOK, FlowsAreGood, NEW d \in Device, NEW s \in Slot, Busy(d, s),
           flow[d][s].stage \in Holding
    PROVE  /\ flow[d][s].remote \in Snapshot
           /\ flow[d][s].remote.revision \in Nat /\ flow[d][s].remote.content \in Contents
           /\ IsTrue(history, flow[d][s].remote)
<1>1. flow[d][s].remote \in Snapshot /\ IsTrue(history, flow[d][s].remote)
  BY AtType DEF FlowsAreGood, FlowIsGood, Busy
<1> QED
  BY <1>1 DEF Snapshot

\* Updates of one device keep the types of the variables they change.
LEMMA FlowType ==
    ASSUME flow \in Flows, NEW d \in Device, NEW s \in Slot, NEW f \in Waiting \union {None}
    PROVE  [flow EXCEPT ![d][s] = f] \in Flows
BY DEF Flows

LEMMA StartType ==
    ASSUME NEW stage \in Stage, NEW kind \in Kind, NEW entries \in Contents,
           NEW remote \in Snapshot \union {None}, NEW expected \in Nat
    PROVE  Start(stage, kind, entries, remote, expected) \in Waiting
BY DEF Start, Waiting

LEMMA MetadataType ==
    ASSUME NEW content \in Contents, NEW x \in Snapshot
    PROVE  Metadata(content, x) \in Snapshot
BY DEF Metadata, Snapshot

LEMMA ReadyType ==
    ASSUME TypeOK, NEW d \in Device, NEW s \in Slot PROVE Ready(d, s) \in BOOLEAN
BY DEF TypeOK, Page, Ready

LEMMA OrphanType ==
    ASSUME TypeOK, NEW d \in Device, NEW S \in SUBSET Slot, Orphan(d, S)
    PROVE  late' \subseteq Request
<1>1. \A t \in S : At(d, t, "put") => flow[d][t] \in Waiting
  BY AtType DEF At
<1> QED
  BY <1>1 DEF Orphan, TypeOK, Request, Waiting

LEMMA StatusType ==
    ASSUME TypeOK, NEW d \in Device, NEW status \in Status
    PROVE  [client EXCEPT ![d].status = status] \in [Device -> Page]
<1>1. client[d] \in Page
  BY DEF TypeOK
<1>2. [client[d] EXCEPT !.status = status] \in Page
  BY <1>1, ZenonT(60) DEF Page
<1> QED
  BY <1>2 DEF TypeOK

LEMMA KnownType ==
    ASSUME TypeOK, NEW d \in Device, NEW known \in Snapshot
    PROVE  [disk EXCEPT ![d].known = known] \in [Device -> Storage]
<1>1. [disk[d] EXCEPT !.known = known] \in Storage
  BY DEF TypeOK, Storage
<1> QED
  BY <1>1 DEF TypeOK

LEMMA SettleType ==
    ASSUME TypeOK, NEW d \in Device, NEW r \in Nat, Settle(d, r)
    PROVE  trace' \in [Device -> Marks]
<1>1. trace[d] \in Marks
  BY DEF TypeOK, Marks
<1>2. [trace[d] EXCEPT !.seen = @ \union {r}, !.settled = @ \union {r}] \in Marks
  BY <1>1 DEF Marks
<1> QED
  BY <1>2 DEF Settle, TypeOK, Marks

LEMMA OverlapType ==
    ASSUME TypeOK, NEW d \in Device, NEW s \in Slot, Overlap(d, s)
    PROVE  trace' \in [Device -> Marks]
<1> DEFINE both == trace[d].overlapped \/ \E t \in Slot \ {s} : Busy(d, t)
<1>1. both \in BOOLEAN
  BY DEF TypeOK
<1>2. trace' = [trace EXCEPT ![d].overlapped = both]
  BY DEF Overlap
<1> HIDE DEF both
<1>3. [trace[d] EXCEPT !.overlapped = both] \in Marks
  BY <1>1 DEF TypeOK, Marks
<1> QED
  BY <1>2, <1>3 DEF TypeOK, Marks

\* Every step keeps the types.
LEMMA TypeStep == TypeOK /\ FlowsAreGood /\ [Next]_vars => TypeOK'
<1> SUFFICES ASSUME TypeOK, FlowsAreGood, [Next]_vars PROVE TypeOK'
  OBVIOUS
<1>0. /\ history \in Seq(Contents) /\ late \subseteq Request
      /\ disk \in [Device -> Storage] /\ client \in [Device -> Page]
      /\ flow \in Flows /\ trace \in [Device -> Marks]
      /\ written \subseteq Content /\ faults \in 0..MaxFaults /\ MaxFaults \in Nat
  BY StateSyncAssumption DEF TypeOK, Flows, Marks
<1> USE <1>0
<1>1. CASE ServerReplacesLate
  BY <1>1 DEF ServerReplacesLate, TypeOK, Request, Flows, Marks
<1>2. ASSUME NEW d \in Device, ServerReads(d)
      PROVE  TypeOK'
  <2>1. /\ flow[d]["command"] \in Waiting /\ flow[d]["command"].entries \in Contents
        /\ flow[d]["command"].expected \in Nat
    BY <1>2, AtType DEF ServerReads, At, Slot
  <2>2. flow' \in Flows
    <3>1. [flow[d]["command"] EXCEPT !.stage = "got", !.remote = Latest] \in Waiting
      BY <1>2, <2>1, LatestType DEF Waiting, Stage, Storage
    <3> QED
      BY <1>2, <3>1 DEF ServerReads, Flows, Slot
  <2> QED
    BY <1>2, <2>2 DEF ServerReads, TypeOK, Flows, Marks
<1>3. ASSUME NEW d \in Device, PushStart(d)
      PROVE  TypeOK'
  <2>1. client' \in [Device -> Page]
    <3>1. client[d].queued - 1 \in Nat
      BY <1>3 DEF PushStart, Page
    <3>2. [client[d] EXCEPT !.queued = @ - 1] \in Page
      BY <3>1 DEF Page
    <3> QED
      BY <1>3, <3>2 DEF PushStart
  <2>2. flow' \in Flows
    <3>1. Start("digest", "push", disk[d].content, None, 0) \in Waiting /\ "push" \in Slot
      BY StartType DEF Stage, Kind, Storage, Contents, Slot
    <3>2. [flow EXCEPT ![d]["push"] = Start("digest", "push", disk[d].content, None, 0)] \in Flows
      BY <3>1, FlowType
    <3> QED
      BY <1>3, <3>2 DEF PushStart, SetFlow
  <2>3. trace' \in [Device -> Marks]
    BY <1>3, OverlapType DEF PushStart, Slot
  <2> QED
    BY <1>3, <2>1, <2>2, <2>3 DEF PushStart, TypeOK, Flows, Marks
<1>4. ASSUME NEW d \in Device, Initialize(d)
      PROVE  TypeOK'
  <2>1. flow' \in Flows
    <3>1. Start("get", "initialize", Empty, None, 0) \in Waiting
      BY StartType DEF Stage, Kind, Storage, Contents
    <3> QED
      BY <1>4, <3>1 DEF Initialize, Reconcile, SetFlow, Flows, Slot
  <2>2. client' \in [Device -> Page]
    BY <1>4, StatusType DEF Initialize, Reconcile, Status
  <2>3. trace' \in [Device -> Marks]
    BY <1>4, OverlapType DEF Initialize, Reconcile, Slot
  <2> QED
    BY <1>4, <2>1, <2>2, <2>3 DEF Initialize, TypeOK, Flows, Marks, Reconcile
<1>5. ASSUME NEW d \in Device, CaptureForReconcile(d)
      PROVE  TypeOK'
  <2>1. /\ flow[d]["command"] \in Waiting /\ flow[d]["command"].entries \in Contents
        /\ flow[d]["command"].remote \in Snapshot
        /\ flow[d]["command"].remote.revision \in Nat /\ flow[d]["command"].remote.content \in Contents
    BY <1>5, AtType, HeldSnapshot DEF CaptureForReconcile, At, Holding, Slot
  <2>2. flow' \in Flows
    <3>1. [flow[d]["command"] EXCEPT !.stage = "compare",
                                   !.entries = disk[d].content] \in Waiting
      BY <1>5, <2>1 DEF Waiting, Stage, Storage
    <3> QED
      BY <1>5, <3>1 DEF CaptureForReconcile, Flows, Slot
  <2>3. trace' \in [Device -> Marks]
    BY <1>5, <2>1 DEF CaptureForReconcile, See, At, Busy, Marks
  <2> QED
    BY <1>5, <2>2, <2>3 DEF CaptureForReconcile, TypeOK, Flows, Marks
<1>6. ASSUME NEW d \in Device, Converge(d)
      PROVE  TypeOK'
  <2>1. /\ Entries(d) \in Contents /\ flow[d]["command"].kind \in Kind
        /\ Remote(d) \in Snapshot /\ Remote(d).revision \in Nat /\ Remote(d).content \in Contents
    BY <1>6, AtType, HeldSnapshot DEF Converge, Comparing, At, Entries, Remote, Holding, Slot
  <2>2. disk' \in [Device -> Storage]
    BY <1>6, <2>1, MetadataType, KnownType DEF Converge
  <2>3. client' \in [Device -> Page]
    <3>1. [client[d] EXCEPT !.status = "synced", !.revision = Remote(d).revision,
                       !.conflict = client[d].conflict, !.initialized = Ready(d, "command")] \in Page
      BY <1>6, <2>1, ReadyType DEF Page, Status, Slot
    <3> QED
      BY <1>6, <3>1 DEF Converge, Synced
  <2>4. trace' \in [Device -> Marks]
    BY <1>6, <2>1, SettleType DEF Converge
  <2>5. flow' \in Flows
    BY <1>6, <2>1, FlowType, StartType DEF Converge, End, SetFlow, Flows, Slot, Stage, Kind
  <2> QED
    BY <1>6, <2>2, <2>3, <2>4, <2>5 DEF Converge, TypeOK, Flows, Marks
<1>7. ASSUME NEW d \in Device, Diverge(d)
      PROVE  TypeOK'
  <2>1. /\ Entries(d) \in Contents /\ flow[d]["command"].kind \in Kind
        /\ Remote(d) \in Snapshot /\ Remote(d).revision \in Nat /\ Remote(d).content \in Contents
    BY <1>7, AtType, HeldSnapshot DEF Diverge, Comparing, At, Entries, Remote, Holding, Slot
  <2>2. client' \in [Device -> Page]
    <3>1. [client[d] EXCEPT !.status = "conflict", !.revision = Remote(d).revision,
                       !.conflict = Remote(d), !.initialized = Ready(d, "command")] \in Page
      BY <1>7, <2>1, ReadyType DEF Page, Status, Slot
    <3> QED
      BY <1>7, <3>1 DEF Diverge
  <2>3. flow' \in Flows
    BY <1>7, <2>1, FlowType, StartType DEF Diverge, End, SetFlow, Flows, Slot, Stage, Kind
  <2> QED
    BY <1>7, <2>2, <2>3 DEF Diverge, TypeOK, Flows, Marks
<1>8. ASSUME NEW d \in Device, HydrateAutomatically(d)
      PROVE  TypeOK'
  <2>1. /\ Entries(d) \in Contents /\ flow[d]["command"].kind \in Kind
        /\ Remote(d) \in Snapshot /\ Remote(d).revision \in Nat /\ Remote(d).content \in Contents
    BY <1>8, AtType, HeldSnapshot DEF HydrateAutomatically, MayHydrate, Comparing, At, Entries, Remote, Holding, Slot
  <2>2. disk' \in [Device -> Storage]
    <3>1. Remote(d) \in Snapshot /\ Remote(d).content \in Contents /\ Entries(d) \in Contents
      BY <2>1 DEF Remote, Entries
    <3>2. Metadata(Remote(d).content, Remote(d)) \in Snapshot /\ Torn \in Contents
      BY <3>1, MetadataType DEF Contents
    <3>3. /\ [content |-> Remote(d).content, known |-> Metadata(Remote(d).content, Remote(d)),
             backups |-> disk[d].backups \union {}] \in Storage
          /\ [disk[d] EXCEPT !.content = Torn] \in Storage
      BY <3>1, <3>2 DEF Storage
    <3> QED
      BY <1>8, <3>3 DEF HydrateAutomatically, Hydrated, HydrationRestored, HydrationBroken
  <2>3. client' \in [Device -> Page]
    <3>1. /\ [client[d] EXCEPT !.status = "synced", !.revision = Remote(d).revision,
                       !.conflict = None, !.initialized = Ready(d, "command")] \in Page
          /\ [client[d] EXCEPT !.status = "offline", !.initialized = Ready(d, "command")] \in Page
          /\ [client[d] EXCEPT !.status = "poisoned", !.conflict = None] \in Page
      BY <1>8, <2>1, ReadyType DEF Page, Status, Slot
    <3> QED
      BY <1>8, <3>1 DEF HydrateAutomatically, Synced, Show, HydrationBroken
  <2>4. trace' \in [Device -> Marks]
    BY <1>8, <2>1, SettleType DEF HydrateAutomatically, Hydrated, HydrationRestored, HydrationBroken
  <2>5. flow' \in Flows
    BY <1>8, <2>1, FlowType, StartType DEF HydrateAutomatically, End, SetFlow, Flows, Slot, Stage, Kind
  <2>6. faults' \in 0..MaxFaults
    BY <1>8, <2>1 DEF HydrateAutomatically, Hydrated, HydrationRestored, HydrationBroken, Fault
  <2> QED
    BY <1>8, <2>2, <2>3, <2>4, <2>5, <2>6 DEF HydrateAutomatically, TypeOK, Flows, Marks
<1>9. ASSUME NEW d \in Device, AdoptServer(d)
      PROVE  TypeOK'
  <2>1. /\ flow[d]["command"] \in Waiting /\ flow[d]["command"].entries \in Contents
        /\ flow[d]["command"].remote \in Snapshot
        /\ flow[d]["command"].remote.revision \in Nat /\ flow[d]["command"].remote.content \in Contents
    BY <1>9, AtType, HeldSnapshot DEF AdoptServer, At, Holding, Slot
  <2>2. disk' \in [Device -> Storage]
    <3>1. Remote(d) \in Snapshot /\ Remote(d).content \in Contents /\ Entries(d) \in Contents
      BY <2>1 DEF Remote, Entries
    <3>2. Metadata(Remote(d).content, Remote(d)) \in Snapshot /\ Torn \in Contents
      BY <3>1, MetadataType DEF Contents
    <3>3. /\ [content |-> Remote(d).content, known |-> Metadata(Remote(d).content, Remote(d)),
             backups |-> disk[d].backups \union {Entries(d)}] \in Storage
          /\ [disk[d] EXCEPT !.content = Torn] \in Storage
      BY <3>1, <3>2 DEF Storage
    <3>4. ASSUME NEW backups \in {{}, {Entries(d)}}
          PROVE  [content |-> Entries(d), known |-> flow[d]["command"].metadata,
                  backups |-> disk[d].backups \union backups] \in Storage
      BY <1>9, <2>1, <3>1, AtType DEF AdoptServer, At, Slot, Storage
    <3>5. CASE Hydrated(d, Remote(d), {Entries(d)})
      BY <3>3, <3>5 DEF Hydrated
    <3>6. CASE AdoptionRestored(d)
      BY <3>4, <3>6 DEF AdoptionRestored
    <3>7. CASE HydrationBroken(d)
      BY <3>3, <3>7 DEF HydrationBroken
    <3> QED
      BY <1>9, <3>5, <3>6, <3>7 DEF AdoptServer
  <2>3. client' \in [Device -> Page]
    <3>1. /\ [client[d] EXCEPT !.status = "conflict", !.initialized = Ready(d, "command")] \in Page
          /\ [client[d] EXCEPT !.status = "poisoned", !.conflict = None] \in Page
      BY <1>9, <2>1, ReadyType DEF Page, Status, Slot
    <3>2. NewPage \in Page
      BY DEF NewPage, Page, Status
    <3> QED
      BY <1>9, <3>1, <3>2 DEF AdoptServer, PageEnds, Show, HydrationBroken
  <2>4. trace' \in [Device -> Marks]
    BY <1>9, <2>1, SettleType DEF AdoptServer, Hydrated, AdoptionRestored, HydrationBroken, Remote
  <2>5. flow' \in Flows
    <3>1. CASE End(d, "command")
      BY <3>1, FlowType DEF End, SetFlow, Slot
    <3>2. CASE PageEnds(d)
      BY <3>2, FlowType DEF PageEnds, NoFlow, Flows, Slot
    <3> QED
      BY <1>9, <3>1, <3>2 DEF AdoptServer
  <2>6. late' \subseteq Request
    BY <1>9, <2>1, OrphanType DEF AdoptServer, PageEnds
  <2>7. faults' \in 0..MaxFaults
    BY <1>9, <2>1 DEF AdoptServer, Hydrated, AdoptionRestored, HydrationBroken, Fault
  <2> QED
    BY <1>9, <2>2, <2>3, <2>4, <2>5, <2>6, <2>7 DEF AdoptServer, TypeOK, Flows, Marks
<1>10. ASSUME NEW d \in Device, UploadFirst(d)
      PROVE  TypeOK'
  <2>1. /\ Entries(d) \in Contents /\ flow[d]["command"].kind \in Kind
        /\ Remote(d) \in Snapshot /\ Remote(d).revision \in Nat /\ Remote(d).content \in Contents
    BY <1>10, AtType, HeldSnapshot DEF UploadFirst, Comparing, At, Entries, Remote, Holding, Slot
  <2>2. client' \in [Device -> Page]
    BY <1>10, StatusType DEF UploadFirst, Upload, Status
  <2>3. flow' \in Flows
    BY <1>10, <2>1, FlowType, StartType DEF UploadFirst, Upload, SetFlow, Flows, Slot, Stage, Kind
  <2> QED
    BY <1>10, <2>2, <2>3 DEF UploadFirst, TypeOK, Flows, Marks
<1>11. ASSUME NEW d \in Device, UploadChange(d)
      PROVE  TypeOK'
  <2>1. /\ Entries(d) \in Contents /\ flow[d]["command"].kind \in Kind
        /\ Remote(d) \in Snapshot /\ Remote(d).revision \in Nat /\ Remote(d).content \in Contents
    BY <1>11, AtType, HeldSnapshot DEF UploadChange, Comparing, At, Entries, Remote, Holding, Slot
  <2>2. client' \in [Device -> Page]
    BY <1>11, StatusType DEF UploadChange, Upload, Status
  <2>3. flow' \in Flows
    BY <1>11, <2>1, FlowType, StartType DEF UploadChange, Upload, SetFlow, Flows, Slot, Stage, Kind
  <2> QED
    BY <1>11, <2>2, <2>3 DEF UploadChange, TypeOK, Flows, Marks
<1>12. ASSUME NEW d \in Device, PushDigested(d)
      PROVE  TypeOK'
  <2>1. /\ flow[d]["push"] \in Waiting /\ flow[d]["push"].entries \in Contents
        /\ flow[d]["push"].expected \in Nat
    BY <1>12, AtType DEF PushDigested, At, Slot
  <2>2. client' \in [Device -> Page]
    <3>1. /\ [client[d] EXCEPT !.status = "syncing"] \in Page
          /\ [client[d] EXCEPT !.status = "offline", !.initialized = Ready(d, "push")] \in Page
      BY <1>12, <2>1, ReadyType DEF Page, Status, Slot
    <3> QED
      BY <1>12, <3>1 DEF PushDigested, Upload, Show
  <2>3. flow' \in Flows
    <3>1. ASSUME client[d].revision # None
          PROVE  Start("put", "push", flow[d]["push"].entries, None, client[d].revision)
                    \in Waiting
      BY <2>1, <3>1, StartType DEF Stage, Kind, Page
    <3> QED
      BY <1>12, <3>1 DEF PushDigested, Upload, End, SetFlow, Flows, Slot
  <2> QED
    BY <1>12, <2>2, <2>3 DEF PushDigested, TypeOK, Flows, Marks
<1>13. ASSUME NEW d \in Device, NEW s \in Slot, ServerReplaces(d, s)
      PROVE  TypeOK'
  <2>1. /\ flow[d][s] \in Waiting /\ flow[d][s].entries \in Contents
        /\ flow[d][s].expected \in Nat
    BY <1>13, AtType DEF ServerReplaces, At, Slot
  <2>2. history' \in Seq(Contents)
    <3>1. history' \in {history, Append(history, flow[d][s].entries)}
      BY <1>13 DEF ServerReplaces
    <3> QED
      BY <2>1, <3>1
  <2>3. flow' \in Flows
    <3>1. [revision |-> flow[d][s].expected + 1, content |-> flow[d][s].entries] \in Snapshot
      BY <2>1 DEF Snapshot
    <3> DEFINE yes == [flow[d][s] EXCEPT !.stage = "accepted", !.remote =
                         [revision |-> flow[d][s].expected + 1, content |-> flow[d][s].entries]]
               no == [flow[d][s] EXCEPT !.stage = "refused", !.remote = Latest]
    <3>2. yes \in Waiting /\ no \in Waiting
      BY <2>1, <3>1, LatestType DEF Waiting, Stage
    <3>3. flow' \in {[flow EXCEPT ![d][s] = yes], [flow EXCEPT ![d][s] = no]}
      BY <1>13 DEF ServerReplaces, SetFlow
    <3> HIDE DEF yes, no
    <3> QED
      BY <3>2, <3>3, FlowType
  <2> QED
    BY <1>13, <2>2, <2>3 DEF ServerReplaces, TypeOK, Flows, Marks
<1>14. ASSUME NEW d \in Device, NEW s \in Slot, Accepted(d, s)
      PROVE  TypeOK'
  <2>1. /\ flow[d][s] \in Waiting /\ flow[d][s].entries \in Contents
        /\ flow[d][s].remote \in Snapshot
        /\ flow[d][s].remote.revision \in Nat /\ flow[d][s].remote.content \in Contents
    BY <1>14, AtType, HeldSnapshot DEF Accepted, At, Holding, Slot
  <2>2. flow' \in Flows
    <3>1. [flow[d][s] EXCEPT !.stage = "seal"] \in Waiting
      BY <1>14, <2>1 DEF Waiting, Stage, Storage
    <3> QED
      BY <1>14, <3>1 DEF Accepted, Advance, Flows, Slot
  <2>3. trace' \in [Device -> Marks]
    BY <1>14, <2>1 DEF Accepted, See, At, Busy, Marks
  <2> QED
    BY <1>14, <2>2, <2>3 DEF Accepted, TypeOK, Flows, Marks
<1>15. ASSUME NEW d \in Device, NEW s \in Slot, Refused(d, s)
      PROVE  TypeOK'
  <2>1. /\ flow[d][s] \in Waiting /\ flow[d][s].entries \in Contents
        /\ flow[d][s].remote \in Snapshot
        /\ flow[d][s].remote.revision \in Nat /\ flow[d][s].remote.content \in Contents
    BY <1>15, AtType, HeldSnapshot DEF Refused, At, Holding, Slot
  <2>2. client' \in [Device -> Page]
    <3>1. [client[d] EXCEPT !.status = "conflict", !.revision = flow[d][s].remote.revision,
                       !.conflict = flow[d][s].remote, !.initialized = Ready(d, s)] \in Page
      BY <1>15, <2>1, ReadyType DEF Page, Status, Slot
    <3> QED
      BY <1>15, <3>1 DEF Refused
  <2>3. trace' \in [Device -> Marks]
    BY <1>15, <2>1 DEF Refused, See, At, Busy, Marks
  <2>4. flow' \in Flows
    BY <1>15, <2>1, FlowType, StartType DEF Refused, End, SetFlow, Flows, Slot, Stage, Kind
  <2> QED
    BY <1>15, <2>2, <2>3, <2>4 DEF Refused, TypeOK, Flows, Marks
<1>16. ASSUME NEW d \in Device, NEW s \in Slot, Seal(d, s)
      PROVE  TypeOK'
  <2>1. /\ flow[d][s] \in Waiting /\ flow[d][s].entries \in Contents
        /\ flow[d][s].remote \in Snapshot
        /\ flow[d][s].remote.revision \in Nat /\ flow[d][s].remote.content \in Contents
    BY <1>16, AtType, HeldSnapshot DEF Seal, At, Holding, Slot
  <2>2. disk' \in [Device -> Storage]
    BY <1>16, <2>1, MetadataType, KnownType DEF Seal, Sealed
  <2>3. trace' \in [Device -> Marks]
    BY <1>16, <2>1, SettleType DEF Seal
  <2>4. client' \in [Device -> Page]
    <3>1. [client[d] EXCEPT !.status = "synced", !.revision = flow[d][s].remote.revision,
                       !.conflict = None, !.initialized = Ready(d, s)] \in Page
      BY <1>16, <2>1, ReadyType DEF Page, Status, Slot
    <3>2. NewPage \in Page
      BY DEF NewPage, Page, Status
    <3>3. CASE PageEnds(d)
      BY <3>2, <3>3 DEF PageEnds
    <3>4. CASE Synced(d, s, flow[d][s].remote, None)
      BY <3>1, <3>4 DEF Synced
    <3> QED
      BY <1>16, <3>3, <3>4 DEF Seal
  <2>5. flow' \in Flows
    <3>1. CASE PageEnds(d)
      BY <3>1 DEF PageEnds, NoFlow, Flows
    <3>2. CASE End(d, s)
      BY <3>2, FlowType DEF End, SetFlow
    <3> QED
      BY <1>16, <3>1, <3>2 DEF Seal
  <2>6. late' \subseteq Request
    BY <1>16, <2>1, OrphanType DEF Seal, PageEnds
  <2> QED
    BY <1>16, <2>2, <2>3, <2>4, <2>5, <2>6 DEF Seal, TypeOK, Flows, Marks
<1>17. ASSUME NEW d \in Device, NEW s \in Slot, PoisonedFlowEnds(d, s)
      PROVE  TypeOK'
  <2>1. late' \subseteq Request
    BY <1>17, OrphanType DEF PoisonedFlowEnds, PageEnds
  <2>2. flow' \in Flows
    BY <1>17, FlowType, StartType DEF PoisonedFlowEnds, End, SetFlow, Flows, Slot, Stage, Kind
  <2> QED
    BY <1>17, <2>1, <2>2 DEF PoisonedFlowEnds, TypeOK, Flows, Marks
<1>18. ASSUME NEW d \in Device, Edit(d)
      PROVE  TypeOK'
  <2>1. disk' \in [Device -> Storage]
    BY <1>18, MetadataType DEF Edit, Storage, Contents
  <2>2. written' \subseteq Content
    BY <1>18 DEF Edit
  <2>3. client' \in [Device -> Page]
    <3>1. client[d].queued + 1 \in Nat
      BY DEF Page
    <3>2. [client[d] EXCEPT !.queued = @ + 1] \in Page
      BY <3>1 DEF Page
    <3> QED
      BY <1>18, <3>2 DEF Edit
  <2>4. trace' \in [Device -> Marks]
    BY <1>18, OverlapType DEF Edit, Slot
  <2> QED
    BY <1>18, <2>1, <2>2, <2>3, <2>4 DEF Edit, TypeOK, Flows, Marks
<1>19. ASSUME NEW d \in Device, Reload(d)
      PROVE  TypeOK'
  <2>1. client' \in [Device -> Page]
    BY <1>19, ReadyType DEF Reload, PageEnds, NewPage, Page, Status
  <2>2. flow' \in Flows
    BY <1>19, FlowType, StartType DEF Reload, PageEnds, NoFlow, Flows, Slot, Stage, Kind
  <2>3. late' \subseteq Request
    BY <1>19, OrphanType DEF Reload, PageEnds
  <2>4. faults' \in 0..MaxFaults
    BY <1>19 DEF Reload, Fault
  <2> QED
    BY <1>19, <2>1, <2>2, <2>3, <2>4 DEF Reload, TypeOK, Flows, Marks
<1>20. ASSUME NEW d \in Device, Retry(d)
      PROVE  TypeOK'
  <2>1. flow' \in Flows
    <3>1. Start("get", "retry", Empty, None, 0) \in Waiting
      BY StartType DEF Stage, Kind, Storage, Contents
    <3> QED
      BY <1>20, <3>1 DEF Retry, Reconcile, SetFlow, Flows, Slot
  <2>2. client' \in [Device -> Page]
    BY <1>20, StatusType DEF Retry, Reconcile, Status
  <2>3. trace' \in [Device -> Marks]
    BY <1>20, OverlapType DEF Retry, Reconcile, Slot
  <2> QED
    BY <1>20, <2>1, <2>2, <2>3 DEF Retry, TypeOK, Flows, Marks, Reconcile
<1>21. ASSUME NEW d \in Device, ResolveWithServer(d)
      PROVE  TypeOK'
  <2>1. flow' \in Flows
    <3> DEFINE f == Start("adopt", "resolve", disk[d].content, client[d].conflict, 0)
    <3>1. f \in Waiting /\ disk[d].known \in Snapshot \union {None} /\ "command" \in Slot
      BY StartType DEF Storage, Page, Slot, Stage, Kind
    <3>2. [f EXCEPT !.metadata = disk[d].known] \in Waiting
      BY <3>1 DEF Waiting
    <3>3. flow' = [flow EXCEPT ![d]["command"] = [f EXCEPT !.metadata = disk[d].known]]
      BY <1>21 DEF ResolveWithServer, SetFlow
    <3> HIDE DEF f
    <3> QED
      BY <3>1, <3>2, <3>3, FlowType
  <2>2. trace' \in [Device -> Marks]
    BY <1>21, OverlapType DEF ResolveWithServer, Slot
  <2> QED
    BY <1>21, <2>1, <2>2 DEF ResolveWithServer, TypeOK, Flows, Marks
<1>22. ASSUME NEW d \in Device, ResolveWithDevice(d)
      PROVE  TypeOK'
  <2>1. disk' \in [Device -> Storage]
    <3>1. client[d].conflict \in Snapshot /\ client[d].conflict.content \in Contents
      BY <1>22 DEF ResolveWithDevice, Page, Snapshot
    <3>2. [disk[d] EXCEPT !.backups = @ \union {client[d].conflict.content}] \in Storage
      BY <3>1 DEF Storage
    <3> QED
      BY <1>22, <3>2 DEF ResolveWithDevice
  <2>2. client' \in [Device -> Page]
    BY <1>22, StatusType DEF ResolveWithDevice, Upload, Status
  <2>3. flow' \in Flows
    BY <1>22, FlowType, StartType DEF ResolveWithDevice, Upload, SetFlow, Storage, Page, Snapshot, Flows, Slot, Stage, Kind
  <2>4. trace' \in [Device -> Marks]
    <3>1. client[d].conflict.revision \in Nat
      BY <1>22 DEF ResolveWithDevice, Page, Snapshot
    <3>2. [trace[d] EXCEPT !.settled = @ \union {client[d].conflict.revision},
                           !.overlapped = @ \/ Busy(d, "push")] \in Marks
      BY <3>1 DEF Marks, Busy
    <3> QED
      BY <1>22, <3>2 DEF ResolveWithDevice
  <2> QED
    BY <1>22, <2>1, <2>2, <2>3, <2>4 DEF ResolveWithDevice, TypeOK, Flows, Marks
<1>23. ASSUME NEW d \in Device, ReadFails(d)
      PROVE  TypeOK'
  <2>1. client' \in [Device -> Page]
    <3>1. [client[d] EXCEPT !.status = "offline", !.initialized = Ready(d, "command")] \in Page
      BY ReadyType DEF Page, Status, Slot
    <3> QED
      BY <1>23, <3>1 DEF ReadFails, Show
  <2>2. flow' \in Flows
    BY <1>23, FlowType, StartType DEF ReadFails, End, SetFlow, Flows, Slot, Stage, Kind
  <2>3. faults' \in 0..MaxFaults
    BY <1>23 DEF ReadFails, Fault
  <2> QED
    BY <1>23, <2>1, <2>2, <2>3 DEF ReadFails, TypeOK, Flows, Marks
<1>24. ASSUME NEW d \in Device, ServiceAbsent(d)
      PROVE  TypeOK'
  <2>1. client' \in [Device -> Page]
    <3>1. [client[d] EXCEPT !.status = "local", !.revision = None, !.initialized = Ready(d, "command")] \in Page
      BY ReadyType DEF Page, Status, Slot
    <3> QED
      BY <1>24, <3>1 DEF ServiceAbsent
  <2>2. flow' \in Flows
    BY <1>24, FlowType, StartType DEF ServiceAbsent, End, SetFlow, Flows, Slot, Stage, Kind
  <2>3. faults' \in 0..MaxFaults
    BY <1>24 DEF ServiceAbsent, Fault
  <2> QED
    BY <1>24, <2>1, <2>2, <2>3 DEF ServiceAbsent, TypeOK, Flows, Marks
<1>25. ASSUME NEW d \in Device, NEW s \in Slot, UploadFails(d, s)
      PROVE  TypeOK'
  <2>1. late' \subseteq Request
    BY <1>25, OrphanType DEF UploadFails, PageEnds
  <2>2. client' \in [Device -> Page]
    <3>1. [client[d] EXCEPT !.status = "offline"] \in Page
      BY ReadyType DEF Page, Status, Slot
    <3> QED
      BY <1>25, <3>1 DEF UploadFails
  <2>3. flow' \in Flows
    BY <1>25, FlowType, StartType DEF UploadFails, End, SetFlow, Flows, Slot, Stage, Kind
  <2>4. faults' \in 0..MaxFaults
    BY <1>25 DEF UploadFails, Fault
  <2> QED
    BY <1>25, <2>1, <2>2, <2>3, <2>4 DEF UploadFails, TypeOK, Flows, Marks
<1>26. CASE UNCHANGED vars
  BY <1>26 DEF vars, TypeOK
<1> QED
  BY <1>1, <1>2, <1>3, <1>4, <1>5, <1>6, <1>7, <1>8, <1>9, <1>10, <1>11, <1>12, <1>13, 
     <1>14, <1>15, <1>16, <1>17, <1>18, <1>19, <1>20, <1>21, <1>22, <1>23, <1>24, 
     <1>25, <1>26
     DEF Next, ServerStep, PageStep, ReconcileStep, UploadStep, UserStep, FailureStep

\* What a step does to the history and to what the devices have been shown.
SameShown == history' = history /\ \A e \in Device : trace'[e].seen = trace[e].seen
ShowsOne == /\ history' = history
            /\ \E d \in Device, r \in 0..Len(history) :
                  \A e \in Device :
                     trace'[e].seen = IF e = d THEN trace[e].seen \union {r} ELSE trace[e].seen
ReplacesSeen == /\ \E d \in Device : Len(history) \in trace[d].seen \union {0}
                /\ \E c \in Contents : history' = Append(history, c)
                /\ \A e \in Device : trace'[e].seen = trace[e].seen
SharedStep == SameShown \/ ShowsOne \/ ReplacesSeen

\* A response a flow holds may be shown to its device.
LEMMA ShowsHeld ==
    ASSUME TypeOK, FlowsAreGood, NEW d \in Device, NEW s \in Slot, Busy(d, s),
           flow[d][s].stage \in Holding
    PROVE  flow[d][s].remote.revision \in 0..Len(history)
<1>1. flow[d][s].remote.revision \in Nat /\ IsTrue(history, flow[d][s].remote)
  BY HeldSnapshot
<1>2. history \in Seq(Contents)
  BY DEF TypeOK
<1> QED
  BY <1>1, <1>2 DEF IsTrue

LEMMA EveryStepIsShared ==
    ASSUME SyncInv, [Next]_vars PROVE SharedStep
<1>0. /\ TypeOK /\ FlowsAreGood /\ LateAreGood /\ trace \in [Device -> Marks]
      /\ history \in Seq(Contents) /\ Slot = {"push", "command"}
      /\ \A r \in late : r \in Request
      /\ \A r \in late : r.expected \in trace[r.device].seen \union {0}
  BY DEF SyncInv, TypeOK, Marks, LateAreGood, Slot
<1> USE <1>0
<1>1. CASE ServerReplacesLate
  <2>1. PICK r \in late :
           history' = IF Accepts(r.expected) THEN Append(history, r.entries) ELSE history
    BY <1>1 DEF ServerReplacesLate
  <2>2. trace' = trace
    BY <1>1 DEF ServerReplacesLate
  <2>3. r.device \in Device /\ r.entries \in Contents
    BY DEF Request
  <2>4. CASE Accepts(r.expected)
    BY <2>1, <2>2, <2>3, <2>4 DEF Accepts, SharedStep, ReplacesSeen
  <2>5. CASE ~Accepts(r.expected)
    BY <2>1, <2>2, <2>5 DEF SharedStep, SameShown
  <2> QED
    BY <2>4, <2>5
<1>2. ASSUME NEW d \in Device, ServerReads(d)
      PROVE  SharedStep
  BY <1>2 DEF ServerReads, SharedStep, SameShown
<1>3. ASSUME NEW d \in Device, PushStart(d)
      PROVE  SharedStep
  BY <1>3 DEF PushStart, Overlap, Marks, SharedStep, SameShown
<1>4. ASSUME NEW d \in Device, Initialize(d)
      PROVE  SharedStep
  BY <1>4 DEF Initialize, Reconcile, Overlap, Marks, SharedStep, SameShown
<1>5. ASSUME NEW d \in Device, CaptureForReconcile(d)
      PROVE  SharedStep
  <2>1. flow[d]["command"].remote.revision \in 0..Len(history)
    BY <1>5, ShowsHeld DEF CaptureForReconcile, At, Busy, Holding
  <2> QED
    BY <1>5, <2>1 DEF CaptureForReconcile, See, Marks, SharedStep, ShowsOne
<1>6. ASSUME NEW d \in Device, Converge(d)
      PROVE  SharedStep
  <2>1. flow[d]["command"].remote.revision \in 0..Len(history)
    BY <1>6, ShowsHeld DEF Converge, Comparing, At, Busy, Holding
  <2> QED
    BY <1>6, <2>1 DEF Converge, Settle, Remote, Marks, SharedStep, ShowsOne
<1>7. ASSUME NEW d \in Device, Diverge(d)
      PROVE  SharedStep
  BY <1>7 DEF Diverge, SharedStep, SameShown
<1>8. ASSUME NEW d \in Device, HydrateAutomatically(d)
      PROVE  SharedStep
  <2>1. flow[d]["command"].remote.revision \in 0..Len(history)
    BY <1>8, ShowsHeld DEF HydrateAutomatically, MayHydrate, Comparing, At, Busy, Holding
  <2>2. history' = history
    BY <1>8 DEF HydrateAutomatically
  <2>3. CASE trace' = trace
    BY <2>2, <2>3 DEF SharedStep, SameShown
  <2>4. CASE Settle(d, Remote(d).revision)
    BY <2>1, <2>2, <2>4 DEF Settle, Remote, Marks, SharedStep, ShowsOne
  <2> QED
    BY <1>8, <2>3, <2>4 DEF HydrateAutomatically, Hydrated, HydrationRestored, HydrationBroken
<1>9. ASSUME NEW d \in Device, AdoptServer(d)
      PROVE  SharedStep
  <2>1. flow[d]["command"].remote.revision \in 0..Len(history)
    BY <1>9, ShowsHeld DEF AdoptServer, At, Busy, Holding
  <2>2. history' = history
    BY <1>9 DEF AdoptServer
  <2>3. CASE trace' = trace
    BY <2>2, <2>3 DEF SharedStep, SameShown
  <2>4. CASE Settle(d, Remote(d).revision)
    BY <2>1, <2>2, <2>4 DEF Settle, Remote, Marks, SharedStep, ShowsOne
  <2> QED
    BY <1>9, <2>3, <2>4 DEF AdoptServer, Hydrated, AdoptionRestored, HydrationBroken
<1>10. ASSUME NEW d \in Device, UploadFirst(d)
      PROVE  SharedStep
  BY <1>10 DEF UploadFirst, SharedStep, SameShown
<1>11. ASSUME NEW d \in Device, UploadChange(d)
      PROVE  SharedStep
  BY <1>11 DEF UploadChange, SharedStep, SameShown
<1>12. ASSUME NEW d \in Device, PushDigested(d)
      PROVE  SharedStep
  BY <1>12 DEF PushDigested, SharedStep, SameShown
<1>13. ASSUME NEW d \in Device, NEW s \in Slot, ServerReplaces(d, s)
      PROVE  SharedStep
  <2>1. /\ trace' = trace /\ flow[d][s] \in Waiting
        /\ flow[d][s].entries \in Contents /\ flow[d][s].expected \in trace[d].seen \union {0}
    BY <1>13, AtType DEF ServerReplaces, At, Busy, FlowsAreGood, FlowIsGood
  <2>2. CASE Accepts(flow[d][s].expected)
    BY <1>13, <2>1, <2>2 DEF ServerReplaces, Accepts, SharedStep, ReplacesSeen
  <2>3. CASE ~Accepts(flow[d][s].expected)
    BY <1>13, <2>1, <2>3 DEF ServerReplaces, SharedStep, SameShown
  <2> QED
    BY <2>2, <2>3
<1>14. ASSUME NEW d \in Device, NEW s \in Slot, Accepted(d, s)
      PROVE  SharedStep
  <2>1. flow[d][s].remote.revision \in 0..Len(history)
    BY <1>14, ShowsHeld DEF Accepted, At, Busy, Holding
  <2> QED
    BY <1>14, <2>1 DEF Accepted, See, Marks, SharedStep, ShowsOne
<1>15. ASSUME NEW d \in Device, NEW s \in Slot, Refused(d, s)
      PROVE  SharedStep
  <2>1. flow[d][s].remote.revision \in 0..Len(history)
    BY <1>15, ShowsHeld DEF Refused, At, Busy, Holding
  <2> QED
    BY <1>15, <2>1 DEF Refused, See, Marks, SharedStep, ShowsOne
<1>16. ASSUME NEW d \in Device, NEW s \in Slot, Seal(d, s)
      PROVE  SharedStep
  <2>1. flow[d][s].remote.revision \in 0..Len(history)
    BY <1>16, ShowsHeld DEF Seal, At, Busy, Holding
  <2> QED
    BY <1>16, <2>1 DEF Seal, Settle, Marks, SharedStep, ShowsOne
<1>17. ASSUME NEW d \in Device, NEW s \in Slot, PoisonedFlowEnds(d, s)
      PROVE  SharedStep
  BY <1>17 DEF PoisonedFlowEnds, SharedStep, SameShown
<1>18. ASSUME NEW d \in Device, Edit(d)
      PROVE  SharedStep
  BY <1>18 DEF Edit, Overlap, Marks, SharedStep, SameShown
<1>19. ASSUME NEW d \in Device, Reload(d)
      PROVE  SharedStep
  BY <1>19 DEF Reload, SharedStep, SameShown
<1>20. ASSUME NEW d \in Device, Retry(d)
      PROVE  SharedStep
  BY <1>20 DEF Retry, Reconcile, Overlap, Marks, SharedStep, SameShown
<1>21. ASSUME NEW d \in Device, ResolveWithServer(d)
      PROVE  SharedStep
  BY <1>21 DEF ResolveWithServer, Overlap, Marks, SharedStep, SameShown
<1>22. ASSUME NEW d \in Device, ResolveWithDevice(d)
      PROVE  SharedStep
  BY <1>22 DEF ResolveWithDevice, Marks, SharedStep, SameShown
<1>23. ASSUME NEW d \in Device, ReadFails(d)
      PROVE  SharedStep
  BY <1>23 DEF ReadFails, SharedStep, SameShown
<1>24. ASSUME NEW d \in Device, ServiceAbsent(d)
      PROVE  SharedStep
  BY <1>24 DEF ServiceAbsent, SharedStep, SameShown
<1>25. ASSUME NEW d \in Device, NEW s \in Slot, UploadFails(d, s)
      PROVE  SharedStep
  BY <1>25 DEF UploadFails, SharedStep, SameShown
<1>26. CASE UNCHANGED vars
  BY <1>26 DEF vars, SharedStep, SameShown
<1> QED
  BY <1>1, <1>2, <1>3, <1>4, <1>5, <1>6, <1>7, <1>8, <1>9, <1>10, <1>11, <1>12, <1>13, 
     <1>14, <1>15, <1>16, <1>17, <1>18, <1>19, <1>20, <1>21, <1>22, <1>23, <1>24, 
     <1>25, <1>26
     DEF Next, ServerStep, PageStep, ReconcileStep, UploadStep, UserStep, FailureStep

\* The history only grows, and what a device has been shown it has been shown.
Grows(h, g) == Len(h) <= Len(g) /\ \A r \in 1..Len(h) : g[r] = h[r]

LEMMA HistoryGrows ==
    ASSUME SyncInv, [Next]_vars
    PROVE  /\ Grows(history, history')
           /\ \A e \in Device : trace[e].seen \subseteq trace'[e].seen
<1>1. SharedStep /\ history \in Seq(Contents)
  BY EveryStepIsShared DEF SyncInv, TypeOK
<1>2. \A e \in Device : trace[e].seen \subseteq trace'[e].seen
  BY <1>1 DEF SharedStep, SameShown, ShowsOne, ReplacesSeen
<1>3. ASSUME history' = history PROVE Grows(history, history')
  BY <1>1, <1>3 DEF Grows
<1>4. ASSUME NEW c \in Contents, history' = Append(history, c)
      PROVE  Grows(history, history')
  BY <1>1, <1>4 DEF Grows
<1> QED
  BY <1>1, <1>2, <1>3, <1>4 DEF SharedStep, SameShown, ShowsOne, ReplacesSeen

\* What was good stays good.
LEMMA GoodStays ==
    ASSUME NEW h \in Seq(Contents), NEW g \in Seq(Contents), Grows(h, g),
           NEW S, NEW T, S \subseteq T
    PROVE  /\ \A x \in Snapshot : IsTrue(h, x) => IsTrue(g, x)
           /\ \A x \in Waiting \union {None} : FlowIsGood(h, S, x) => FlowIsGood(g, T, x)
           /\ \A x \in Page : PageIsGood(h, S, x) => PageIsGood(g, T, x)
           /\ \A x \in Storage : StorageIsGood(h, x) => StorageIsGood(g, x)
<1>1. \A x \in Snapshot : IsTrue(h, x) => IsTrue(g, x)
  BY DEF Grows, IsTrue, Stored, Snapshot
<1>2. \A x \in Waiting \union {None} : FlowIsGood(h, S, x) => FlowIsGood(g, T, x)
  BY <1>1 DEF FlowIsGood, Waiting, Holding
<1>3. \A x \in Page : PageIsGood(h, S, x) => PageIsGood(g, T, x)
  BY <1>1 DEF PageIsGood, Page
<1>4. \A x \in Storage : StorageIsGood(h, x) => StorageIsGood(g, x)
  BY <1>1 DEF StorageIsGood, Storage
<1> QED
  BY <1>1, <1>2, <1>3, <1>4

\* So a step keeps good what it leaves alone.
LEMMA LeftAlone ==
    ASSUME SyncInv, TypeOK', [Next]_vars, NEW d \in Device
    PROVE  /\ \A x \in Snapshot : IsTrue(history, x) => IsTrue(history', x)
           /\ \A s \in Slot : FlowIsGood(history', trace'[d].seen, flow[d][s])
           /\ FlowIsGood(history', trace'[d].seen, None)
           /\ PageIsGood(history', trace'[d].seen, client[d])
           /\ StorageIsGood(history', disk[d])
           /\ trace[d].seen \subseteq trace'[d].seen
<1> DEFINE h == history  g == history'  S == trace[d].seen  T == trace'[d].seen
<1>1. /\ h \in Seq(Contents) /\ g \in Seq(Contents)
      /\ \A s \in Slot : flow[d][s] \in Waiting \union {None}
      /\ client[d] \in Page /\ disk[d] \in Storage
  BY DEF SyncInv, TypeOK
<1>2. Grows(h, g) /\ S \subseteq T
  BY HistoryGrows DEF SyncInv
<1>3. /\ \A s \in Slot : FlowIsGood(h, S, flow[d][s])
      /\ PageIsGood(h, S, client[d])
      /\ StorageIsGood(h, disk[d])
  BY DEF SyncInv, FlowsAreGood, PagesAreGood, StoragesAreGood
<1>4. FlowIsGood(g, T, None)
  BY DEF FlowIsGood
<1> HIDE DEF h, g, S, T
<1>5. /\ \A x \in Snapshot : IsTrue(h, x) => IsTrue(g, x)
      /\ \A x \in Waiting \union {None} : FlowIsGood(h, S, x) => FlowIsGood(g, T, x)
      /\ \A x \in Page : PageIsGood(h, S, x) => PageIsGood(g, T, x)
      /\ \A x \in Storage : StorageIsGood(h, x) => StorageIsGood(g, x)
  BY <1>1, <1>2, GoodStays
<1>6. /\ \A x \in Snapshot : IsTrue(h, x) => IsTrue(g, x)
      /\ \A s \in Slot : FlowIsGood(g, T, flow[d][s])
      /\ FlowIsGood(g, T, None) /\ PageIsGood(g, T, client[d]) /\ StorageIsGood(g, disk[d])
      /\ S \subseteq T
  BY <1>1, <1>2, <1>3, <1>4, <1>5
<1> QED
  BY <1>6 DEF h, g, S, T

\* A snapshot is never the absence of one.
LEMMA SnapshotIsSome == \A x \in Snapshot : x # None /\ x.revision \in Nat /\ x.revision # None
BY StateSyncAssumption DEF Snapshot, Contents

\* A step that gives one slot a good flow keeps the flows good.
LEMMA OneFlowChanges ==
    ASSUME SyncInv, TypeOK', [Next]_vars, NEW d \in Device, NEW s \in Slot, NEW f,
           flow' = [flow EXCEPT ![d][s] = f], FlowIsGood(history', trace'[d].seen, f)
    PROVE  FlowsAreGood'
<1>1. flow \in Flows
  BY DEF SyncInv, TypeOK, Flows
<1> SUFFICES ASSUME NEW e \in Device, NEW t \in Slot
             PROVE  FlowIsGood(history', trace'[e].seen, flow'[e][t])
  BY DEF FlowsAreGood
<1>2. CASE e = d /\ t = s
  BY <1>1, <1>2 DEF Flows
<1>3. CASE e # d \/ t # s
  BY <1>1, <1>3, LeftAlone DEF Flows
<1> QED
  BY <1>2, <1>3

LEMMA NoFlowChanges ==
    ASSUME SyncInv, TypeOK', [Next]_vars, flow' = flow PROVE FlowsAreGood'
BY LeftAlone DEF FlowsAreGood

LEMMA FlowEnds ==
    ASSUME SyncInv, TypeOK', [Next]_vars, NEW d \in Device, NEW s \in Slot, End(d, s)
    PROVE  FlowsAreGood'
BY LeftAlone, OneFlowChanges DEF End, SetFlow

LEMMA FlowsEnd ==
    ASSUME SyncInv, TypeOK', [Next]_vars, NEW d \in Device, PageEnds(d) PROVE FlowsAreGood'
<1>1. flow \in Flows
  BY DEF SyncInv, TypeOK, Flows
<1> SUFFICES ASSUME NEW e \in Device, NEW t \in Slot
             PROVE  FlowIsGood(history', trace'[e].seen, flow'[e][t])
  BY DEF FlowsAreGood
<1> QED
  BY <1>1, LeftAlone DEF Flows, PageEnds, NoFlow

\* Which flows are good.
LEMMA Starts ==
    ASSUME NEW h, NEW shown, NEW kind, NEW entries, NEW remote, NEW expected
    PROVE  /\ FlowIsGood(h, shown, Start("get", kind, entries, remote, expected))
           /\ FlowIsGood(h, shown, Start("digest", kind, entries, remote, expected))
           /\ remote # None /\ IsTrue(h, remote)
                 => FlowIsGood(h, shown, Start("adopt", kind, entries, remote, expected))
           /\ expected \in shown \union {0}
                 => FlowIsGood(h, shown, Start("put", kind, entries, remote, expected))
BY DEF FlowIsGood, Start, Holding

\* What a command may restore stays true.
LEMMA CapturedStaysTrue ==
    ASSUME SyncInv, TypeOK', [Next]_vars, NEW d \in Device, NEW s \in Slot, flow[d][s] # None,
           flow[d][s].metadata # None
    PROVE  IsTrue(history', flow[d][s].metadata)
BY LeftAlone DEF FlowIsGood

\* Every step keeps the flows good.
LEMMA FlowStep == ASSUME SyncInv, TypeOK', [Next]_vars PROVE FlowsAreGood'
<1>0. /\ TypeOK /\ FlowsAreGood /\ PagesAreGood /\ trace \in [Device -> Marks]
      /\ history \in Seq(Contents) /\ Slot = {"push", "command"} /\ flow \in Flows
  BY DEF SyncInv, TypeOK, Marks, Flows, Slot
<1> USE <1>0
<1>1. CASE ServerReplacesLate
  BY <1>1, NoFlowChanges DEF ServerReplacesLate
<1>2. ASSUME NEW d \in Device, ServerReads(d)
      PROVE  FlowsAreGood'
  <2> DEFINE f == [flow[d]["command"] EXCEPT !.stage = "got", !.remote = Latest]
  <2>1. /\ flow[d]["command"] \in Waiting /\ history' = history
        /\ flow' = [flow EXCEPT ![d]["command"] = f]
    BY <1>2, AtType DEF ServerReads, At, Flows
  <2>2. Latest # None /\ IsTrue(history, Latest)
    BY LatestType, SnapshotIsSome
  <2>3. f.stage = "got" /\ f.remote = Latest /\ f.metadata = flow[d]["command"].metadata
    BY <2>1 DEF Waiting
  <2>4. FlowIsGood(history', trace'[d].seen, f)
    BY <1>2, <2>1, <2>2, <2>3, CapturedStaysTrue DEF FlowIsGood, ServerReads, At, Busy
  <2> QED
    BY <2>1, <2>4, OneFlowChanges
<1>3. ASSUME NEW d \in Device, PushStart(d)
      PROVE  FlowsAreGood'
  <2>1. CASE flow' = flow
    BY <2>1, NoFlowChanges
  <2> DEFINE f == Start("digest", "push", disk[d].content, None, 0)
  <2>2. CASE flow' = [flow EXCEPT ![d]["push"] = f]
    <3>1. FlowIsGood(history', trace'[d].seen, f)
      BY Starts
    <3> HIDE DEF f
    <3> QED
      BY <2>2, <3>1, OneFlowChanges
  <2> QED
    BY <1>3, <2>1, <2>2 DEF PushStart, SetFlow
<1>4. ASSUME NEW d \in Device, Initialize(d)
      PROVE  FlowsAreGood'
  <2>1. flow' = [flow EXCEPT ![d]["command"] = Start("get", "initialize", Empty, None, 0)]
    BY <1>4 DEF Initialize, Reconcile, SetFlow
  <2> QED
    BY <2>1, Starts, OneFlowChanges
<1>5. ASSUME NEW d \in Device, CaptureForReconcile(d)
      PROVE  FlowsAreGood'
  <2> DEFINE f == [flow[d]["command"] EXCEPT !.stage = "compare", !.entries = disk[d].content]
             x == flow[d]["command"].remote
  <2>1. /\ flow[d]["command"] \in Waiting /\ history' = history
        /\ flow' = [flow EXCEPT ![d]["command"] = f]
    BY <1>5, AtType DEF CaptureForReconcile, At, Flows
  <2>2. x # None /\ IsTrue(history, x)
    BY <1>5, HeldSnapshot, SnapshotIsSome DEF CaptureForReconcile, At, Busy, Holding
  <2>3. x.revision \in trace'[d].seen
    BY <1>5 DEF CaptureForReconcile, See, Marks
  <2>4. f.stage = "compare" /\ f.remote = x /\ f.metadata = flow[d]["command"].metadata
    BY <2>1 DEF Waiting
  <2>5. FlowIsGood(history', trace'[d].seen, f)
    BY <1>5, <2>1, <2>2, <2>3, <2>4, CapturedStaysTrue
       DEF FlowIsGood, CaptureForReconcile, At, Busy
  <2> QED
    BY <2>1, <2>5, OneFlowChanges
<1>6. ASSUME NEW d \in Device, Converge(d)
      PROVE  FlowsAreGood'
  BY <1>6, FlowEnds DEF Converge
<1>7. ASSUME NEW d \in Device, Diverge(d)
      PROVE  FlowsAreGood'
  BY <1>7, FlowEnds DEF Diverge
<1>8. ASSUME NEW d \in Device, HydrateAutomatically(d)
      PROVE  FlowsAreGood'
  BY <1>8, FlowEnds DEF HydrateAutomatically
<1>9. ASSUME NEW d \in Device, AdoptServer(d)
      PROVE  FlowsAreGood'
  BY <1>9, FlowEnds, FlowsEnd DEF AdoptServer
<1>10. ASSUME NEW d \in Device, UploadFirst(d)
      PROVE  FlowsAreGood'
  <2> DEFINE f == Start("put", flow[d]["command"].kind, Entries(d), None, 0)
  <2>1. flow' = [flow EXCEPT ![d]["command"] = f]
    BY <1>10 DEF UploadFirst, Upload, SetFlow
  <2>2. FlowIsGood(history', trace'[d].seen, f)
    BY Starts
  <2> HIDE DEF f
  <2> QED
    BY <2>1, <2>2, OneFlowChanges
<1>11. ASSUME NEW d \in Device, UploadChange(d)
      PROVE  FlowsAreGood'
  <2> DEFINE f == Start("put", flow[d]["command"].kind, Entries(d), None, Remote(d).revision)
  <2>1. flow' = [flow EXCEPT ![d]["command"] = f]
    BY <1>11 DEF UploadChange, Upload, SetFlow
  <2>2. Remote(d).revision \in trace[d].seen \union {0} /\ trace' = trace
    BY <1>11 DEF UploadChange, Comparing, At, Busy, Remote, FlowsAreGood, FlowIsGood
  <2>3. FlowIsGood(history', trace'[d].seen, f)
    BY <2>2, Starts
  <2> HIDE DEF f
  <2> QED
    BY <2>1, <2>3, OneFlowChanges
<1>12. ASSUME NEW d \in Device, PushDigested(d)
      PROVE  FlowsAreGood'
  <2>1. CASE End(d, "push")
    BY <2>1, FlowEnds
  <2>2. CASE client[d].revision # None /\ Upload(d, "push", "push", flow[d]["push"].entries, client[d].revision)
    <3> DEFINE f == Start("put", "push", flow[d]["push"].entries, None, client[d].revision)
    <3>1. flow' = [flow EXCEPT ![d]["push"] = f]
      BY <2>2 DEF Upload, SetFlow
    <3>2. client[d].revision \in trace[d].seen \union {0} /\ trace' = trace
      BY <1>12, <2>2 DEF PushDigested, PagesAreGood, PageIsGood
    <3>3. FlowIsGood(history', trace'[d].seen, f)
      BY <3>2, Starts
    <3> HIDE DEF f
    <3> QED
      BY <3>1, <3>3, OneFlowChanges
  <2> QED
    BY <1>12, <2>1, <2>2 DEF PushDigested
<1>13. ASSUME NEW d \in Device, NEW s \in Slot, ServerReplaces(d, s)
      PROVE  FlowsAreGood'
  <2> DEFINE x == [revision |-> flow[d][s].expected + 1, content |-> flow[d][s].entries]
             a == [flow[d][s] EXCEPT !.stage = "accepted", !.remote = x]
             b == [flow[d][s] EXCEPT !.stage = "refused", !.remote = Latest]
  <2>1. /\ flow[d][s] \in Waiting /\ flow[d][s].entries \in Contents
        /\ flow[d][s].expected \in Nat
    BY <1>13, AtType DEF ServerReplaces, At
  <2>a. flow[d][s].metadata # None => IsTrue(history', flow[d][s].metadata)
    BY <1>13, CapturedStaysTrue DEF ServerReplaces, At, Busy
  <2>2. CASE Accepts(flow[d][s].expected)
    <3>1. flow' = [flow EXCEPT ![d][s] = a] /\ history' = Append(history, flow[d][s].entries)
      BY <1>13, <2>2 DEF ServerReplaces, SetFlow
    <3>2. IsTrue(history', x) /\ x \in Snapshot
      BY <2>1, <2>2, <3>1 DEF IsTrue, Stored, Accepts, Snapshot
    <3>3. x # None /\ x.content = flow[d][s].entries
      BY <3>2, SnapshotIsSome
    <3>4. /\ a.stage = "accepted" /\ a.remote = x /\ a.entries = flow[d][s].entries
          /\ a.metadata = flow[d][s].metadata
      BY <2>1 DEF Waiting
    <3> HIDE DEF x, a
    <3>5. FlowIsGood(history', trace'[d].seen, a)
      BY <2>a, <3>2, <3>3, <3>4 DEF FlowIsGood
    <3> QED
      BY <3>1, <3>5, OneFlowChanges
  <2>3. CASE ~Accepts(flow[d][s].expected)
    <3>1. flow' = [flow EXCEPT ![d][s] = b] /\ history' = history
      BY <1>13, <2>3 DEF ServerReplaces, SetFlow
    <3>2. Latest # None /\ IsTrue(history, Latest)
      BY LatestType, SnapshotIsSome
    <3>3. b.stage = "refused" /\ b.remote = Latest /\ b.metadata = flow[d][s].metadata
      BY <2>1 DEF Waiting
    <3>4. FlowIsGood(history', trace'[d].seen, b)
      BY <2>a, <3>1, <3>2, <3>3 DEF FlowIsGood
    <3> QED
      BY <3>1, <3>4, OneFlowChanges
  <2> QED
    BY <2>2, <2>3
<1>14. ASSUME NEW d \in Device, NEW s \in Slot, Accepted(d, s)
      PROVE  FlowsAreGood'
  <2> DEFINE f == [flow[d][s] EXCEPT !.stage = "seal"]
             x == flow[d][s].remote
  <2>1. /\ flow[d][s] \in Waiting /\ history' = history
        /\ flow' = [flow EXCEPT ![d][s] = f]
    BY <1>14, AtType DEF Accepted, Advance, At, Flows
  <2>2. x # None /\ IsTrue(history, x)
    BY <1>14, HeldSnapshot, SnapshotIsSome DEF Accepted, At, Busy, Holding
  <2>3. x.content = flow[d][s].entries
    BY <1>14 DEF Accepted, At, Busy, FlowsAreGood, FlowIsGood
  <2>4. /\ f.stage = "seal" /\ f.remote = x /\ f.entries = flow[d][s].entries
        /\ f.metadata = flow[d][s].metadata
    BY <2>1 DEF Waiting
  <2>5. FlowIsGood(history', trace'[d].seen, f)
    BY <1>14, <2>1, <2>2, <2>3, <2>4, CapturedStaysTrue DEF FlowIsGood, Accepted, At, Busy
  <2> QED
    BY <2>1, <2>5, OneFlowChanges
<1>15. ASSUME NEW d \in Device, NEW s \in Slot, Refused(d, s)
      PROVE  FlowsAreGood'
  BY <1>15, FlowEnds DEF Refused
<1>16. ASSUME NEW d \in Device, NEW s \in Slot, Seal(d, s)
      PROVE  FlowsAreGood'
  BY <1>16, FlowEnds, FlowsEnd DEF Seal
<1>17. ASSUME NEW d \in Device, NEW s \in Slot, PoisonedFlowEnds(d, s)
      PROVE  FlowsAreGood'
  BY <1>17, FlowEnds DEF PoisonedFlowEnds
<1>18. ASSUME NEW d \in Device, Edit(d)
      PROVE  FlowsAreGood'
  BY <1>18, NoFlowChanges DEF Edit
<1>19. ASSUME NEW d \in Device, Reload(d)
      PROVE  FlowsAreGood'
  BY <1>19, FlowsEnd DEF Reload
<1>20. ASSUME NEW d \in Device, Retry(d)
      PROVE  FlowsAreGood'
  <2>1. flow' = [flow EXCEPT ![d]["command"] = Start("get", "retry", Empty, None, 0)]
    BY <1>20 DEF Retry, Reconcile, SetFlow
  <2> QED
    BY <2>1, Starts, OneFlowChanges
<1>21. ASSUME NEW d \in Device, ResolveWithServer(d)
      PROVE  FlowsAreGood'
  <2> DEFINE f == [Start("adopt", "resolve", disk[d].content, client[d].conflict, 0)
                     EXCEPT !.metadata = disk[d].known]
  <2>1. flow' = [flow EXCEPT ![d]["command"] = f]
    BY <1>21 DEF ResolveWithServer, SetFlow
  <2>2. client[d].conflict # None /\ IsTrue(history, client[d].conflict) /\ history' = history
    BY <1>21 DEF ResolveWithServer, PagesAreGood, PageIsGood
  <2>3. disk[d].known # None => IsTrue(history, disk[d].known)
    BY DEF SyncInv, StoragesAreGood, StorageIsGood
  <2>4. f.stage = "adopt" /\ f.remote = client[d].conflict /\ f.metadata = disk[d].known
    BY DEF Start
  <2> HIDE DEF f
  <2>5. FlowIsGood(history', trace'[d].seen, f)
    BY <2>2, <2>3, <2>4 DEF FlowIsGood
  <2> QED
    BY <2>1, <2>5, OneFlowChanges
<1>22. ASSUME NEW d \in Device, ResolveWithDevice(d)
      PROVE  FlowsAreGood'
  <2> DEFINE f == Start("put", "resolve", disk[d].content, None, client[d].conflict.revision)
  <2>1. flow' = [flow EXCEPT ![d]["command"] = f]
    BY <1>22 DEF ResolveWithDevice, Upload, SetFlow
  <2>2. client[d].conflict.revision \in trace[d].seen \union {0}
    BY <1>22 DEF ResolveWithDevice, PagesAreGood, PageIsGood
  <2>3. trace[d].seen \subseteq trace'[d].seen
    BY LeftAlone
  <2>4. FlowIsGood(history', trace'[d].seen, f)
    BY <2>2, <2>3, Starts
  <2> HIDE DEF f
  <2> QED
    BY <2>1, <2>4, OneFlowChanges
<1>23. ASSUME NEW d \in Device, ReadFails(d)
      PROVE  FlowsAreGood'
  BY <1>23, FlowEnds DEF ReadFails
<1>24. ASSUME NEW d \in Device, ServiceAbsent(d)
      PROVE  FlowsAreGood'
  BY <1>24, FlowEnds DEF ServiceAbsent
<1>25. ASSUME NEW d \in Device, NEW s \in Slot, UploadFails(d, s)
      PROVE  FlowsAreGood'
  BY <1>25, FlowEnds DEF UploadFails
<1>26. CASE UNCHANGED vars
  BY <1>26, NoFlowChanges DEF vars
<1> QED
  BY <1>1, <1>2, <1>3, <1>4, <1>5, <1>6, <1>7, <1>8, <1>9, <1>10, <1>11, <1>12, <1>13, 
     <1>14, <1>15, <1>16, <1>17, <1>18, <1>19, <1>20, <1>21, <1>22, <1>23, <1>24, 
     <1>25, <1>26
     DEF Next, ServerStep, PageStep, ReconcileStep, UploadStep, UserStep, FailureStep

\* A page that only forgets its revision or its conflict stays good.
LEMMA PageForgets ==
    ASSUME SyncInv, TypeOK', [Next]_vars, NEW d \in Device,
           \A e \in Device \ {d} : client'[e] = client[e],
           client'[d].revision \in {client[d].revision, None},
           client'[d].conflict \in {client[d].conflict, None}
    PROVE  PagesAreGood'
<1>1. PageIsGood(history', trace'[d].seen, client'[d])
  BY LeftAlone DEF PageIsGood
<1> QED
  BY <1>1, LeftAlone DEF PagesAreGood

\* So does one that takes its revision from a snapshot it has been shown.
LEMMA PageTakes ==
    ASSUME SyncInv, TypeOK', [Next]_vars, NEW d \in Device, NEW x \in Snapshot,
           IsTrue(history, x), x.revision \in trace'[d].seen \union {0},
           \A e \in Device \ {d} : client'[e] = client[e],
           client'[d].revision = x.revision,
           client'[d].conflict \in {x, client[d].conflict, None}
    PROVE  PagesAreGood'
<1>1. IsTrue(history', x)
  BY LeftAlone
<1>2. PageIsGood(history', trace'[d].seen, client'[d])
  BY <1>1, LeftAlone DEF PageIsGood
<1> QED
  BY <1>2, LeftAlone DEF PagesAreGood

LEMMA PageKept ==
    ASSUME SyncInv, TypeOK', [Next]_vars, client' = client PROVE PagesAreGood'
BY LeftAlone DEF PagesAreGood

LEMMA PageGone ==
    ASSUME SyncInv, TypeOK', [Next]_vars, NEW d \in Device, PageEnds(d) PROVE PagesAreGood'
<1>1. client \in [Device -> Page]
  BY DEF SyncInv, TypeOK
<1>2. client'[d].revision = None /\ client'[d].conflict = None
  BY <1>1 DEF PageEnds, NewPage
<1>3. \A e \in Device \ {d} : client'[e] = client[e]
  BY <1>1 DEF PageEnds
<1> QED
  BY <1>2, <1>3, PageForgets

\* Every step keeps the pages good.
LEMMA PagesStep == ASSUME SyncInv, TypeOK', [Next]_vars PROVE PagesAreGood'
<1>0. /\ TypeOK /\ FlowsAreGood /\ PagesAreGood /\ trace \in [Device -> Marks]
      /\ history \in Seq(Contents) /\ Slot = {"push", "command"} /\ client \in [Device -> Page]
  BY DEF SyncInv, TypeOK, Marks, Slot
<1> USE <1>0
<1>1. CASE ServerReplacesLate
  BY <1>1, PageKept DEF ServerReplacesLate
<1>2. ASSUME NEW d \in Device, ServerReads(d)
      PROVE  PagesAreGood'
  BY <1>2, PageKept DEF ServerReads
<1>3. ASSUME NEW d \in Device, PushStart(d)
      PROVE  PagesAreGood'
  <2>1. /\ \A e \in Device \ {d} : client'[e] = client[e]
        /\ client'[d].revision \in {client[d].revision, None}
        /\ client'[d].conflict \in {client[d].conflict, None}
    BY <1>3 DEF PushStart, Page
  <2> QED
    BY <2>1, PageForgets
<1>4. ASSUME NEW d \in Device, Initialize(d)
      PROVE  PagesAreGood'
  <2>1. /\ \A e \in Device \ {d} : client'[e] = client[e]
        /\ client'[d].revision \in {client[d].revision, None}
        /\ client'[d].conflict \in {client[d].conflict, None}
    BY <1>4 DEF Initialize, Reconcile, Page
  <2> QED
    BY <2>1, PageForgets
<1>5. ASSUME NEW d \in Device, CaptureForReconcile(d)
      PROVE  PagesAreGood'
  BY <1>5, PageKept DEF CaptureForReconcile
<1>6. ASSUME NEW d \in Device, Converge(d)
      PROVE  PagesAreGood'
  <2>1. /\ Remote(d) \in Snapshot /\ IsTrue(history, Remote(d))
        /\ Remote(d).revision \in trace[d].seen \union {0}
    BY <1>6, HeldSnapshot DEF Converge, Comparing, At, Busy, Holding, Remote, FlowsAreGood, FlowIsGood
  <2>2. Remote(d).revision \in trace'[d].seen \union {0}
    BY <2>1, LeftAlone
  <2>3. /\ \A e \in Device \ {d} : client'[e] = client[e]
        /\ client'[d].revision = Remote(d).revision
        /\ client'[d].conflict \in {Remote(d), client[d].conflict, None}
    BY <1>6 DEF Converge, Synced, Page
  <2> QED
    BY <2>1, <2>2, <2>3, PageTakes
<1>7. ASSUME NEW d \in Device, Diverge(d)
      PROVE  PagesAreGood'
  <2>1. /\ Remote(d) \in Snapshot /\ IsTrue(history, Remote(d))
        /\ Remote(d).revision \in trace[d].seen \union {0}
    BY <1>7, HeldSnapshot DEF Diverge, Comparing, At, Busy, Holding, Remote, FlowsAreGood, FlowIsGood
  <2>2. Remote(d).revision \in trace'[d].seen \union {0}
    BY <2>1, LeftAlone
  <2>3. /\ \A e \in Device \ {d} : client'[e] = client[e]
        /\ client'[d].revision = Remote(d).revision
        /\ client'[d].conflict \in {Remote(d), client[d].conflict, None}
    BY <1>7 DEF Diverge, Page
  <2> QED
    BY <2>1, <2>2, <2>3, PageTakes
<1>8. ASSUME NEW d \in Device, HydrateAutomatically(d)
      PROVE  PagesAreGood'
  <2>1. /\ Remote(d) \in Snapshot /\ IsTrue(history, Remote(d))
        /\ Remote(d).revision \in trace[d].seen \union {0}
    BY <1>8, HeldSnapshot DEF HydrateAutomatically, MayHydrate, Comparing, At, Busy, Holding, Remote, FlowsAreGood, FlowIsGood
  <2>2. Remote(d).revision \in trace'[d].seen \union {0}
    BY <2>1, LeftAlone
  <2>3. CASE Synced(d, "command", Remote(d), None)
    <3>1. /\ \A e \in Device \ {d} : client'[e] = client[e]
          /\ client'[d].revision = Remote(d).revision /\ client'[d].conflict = None
      BY <2>3 DEF Synced, Page
    <3> QED
      BY <2>1, <2>2, <3>1, PageTakes
  <2>4. CASE Show(d, "command", "offline") \/ HydrationBroken(d)
    <3>1. /\ \A e \in Device \ {d} : client'[e] = client[e]
          /\ client'[d].revision = client[d].revision
          /\ client'[d].conflict \in {client[d].conflict, None}
      BY <2>4 DEF Show, HydrationBroken, Page
    <3> QED
      BY <3>1, PageForgets
  <2> QED
    BY <1>8, <2>3, <2>4 DEF HydrateAutomatically
<1>9. ASSUME NEW d \in Device, AdoptServer(d)
      PROVE  PagesAreGood'
  <2>1. CASE PageEnds(d)
    BY <2>1, PageGone
  <2>2. CASE Show(d, "command", "conflict") \/ HydrationBroken(d)
    <3>1. /\ \A e \in Device \ {d} : client'[e] = client[e]
          /\ client'[d].revision = client[d].revision
          /\ client'[d].conflict \in {client[d].conflict, None}
      BY <2>2 DEF Show, HydrationBroken, Page
    <3> QED
      BY <3>1, PageForgets
  <2> QED
    BY <1>9, <2>1, <2>2 DEF AdoptServer
<1>10. ASSUME NEW d \in Device, UploadFirst(d)
      PROVE  PagesAreGood'
  <2>1. /\ \A e \in Device \ {d} : client'[e] = client[e]
        /\ client'[d].revision \in {client[d].revision, None}
        /\ client'[d].conflict \in {client[d].conflict, None}
    BY <1>10 DEF UploadFirst, Upload, Page
  <2> QED
    BY <2>1, PageForgets
<1>11. ASSUME NEW d \in Device, UploadChange(d)
      PROVE  PagesAreGood'
  <2>1. /\ \A e \in Device \ {d} : client'[e] = client[e]
        /\ client'[d].revision \in {client[d].revision, None}
        /\ client'[d].conflict \in {client[d].conflict, None}
    BY <1>11 DEF UploadChange, Upload, Page
  <2> QED
    BY <2>1, PageForgets
<1>12. ASSUME NEW d \in Device, PushDigested(d)
      PROVE  PagesAreGood'
  <2>1. /\ \A e \in Device \ {d} : client'[e] = client[e]
        /\ client'[d].revision \in {client[d].revision, None}
        /\ client'[d].conflict \in {client[d].conflict, None}
    BY <1>12 DEF PushDigested, Upload, Show, Page
  <2> QED
    BY <2>1, PageForgets
<1>13. ASSUME NEW d \in Device, NEW s \in Slot, ServerReplaces(d, s)
      PROVE  PagesAreGood'
  BY <1>13, PageKept DEF ServerReplaces
<1>14. ASSUME NEW d \in Device, NEW s \in Slot, Accepted(d, s)
      PROVE  PagesAreGood'
  BY <1>14, PageKept DEF Accepted
<1>15. ASSUME NEW d \in Device, NEW s \in Slot, Refused(d, s)
      PROVE  PagesAreGood'
  <2>1. flow[d][s].remote \in Snapshot /\ IsTrue(history, flow[d][s].remote)
    BY <1>15, HeldSnapshot DEF Refused, At, Busy, Holding
  <2>2. flow[d][s].remote.revision \in trace'[d].seen
    BY <1>15 DEF Refused, See, Marks
  <2>3. /\ \A e \in Device \ {d} : client'[e] = client[e]
        /\ client'[d].revision = flow[d][s].remote.revision
        /\ client'[d].conflict \in {flow[d][s].remote, None}
    BY <1>15 DEF Refused, Page
  <2> QED
    BY <2>1, <2>2, <2>3, PageTakes
<1>16. ASSUME NEW d \in Device, NEW s \in Slot, Seal(d, s)
      PROVE  PagesAreGood'
  <2>1. flow[d][s].remote \in Snapshot /\ IsTrue(history, flow[d][s].remote)
    BY <1>16, HeldSnapshot DEF Seal, At, Busy, Holding
  <2>2. flow[d][s].remote.revision \in trace'[d].seen
    BY <1>16 DEF Seal, Settle, Marks
  <2>3. CASE PageEnds(d)
    BY <2>3, PageGone
  <2>4. CASE Synced(d, s, flow[d][s].remote, None)
    <3>1. /\ \A e \in Device \ {d} : client'[e] = client[e]
          /\ client'[d].revision = flow[d][s].remote.revision
          /\ client'[d].conflict \in {flow[d][s].remote, None}
      BY <2>4 DEF Synced, Page
    <3> QED
      BY <2>1, <2>2, <3>1, PageTakes
  <2> QED
    BY <1>16, <2>3, <2>4 DEF Seal
<1>17. ASSUME NEW d \in Device, NEW s \in Slot, PoisonedFlowEnds(d, s)
      PROVE  PagesAreGood'
  BY <1>17, PageKept DEF PoisonedFlowEnds
<1>18. ASSUME NEW d \in Device, Edit(d)
      PROVE  PagesAreGood'
  <2>1. /\ \A e \in Device \ {d} : client'[e] = client[e]
        /\ client'[d].revision \in {client[d].revision, None}
        /\ client'[d].conflict \in {client[d].conflict, None}
    BY <1>18 DEF Edit, Page
  <2> QED
    BY <2>1, PageForgets
<1>19. ASSUME NEW d \in Device, Reload(d)
      PROVE  PagesAreGood'
  BY <1>19, PageGone DEF Reload
<1>20. ASSUME NEW d \in Device, Retry(d)
      PROVE  PagesAreGood'
  <2>1. /\ \A e \in Device \ {d} : client'[e] = client[e]
        /\ client'[d].revision \in {client[d].revision, None}
        /\ client'[d].conflict \in {client[d].conflict, None}
    BY <1>20 DEF Retry, Reconcile, Page
  <2> QED
    BY <2>1, PageForgets
<1>21. ASSUME NEW d \in Device, ResolveWithServer(d)
      PROVE  PagesAreGood'
  BY <1>21, PageKept DEF ResolveWithServer
<1>22. ASSUME NEW d \in Device, ResolveWithDevice(d)
      PROVE  PagesAreGood'
  <2>1. /\ \A e \in Device \ {d} : client'[e] = client[e]
        /\ client'[d].revision \in {client[d].revision, None}
        /\ client'[d].conflict \in {client[d].conflict, None}
    BY <1>22 DEF ResolveWithDevice, Upload, Page
  <2> QED
    BY <2>1, PageForgets
<1>23. ASSUME NEW d \in Device, ReadFails(d)
      PROVE  PagesAreGood'
  <2>1. /\ \A e \in Device \ {d} : client'[e] = client[e]
        /\ client'[d].revision \in {client[d].revision, None}
        /\ client'[d].conflict \in {client[d].conflict, None}
    BY <1>23 DEF ReadFails, Show, Page
  <2> QED
    BY <2>1, PageForgets
<1>24. ASSUME NEW d \in Device, ServiceAbsent(d)
      PROVE  PagesAreGood'
  <2>1. /\ \A e \in Device \ {d} : client'[e] = client[e]
        /\ client'[d].revision \in {client[d].revision, None}
        /\ client'[d].conflict \in {client[d].conflict, None}
    BY <1>24 DEF ServiceAbsent, Page
  <2> QED
    BY <2>1, PageForgets
<1>25. ASSUME NEW d \in Device, NEW s \in Slot, UploadFails(d, s)
      PROVE  PagesAreGood'
  <2>1. /\ \A e \in Device \ {d} : client'[e] = client[e]
        /\ client'[d].revision \in {client[d].revision, None}
        /\ client'[d].conflict \in {client[d].conflict, None}
    BY <1>25 DEF UploadFails, Page
  <2> QED
    BY <2>1, PageForgets
<1>26. CASE UNCHANGED vars
  BY <1>26, PageKept DEF vars
<1> QED
  BY <1>1, <1>2, <1>3, <1>4, <1>5, <1>6, <1>7, <1>8, <1>9, <1>10, <1>11, <1>12, <1>13, 
     <1>14, <1>15, <1>16, <1>17, <1>18, <1>19, <1>20, <1>21, <1>22, <1>23, <1>24, 
     <1>25, <1>26
     DEF Next, ServerStep, PageStep, ReconcileStep, UploadStep, UserStep, FailureStep

\* Metadata sealed for the content of a snapshot is that snapshot.
LEMMA MetadataIsSnapshot ==
    ASSUME NEW x \in Snapshot, NEW h, IsTrue(h, x)
    PROVE  IsTrue(h, Metadata(x.content, x))
BY DEF Metadata, IsTrue

LEMMA OneDiskChanges ==
    ASSUME SyncInv, TypeOK', [Next]_vars, NEW d \in Device,
           \A e \in Device \ {d} : disk'[e] = disk[e],
           \/ disk'[d].known = disk[d].known
           \/ IsTrue(history, disk'[d].known) /\ disk'[d].known \in Snapshot
    PROVE  StoragesAreGood'
<1>1. StorageIsGood(history', disk'[d])
  BY LeftAlone DEF StorageIsGood
<1> QED
  BY <1>1, LeftAlone DEF StoragesAreGood

\* Every step keeps the metadata true.
LEMMA StorageStep == ASSUME SyncInv, TypeOK', [Next]_vars PROVE StoragesAreGood'
<1>0. /\ TypeOK /\ FlowsAreGood /\ Slot = {"push", "command"} /\ disk \in [Device -> Storage]
  BY DEF SyncInv, TypeOK, Slot
<1>a. ASSUME disk' = disk PROVE StoragesAreGood'
  BY <1>a, LeftAlone DEF StoragesAreGood
<1> USE <1>0
<1>1. CASE ServerReplacesLate
  BY <1>1, <1>a DEF ServerReplacesLate
<1>2. ASSUME NEW d \in Device, ServerReads(d)
      PROVE  StoragesAreGood'
  BY <1>2, <1>a DEF ServerReads
<1>3. ASSUME NEW d \in Device, PushStart(d)
      PROVE  StoragesAreGood'
  BY <1>3, <1>a DEF PushStart
<1>4. ASSUME NEW d \in Device, Initialize(d)
      PROVE  StoragesAreGood'
  BY <1>4, <1>a DEF Initialize, Reconcile
<1>5. ASSUME NEW d \in Device, CaptureForReconcile(d)
      PROVE  StoragesAreGood'
  BY <1>5, <1>a DEF CaptureForReconcile
<1>6. ASSUME NEW d \in Device, Converge(d)
      PROVE  StoragesAreGood'
  <2>1. Remote(d) \in Snapshot /\ IsTrue(history, Remote(d))
    BY <1>6, HeldSnapshot DEF Converge, Comparing, At, Busy, Holding, Remote
  <2>2. /\ \A e \in Device \ {d} : disk'[e] = disk[e]
        /\ disk'[d].known = Metadata(Remote(d).content, Remote(d))
    BY <1>6 DEF Converge, Differs, Storage
  <2>3. Remote(d).content \in Contents
    BY <2>1 DEF Snapshot
  <2> QED
    BY <2>1, <2>2, <2>3, MetadataIsSnapshot, MetadataType, OneDiskChanges
<1>7. ASSUME NEW d \in Device, Diverge(d)
      PROVE  StoragesAreGood'
  BY <1>7, <1>a DEF Diverge
<1>8. ASSUME NEW d \in Device, HydrateAutomatically(d)
      PROVE  StoragesAreGood'
  <2>1. Remote(d) \in Snapshot /\ IsTrue(history, Remote(d)) /\ Remote(d).content \in Contents
    BY <1>8, HeldSnapshot DEF HydrateAutomatically, MayHydrate, Comparing, At, Busy, Holding, Remote
  <2>2. ASSUME NEW B, Hydrated(d, Remote(d), B) PROVE StoragesAreGood'
    <3>1. /\ \A e \in Device \ {d} : disk'[e] = disk[e]
          /\ disk'[d].known = Metadata(Remote(d).content, Remote(d))
      BY <2>2 DEF Hydrated
    <3> QED
      BY <2>1, <3>1, MetadataIsSnapshot, MetadataType, OneDiskChanges
  <2>3. CASE HydrationRestored
    BY <2>3, <1>a DEF HydrationRestored
  <2>4. CASE HydrationBroken(d)
    <3>1. (\A e \in Device \ {d} : disk'[e] = disk[e]) /\ disk'[d].known = disk[d].known
      BY <2>4 DEF HydrationBroken, Storage
    <3> QED
      BY <3>1, OneDiskChanges
  <2> QED
    BY <1>8, <2>2, <2>3, <2>4 DEF HydrateAutomatically
<1>9. ASSUME NEW d \in Device, AdoptServer(d)
      PROVE  StoragesAreGood'
  <2>1. Remote(d) \in Snapshot /\ IsTrue(history, Remote(d)) /\ Remote(d).content \in Contents
    BY <1>9, HeldSnapshot DEF AdoptServer, At, Busy, Holding, Remote
  <2>2. ASSUME NEW B, Hydrated(d, Remote(d), B) PROVE StoragesAreGood'
    <3>1. /\ \A e \in Device \ {d} : disk'[e] = disk[e]
          /\ disk'[d].known = Metadata(Remote(d).content, Remote(d))
      BY <2>2 DEF Hydrated
    <3> QED
      BY <2>1, <3>1, MetadataIsSnapshot, MetadataType, OneDiskChanges
  <2>3. CASE AdoptionRestored(d)
    <3> DEFINE m == flow[d]["command"].metadata
    <3>1. (\A e \in Device \ {d} : disk'[e] = disk[e]) /\ disk'[d].known = m
      BY <2>3 DEF AdoptionRestored
    <3>2. m \in Snapshot \union {None} /\ (m # None => IsTrue(history, m))
      BY <1>9, AtType DEF AdoptServer, At, Busy, FlowsAreGood, FlowIsGood
    <3>3. CASE m = None
      <4>1. StorageIsGood(history', disk'[d])
        BY <3>1, <3>3 DEF StorageIsGood
      <4> QED
        BY <3>1, <4>1, LeftAlone DEF StoragesAreGood
    <3>4. CASE m # None
      BY <3>1, <3>2, <3>4, OneDiskChanges
    <3> QED
      BY <3>3, <3>4
  <2>4. CASE HydrationBroken(d)
    <3>1. (\A e \in Device \ {d} : disk'[e] = disk[e]) /\ disk'[d].known = disk[d].known
      BY <2>4 DEF HydrationBroken, Storage
    <3> QED
      BY <3>1, OneDiskChanges
  <2> QED
    BY <1>9, <2>2, <2>3, <2>4 DEF AdoptServer
<1>10. ASSUME NEW d \in Device, UploadFirst(d)
      PROVE  StoragesAreGood'
  BY <1>10, <1>a DEF UploadFirst
<1>11. ASSUME NEW d \in Device, UploadChange(d)
      PROVE  StoragesAreGood'
  BY <1>11, <1>a DEF UploadChange
<1>12. ASSUME NEW d \in Device, PushDigested(d)
      PROVE  StoragesAreGood'
  BY <1>12, <1>a DEF PushDigested
<1>13. ASSUME NEW d \in Device, NEW s \in Slot, ServerReplaces(d, s)
      PROVE  StoragesAreGood'
  BY <1>13, <1>a DEF ServerReplaces
<1>14. ASSUME NEW d \in Device, NEW s \in Slot, Accepted(d, s)
      PROVE  StoragesAreGood'
  BY <1>14, <1>a DEF Accepted
<1>15. ASSUME NEW d \in Device, NEW s \in Slot, Refused(d, s)
      PROVE  StoragesAreGood'
  BY <1>15, <1>a DEF Refused
<1>16. ASSUME NEW d \in Device, NEW s \in Slot, Seal(d, s)
      PROVE  StoragesAreGood'
  <2> DEFINE x == flow[d][s].remote
  <2>1. x \in Snapshot /\ IsTrue(history, x) /\ x.content \in Contents
    BY <1>16, HeldSnapshot DEF Seal, At, Busy, Holding
  <2>2. x.content = flow[d][s].entries
    BY <1>16 DEF Seal, At, Busy, FlowsAreGood, FlowIsGood
  <2>3. /\ \A e \in Device \ {d} : disk'[e] = disk[e]
        /\ disk'[d].known = Metadata(x.content, x)
    BY <1>16, <2>2 DEF Seal, Sealed, Storage
  <2> HIDE DEF x
  <2> QED
    BY <2>1, <2>3, MetadataIsSnapshot, MetadataType, OneDiskChanges
<1>17. ASSUME NEW d \in Device, NEW s \in Slot, PoisonedFlowEnds(d, s)
      PROVE  StoragesAreGood'
  BY <1>17, <1>a DEF PoisonedFlowEnds
<1>18. ASSUME NEW d \in Device, Edit(d)
      PROVE  StoragesAreGood'
  <2>1. (\A e \in Device \ {d} : disk'[e] = disk[e]) /\ disk'[d].known = disk[d].known
    BY <1>18 DEF Edit, Storage
  <2> QED
    BY <2>1, OneDiskChanges
<1>19. ASSUME NEW d \in Device, Reload(d)
      PROVE  StoragesAreGood'
  BY <1>19, <1>a DEF Reload
<1>20. ASSUME NEW d \in Device, Retry(d)
      PROVE  StoragesAreGood'
  BY <1>20, <1>a DEF Retry, Reconcile
<1>21. ASSUME NEW d \in Device, ResolveWithServer(d)
      PROVE  StoragesAreGood'
  BY <1>21, <1>a DEF ResolveWithServer
<1>22. ASSUME NEW d \in Device, ResolveWithDevice(d)
      PROVE  StoragesAreGood'
  <2>1. (\A e \in Device \ {d} : disk'[e] = disk[e]) /\ disk'[d].known = disk[d].known
    BY <1>22 DEF ResolveWithDevice, Storage
  <2> QED
    BY <2>1, OneDiskChanges
<1>23. ASSUME NEW d \in Device, ReadFails(d)
      PROVE  StoragesAreGood'
  BY <1>23, <1>a DEF ReadFails
<1>24. ASSUME NEW d \in Device, ServiceAbsent(d)
      PROVE  StoragesAreGood'
  BY <1>24, <1>a DEF ServiceAbsent
<1>25. ASSUME NEW d \in Device, NEW s \in Slot, UploadFails(d, s)
      PROVE  StoragesAreGood'
  BY <1>25, <1>a DEF UploadFails
<1>26. CASE UNCHANGED vars
  BY <1>26, <1>a DEF vars
<1> QED
  BY <1>1, <1>2, <1>3, <1>4, <1>5, <1>6, <1>7, <1>8, <1>9, <1>10, <1>11, <1>12, <1>13, 
     <1>14, <1>15, <1>16, <1>17, <1>18, <1>19, <1>20, <1>21, <1>22, <1>23, <1>24, 
     <1>25, <1>26
     DEF Next, ServerStep, PageStep, ReconcileStep, UploadStep, UserStep, FailureStep

\* The requests left behind were good flows.
LEMMA LateKept ==
    ASSUME SyncInv, TypeOK', [Next]_vars, late' \subseteq late PROVE LateAreGood'
<1>1. \A r \in late : r.device \in Device
  BY DEF SyncInv, TypeOK, Request
<1> QED
  BY <1>1, LeftAlone DEF SyncInv, LateAreGood

LEMMA LateOrphans ==
    ASSUME SyncInv, TypeOK', [Next]_vars, NEW d \in Device, NEW S \in SUBSET Slot, Orphan(d, S)
    PROVE  LateAreGood'
<1>1. \A r \in late : r.device \in Device
  BY DEF SyncInv, TypeOK, Request
<1> SUFFICES ASSUME NEW r \in late' PROVE r.expected \in trace'[r.device].seen \union {0}
  BY DEF LateAreGood
<1>2. CASE r \in late
  BY <1>1, <1>2, LeftAlone DEF SyncInv, LateAreGood
<1>3. CASE r \notin late
  <2>1. PICK t \in S : At(d, t, "put") /\ r = [device |-> d, entries |-> flow[d][t].entries,
                                              expected |-> flow[d][t].expected]
    BY <1>3 DEF Orphan
  <2>2. flow[d][t].expected \in trace[d].seen \union {0}
    BY <2>1 DEF SyncInv, FlowsAreGood, FlowIsGood, At, Busy
  <2>3. r.device = d /\ r.expected = flow[d][t].expected
    BY <2>1
  <2> QED
    BY <2>2, <2>3, LeftAlone
<1> QED
  BY <1>2, <1>3

LEMMA LateStep == ASSUME SyncInv, TypeOK', [Next]_vars PROVE LateAreGood'
<1>1. CASE ServerReplacesLate
  BY <1>1, LateKept DEF ServerReplacesLate
<1>2. ASSUME NEW d \in Device, ServerReads(d)
      PROVE  LateAreGood'
  BY <1>2, LateKept DEF ServerReads
<1>3. ASSUME NEW d \in Device, PushStart(d)
      PROVE  LateAreGood'
  BY <1>3, LateKept DEF PushStart
<1>4. ASSUME NEW d \in Device, Initialize(d)
      PROVE  LateAreGood'
  BY <1>4, LateKept DEF Initialize, Reconcile
<1>5. ASSUME NEW d \in Device, CaptureForReconcile(d)
      PROVE  LateAreGood'
  BY <1>5, LateKept DEF CaptureForReconcile
<1>6. ASSUME NEW d \in Device, Converge(d)
      PROVE  LateAreGood'
  BY <1>6, LateKept DEF Converge
<1>7. ASSUME NEW d \in Device, Diverge(d)
      PROVE  LateAreGood'
  BY <1>7, LateKept DEF Diverge
<1>8. ASSUME NEW d \in Device, HydrateAutomatically(d)
      PROVE  LateAreGood'
  BY <1>8, LateKept DEF HydrateAutomatically
<1>9. ASSUME NEW d \in Device, AdoptServer(d)
      PROVE  LateAreGood'
  BY <1>9, LateKept, LateOrphans DEF AdoptServer, PageEnds
<1>10. ASSUME NEW d \in Device, UploadFirst(d)
      PROVE  LateAreGood'
  BY <1>10, LateKept DEF UploadFirst
<1>11. ASSUME NEW d \in Device, UploadChange(d)
      PROVE  LateAreGood'
  BY <1>11, LateKept DEF UploadChange
<1>12. ASSUME NEW d \in Device, PushDigested(d)
      PROVE  LateAreGood'
  BY <1>12, LateKept DEF PushDigested
<1>13. ASSUME NEW d \in Device, NEW s \in Slot, ServerReplaces(d, s)
      PROVE  LateAreGood'
  BY <1>13, LateKept DEF ServerReplaces
<1>14. ASSUME NEW d \in Device, NEW s \in Slot, Accepted(d, s)
      PROVE  LateAreGood'
  BY <1>14, LateKept DEF Accepted
<1>15. ASSUME NEW d \in Device, NEW s \in Slot, Refused(d, s)
      PROVE  LateAreGood'
  BY <1>15, LateKept DEF Refused
<1>16. ASSUME NEW d \in Device, NEW s \in Slot, Seal(d, s)
      PROVE  LateAreGood'
  BY <1>16, LateKept, LateOrphans DEF Seal, PageEnds
<1>17. ASSUME NEW d \in Device, NEW s \in Slot, PoisonedFlowEnds(d, s)
      PROVE  LateAreGood'
  BY <1>17, LateOrphans DEF PoisonedFlowEnds
<1>18. ASSUME NEW d \in Device, Edit(d)
      PROVE  LateAreGood'
  BY <1>18, LateKept DEF Edit
<1>19. ASSUME NEW d \in Device, Reload(d)
      PROVE  LateAreGood'
  BY <1>19, LateOrphans DEF Reload, PageEnds
<1>20. ASSUME NEW d \in Device, Retry(d)
      PROVE  LateAreGood'
  BY <1>20, LateKept DEF Retry, Reconcile
<1>21. ASSUME NEW d \in Device, ResolveWithServer(d)
      PROVE  LateAreGood'
  BY <1>21, LateKept DEF ResolveWithServer
<1>22. ASSUME NEW d \in Device, ResolveWithDevice(d)
      PROVE  LateAreGood'
  BY <1>22, LateKept DEF ResolveWithDevice
<1>23. ASSUME NEW d \in Device, ReadFails(d)
      PROVE  LateAreGood'
  BY <1>23, LateKept DEF ReadFails
<1>24. ASSUME NEW d \in Device, ServiceAbsent(d)
      PROVE  LateAreGood'
  BY <1>24, LateKept DEF ServiceAbsent
<1>25. ASSUME NEW d \in Device, NEW s \in Slot, UploadFails(d, s)
      PROVE  LateAreGood'
  BY <1>25, LateOrphans DEF UploadFails
<1>26. CASE UNCHANGED vars
  BY <1>26, LateKept DEF vars
<1> QED
  BY <1>1, <1>2, <1>3, <1>4, <1>5, <1>6, <1>7, <1>8, <1>9, <1>10, <1>11, <1>12, <1>13, 
     <1>14, <1>15, <1>16, <1>17, <1>18, <1>19, <1>20, <1>21, <1>22, <1>23, <1>24, 
     <1>25, <1>26
     DEF Next, ServerStep, PageStep, ReconcileStep, UploadStep, UserStep, FailureStep

LEMMA ShownStep == ASSUME SyncInv, [Next]_vars PROVE ShownExists'
<1>1. /\ SharedStep /\ ShownExists /\ history \in Seq(Contents)
  BY EveryStepIsShared DEF SyncInv, TypeOK
<1>2. CASE SameShown
  BY <1>1, <1>2 DEF SameShown, ShownExists
<1>3. CASE ShowsOne
  BY <1>1, <1>3 DEF ShowsOne, ShownExists
<1>4. CASE ReplacesSeen
  <2>1. PICK c \in Contents : history' = Append(history, c)
    BY <1>4 DEF ReplacesSeen
  <2>2. Len(history) \in Nat /\ Len(history') = Len(history) + 1
    BY <1>1, <2>1
  <2>3. 0..Len(history) \subseteq 0..Len(history')
    BY <2>2
  <2> QED
    BY <1>1, <1>4, <2>3 DEF ReplacesSeen, ShownExists
<1> QED
  BY <1>1, <1>2, <1>3, <1>4 DEF SharedStep

-----------------------------------------------------------------------------
LEMMA InvariantStarts == Init => SyncInv
<1> SUFFICES ASSUME Init PROVE SyncInv
  OBVIOUS
<1>1. TypeOK
  <2>1. /\ history \in Seq(Contents) /\ late \subseteq Request /\ written \subseteq Content
        /\ faults \in 0..MaxFaults
    BY StateSyncAssumption DEF Init
  <2>2. disk \in [Device -> Storage]
    BY DEF Init, Storage, Contents
  <2>3. client \in [Device -> Page]
    BY DEF Init, NewPage, Page, Status
  <2>4. flow \in [Device -> [Slot -> Waiting \union {None}]]
    BY DEF Init, NoFlow
  <2>5. trace \in [Device -> [seen : SUBSET Nat, settled : SUBSET Nat, overlapped : BOOLEAN]]
    BY DEF Init
  <2> QED
    BY <2>1, <2>2, <2>3, <2>4, <2>5 DEF TypeOK
<1>2. ShownExists
  BY DEF Init, ShownExists
<1>3. FlowsAreGood
  BY DEF Init, NoFlow, FlowsAreGood, FlowIsGood
<1>4. PagesAreGood
  BY DEF Init, NewPage, PagesAreGood, PageIsGood
<1>5. StoragesAreGood
  BY DEF Init, StoragesAreGood, StorageIsGood
<1>6. LateAreGood
  BY DEF Init, LateAreGood
<1> QED
  BY <1>1, <1>2, <1>3, <1>4, <1>5, <1>6 DEF SyncInv

\* The invariant holds in every reachable state: whatever requests are lost or
\* late and whichever flows overlap, flows, pages and metadata name snapshots
\* that the service has accepted.
THEOREM SyncAlways == Spec => []SyncInv
<1>1. SyncInv /\ [Next]_vars => SyncInv'
  <2> SUFFICES ASSUME SyncInv, [Next]_vars PROVE SyncInv'
    OBVIOUS
  <2>1. TypeOK'
    BY TypeStep DEF SyncInv
  <2> QED
    BY <2>1, ShownStep, FlowStep, PagesStep, StorageStep, LateStep DEF SyncInv
<1> QED
  BY <1>1, InvariantStarts, PTL DEF Spec

\* Every variable of the service and its clients keeps its type.
THEOREM SyncTypes == Spec => []TypeOK
<1>1. SyncInv => TypeOK
  BY DEF SyncInv
<1> QED
  BY <1>1, SyncAlways, PTL

\* The metadata in Web Storage, on which reconcile() decides which side to
\* overwrite, never misstates what the service accepted.
THEOREM MetadataStaysTrue == Spec => []MetadataIsTrue
<1>1. SyncInv => MetadataIsTrue
  BY DEF SyncInv, StoragesAreGood, StorageIsGood, IsTrue, Stored, MetadataIsTrue
<1> QED
  BY <1>1, SyncAlways, PTL

\* StateStore.replace() and the clients implement one line of snapshots that
\* only a device that has seen the last one can extend.
THEOREM NobodyReplacesBlindly == Spec => NoBlindReplacement
<1> DEFINE shown == [d \in Device |-> trace[d].seen]
<1>1. Init => Shared!Init
  BY DEF Init, Shared!Init
<1>2. SyncInv /\ [Next]_vars => [Shared!Next]_(Shared!vars)
  <2> SUFFICES ASSUME SyncInv, [Next]_vars PROVE Shared!Next \/ UNCHANGED Shared!vars
    OBVIOUS
  <2>1. SharedStep
    BY EveryStepIsShared
  <2>2. CASE SameShown
    BY <2>2 DEF SameShown, Shared!vars
  <2>3. CASE ShowsOne
    <3>1. PICK d \in Device, r \in 0..Len(history) :
             \A e \in Device :
                trace'[e].seen = IF e = d THEN trace[e].seen \union {r} ELSE trace[e].seen
      BY <2>3 DEF ShowsOne
    <3>2. shown' = [shown EXCEPT ![d] = @ \union {r}]
      BY <3>1
    <3>3. Shared!Read(d)
      BY <2>3, <3>1, <3>2 DEF ShowsOne, Shared!Read
    <3> QED
      BY <3>3 DEF Shared!Next
  <2>4. CASE ReplacesSeen
    <3>1. PICK d \in Device : Len(history) \in trace[d].seen \union {0}
      BY <2>4 DEF ReplacesSeen
    <3>2. shown' = shown
      BY <2>4 DEF ReplacesSeen
    <3>3. Shared!Replace(d)
      BY <2>4, <3>1, <3>2 DEF ReplacesSeen, Shared!Replace
    <3> QED
      BY <3>3 DEF Shared!Next
  <2> QED
    BY <2>1, <2>2, <2>3, <2>4 DEF SharedStep
<1> QED
  BY <1>1, <1>2, SyncAlways, PTL DEF Spec, NoBlindReplacement, Shared!Spec
-----------------------------------------------------------------------------
(* A device whose two flows have not run into each other.                  *)

\* A command is alone in its page.
Alone(page, push, command) ==
    command # None => push = None /\ page.queued = 0

\* What the page shows while a flow is under way.
Presented(page, push, command) ==
    /\ command # None =>
          page.status = IF command.stage = "adopt" THEN "conflict" ELSE "syncing"
    /\ push # None =>
          page.status = "syncing" \/ (page.status = "synced" /\ push.stage = "digest")

\* A flow works with what is on the device, unless another push is to follow.
Captured(storage, page, push, command) ==
    /\ command # None /\ command.stage \notin {"get", "got"} =>
          command.entries = storage.content
    /\ command # None /\ command.stage = "adopt" => command.metadata = storage.known
    /\ push # None => page.queued > 0 \/ push.entries = storage.content

Saved(storage, page, push) ==
    page.status = "synced" /\ page.queued = 0 /\ push = None =>
       storage.known # None /\ storage.known.content = storage.content

\* A conflict is shown with the snapshot it is with.
Opposed(page) ==
    page.status = "conflict" =>
       page.conflict # None /\ page.revision = page.conflict.revision

\* The device has held the revision a push would replace.
Held(page, marks) ==
    page.status \notin {"conflict", "poisoned"} /\ page.revision # None =>
       page.revision \in marks.settled

\* The page and its metadata name the same revision ...
Current(storage, page) ==
    page.revision = None \/ (storage.known # None /\ page.revision = storage.known.revision)

\* ... or the page has been told of a later one, ...
Behind(storage, page) ==
    /\ page.revision # None /\ page.revision > 0
    /\ storage.known # None => storage.known.revision < page.revision

\* ... until a decision is made or the state is read again.
Undecided(page, command) ==
    \/ page.status \in {"conflict", "offline", "poisoned"}
    \/ /\ command # None
       /\ command.kind = "resolve" \/ command.stage \in {"get", "got", "compare"}

Versioned(storage, page, command) ==
    Current(storage, page) \/ (Behind(storage, page) /\ Undecided(page, command))

\* What a reconcile has read is not older than what the device knows of.
Newest(storage, page, command) ==
    command # None /\ command.stage \in {"got", "compare"} =>
       /\ storage.known # None => storage.known.revision <= command.remote.revision
       /\ page.revision # None => page.revision <= command.remote.revision

\* A request replaces a revision the device has held or was told to replace,
\* with something else than what it holds, and the metadata is not ahead of it.
Expects(h, storage, marks, f) ==
    f # None =>
       /\ f.stage = "put" => /\ f.expected \in marks.settled
                             /\ f.kind # "resolve" => f.entries # Stored(h, f.expected)
       /\ f.stage \in {"put", "refused"} /\ storage.known # None =>
             storage.known.revision <= f.expected
       /\ f.stage = "refused" => f.expected < f.remote.revision

\* All of this, for a device with this storage, page, push, command and marks.
IsApart(h, storage, page, push, command, marks) ==
    /\ Alone(page, push, command)
    /\ Presented(page, push, command)
    /\ Captured(storage, page, push, command)
    /\ Saved(storage, page, push)
    /\ Opposed(page)
    /\ Held(page, marks)
    /\ Versioned(storage, page, command)
    /\ Newest(storage, page, command)
    /\ Expects(h, storage, marks, push)
    /\ Expects(h, storage, marks, command)

\* This holds of every device: the metadata is of a revision the device has
\* held, and only a page that has started its application queues pushes.
IsKept(storage, page, marks) ==
    /\ 0 \in marks.settled
    /\ storage.known # None => storage.known.revision \in marks.settled
    /\ page.queued > 0 => page.initialized

DeviceIsApart(d) ==
    IsApart(history, disk[d], client[d], flow[d]["push"], flow[d]["command"], trace[d])

DevicesKept == \A d \in Device : IsKept(disk[d], client[d], trace[d])
DevicesApart == \A d \in Device : ~trace[d].overlapped => DeviceIsApart(d)
LateSettled == \A r \in late : trace[r.device].overlapped \/ r.expected \in trace[r.device].settled

\* The metadata a command may restore is of a revision the device has held.
MetadataSettled ==
    \A d \in Device :
       LET f == flow[d]["command"] IN
       f # None => f.metadata = None \/ f.metadata.revision \in trace[d].settled

\* The inductive invariant, on top of SyncInv and MetadataSettled.
ApartInv == DevicesKept /\ DevicesApart /\ LateSettled

\* A step of one device: what becomes of the others, of its marks and of the
\* requests that are still on their way.
OthersStay(d) ==
    \A e \in Device \ {d} : /\ disk'[e] = disk[e] /\ client'[e] = client[e]
                            /\ flow'[e] = flow[e] /\ trace'[e] = trace[e]

MarksGrow(d) ==
    /\ trace[d].overlapped => trace'[d].overlapped
    /\ trace[d].settled \subseteq trace'[d].settled

LeavesBehind(d) ==
    \A r \in late' \ late :
       r.device = d /\ \E s \in Slot : At(d, s, "put") /\ r.expected = flow[d][s].expected

\* The state of one device has its type.
LEMMA DeviceType ==
    ASSUME TypeOK, NEW d \in Device
    PROVE  /\ disk[d] \in Storage /\ client[d] \in Page /\ trace[d] \in Marks
           /\ flow[d]["push"] \in Waiting \union {None}
           /\ flow[d]["command"] \in Waiting \union {None}
           /\ flow[d] \in [Slot -> Waiting \union {None}]
BY DEF TypeOK, Marks, Slot

\* A growing history keeps a device apart.
LEMMA StaysApart ==
    ASSUME SyncInv, TypeOK', [Next]_vars, NEW d \in Device, DeviceIsApart(d),
           disk'[d] = disk[d], client'[d] = client[d], flow'[d] = flow[d], trace'[d] = trace[d]
    PROVE  DeviceIsApart(d)'
<1>1. Grows(history, history') /\ history \in Seq(Contents) /\ TypeOK
  BY HistoryGrows DEF SyncInv, TypeOK
<1> SUFFICES ASSUME NEW f \in Waiting \union {None}, FlowIsGood(history, trace[d].seen, f),
                    Expects(history, disk[d], trace[d], f)
             PROVE  Expects(history', disk[d], trace[d], f)
  BY DEF DeviceIsApart, IsApart, SyncInv, FlowsAreGood, TypeOK, Slot
<1>2. CASE f = None \/ f.stage # "put"
  BY <1>2 DEF Expects
<1>3. CASE f # None /\ f.stage = "put"
  <2>1. f.expected \in 0..Len(history)
    BY <1>1, <1>3 DEF FlowIsGood, SyncInv, ShownExists
  <2>2. Stored(history', f.expected) = Stored(history, f.expected)
    BY <1>1, <2>1 DEF Grows, Stored
  <2> QED
    BY <1>3, <2>2 DEF Expects
<1> QED
  BY <1>2, <1>3

\* What a step of one device has to keep.
LEMMA OneDeviceMoves ==
    ASSUME SyncInv, ApartInv, TypeOK', [Next]_vars, NEW d \in Device,
           OthersStay(d), MarksGrow(d), LeavesBehind(d),
           IsKept(disk'[d], client'[d], trace'[d]),
           ~trace'[d].overlapped => DeviceIsApart(d)'
    PROVE  ApartInv'
<1>1. DevicesKept'
  BY DEF OthersStay, ApartInv, DevicesKept
<1>2. DevicesApart'
  BY StaysApart DEF OthersStay, ApartInv, DevicesApart
<1>3. LateSettled'
  <2> SUFFICES ASSUME NEW r \in late'
               PROVE  trace'[r.device].overlapped \/ r.expected \in trace'[r.device].settled
    BY DEF LateSettled
  <2>1. CASE r \in late
    <3>1. r.device \in Device
      BY <2>1 DEF SyncInv, TypeOK, Request
    <3> QED
      BY <2>1, <3>1 DEF ApartInv, LateSettled, OthersStay, MarksGrow
  <2>2. CASE r \notin late
    <3>1. PICK s \in Slot : At(d, s, "put") /\ r.expected = flow[d][s].expected
      BY <2>2 DEF LeavesBehind
    <3>2. CASE trace[d].overlapped
      BY <2>2, <3>2 DEF LeavesBehind, MarksGrow
    <3>3. CASE ~trace[d].overlapped
      <4>1. DeviceIsApart(d)
        BY <3>3 DEF ApartInv, DevicesApart
      <4>2. r.expected \in trace[d].settled
        BY <3>1, <4>1 DEF DeviceIsApart, IsApart, Expects, At, Busy, Slot
      <4> QED
        BY <2>2, <4>2 DEF LeavesBehind, MarksGrow
    <3> QED
      BY <3>2, <3>3
  <2> QED
    BY <2>1, <2>2
<1> QED
  BY <1>1, <1>2, <1>3 DEF ApartInv

\* What the parts of a step do to the state of its device.
LEMMA FlowFields ==
    ASSUME TypeOK, NEW d \in Device, NEW s \in Slot, NEW f, flow' = [flow EXCEPT ![d][s] = f]
    PROVE  /\ \A e \in Device \ {d} : flow'[e] = flow[e]
           /\ flow'[d][s] = f
           /\ \A t \in Slot \ {s} : flow'[d][t] = flow[d][t]
BY DEF TypeOK

LEMMA EndFields ==
    ASSUME TypeOK, NEW d \in Device, NEW s \in Slot, End(d, s)
    PROVE  /\ \A e \in Device \ {d} : flow'[e] = flow[e]
           /\ flow'[d][s] = None
           /\ \A t \in Slot \ {s} : flow'[d][t] = flow[d][t]
BY FlowFields DEF End, SetFlow

LEMMA StartFields ==
    ASSUME NEW stage \in Stage, NEW kind \in Kind, NEW entries \in Contents,
           NEW remote \in Snapshot \union {None}, NEW expected \in Nat
    PROVE  LET f == Start(stage, kind, entries, remote, expected) IN
           /\ f # None /\ f.stage = stage /\ f.kind = kind /\ f.entries = entries
           /\ f.remote = remote /\ f.expected = expected
BY StartType, NoneIsNoFlow DEF Start

LEMMA OverlapFields ==
    ASSUME TypeOK, NEW d \in Device, NEW s \in Slot, Overlap(d, s)
    PROVE  /\ \A e \in Device \ {d} : trace'[e] = trace[e]
           /\ MarksGrow(d) /\ trace'[d].settled = trace[d].settled
           /\ ~trace'[d].overlapped =>
                 ~trace[d].overlapped /\ \A t \in Slot \ {s} : ~Busy(d, t)
<1>1. trace[d] \in Marks
  BY DeviceType
<1> DEFINE both == trace[d].overlapped \/ \E t \in Slot \ {s} : Busy(d, t)
<1>2. trace' = [trace EXCEPT ![d].overlapped = both]
  BY DEF Overlap
<1>3. /\ \A e \in Device \ {d} : trace'[e] = trace[e]
      /\ trace'[d].settled = trace[d].settled /\ trace'[d].overlapped = both
  <2> HIDE DEF both
  <2> QED
    BY <1>1, <1>2 DEF TypeOK, Marks
<1> QED
  BY <1>3 DEF MarksGrow

LEMMA SettleFields ==
    ASSUME TypeOK, NEW d \in Device, NEW r \in Nat, Settle(d, r)
    PROVE  /\ \A e \in Device \ {d} : trace'[e] = trace[e]
           /\ MarksGrow(d) /\ trace'[d].settled = trace[d].settled \union {r}
           /\ trace'[d].overlapped = trace[d].overlapped
<1>1. trace[d] \in Marks
  BY DeviceType
<1> QED
  BY <1>1 DEF TypeOK, Marks, Settle, MarksGrow

LEMMA SeeFields ==
    ASSUME TypeOK, NEW d \in Device, NEW r \in Nat, See(d, r)
    PROVE  /\ \A e \in Device \ {d} : trace'[e] = trace[e]
           /\ MarksGrow(d) /\ trace'[d].settled = trace[d].settled
           /\ trace'[d].overlapped = trace[d].overlapped
<1>1. trace[d] \in Marks
  BY DeviceType
<1> QED
  BY <1>1 DEF TypeOK, Marks, See, MarksGrow

LEMMA SyncedFields ==
    ASSUME TypeOK, NEW d \in Device, NEW s, NEW x, NEW conflict, Synced(d, s, x, conflict)
    PROVE  /\ \A e \in Device \ {d} : client'[e] = client[e]
           /\ client'[d].status = "synced" /\ client'[d].revision = x.revision
           /\ client'[d].conflict = conflict /\ client'[d].queued = client[d].queued
           /\ client'[d].initialized = Ready(d, s)
<1>1. client[d] \in Page
  BY DeviceType
<1> QED
  BY <1>1 DEF TypeOK, Page, Synced

LEMMA StatusFields ==
    ASSUME TypeOK, NEW d \in Device, NEW status,
           client' = [client EXCEPT ![d].status = status]
    PROVE  /\ \A e \in Device \ {d} : client'[e] = client[e]
           /\ client'[d].status = status /\ client'[d].revision = client[d].revision
           /\ client'[d].conflict = client[d].conflict /\ client'[d].queued = client[d].queued
           /\ client'[d].initialized = client[d].initialized
<1>1. client[d] \in Page
  BY DeviceType
<1> QED
  BY <1>1 DEF TypeOK, Page

LEMMA ShowFields ==
    ASSUME TypeOK, NEW d \in Device, NEW s, NEW status, Show(d, s, status)
    PROVE  /\ \A e \in Device \ {d} : client'[e] = client[e]
           /\ client'[d].status = status /\ client'[d].revision = client[d].revision
           /\ client'[d].conflict = client[d].conflict /\ client'[d].queued = client[d].queued
           /\ client'[d].initialized = Ready(d, s)
<1>1. client[d] \in Page
  BY DeviceType
<1> QED
  BY <1>1 DEF TypeOK, Page, Show

LEMMA KnownFields ==
    ASSUME TypeOK, NEW d \in Device, NEW known, disk' = [disk EXCEPT ![d].known = known]
    PROVE  /\ \A e \in Device \ {d} : disk'[e] = disk[e]
           /\ disk'[d].known = known /\ disk'[d].content = disk[d].content
           /\ disk'[d].backups = disk[d].backups
<1>1. disk[d] \in Storage
  BY DeviceType
<1> QED
  BY <1>1 DEF TypeOK, Storage

LEMMA OrphanFields ==
    ASSUME NEW d \in Device, NEW S \in SUBSET Slot, Orphan(d, S) PROVE LeavesBehind(d)
BY DEF Orphan, LeavesBehind

\* A page that ends is apart again, and has kept what it must.
LEMMA PageEndsFields ==
    ASSUME TypeOK, NEW d \in Device, PageEnds(d)
    PROVE  /\ \A e \in Device \ {d} : client'[e] = client[e] /\ flow'[e] = flow[e]
           /\ client'[d] = NewPage /\ flow'[d] = NoFlow /\ LeavesBehind(d)
BY OrphanFields DEF PageEnds, TypeOK

LEMMA NewPageIsApart ==
    ASSUME NEW h, NEW storage, NEW marks
    PROVE  IsApart(h, storage, NewPage, NoFlow["push"], NoFlow["command"], marks)
<1>1. NoFlow["push"] = None /\ NoFlow["command"] = None
  BY DEF NoFlow, Slot
<1>2. /\ NewPage.status = "initializing" /\ NewPage.revision = None
      /\ NewPage.queued = 0
  BY DEF NewPage
<1> QED
  BY <1>1, <1>2 DEF IsApart, Alone, Presented, Captured, Saved, Opposed, Held,
                    Versioned, Current, Newest, Expects

\* What the invariants say of one device.
LEMMA DeviceFacts ==
    ASSUME SyncInv, ApartInv, NEW d \in Device
    PROVE  /\ TypeOK /\ None \notin Nat
           /\ client[d].queued \in Nat /\ client[d].revision \in Nat \union {None}
           /\ client[d].conflict \in Snapshot \union {None}
           /\ disk[d].known \in Snapshot \union {None}
           /\ client[d].revision # None => client[d].revision <= Len(history)
           /\ disk[d].known # None => /\ disk[d].known.revision \in Nat
                                      /\ disk[d].known.revision <= Len(history)
                                      /\ disk[d].known.content
                                            = Stored(history, disk[d].known.revision)
           /\ Len(history) \in Nat
           /\ IsKept(disk[d], client[d], trace[d])
           /\ ~trace[d].overlapped => DeviceIsApart(d)
<1>1. /\ TypeOK /\ client[d] \in Page /\ disk[d] \in Storage /\ None \notin Nat
      /\ history \in Seq(Contents)
  BY DeviceType, StateSyncAssumption DEF SyncInv, TypeOK
<1>2. client[d].revision # None => client[d].revision <= Len(history)
  BY <1>1 DEF SyncInv, PagesAreGood, PageIsGood, ShownExists, Page
<1>3. disk[d].known # None => /\ disk[d].known.revision \in Nat
                              /\ disk[d].known.revision <= Len(history)
                              /\ disk[d].known.content = Stored(history, disk[d].known.revision)
  BY <1>1 DEF SyncInv, StoragesAreGood, StorageIsGood, IsTrue, Storage, Snapshot
<1> QED
  BY <1>1, <1>2, <1>3 DEF Page, Storage, ApartInv, DevicesKept, DevicesApart

\* And of a flow that holds a snapshot.
LEMMA HeldFacts ==
    ASSUME SyncInv, NEW d \in Device, NEW s \in Slot, Busy(d, s), flow[d][s].stage \in Holding
    PROVE  /\ flow[d][s].remote # None /\ flow[d][s].remote.revision \in Nat
           /\ flow[d][s].remote.content = Stored(history, flow[d][s].remote.revision)
           /\ flow[d][s].remote.revision <= Len(history)
BY HeldSnapshot, SnapshotIsSome DEF SyncInv, IsTrue

LEMMA FlowsType == SyncInv => flow \in Flows
BY DEF SyncInv, TypeOK, Flows

-----------------------------------------------------------------------------
(* Each step keeps the invariant.                                          *)

LEMMA ServerReadsApart ==
    ASSUME SyncInv, ApartInv, TypeOK', [Next]_vars, NEW d \in Device, ServerReads(d)
    PROVE  ApartInv'
<1> DEFINE m == flow[d]["command"]
           f == [m EXCEPT !.stage = "got", !.remote = Latest]
<1>1. /\ m # None /\ m.stage = "get" /\ m \in Waiting
      /\ UNCHANGED <<history, late, disk, client, trace>>
  BY DeviceFacts, AtType DEF ServerReads, At, Busy, Slot
<1>2. f # None /\ f.stage = "got" /\ f.remote.revision = Len(history)
  BY <1>1, DeviceFacts, LatestType, NoneIsNoFlow DEF Waiting, Stage, Latest, TypeOK
<1>3. flow' = [flow EXCEPT ![d]["command"] = f]
  BY <1>1, FlowsType DEF ServerReads, Flows
<1> HIDE DEF f
<1>4. /\ \A e \in Device \ {d} : flow'[e] = flow[e]
      /\ flow'[d]["push"] = flow[d]["push"] /\ flow'[d]["command"] = f
  BY <1>3, DeviceFacts, FlowFields DEF Slot
<1>5. OthersStay(d) /\ MarksGrow(d) /\ LeavesBehind(d)
  BY <1>1, <1>4 DEF OthersStay, MarksGrow, LeavesBehind
<1>6. IsKept(disk'[d], client'[d], trace'[d])
  BY <1>1, DeviceFacts
<1>7. ASSUME ~trace'[d].overlapped PROVE DeviceIsApart(d)'
  BY <1>1, <1>2, <1>4, <1>7, DeviceFacts
     DEF DeviceIsApart, IsApart, Alone, Presented, Captured, Versioned, Undecided, Newest, Expects
<1> QED
  BY <1>5, <1>6, <1>7, OneDeviceMoves

LEMMA ServerReplacesApart ==
    ASSUME SyncInv, ApartInv, TypeOK', [Next]_vars, NEW d \in Device, NEW s \in Slot,
           ServerReplaces(d, s)
    PROVE  ApartInv'
<1> DEFINE m == flow[d][s]
           x == [revision |-> m.expected + 1, content |-> m.entries]
           a == [m EXCEPT !.stage = "accepted", !.remote = x]
           b == [m EXCEPT !.stage = "refused", !.remote = Latest]
<1>1. /\ m # None /\ m.stage = "put" /\ m \in Waiting /\ m.expected \in Nat
      /\ UNCHANGED <<late, disk, client, trace>>
  BY DeviceFacts, AtType DEF ServerReplaces, At, Busy
<1>2. m.expected <= Len(history)
  BY <1>1, DeviceFacts DEF SyncInv, FlowsAreGood, FlowIsGood, ShownExists
<1>3. \/ flow' = [flow EXCEPT ![d][s] = a]
      \/ flow' = [flow EXCEPT ![d][s] = b] /\ m.expected # Len(history)
  BY DEF ServerReplaces, Accepts, SetFlow
<1>4. /\ a # None /\ a.entries = m.entries /\ a.kind = m.kind /\ a.expected = m.expected
      /\ a.stage = "accepted"
  <2>1. x \in Snapshot
    BY <1>1 DEF Waiting, Snapshot
  <2> HIDE DEF x
  <2> QED
    BY <1>1, <2>1, NoneIsNoFlow DEF Waiting, Stage
<1>5. /\ b # None /\ b.entries = m.entries /\ b.kind = m.kind /\ b.expected = m.expected
      /\ b.stage = "refused" /\ b.remote.revision = Len(history)
  <2>1. Latest \in Snapshot /\ Latest.revision = Len(history)
    BY LatestType DEF SyncInv, TypeOK
  <2> QED
    BY <1>1, <2>1, NoneIsNoFlow DEF Waiting, Stage
<1> HIDE DEF a, b
<1>6. PICK f : /\ flow' = [flow EXCEPT ![d][s] = f]
               /\ f # None /\ f.entries = m.entries /\ f.kind = m.kind
               /\ f.expected = m.expected
               /\ \/ f.stage = "accepted"
                  \/ f.stage = "refused" /\ m.expected < f.remote.revision
  <2>1. CASE flow' = [flow EXCEPT ![d][s] = a]
    BY <1>4, <2>1
  <2>2. CASE flow' = [flow EXCEPT ![d][s] = b] /\ m.expected # Len(history)
    <3>1. Len(history) \in Nat
      BY DeviceFacts
    <3>2. m.expected < Len(history)
      BY <1>1, <1>2, <2>2, <3>1
    <3> QED
      BY <1>5, <2>2, <3>2
  <2> QED
    BY <1>3, <2>1, <2>2
<1>7. /\ \A e \in Device \ {d} : flow'[e] = flow[e]
      /\ flow'[d][s] = f /\ \A t \in Slot \ {s} : flow'[d][t] = flow[d][t]
  BY <1>6, DeviceFacts, FlowFields
<1>8. OthersStay(d) /\ MarksGrow(d) /\ LeavesBehind(d)
  BY <1>1, <1>7 DEF OthersStay, MarksGrow, LeavesBehind
<1>9. IsKept(disk'[d], client'[d], trace'[d])
  BY <1>1, DeviceFacts
<1>10. ASSUME ~trace'[d].overlapped PROVE DeviceIsApart(d)'
  <2>1. DeviceIsApart(d)
    BY <1>1, <1>10, DeviceFacts
  <2>2. CASE s = "push"
    <3>1. flow'[d]["push"] = f /\ flow[d]["command"] = None /\ flow'[d]["command"] = None
      BY <1>1, <1>7, <2>1, <2>2 DEF DeviceIsApart, IsApart, Alone, Slot
    <3> QED
      BY <1>1, <1>6, <2>1, <2>2, <3>1
         DEF DeviceIsApart, IsApart, Alone, Presented, Captured, Saved, Versioned, Undecided,
             Newest, Expects
  <2>3. CASE s = "command"
    <3>1. flow'[d]["command"] = f /\ flow[d]["push"] = None /\ flow'[d]["push"] = None
      BY <1>1, <1>7, <2>1, <2>3 DEF DeviceIsApart, IsApart, Alone, Slot
    <3> QED
      BY <1>1, <1>6, <2>1, <2>3, <3>1
         DEF DeviceIsApart, IsApart, Alone, Presented, Captured, Saved, Versioned, Undecided,
             Newest, Expects
  <2> QED
    BY <2>2, <2>3 DEF Slot
<1> QED
  BY <1>8, <1>9, <1>10, OneDeviceMoves

LEMMA ServerReplacesLateApart ==
    ASSUME SyncInv, ApartInv, TypeOK', [Next]_vars, ServerReplacesLate
    PROVE  ApartInv'
<1>1. UNCHANGED <<disk, client, flow, trace>> /\ late' \subseteq late
  BY DEF ServerReplacesLate
<1>2. DevicesKept'
  BY <1>1 DEF ApartInv, DevicesKept
<1>3. DevicesApart'
  BY <1>1, StaysApart DEF ApartInv, DevicesApart
<1>4. LateSettled'
  BY <1>1 DEF ApartInv, LateSettled
<1> QED
  BY <1>2, <1>3, <1>4 DEF ApartInv

\* A reconcile begins when no push is under way or about to begin.
LEMMA ReconcileApart ==
    ASSUME SyncInv, ApartInv, TypeOK', [Next]_vars, NEW d \in Device, NEW kind \in Kind,
           client[d].status \notin {"conflict", "poisoned"}, ~Microtask(d), Reconcile(d, kind)
    PROVE  ApartInv'
<1> DEFINE f == Start("get", kind, Empty, None, 0)
<1>1. /\ flow[d]["command"] = None /\ UNCHANGED <<history, late, disk>>
      /\ flow' = [flow EXCEPT ![d]["command"] = f]
      /\ client' = [client EXCEPT ![d].status = "syncing"]
      /\ Overlap(d, "command")
  BY DEF Reconcile, Busy, SetFlow
<1>2. f # None /\ f.stage = "get"
  BY StartFields DEF Stage, Contents
<1> HIDE DEF f
<1>3. /\ \A e \in Device \ {d} : flow'[e] = flow[e]
      /\ flow'[d]["push"] = flow[d]["push"] /\ flow'[d]["command"] = f
  BY <1>1, DeviceFacts, FlowFields DEF Slot
<1>4. /\ \A e \in Device \ {d} : client'[e] = client[e]
      /\ client'[d].status = "syncing" /\ client'[d].revision = client[d].revision
      /\ client'[d].queued = client[d].queued /\ client'[d].initialized = client[d].initialized
  BY <1>1, DeviceFacts, StatusFields
<1>5. /\ \A e \in Device \ {d} : trace'[e] = trace[e]
      /\ MarksGrow(d) /\ trace'[d].settled = trace[d].settled
      /\ ~trace'[d].overlapped => ~trace[d].overlapped /\ flow[d]["push"] = None
  BY <1>1, DeviceFacts, OverlapFields DEF Slot, Busy
<1>6. OthersStay(d) /\ LeavesBehind(d)
  BY <1>1, <1>3, <1>4, <1>5 DEF OthersStay, LeavesBehind
<1>7. IsKept(disk'[d], client'[d], trace'[d])
  BY <1>1, <1>4, <1>5, DeviceFacts DEF IsKept
<1>8. ASSUME ~trace'[d].overlapped PROVE DeviceIsApart(d)'
  <2>1. flow[d]["push"] = None /\ client[d].queued = 0 /\ DeviceIsApart(d)
    BY <1>5, <1>8, DeviceFacts DEF Microtask, Busy
  <2> QED
    BY <1>1, <1>2, <1>3, <1>4, <1>5, <2>1
       DEF DeviceIsApart, IsApart, Alone, Presented, Captured, Saved, Opposed, Held,
           Versioned, Current, Behind, Undecided, Newest, Expects
<1> QED
  BY <1>5, <1>6, <1>7, <1>8, OneDeviceMoves

LEMMA CaptureApart ==
    ASSUME SyncInv, ApartInv, TypeOK', [Next]_vars, NEW d \in Device, CaptureForReconcile(d)
    PROVE  ApartInv'
<1> DEFINE m == flow[d]["command"]
           f == [m EXCEPT !.stage = "compare", !.entries = disk[d].content]
<1>1. /\ m # None /\ m.stage = "got" /\ m \in Waiting /\ m.remote.revision \in Nat
      /\ UNCHANGED <<history, late, disk, client>> /\ See(d, m.remote.revision)
  BY DeviceFacts, AtType, HeldFacts DEF CaptureForReconcile, At, Busy, Slot, Holding
<1>2. f # None /\ f.stage = "compare" /\ f.entries = disk[d].content /\ f.remote = m.remote
  BY <1>1, DeviceFacts, DeviceType, NoneIsNoFlow DEF Waiting, Stage, Storage
<1>3. flow' = [flow EXCEPT ![d]["command"] = f]
  BY <1>1, FlowsType DEF CaptureForReconcile, Flows
<1> HIDE DEF f
<1>4. /\ \A e \in Device \ {d} : flow'[e] = flow[e]
      /\ flow'[d]["push"] = flow[d]["push"] /\ flow'[d]["command"] = f
  BY <1>3, DeviceFacts, FlowFields DEF Slot
<1>5. /\ \A e \in Device \ {d} : trace'[e] = trace[e]
      /\ MarksGrow(d) /\ trace'[d].settled = trace[d].settled
      /\ trace'[d].overlapped = trace[d].overlapped
  BY <1>1, DeviceFacts, SeeFields
<1>6. OthersStay(d) /\ LeavesBehind(d)
  BY <1>1, <1>4, <1>5 DEF OthersStay, LeavesBehind
<1>7. IsKept(disk'[d], client'[d], trace'[d])
  BY <1>1, <1>5, DeviceFacts DEF IsKept
<1>8. ASSUME ~trace'[d].overlapped PROVE DeviceIsApart(d)'
  BY <1>1, <1>2, <1>4, <1>5, <1>8, DeviceFacts
     DEF DeviceIsApart, IsApart, Alone, Presented, Captured, Held, Versioned, Undecided,
         Newest, Expects
<1> QED
  BY <1>5, <1>6, <1>7, <1>8, OneDeviceMoves

\* What a reconcile decides on: the device's content, and a snapshot that is
\* not older than the metadata.
LEMMA ComparingFacts ==
    ASSUME SyncInv, ApartInv, NEW d \in Device, Comparing(d)
    PROVE  /\ flow[d]["command"] # None /\ flow[d]["command"].stage = "compare"
           /\ Remote(d) # None /\ Remote(d).revision \in Nat /\ Remote(d) \in Snapshot
           /\ Remote(d).content = Stored(history, Remote(d).revision)
           /\ Remote(d).revision <= Len(history)
           /\ Entries(d) \in Contents /\ flow[d]["command"].kind \in Kind
           /\ ~trace[d].overlapped =>
                 /\ DeviceIsApart(d)
                 /\ flow[d]["push"] = None /\ client[d].queued = 0
                 /\ client[d].status = "syncing"
                 /\ Entries(d) = disk[d].content
                 /\ disk[d].known # None => disk[d].known.revision <= Remote(d).revision
                 /\ client[d].revision # None => client[d].revision <= Remote(d).revision
<1>1. /\ flow[d]["command"] # None /\ flow[d]["command"].stage = "compare"
      /\ Busy(d, "command") /\ "command" \in Slot
  BY DEF Comparing, At, Busy, Slot
<1>2. /\ Remote(d) # None /\ Remote(d).revision \in Nat /\ Remote(d) \in Snapshot
      /\ Remote(d).content = Stored(history, Remote(d).revision)
      /\ Remote(d).revision <= Len(history)
  BY <1>1, HeldFacts, HeldSnapshot DEF SyncInv, Remote, Holding
<1>3. Entries(d) \in Contents /\ flow[d]["command"].kind \in Kind
  BY <1>1, AtType DEF SyncInv, Entries
<1>4. ~trace[d].overlapped => DeviceIsApart(d)
  BY DeviceFacts
<1> QED
  BY <1>1, <1>2, <1>3, <1>4
     DEF DeviceIsApart, IsApart, Alone, Presented, Captured, Newest, Entries, Remote

\* A device that is synced: what it holds is what its metadata and its page say.
LEMMA RestsApart ==
    ASSUME NEW h, NEW storage, NEW page, NEW marks, NEW x \in Nat, x \in marks.settled,
           storage.known # None, storage.known.revision = x,
           storage.known.content = storage.content \/ page.queued > 0,
           page.status = "synced", page.revision = x
    PROVE  IsApart(h, storage, page, None, None, marks)
BY DEF IsApart, Alone, Presented, Captured, Saved, Opposed, Held, Versioned, Current, Newest,
       Expects

LEMMA ConvergeApart ==
    ASSUME SyncInv, ApartInv, TypeOK', [Next]_vars, NEW d \in Device, Converge(d)
    PROVE  ApartInv'
<1> DEFINE x == Remote(d)
           known == Metadata(Entries(d), x)
<1>1. /\ Comparing(d) /\ UNCHANGED <<history, late>>
      /\ disk' = [disk EXCEPT ![d].known = known]
      /\ Synced(d, "command", x, client[d].conflict)
      /\ Settle(d, x.revision) /\ End(d, "command")
  BY DEF Converge
<1>2. x.revision \in Nat /\ Entries(d) \in Contents /\ x \in Snapshot
  BY <1>1, ComparingFacts
<1>3. known # None /\ known.revision = x.revision /\ known.content = Entries(d)
  BY <1>2, MetadataType, SnapshotIsSome DEF Metadata
<1> HIDE DEF known, x
<1>4. /\ \A e \in Device \ {d} : disk'[e] = disk[e]
      /\ disk'[d].known = known /\ disk'[d].content = disk[d].content
  BY <1>1, DeviceFacts, KnownFields
<1>5. /\ \A e \in Device \ {d} : client'[e] = client[e]
      /\ client'[d].status = "synced" /\ client'[d].revision = x.revision
      /\ client'[d].queued = client[d].queued /\ client'[d].initialized = Ready(d, "command")
  BY <1>1, DeviceFacts, SyncedFields
<1>6. /\ \A e \in Device \ {d} : trace'[e] = trace[e]
      /\ MarksGrow(d) /\ trace'[d].settled = trace[d].settled \union {x.revision}
      /\ trace'[d].overlapped = trace[d].overlapped
  BY <1>1, <1>2, DeviceFacts, SettleFields
<1>7. /\ \A e \in Device \ {d} : flow'[e] = flow[e]
      /\ flow'[d]["command"] = None /\ flow'[d]["push"] = flow[d]["push"]
  BY <1>1, DeviceFacts, EndFields DEF Slot
<1>8. OthersStay(d) /\ LeavesBehind(d)
  BY <1>1, <1>4, <1>5, <1>6, <1>7 DEF OthersStay, LeavesBehind
<1>9. IsKept(disk'[d], client'[d], trace'[d])
  BY <1>3, <1>4, <1>5, <1>6, DeviceFacts DEF IsKept, Ready
<1>10. ASSUME ~trace'[d].overlapped PROVE DeviceIsApart(d)'
  <2>1. Entries(d) = disk[d].content /\ flow[d]["push"] = None
    BY <1>1, <1>6, <1>10, ComparingFacts
  <2>2. IsApart(history', disk'[d], client'[d], None, None, trace'[d])
    BY <1>2, <1>3, <1>4, <1>5, <1>6, <2>1, RestsApart
  <2> QED
    BY <1>7, <2>1, <2>2 DEF DeviceIsApart
<1> QED
  BY <1>6, <1>8, <1>9, <1>10, OneDeviceMoves

LEMMA DivergeApart ==
    ASSUME SyncInv, ApartInv, TypeOK', [Next]_vars, NEW d \in Device, Diverge(d)
    PROVE  ApartInv'
<1> DEFINE x == Remote(d)
           k == disk[d].known
<1>1. /\ Comparing(d) /\ UNCHANGED <<history, late, disk, trace>>
      /\ MustDecide(d) /\ LocalUnchanged(d) = RemoteUnchanged(d) /\ End(d, "command")
  BY DEF Diverge
<1>2. /\ \A e \in Device \ {d} : client'[e] = client[e]
      /\ client'[d].status = "conflict" /\ client'[d].revision = x.revision
      /\ client'[d].conflict = x /\ client'[d].queued = client[d].queued
      /\ client'[d].initialized = Ready(d, "command")
  <2>1. client[d] \in Page /\ client \in [Device -> Page]
    BY DeviceFacts, DeviceType DEF TypeOK
  <2> QED
    BY <2>1 DEF Diverge, Page
<1>3. /\ \A e \in Device \ {d} : flow'[e] = flow[e]
      /\ flow'[d]["command"] = None /\ flow'[d]["push"] = flow[d]["push"]
  BY <1>1, DeviceFacts, EndFields DEF Slot
<1>4. OthersStay(d) /\ MarksGrow(d) /\ LeavesBehind(d)
  BY <1>1, <1>2, <1>3 DEF OthersStay, MarksGrow, LeavesBehind
<1>5. IsKept(disk'[d], client'[d], trace'[d])
  BY <1>1, <1>2, DeviceFacts DEF IsKept, Ready
<1>6. k # None => k.revision # x.revision
  BY <1>1, DeviceFacts, ComparingFacts DEF MustDecide, Differs, LocalUnchanged, RemoteUnchanged
<1>7. ASSUME ~trace'[d].overlapped PROVE DeviceIsApart(d)'
  <2>1. /\ flow'[d]["push"] = None /\ client'[d].queued = 0 /\ x # None /\ x.revision \in Nat
        /\ x.revision > 0
        /\ k # None => k.revision <= x.revision
    BY <1>1, <1>2, <1>3, <1>7, ComparingFacts DEF MustDecide
  <2>2. Behind(disk'[d], client'[d])
    BY <1>1, <1>2, <1>6, <2>1, DeviceFacts DEF Behind
  <2> QED
    BY <1>1, <1>2, <1>3, <2>1, <2>2
       DEF DeviceIsApart, IsApart, Alone, Presented, Captured, Saved, Opposed, Held,
           Versioned, Undecided, Newest, Expects
<1> QED
  BY <1>4, <1>5, <1>7, OneDeviceMoves

\* The pages a flow leaves behind when it fails.
LEMMA OfflineIsApart ==
    ASSUME NEW h, NEW storage, NEW page, NEW next, NEW push, NEW command, NEW marks,
           IsApart(h, storage, page, push, command, marks),
           page.status \notin {"conflict", "poisoned"},
           next.status = "offline", next.revision = page.revision
    PROVE  IsApart(h, storage, next, None, None, marks)
BY DEF IsApart, Alone, Presented, Captured, Saved, Opposed, Held, Versioned, Current, Behind,
       Undecided, Newest, Expects

LEMMA PoisonedIsApart ==
    ASSUME NEW h, NEW storage, NEW next, NEW page, NEW nextpage, NEW push, NEW command, NEW marks,
           IsApart(h, storage, page, push, command, marks), next.known = storage.known,
           nextpage.status = "poisoned", nextpage.revision = page.revision
    PROVE  IsApart(h, next, nextpage, None, None, marks)
BY DEF IsApart, Alone, Presented, Captured, Saved, Opposed, Held, Versioned, Current, Behind,
       Undecided, Newest, Expects

\* hydrateRemote() replaces entries and metadata, or breaks them.
LEMMA HydratedFields ==
    ASSUME TypeOK, NEW d \in Device, NEW x \in Snapshot, NEW B, Hydrated(d, x, B)
    PROVE  /\ \A e \in Device \ {d} : disk'[e] = disk[e] /\ trace'[e] = trace[e]
           /\ disk'[d].content = x.content /\ disk'[d].known # None
           /\ disk'[d].known.revision = x.revision /\ disk'[d].known.content = x.content
           /\ disk'[d].backups = disk[d].backups \union B
           /\ MarksGrow(d) /\ trace'[d].settled = trace[d].settled \union {x.revision}
           /\ trace'[d].overlapped = trace[d].overlapped
<1>1. x.revision \in Nat /\ x.content \in Contents
  BY DEF Snapshot
<1> DEFINE known == Metadata(x.content, x)
<1>2. known # None /\ known.revision = x.revision /\ known.content = x.content
  BY <1>1, MetadataType, SnapshotIsSome DEF Metadata
<1> HIDE DEF known
<1>3. /\ \A e \in Device \ {d} : disk'[e] = disk[e]
      /\ disk'[d] = [content |-> x.content, known |-> known,
                     backups |-> disk[d].backups \union B]
  BY DEF Hydrated, TypeOK, known
<1>4. /\ \A e \in Device \ {d} : trace'[e] = trace[e]
      /\ MarksGrow(d) /\ trace'[d].settled = trace[d].settled \union {x.revision}
      /\ trace'[d].overlapped = trace[d].overlapped
  BY <1>1, SettleFields DEF Hydrated
<1> QED
  BY <1>2, <1>3, <1>4

LEMMA BrokenFields ==
    ASSUME TypeOK, NEW d \in Device, HydrationBroken(d)
    PROVE  /\ \A e \in Device \ {d} : disk'[e] = disk[e] /\ client'[e] = client[e]
           /\ disk'[d].known = disk[d].known /\ trace' = trace
           /\ client'[d].status = "poisoned" /\ client'[d].revision = client[d].revision
           /\ client'[d].queued = client[d].queued
           /\ client'[d].initialized = client[d].initialized
<1>1. disk[d] \in Storage /\ client[d] \in Page
  BY DeviceType
<1>2. (\A e \in Device \ {d} : disk'[e] = disk[e]) /\ disk'[d].known = disk[d].known
  BY <1>1 DEF HydrationBroken, TypeOK, Storage
<1>3. /\ \A e \in Device \ {d} : client'[e] = client[e]
      /\ client'[d].status = "poisoned" /\ client'[d].revision = client[d].revision
      /\ client'[d].queued = client[d].queued
      /\ client'[d].initialized = client[d].initialized
  BY <1>1 DEF HydrationBroken, TypeOK, Page
<1> QED
  BY <1>2, <1>3 DEF HydrationBroken

LEMMA BrokenApart ==
    ASSUME SyncInv, ApartInv, TypeOK', [Next]_vars, NEW d \in Device,
           HydrationBroken(d), End(d, "command"), history' = history, late' = late,
           ~trace[d].overlapped => flow[d]["push"] = None
    PROVE  ApartInv'
<1>1. /\ \A e \in Device \ {d} : disk'[e] = disk[e] /\ client'[e] = client[e]
      /\ disk'[d].known = disk[d].known /\ trace' = trace
      /\ client'[d].status = "poisoned" /\ client'[d].revision = client[d].revision
      /\ client'[d].queued = client[d].queued
      /\ client'[d].initialized = client[d].initialized
  BY DeviceFacts, BrokenFields
<1>2. /\ \A e \in Device \ {d} : flow'[e] = flow[e]
      /\ flow'[d]["command"] = None /\ flow'[d]["push"] = flow[d]["push"]
  BY DeviceFacts, EndFields DEF Slot
<1>3. OthersStay(d) /\ MarksGrow(d) /\ LeavesBehind(d)
  BY <1>1, <1>2 DEF OthersStay, MarksGrow, LeavesBehind
<1>4. IsKept(disk'[d], client'[d], trace'[d])
  BY <1>1, DeviceFacts DEF IsKept
<1>5. ASSUME ~trace'[d].overlapped PROVE DeviceIsApart(d)'
  <2>1. DeviceIsApart(d) /\ flow'[d]["push"] = None
    BY <1>1, <1>2, <1>5, DeviceFacts
  <2>2. IsApart(history', disk'[d], client'[d], None, None, trace'[d])
    BY <1>1, <2>1, PoisonedIsApart DEF DeviceIsApart
  <2> QED
    BY <1>2, <2>1, <2>2 DEF DeviceIsApart
<1> QED
  BY <1>3, <1>4, <1>5, OneDeviceMoves

LEMMA HydrateApart ==
    ASSUME SyncInv, ApartInv, TypeOK', [Next]_vars, NEW d \in Device, HydrateAutomatically(d)
    PROVE  ApartInv'
<1> DEFINE x == Remote(d)
<1>1. /\ Comparing(d) /\ End(d, "command") /\ UNCHANGED <<history, late>>
      /\ \/ Hydrated(d, x, {}) /\ Synced(d, "command", x, None)
         \/ HydrationRestored /\ Show(d, "command", "offline")
         \/ HydrationBroken(d)
  BY DEF HydrateAutomatically, MayHydrate
<1>2. x \in Snapshot /\ x.revision \in Nat
  BY <1>1, ComparingFacts
<1> HIDE DEF x
<1>3. /\ \A e \in Device \ {d} : flow'[e] = flow[e]
      /\ flow'[d]["command"] = None /\ flow'[d]["push"] = flow[d]["push"]
  BY <1>1, DeviceFacts, EndFields DEF Slot
<1>4. ASSUME Hydrated(d, x, {}), Synced(d, "command", x, None) PROVE ApartInv'
  <2>1. /\ \A e \in Device \ {d} : disk'[e] = disk[e] /\ trace'[e] = trace[e]
        /\ disk'[d].content = x.content /\ disk'[d].known # None
        /\ disk'[d].known.revision = x.revision /\ disk'[d].known.content = x.content
        /\ MarksGrow(d) /\ trace'[d].settled = trace[d].settled \union {x.revision}
        /\ trace'[d].overlapped = trace[d].overlapped
    BY <1>2, <1>4, DeviceFacts, HydratedFields
  <2>2. /\ \A e \in Device \ {d} : client'[e] = client[e]
        /\ client'[d].status = "synced" /\ client'[d].revision = x.revision
        /\ client'[d].queued = client[d].queued /\ client'[d].initialized = Ready(d, "command")
    BY <1>4, DeviceFacts, SyncedFields
  <2>3. OthersStay(d) /\ LeavesBehind(d)
    BY <1>1, <1>3, <2>1, <2>2 DEF OthersStay, LeavesBehind
  <2>4. IsKept(disk'[d], client'[d], trace'[d])
    BY <2>1, <2>2, DeviceFacts DEF IsKept, Ready
  <2>5. ASSUME ~trace'[d].overlapped PROVE DeviceIsApart(d)'
    <3>1. flow[d]["push"] = None
      BY <1>1, <2>1, <2>5, ComparingFacts
    <3>2. IsApart(history', disk'[d], client'[d], None, None, trace'[d])
      BY <1>2, <2>1, <2>2, RestsApart
    <3> QED
      BY <1>3, <3>1, <3>2 DEF DeviceIsApart
  <2> QED
    BY <2>1, <2>3, <2>4, <2>5, OneDeviceMoves
<1>5. ASSUME HydrationRestored, Show(d, "command", "offline") PROVE ApartInv'
  <2>1. disk' = disk /\ trace' = trace
    BY <1>5 DEF HydrationRestored
  <2>2. /\ \A e \in Device \ {d} : client'[e] = client[e]
        /\ client'[d].status = "offline" /\ client'[d].revision = client[d].revision
        /\ client'[d].queued = client[d].queued /\ client'[d].initialized = Ready(d, "command")
    BY <1>5, DeviceFacts, ShowFields
  <2>3. OthersStay(d) /\ MarksGrow(d) /\ LeavesBehind(d)
    BY <1>1, <1>3, <2>1, <2>2 DEF OthersStay, MarksGrow, LeavesBehind
  <2>4. IsKept(disk'[d], client'[d], trace'[d])
    BY <2>1, <2>2, DeviceFacts DEF IsKept, Ready
  <2>5. ASSUME ~trace'[d].overlapped PROVE DeviceIsApart(d)'
    <3>1. DeviceIsApart(d) /\ flow[d]["push"] = None /\ client[d].status = "syncing"
      BY <1>1, <2>1, <2>5, ComparingFacts
    <3>2. IsApart(history', disk'[d], client'[d], None, None, trace'[d])
      BY <1>1, <2>1, <2>2, <3>1, OfflineIsApart DEF DeviceIsApart
    <3> QED
      BY <1>3, <3>1, <3>2 DEF DeviceIsApart
  <2> QED
    BY <2>3, <2>4, <2>5, OneDeviceMoves
<1>6. ASSUME HydrationBroken(d) PROVE ApartInv'
  BY <1>1, <1>6, ComparingFacts, BrokenApart
<1> QED
  BY <1>1, <1>4, <1>5, <1>6

LEMMA AdoptApart ==
    ASSUME SyncInv, ApartInv, MetadataSettled, TypeOK', [Next]_vars, NEW d \in Device,
           AdoptServer(d)
    PROVE  ApartInv'
<1> DEFINE x == Remote(d)
<1>1. /\ flow[d]["command"] # None /\ flow[d]["command"].stage = "adopt"
      /\ Busy(d, "command") /\ history' = history
      /\ \/ Hydrated(d, x, {Entries(d)}) /\ PageEnds(d)
         \/ AdoptionRestored(d) /\ Show(d, "command", "conflict") /\ End(d, "command")
            /\ late' = late
         \/ HydrationBroken(d) /\ End(d, "command") /\ late' = late
  BY DEF AdoptServer, At, Busy
<1>2. x \in Snapshot /\ x.revision \in Nat
  BY <1>1, HeldSnapshot DEF Remote, Holding, Slot, SyncInv
<1> HIDE DEF x
<1>3. ~trace[d].overlapped =>
         DeviceIsApart(d) /\ flow[d]["push"] = None /\ client[d].status = "conflict"
  BY <1>1, DeviceFacts DEF DeviceIsApart, IsApart, Alone, Presented
<1>4. ASSUME Hydrated(d, x, {Entries(d)}), PageEnds(d) PROVE ApartInv'
  <2>1. /\ \A e \in Device \ {d} : disk'[e] = disk[e] /\ trace'[e] = trace[e]
        /\ disk'[d].known.revision = x.revision
        /\ MarksGrow(d) /\ trace'[d].settled = trace[d].settled \union {x.revision}
    BY <1>2, <1>4, DeviceFacts, HydratedFields
  <2>2. /\ \A e \in Device \ {d} : client'[e] = client[e] /\ flow'[e] = flow[e]
        /\ client'[d] = NewPage /\ flow'[d] = NoFlow /\ LeavesBehind(d)
    BY <1>4, DeviceFacts, PageEndsFields
  <2>3. IsKept(disk'[d], client'[d], trace'[d])
    BY <2>1, <2>2, DeviceFacts DEF IsKept, NewPage
  <2>4. DeviceIsApart(d)'
    BY <2>2, NewPageIsApart DEF DeviceIsApart
  <2> QED
    BY <2>1, <2>2, <2>3, <2>4, OneDeviceMoves DEF OthersStay
<1>5. ASSUME AdoptionRestored(d), Show(d, "command", "conflict"), End(d, "command"), late' = late
      PROVE  ApartInv'
  <2>1. /\ \A e \in Device \ {d} : disk'[e] = disk[e]
        /\ disk'[d].content = flow[d]["command"].entries
        /\ disk'[d].known = flow[d]["command"].metadata /\ trace' = trace
    BY <1>5, DeviceFacts DEF AdoptionRestored, Entries, TypeOK
  <2>2. /\ \A e \in Device \ {d} : client'[e] = client[e]
        /\ client'[d].status = "conflict" /\ client'[d].revision = client[d].revision
        /\ client'[d].conflict = client[d].conflict
        /\ client'[d].queued = client[d].queued /\ client'[d].initialized = Ready(d, "command")
    BY <1>5, DeviceFacts, ShowFields
  <2>3. /\ \A e \in Device \ {d} : flow'[e] = flow[e]
        /\ flow'[d]["command"] = None /\ flow'[d]["push"] = flow[d]["push"]
    BY <1>5, DeviceFacts, EndFields DEF Slot
  <2>4. OthersStay(d) /\ MarksGrow(d) /\ LeavesBehind(d)
    BY <1>5, <2>1, <2>2, <2>3 DEF OthersStay, MarksGrow, LeavesBehind
  <2>5. IsKept(disk'[d], client'[d], trace'[d])
    BY <1>1, <2>1, <2>2, DeviceFacts DEF IsKept, Ready, MetadataSettled
  <2>6. ASSUME ~trace'[d].overlapped PROVE DeviceIsApart(d)'
    <3>1. disk'[d].content = disk[d].content /\ disk'[d].known = disk[d].known
      BY <1>1, <1>3, <2>1, <2>6 DEF DeviceIsApart, IsApart, Captured
    <3> QED
      BY <1>1, <1>3, <2>1, <2>2, <2>3, <2>6, <3>1
       DEF DeviceIsApart, IsApart, Alone, Presented, Captured, Saved, Opposed, Held,
           Versioned, Current, Behind, Undecided, Newest, Expects
  <2> QED
    BY <2>4, <2>5, <2>6, OneDeviceMoves
<1>6. ASSUME HydrationBroken(d), End(d, "command"), late' = late PROVE ApartInv'
  BY <1>1, <1>3, <1>6, BrokenApart
<1> QED
  BY <1>1, <1>4, <1>5, <1>6

\* A request is sent: the page shows that it is syncing.
LEMMA UploadFields ==
    ASSUME TypeOK, NEW d \in Device, NEW s \in Slot, NEW kind \in Kind,
           NEW entries \in Contents, NEW expected \in Nat, Upload(d, s, kind, entries, expected)
    PROVE  /\ \A e \in Device \ {d} : flow'[e] = flow[e] /\ client'[e] = client[e]
           /\ flow'[d][s] # None /\ flow'[d][s].stage = "put" /\ flow'[d][s].kind = kind
           /\ flow'[d][s].entries = entries /\ flow'[d][s].expected = expected
           /\ \A t \in Slot \ {s} : flow'[d][t] = flow[d][t]
           /\ client'[d].status = "syncing" /\ client'[d].revision = client[d].revision
           /\ client'[d].queued = client[d].queued
           /\ client'[d].initialized = client[d].initialized
<1> DEFINE f == Start("put", kind, entries, None, expected)
<1>1. /\ f # None /\ f.stage = "put" /\ f.kind = kind /\ f.entries = entries
      /\ f.expected = expected
  BY StartFields DEF Stage
<1> HIDE DEF f
<1>2. flow' = [flow EXCEPT ![d][s] = f]
  BY DEF Upload, SetFlow, f
<1>3. /\ \A e \in Device \ {d} : flow'[e] = flow[e]
      /\ flow'[d][s] = f /\ \A t \in Slot \ {s} : flow'[d][t] = flow[d][t]
  BY <1>2, FlowFields
<1> QED
  BY <1>1, <1>3, StatusFields DEF Upload

\* A reconcile uploads what the server has nothing of, or an older copy of.
LEMMA ReconcileUploads ==
    ASSUME SyncInv, ApartInv, TypeOK', [Next]_vars, NEW d \in Device, NEW r \in Nat,
           Comparing(d), Differs(d), Remote(d).revision = r,
           r = 0 \/ RemoteUnchanged(d),
           Upload(d, "command", flow[d]["command"].kind, Entries(d), r),
           UNCHANGED <<history, late, disk, trace>>
    PROVE  ApartInv'
<1> DEFINE m == flow[d]["command"]
           n == flow'[d]["command"]
<1>1. /\ m # None /\ m.stage = "compare" /\ Entries(d) \in Contents /\ m.kind \in Kind
      /\ Entries(d) # Stored(history, r)
  BY ComparingFacts DEF Differs
<1>2. /\ \A e \in Device \ {d} : flow'[e] = flow[e] /\ client'[e] = client[e]
      /\ n # None /\ n.stage = "put" /\ n.kind = m.kind /\ n.entries = Entries(d)
      /\ n.expected = r /\ flow'[d]["push"] = flow[d]["push"]
      /\ client'[d].status = "syncing" /\ client'[d].revision = client[d].revision
      /\ client'[d].queued = client[d].queued
      /\ client'[d].initialized = client[d].initialized
  BY <1>1, DeviceFacts, UploadFields DEF Slot
<1>3. OthersStay(d) /\ MarksGrow(d) /\ LeavesBehind(d)
  BY <1>2 DEF OthersStay, MarksGrow, LeavesBehind
<1>4. IsKept(disk'[d], client'[d], trace'[d])
  BY <1>2, DeviceFacts DEF IsKept
<1>5. ASSUME ~trace'[d].overlapped PROVE DeviceIsApart(d)'
  <2>1. /\ DeviceIsApart(d) /\ flow[d]["push"] = None /\ client[d].queued = 0
        /\ client[d].status = "syncing" /\ Entries(d) = disk[d].content
        /\ disk[d].known # None => disk[d].known.revision <= r
        /\ client[d].revision # None => client[d].revision <= r
    BY <1>5, ComparingFacts
  <2>2. r \in trace[d].settled /\ (r > 0 => disk[d].known # None /\ disk[d].known.revision = r)
    BY DeviceFacts DEF IsKept, RemoteUnchanged
  <2>3. ~Behind(disk[d], client[d])
    BY <2>1, <2>2, DeviceFacts DEF Behind
  <2>4. Versioned(disk'[d], client'[d], n)
    BY <1>2, <2>1, <2>3 DEF DeviceIsApart, IsApart, Versioned, Current
  <2>5. Expects(history', disk'[d], trace'[d], n)
    BY <1>1, <1>2, <2>1, <2>2 DEF Expects
  <2> HIDE DEF n
  <2> QED
    BY <1>1, <1>2, <2>1, <2>4, <2>5
       DEF DeviceIsApart, IsApart, Alone, Presented, Captured, Saved, Opposed, Held, Newest,
           Expects, n
<1> QED
  BY <1>3, <1>4, <1>5, OneDeviceMoves

LEMMA UploadFirstApart ==
    ASSUME SyncInv, ApartInv, TypeOK', [Next]_vars, NEW d \in Device, UploadFirst(d)
    PROVE  ApartInv'
BY ReconcileUploads DEF UploadFirst

LEMMA UploadChangeApart ==
    ASSUME SyncInv, ApartInv, TypeOK', [Next]_vars, NEW d \in Device, UploadChange(d)
    PROVE  ApartInv'
<1>1. Comparing(d) /\ Remote(d).revision \in Nat
  BY ComparingFacts DEF UploadChange
<1> QED
  BY <1>1, ReconcileUploads DEF UploadChange, MustDecide

LEMMA PushStartApart ==
    ASSUME SyncInv, ApartInv, TypeOK', [Next]_vars, NEW d \in Device, PushStart(d)
    PROVE  ApartInv'
<1> DEFINE f == Start("digest", "push", disk[d].content, None, 0)
<1>1. /\ client[d].queued > 0 /\ flow[d]["push"] = None /\ UNCHANGED <<history, late, disk>>
      /\ \/ Pushable(d) /\ flow' = [flow EXCEPT ![d]["push"] = f] /\ Overlap(d, "push")
         \/ ~Pushable(d) /\ flow' = flow /\ trace' = trace
  BY DEF PushStart, Busy, SetFlow
<1>2. /\ \A e \in Device \ {d} : client'[e] = client[e]
      /\ client'[d].status = client[d].status /\ client'[d].revision = client[d].revision
      /\ client'[d].conflict = client[d].conflict
      /\ client'[d].queued = client[d].queued - 1
      /\ client'[d].initialized = client[d].initialized
  <2>1. client[d] \in Page /\ client \in [Device -> Page]
    BY DeviceFacts, DeviceType DEF TypeOK
  <2> QED
    BY <2>1 DEF PushStart, Page
<1>3. f # None /\ f.stage = "digest" /\ f.entries = disk[d].content
  <2>1. disk[d].content \in Contents
    BY DeviceFacts, DeviceType DEF Storage
  <2>2. "digest" \in Stage /\ "push" \in Kind /\ 0 \in Nat /\ None \in Snapshot \union {None}
    BY DEF Stage, Kind
  <2> QED
    BY <2>1, <2>2, StartFields
<1> HIDE DEF f
<1>4. client[d].queued \in Nat /\ client[d].initialized
  BY <1>1, DeviceFacts DEF IsKept
<1>5. CASE Pushable(d) /\ flow' = [flow EXCEPT ![d]["push"] = f] /\ Overlap(d, "push")
  <2>1. /\ \A e \in Device \ {d} : flow'[e] = flow[e]
        /\ flow'[d]["push"] = f /\ flow'[d]["command"] = flow[d]["command"]
    BY <1>5, DeviceFacts, FlowFields DEF Slot
  <2>2. /\ \A e \in Device \ {d} : trace'[e] = trace[e]
        /\ MarksGrow(d) /\ trace'[d].settled = trace[d].settled
        /\ ~trace'[d].overlapped => ~trace[d].overlapped /\ flow[d]["command"] = None
    BY <1>5, DeviceFacts, OverlapFields DEF Slot, Busy
  <2>3. OthersStay(d) /\ LeavesBehind(d)
    BY <1>1, <1>2, <2>1, <2>2 DEF OthersStay, LeavesBehind
  <2>4. IsKept(disk'[d], client'[d], trace'[d])
    BY <1>1, <1>2, <1>4, <2>2, DeviceFacts DEF IsKept
  <2>5. ASSUME ~trace'[d].overlapped PROVE DeviceIsApart(d)'
    <3>1. /\ DeviceIsApart(d) /\ flow'[d]["command"] = None
          /\ client'[d].status \in {"synced", "syncing"}
      BY <1>2, <1>5, <2>1, <2>2, <2>5, DeviceFacts DEF Pushable
    <3> QED
      BY <1>1, <1>2, <1>3, <2>1, <2>2, <3>1
         DEF DeviceIsApart, IsApart, Alone, Presented, Captured, Saved, Opposed, Held,
             Versioned, Current, Behind, Undecided, Newest, Expects
  <2> QED
    BY <2>2, <2>3, <2>4, <2>5, OneDeviceMoves
<1>6. CASE ~Pushable(d) /\ flow' = flow /\ trace' = trace
  <2>1. OthersStay(d) /\ MarksGrow(d) /\ LeavesBehind(d)
    BY <1>1, <1>2, <1>6 DEF OthersStay, MarksGrow, LeavesBehind
  <2>2. IsKept(disk'[d], client'[d], trace'[d])
    BY <1>1, <1>2, <1>4, <1>6, DeviceFacts DEF IsKept
  <2>3. ASSUME ~trace'[d].overlapped PROVE DeviceIsApart(d)'
    <3>1. DeviceIsApart(d) /\ client[d].status # "synced" /\ client[d].queued # 0
      BY <1>1, <1>4, <1>6, <2>3, DeviceFacts DEF Pushable
    <3> QED
      BY <1>1, <1>2, <1>6, <3>1
         DEF DeviceIsApart, IsApart, Alone, Presented, Captured, Saved, Opposed, Held,
             Versioned, Current, Behind, Undecided, Newest
  <2> QED
    BY <2>1, <2>2, <2>3, OneDeviceMoves
<1> QED
  BY <1>1, <1>5, <1>6

LEMMA PushDigestedApart ==
    ASSUME SyncInv, ApartInv, TypeOK', [Next]_vars, NEW d \in Device, PushDigested(d)
    PROVE  ApartInv'
<1> DEFINE p == flow[d]["push"]
           r == client[d].revision
           k == disk[d].known
<1>1. /\ p # None /\ p.stage = "digest" /\ Busy(d, "push")
      /\ UNCHANGED <<history, late, disk, trace>>
      /\ \/ AlreadyPushed(d) /\ End(d, "push") /\ client' = client
         \/ ~AlreadyPushed(d) /\ r # None /\ Upload(d, "push", "push", p.entries, r)
         \/ ~AlreadyPushed(d) /\ r = None /\ Show(d, "push", "offline") /\ End(d, "push")
  BY DEF PushDigested, At, Busy
<1>2. p.entries \in Contents
  BY <1>1, AtType, DeviceFacts DEF Slot
<1>3. ~trace[d].overlapped =>
         /\ DeviceIsApart(d) /\ flow[d]["command"] = None
         /\ client[d].status \in {"synced", "syncing"}
  BY <1>1, DeviceFacts DEF DeviceIsApart, IsApart, Alone, Presented
<1>4. CASE AlreadyPushed(d) /\ End(d, "push") /\ client' = client
  <2>1. /\ \A e \in Device \ {d} : flow'[e] = flow[e]
        /\ flow'[d]["push"] = None /\ flow'[d]["command"] = flow[d]["command"]
    BY <1>4, DeviceFacts, EndFields DEF Slot
  <2>2. OthersStay(d) /\ MarksGrow(d) /\ LeavesBehind(d)
    BY <1>1, <1>4, <2>1 DEF OthersStay, MarksGrow, LeavesBehind
  <2>3. IsKept(disk'[d], client'[d], trace'[d])
    BY <1>1, <1>4, DeviceFacts
  <2>4. ASSUME ~trace'[d].overlapped PROVE DeviceIsApart(d)'
    <3>1. Saved(disk[d], client[d], None)
      <4>1. client[d].queued > 0 \/ p.entries = disk[d].content
        BY <1>1, <1>3, <2>4 DEF DeviceIsApart, IsApart, Captured
      <4> QED
        BY <1>4, <4>1, DeviceFacts DEF AlreadyPushed, Saved
    <3> QED
      BY <1>1, <1>3, <1>4, <2>1, <2>4, <3>1
         DEF DeviceIsApart, IsApart, Alone, Presented, Captured, Versioned, Current, Behind,
             Undecided, Newest, Expects
  <2> QED
    BY <2>2, <2>3, <2>4, OneDeviceMoves
<1>5. CASE ~AlreadyPushed(d) /\ r # None /\ Upload(d, "push", "push", p.entries, r)
  <2> DEFINE n == flow'[d]["push"]
  <2>1. r \in Nat
    BY <1>5, DeviceFacts
  <2>2. /\ \A e \in Device \ {d} : flow'[e] = flow[e] /\ client'[e] = client[e]
        /\ n # None /\ n.stage = "put" /\ n.kind = "push" /\ n.entries = p.entries
        /\ n.expected = r /\ flow'[d]["command"] = flow[d]["command"]
        /\ client'[d].status = "syncing" /\ client'[d].revision = r
        /\ client'[d].queued = client[d].queued
        /\ client'[d].initialized = client[d].initialized
    BY <1>2, <1>5, <2>1, DeviceFacts, UploadFields DEF Slot, Kind
  <2>3. OthersStay(d) /\ MarksGrow(d) /\ LeavesBehind(d)
    BY <1>1, <2>2 DEF OthersStay, MarksGrow, LeavesBehind
  <2>4. IsKept(disk'[d], client'[d], trace'[d])
    BY <1>1, <2>2, DeviceFacts DEF IsKept
  <2>5. ASSUME ~trace'[d].overlapped PROVE DeviceIsApart(d)'
    <3>1. /\ DeviceIsApart(d) /\ flow[d]["command"] = None
          /\ client[d].status \in {"synced", "syncing"}
      BY <1>1, <1>3, <2>5
    <3>2. r \in trace[d].settled /\ k # None /\ k.revision = r
      BY <1>5, <3>1 DEF DeviceIsApart, IsApart, Held, Versioned, Current, Undecided
    <3>3. p.entries # Stored(history, r)
      BY <1>5, <3>2, DeviceFacts DEF AlreadyPushed
    <3>4. Expects(history', disk'[d], trace'[d], n)
      BY <1>1, <2>1, <2>2, <3>2, <3>3 DEF Expects
    <3> HIDE DEF n
    <3> QED
      BY <1>1, <2>2, <3>1, <3>2, <3>4
         DEF DeviceIsApart, IsApart, Alone, Presented, Captured, Saved, Opposed, Held,
             Versioned, Current, Newest, Expects, n
  <2> QED
    BY <2>3, <2>4, <2>5, OneDeviceMoves
<1>6. CASE ~AlreadyPushed(d) /\ r = None /\ Show(d, "push", "offline") /\ End(d, "push")
  <2>1. /\ \A e \in Device \ {d} : flow'[e] = flow[e]
        /\ flow'[d]["push"] = None /\ flow'[d]["command"] = flow[d]["command"]
    BY <1>6, DeviceFacts, EndFields DEF Slot
  <2>2. /\ \A e \in Device \ {d} : client'[e] = client[e]
        /\ client'[d].status = "offline" /\ client'[d].revision = client[d].revision
        /\ client'[d].queued = client[d].queued /\ client'[d].initialized = Ready(d, "push")
    BY <1>6, DeviceFacts, ShowFields
  <2>3. OthersStay(d) /\ MarksGrow(d) /\ LeavesBehind(d)
    BY <1>1, <2>1, <2>2 DEF OthersStay, MarksGrow, LeavesBehind
  <2>4. IsKept(disk'[d], client'[d], trace'[d])
    BY <1>1, <2>2, DeviceFacts DEF IsKept, Ready
  <2>5. ASSUME ~trace'[d].overlapped PROVE DeviceIsApart(d)'
    <3>1. IsApart(history', disk'[d], client'[d], None, None, trace'[d])
      BY <1>1, <1>3, <2>2, <2>5, OfflineIsApart DEF DeviceIsApart
    <3> QED
      BY <1>1, <1>3, <2>1, <2>5, <3>1 DEF DeviceIsApart
  <2> QED
    BY <2>3, <2>4, <2>5, OneDeviceMoves
<1> QED
  BY <1>1, <1>4, <1>5, <1>6

LEMMA AcceptedApart ==
    ASSUME SyncInv, ApartInv, TypeOK', [Next]_vars, NEW d \in Device, NEW s \in Slot,
           Accepted(d, s)
    PROVE  ApartInv'
<1> DEFINE m == flow[d][s]
           f == [m EXCEPT !.stage = "seal"]
<1>1. /\ m # None /\ m.stage = "accepted" /\ m \in Waiting /\ m.remote.revision \in Nat
      /\ UNCHANGED <<history, late, disk, client>> /\ See(d, m.remote.revision)
  BY DeviceFacts, AtType, HeldFacts DEF Accepted, At, Busy, Holding
<1>2. /\ f # None /\ f.stage = "seal" /\ f.entries = m.entries /\ f.kind = m.kind
      /\ f.remote = m.remote /\ f.expected = m.expected
  BY <1>1, NoneIsNoFlow DEF Waiting, Stage
<1>3. flow' = [flow EXCEPT ![d][s] = f]
  BY <1>1, FlowsType DEF Accepted, Advance, Flows
<1> HIDE DEF f
<1>4. /\ \A e \in Device \ {d} : flow'[e] = flow[e]
      /\ flow'[d][s] = f /\ \A t \in Slot \ {s} : flow'[d][t] = flow[d][t]
  BY <1>3, DeviceFacts, FlowFields
<1>5. /\ \A e \in Device \ {d} : trace'[e] = trace[e]
      /\ MarksGrow(d) /\ trace'[d].settled = trace[d].settled
      /\ trace'[d].overlapped = trace[d].overlapped
  BY <1>1, DeviceFacts, SeeFields
<1>6. OthersStay(d) /\ LeavesBehind(d)
  BY <1>1, <1>4, <1>5 DEF OthersStay, LeavesBehind
<1>7. IsKept(disk'[d], client'[d], trace'[d])
  BY <1>1, <1>5, DeviceFacts DEF IsKept
<1>8. ASSUME ~trace'[d].overlapped PROVE DeviceIsApart(d)'
  <2>1. DeviceIsApart(d)
    BY <1>5, <1>8, DeviceFacts
  <2>2. CASE s = "push"
    <3>1. flow'[d]["push"] = f /\ flow[d]["command"] = None /\ flow'[d]["command"] = None
      BY <1>1, <1>4, <2>1, <2>2 DEF DeviceIsApart, IsApart, Alone, Slot
    <3> QED
      BY <1>1, <1>2, <1>5, <2>1, <2>2, <3>1
         DEF DeviceIsApart, IsApart, Alone, Presented, Captured, Saved, Held, Versioned,
             Undecided, Newest, Expects
  <2>3. CASE s = "command"
    <3>1. flow'[d]["command"] = f /\ flow[d]["push"] = None /\ flow'[d]["push"] = None
      BY <1>1, <1>4, <2>1, <2>3 DEF DeviceIsApart, IsApart, Alone, Slot
    <3> QED
      BY <1>1, <1>2, <1>5, <2>1, <2>3, <3>1
         DEF DeviceIsApart, IsApart, Alone, Presented, Captured, Saved, Held, Versioned,
             Undecided, Newest, Expects
  <2> QED
    BY <2>2, <2>3 DEF Slot
<1> QED
  BY <1>5, <1>6, <1>7, <1>8, OneDeviceMoves

\* Of a device whose flows are apart, one at most is under way.
LEMMA EndsAlone ==
    ASSUME SyncInv, ApartInv, NEW d \in Device, NEW s \in Slot, Busy(d, s), End(d, s)
    PROVE  /\ \A e \in Device \ {d} : flow'[e] = flow[e]
           /\ ~trace[d].overlapped =>
                 DeviceIsApart(d) /\ flow'[d]["push"] = None /\ flow'[d]["command"] = None
<1>1. /\ \A e \in Device \ {d} : flow'[e] = flow[e]
      /\ flow'[d][s] = None /\ \A t \in Slot \ {s} : flow'[d][t] = flow[d][t]
  BY DeviceFacts, EndFields
<1>2. ~trace[d].overlapped => DeviceIsApart(d)
  BY DeviceFacts
<1> QED
  BY <1>1, <1>2 DEF DeviceIsApart, IsApart, Alone, Busy, Slot

\* A refused request leaves the page behind the server.
LEMMA RefusedApart ==
    ASSUME SyncInv, ApartInv, TypeOK', [Next]_vars, NEW d \in Device, NEW s \in Slot,
           Refused(d, s)
    PROVE  ApartInv'
<1> DEFINE m == flow[d][s]
           x == m.remote
<1>1. /\ m # None /\ m.stage = "refused" /\ Busy(d, s) /\ End(d, s)
      /\ x # None /\ x.revision \in Nat /\ m.expected \in Nat
      /\ UNCHANGED <<history, late, disk>> /\ See(d, x.revision)
  BY DeviceFacts, AtType, HeldFacts DEF Refused, At, Busy, Holding
<1>2. /\ \A e \in Device \ {d} : client'[e] = client[e]
      /\ client'[d].status = "conflict" /\ client'[d].revision = x.revision
      /\ client'[d].conflict = x /\ client'[d].queued = client[d].queued
      /\ client'[d].initialized = Ready(d, s)
  <2>1. client[d] \in Page /\ client \in [Device -> Page]
    BY DeviceFacts, DeviceType DEF TypeOK
  <2> QED
    BY <2>1 DEF Refused, Page
<1>3. /\ \A e \in Device \ {d} : trace'[e] = trace[e]
      /\ MarksGrow(d) /\ trace'[d].settled = trace[d].settled
      /\ trace'[d].overlapped = trace[d].overlapped
  BY <1>1, DeviceFacts, SeeFields
<1>4. /\ \A e \in Device \ {d} : flow'[e] = flow[e]
      /\ ~trace[d].overlapped =>
            DeviceIsApart(d) /\ flow'[d]["push"] = None /\ flow'[d]["command"] = None
  BY <1>1, EndsAlone
<1>5. OthersStay(d) /\ LeavesBehind(d)
  BY <1>1, <1>2, <1>3, <1>4 DEF OthersStay, LeavesBehind
<1>6. IsKept(disk'[d], client'[d], trace'[d])
  BY <1>1, <1>2, <1>3, DeviceFacts DEF IsKept, Ready
<1>7. ASSUME ~trace'[d].overlapped PROVE DeviceIsApart(d)'
  <2>1. /\ DeviceIsApart(d) /\ flow'[d]["push"] = None /\ flow'[d]["command"] = None
    BY <1>3, <1>4, <1>7
  <2>2. Expects(history, disk[d], trace[d], m)
    BY <2>1 DEF DeviceIsApart, IsApart, Slot
  <2>3. Behind(disk'[d], client'[d])
    BY <1>1, <1>2, <2>2, DeviceFacts DEF Expects, Behind
  <2> QED
    BY <1>1, <1>2, <2>1, <2>3
       DEF DeviceIsApart, IsApart, Alone, Presented, Captured, Saved, Opposed, Held,
           Versioned, Undecided, Newest, Expects
<1> QED
  BY <1>3, <1>5, <1>6, <1>7, OneDeviceMoves

LEMMA SealApart ==
    ASSUME SyncInv, ApartInv, TypeOK', [Next]_vars, NEW d \in Device, NEW s \in Slot, Seal(d, s)
    PROVE  ApartInv'
<1> DEFINE m == flow[d][s]
           x == m.remote
           known == Metadata(m.entries, x)
<1>1. /\ m # None /\ m.stage = "seal" /\ Busy(d, s) /\ history' = history
      /\ disk' = [disk EXCEPT ![d].known = known]
      /\ Settle(d, x.revision)
      /\ \/ PageEnds(d)
         \/ Synced(d, s, x, None) /\ End(d, s) /\ late' = late
  BY DEF Seal, Sealed, At, Busy
<1>2. x \in Snapshot /\ x.revision \in Nat /\ m.entries \in Contents
  BY <1>1, HeldSnapshot, AtType DEF SyncInv, Holding
<1>3. known # None /\ known.revision = x.revision /\ known.content = m.entries
  BY <1>2, MetadataType, SnapshotIsSome DEF Metadata
<1> HIDE DEF known, x
<1>4. /\ \A e \in Device \ {d} : disk'[e] = disk[e]
      /\ disk'[d].known = known /\ disk'[d].content = disk[d].content
  BY <1>1, DeviceFacts, KnownFields
<1>5. /\ \A e \in Device \ {d} : trace'[e] = trace[e]
      /\ MarksGrow(d) /\ trace'[d].settled = trace[d].settled \union {x.revision}
      /\ trace'[d].overlapped = trace[d].overlapped
  BY <1>1, <1>2, DeviceFacts, SettleFields
<1>6. ASSUME PageEnds(d) PROVE ApartInv'
  <2>1. /\ \A e \in Device \ {d} : client'[e] = client[e] /\ flow'[e] = flow[e]
        /\ client'[d] = NewPage /\ flow'[d] = NoFlow /\ LeavesBehind(d)
    BY <1>6, DeviceFacts, PageEndsFields
  <2>2. IsKept(disk'[d], client'[d], trace'[d])
    BY <1>3, <1>4, <1>5, <2>1, DeviceFacts DEF IsKept, NewPage
  <2>3. DeviceIsApart(d)'
    BY <2>1, NewPageIsApart DEF DeviceIsApart
  <2> QED
    BY <1>4, <1>5, <2>1, <2>2, <2>3, OneDeviceMoves DEF OthersStay
<1>7. ASSUME Synced(d, s, x, None), End(d, s), late' = late PROVE ApartInv'
  <2>1. /\ \A e \in Device \ {d} : client'[e] = client[e]
        /\ client'[d].status = "synced" /\ client'[d].revision = x.revision
        /\ client'[d].queued = client[d].queued /\ client'[d].initialized = Ready(d, s)
    BY <1>7, DeviceFacts, SyncedFields
  <2>2. /\ \A e \in Device \ {d} : flow'[e] = flow[e]
        /\ ~trace[d].overlapped =>
              DeviceIsApart(d) /\ flow'[d]["push"] = None /\ flow'[d]["command"] = None
    BY <1>1, <1>7, EndsAlone
  <2>3. OthersStay(d) /\ LeavesBehind(d)
    BY <1>4, <1>5, <1>7, <2>1, <2>2 DEF OthersStay, LeavesBehind
  <2>4. IsKept(disk'[d], client'[d], trace'[d])
    BY <1>3, <1>4, <1>5, <2>1, DeviceFacts DEF IsKept, Ready
  <2>5. ASSUME ~trace'[d].overlapped PROVE DeviceIsApart(d)'
    <3>1. DeviceIsApart(d) /\ flow'[d]["push"] = None /\ flow'[d]["command"] = None
      BY <1>5, <2>2, <2>5
    <3>2. m.entries = disk[d].content \/ client[d].queued > 0
      BY <1>1, <3>1 DEF DeviceIsApart, IsApart, Captured, Slot
    <3>3. IsApart(history', disk'[d], client'[d], None, None, trace'[d])
      BY <1>2, <1>3, <1>4, <1>5, <2>1, <3>2, RestsApart
    <3> QED
      BY <3>1, <3>3 DEF DeviceIsApart
  <2> QED
    BY <1>5, <2>3, <2>4, <2>5, OneDeviceMoves
<1> QED
  BY <1>1, <1>6, <1>7

LEMMA PoisonedFlowEndsApart ==
    ASSUME SyncInv, ApartInv, TypeOK', [Next]_vars, NEW d \in Device, NEW s \in Slot,
           PoisonedFlowEnds(d, s)
    PROVE  ApartInv'
<1>1. /\ Busy(d, s) /\ End(d, s) /\ Orphan(d, {s}) /\ client[d].status = "poisoned"
      /\ UNCHANGED <<history, disk, client, trace>>
  BY DEF PoisonedFlowEnds, Healthy
<1>2. /\ \A e \in Device \ {d} : flow'[e] = flow[e]
      /\ ~trace[d].overlapped =>
            DeviceIsApart(d) /\ flow'[d]["push"] = None /\ flow'[d]["command"] = None
  BY <1>1, EndsAlone
<1>3. OthersStay(d) /\ MarksGrow(d)
  BY <1>1, <1>2 DEF OthersStay, MarksGrow
<1>4. LeavesBehind(d)
  BY <1>1, OrphanFields
<1>5. IsKept(disk'[d], client'[d], trace'[d])
  BY <1>1, DeviceFacts
<1>6. ASSUME ~trace'[d].overlapped PROVE DeviceIsApart(d)'
  <2>1. DeviceIsApart(d) /\ flow'[d]["push"] = None /\ flow'[d]["command"] = None
    BY <1>1, <1>2, <1>6
  <2>2. IsApart(history', disk'[d], client'[d], None, None, trace'[d])
    BY <1>1, <2>1, PoisonedIsApart DEF DeviceIsApart
  <2> QED
    BY <2>1, <2>2 DEF DeviceIsApart
<1> QED
  BY <1>3, <1>4, <1>5, <1>6, OneDeviceMoves

LEMMA EditApart ==
    ASSUME SyncInv, ApartInv, TypeOK', [Next]_vars, NEW d \in Device, Edit(d)
    PROVE  ApartInv'
<1>1. /\ client[d].initialized /\ UNCHANGED <<history, late, flow>> /\ Overlap(d, "push")
      /\ client[d] \in Page /\ client \in [Device -> Page]
      /\ disk[d] \in Storage /\ disk \in [Device -> Storage]
  BY DeviceFacts, DeviceType DEF Edit, TypeOK
<1>2. /\ \A e \in Device \ {d} : client'[e] = client[e]
      /\ client'[d].status = client[d].status /\ client'[d].revision = client[d].revision
      /\ client'[d].conflict = client[d].conflict
      /\ client'[d].queued = client[d].queued + 1
      /\ client'[d].initialized = client[d].initialized
  BY <1>1 DEF Edit, Page
<1>3. (\A e \in Device \ {d} : disk'[e] = disk[e]) /\ disk'[d].known = disk[d].known
  BY <1>1 DEF Edit, Storage
<1>4. /\ \A e \in Device \ {d} : trace'[e] = trace[e]
      /\ MarksGrow(d) /\ trace'[d].settled = trace[d].settled
      /\ ~trace'[d].overlapped => ~trace[d].overlapped /\ flow[d]["command"] = None
  BY <1>1, DeviceFacts, OverlapFields DEF Slot, Busy
<1>5. OthersStay(d) /\ LeavesBehind(d)
  BY <1>1, <1>2, <1>3, <1>4 DEF OthersStay, LeavesBehind
<1>6. IsKept(disk'[d], client'[d], trace'[d])
  BY <1>1, <1>2, <1>3, <1>4, DeviceFacts DEF IsKept
<1>7. ASSUME ~trace'[d].overlapped PROVE DeviceIsApart(d)'
  <2>1. /\ DeviceIsApart(d) /\ flow[d]["command"] = None
        /\ client'[d].queued > 0 /\ client'[d].queued # 0
    BY <1>2, <1>4, <1>7, DeviceFacts
  <2> QED
    BY <1>1, <1>2, <1>3, <1>4, <2>1
       DEF DeviceIsApart, IsApart, Alone, Presented, Captured, Saved, Opposed, Held,
           Versioned, Current, Behind, Undecided, Newest, Expects
<1> QED
  BY <1>4, <1>5, <1>6, <1>7, OneDeviceMoves

LEMMA ReloadApart ==
    ASSUME SyncInv, ApartInv, TypeOK', [Next]_vars, NEW d \in Device, Reload(d)
    PROVE  ApartInv'
<1>1. UNCHANGED <<history, disk, trace>> /\ PageEnds(d)
  BY DEF Reload
<1>2. /\ \A e \in Device \ {d} : client'[e] = client[e] /\ flow'[e] = flow[e]
      /\ client'[d] = NewPage /\ flow'[d] = NoFlow /\ LeavesBehind(d)
  BY <1>1, DeviceFacts, PageEndsFields
<1>3. IsKept(disk'[d], client'[d], trace'[d])
  BY <1>1, <1>2, DeviceFacts DEF IsKept, NewPage
<1>4. DeviceIsApart(d)'
  BY <1>2, NewPageIsApart DEF DeviceIsApart
<1> QED
  BY <1>1, <1>2, <1>3, <1>4, OneDeviceMoves DEF OthersStay, MarksGrow

LEMMA ResolveWithServerApart ==
    ASSUME SyncInv, ApartInv, TypeOK', [Next]_vars, NEW d \in Device, ~Microtask(d),
           ResolveWithServer(d)
    PROVE  ApartInv'
<1> DEFINE f == [Start("adopt", "resolve", disk[d].content, client[d].conflict, 0)
                   EXCEPT !.metadata = disk[d].known]
<1>1. /\ flow[d]["command"] = None /\ UNCHANGED <<history, late, disk, client>>
      /\ flow' = [flow EXCEPT ![d]["command"] = f]
      /\ client[d].status = "conflict" /\ Overlap(d, "command")
  BY DEF ResolveWithServer, Busy, SetFlow
<1>2. /\ f # None /\ f.stage = "adopt" /\ f.kind = "resolve" /\ f.entries = disk[d].content
      /\ f.metadata = disk[d].known
  <2>1. /\ disk[d].content \in Contents /\ client[d].conflict \in Snapshot \union {None}
        /\ disk[d].known \in Snapshot \union {None}
    BY DeviceFacts, DeviceType DEF Storage
  <2>2. "adopt" \in Stage /\ "resolve" \in Kind /\ 0 \in Nat
    BY DEF Stage, Kind
  <2>3. f \in Waiting
    BY <2>1, <2>2 DEF Start, Waiting
  <2> QED
    BY <2>3, NoneIsNoFlow DEF Start
<1> HIDE DEF f
<1>3. /\ \A e \in Device \ {d} : flow'[e] = flow[e]
      /\ flow'[d]["push"] = flow[d]["push"] /\ flow'[d]["command"] = f
  BY <1>1, DeviceFacts, FlowFields DEF Slot
<1>4. /\ \A e \in Device \ {d} : trace'[e] = trace[e]
      /\ MarksGrow(d) /\ trace'[d].settled = trace[d].settled
      /\ ~trace'[d].overlapped => ~trace[d].overlapped /\ flow[d]["push"] = None
  BY <1>1, DeviceFacts, OverlapFields DEF Slot, Busy
<1>5. OthersStay(d) /\ LeavesBehind(d)
  BY <1>1, <1>3, <1>4 DEF OthersStay, LeavesBehind
<1>6. IsKept(disk'[d], client'[d], trace'[d])
  BY <1>1, <1>4, DeviceFacts DEF IsKept
<1>7. ASSUME ~trace'[d].overlapped PROVE DeviceIsApart(d)'
  <2>1. flow[d]["push"] = None /\ client[d].queued = 0 /\ DeviceIsApart(d)
    BY <1>4, <1>7, DeviceFacts DEF Microtask, Busy
  <2> QED
    BY <1>1, <1>2, <1>3, <1>4, <2>1
       DEF DeviceIsApart, IsApart, Alone, Presented, Captured, Saved, Opposed, Held,
           Versioned, Undecided, Newest, Expects
<1> QED
  BY <1>4, <1>5, <1>6, <1>7, OneDeviceMoves

LEMMA ResolveWithDeviceApart ==
    ASSUME SyncInv, ApartInv, TypeOK', [Next]_vars, NEW d \in Device, ~Microtask(d),
           ResolveWithDevice(d)
    PROVE  ApartInv'
<1> DEFINE x == client[d].conflict
           n == flow'[d]["command"]
<1>1. /\ flow[d]["command"] = None /\ UNCHANGED <<history, late>> /\ x # None
      /\ disk' = [disk EXCEPT ![d].backups = @ \union {x.content}]
      /\ Upload(d, "command", "resolve", disk[d].content, x.revision)
      /\ client[d].status = "conflict"
      /\ trace' = [trace EXCEPT ![d].settled = @ \union {x.revision},
                                ![d].overlapped = @ \/ Busy(d, "push")]
  BY DEF ResolveWithDevice, Busy
<1>2. x.revision \in Nat /\ disk[d].content \in Contents /\ "resolve" \in Kind
  BY <1>1, DeviceFacts, DeviceType, SnapshotIsSome DEF Storage, Kind
<1>3. /\ \A e \in Device \ {d} : disk'[e] = disk[e]
      /\ disk'[d].known = disk[d].known /\ disk'[d].content = disk[d].content
  <2>1. disk[d] \in Storage /\ disk \in [Device -> Storage]
    BY DeviceFacts, DeviceType DEF TypeOK
  <2> QED
    BY <1>1, <2>1 DEF Storage
<1>4. /\ \A e \in Device \ {d} : flow'[e] = flow[e] /\ client'[e] = client[e]
      /\ n # None /\ n.stage = "put" /\ n.kind = "resolve" /\ n.entries = disk[d].content
      /\ n.expected = x.revision /\ flow'[d]["push"] = flow[d]["push"]
      /\ client'[d].status = "syncing" /\ client'[d].revision = client[d].revision
      /\ client'[d].queued = client[d].queued
      /\ client'[d].initialized = client[d].initialized
  BY <1>1, <1>2, DeviceFacts, UploadFields DEF Slot
<1>5. /\ \A e \in Device \ {d} : trace'[e] = trace[e]
      /\ trace'[d].settled = trace[d].settled \union {x.revision}
      /\ trace'[d].overlapped = (trace[d].overlapped \/ Busy(d, "push"))
  <2>1. trace[d] \in Marks /\ trace \in [Device -> Marks]
    BY DeviceFacts, DeviceType DEF TypeOK, Marks
  <2> DEFINE r == x.revision
             both == trace[d].overlapped \/ Busy(d, "push")
  <2>2. trace' = [trace EXCEPT ![d] = [trace[d] EXCEPT !.settled = @ \union {r},
                                                       !.overlapped = both]]
    BY <1>1, <2>1
  <2> HIDE DEF r, both
  <2>3. /\ \A e \in Device \ {d} : trace'[e] = trace[e]
        /\ trace'[d].settled = trace[d].settled \union {r}
        /\ trace'[d].overlapped = both
    BY <2>1, <2>2 DEF Marks
  <2> QED
    BY <2>3 DEF r, both
<1> HIDE DEF x
<1>6. OthersStay(d) /\ MarksGrow(d) /\ LeavesBehind(d)
  BY <1>1, <1>3, <1>4, <1>5 DEF OthersStay, MarksGrow, LeavesBehind
<1>7. IsKept(disk'[d], client'[d], trace'[d])
  BY <1>3, <1>4, <1>5, DeviceFacts DEF IsKept
<1>8. ASSUME ~trace'[d].overlapped PROVE DeviceIsApart(d)'
  <2>1. flow[d]["push"] = None /\ client[d].queued = 0 /\ DeviceIsApart(d)
    <3>1. ~trace[d].overlapped /\ ~Busy(d, "push")
      BY <1>5, <1>8
    <3> QED
      BY <3>1, DeviceFacts DEF Microtask, Busy
  <2>2. client[d].revision = x.revision
    BY <1>1, <2>1 DEF DeviceIsApart, IsApart, Opposed, x
  <2>3. disk[d].known # None => disk[d].known.revision <= x.revision
    BY <1>2, <2>1, <2>2, DeviceFacts
       DEF DeviceIsApart, IsApart, Versioned, Current, Behind
  <2>4. Expects(history', disk'[d], trace'[d], n)
    BY <1>3, <1>4, <1>5, <2>3 DEF Expects
  <2>5. Versioned(disk'[d], client'[d], n)
    BY <1>3, <1>4, <2>1
       DEF DeviceIsApart, IsApart, Versioned, Current, Behind, Undecided
  <2> HIDE DEF n
  <2> QED
    BY <1>1, <1>3, <1>4, <1>5, <2>1, <2>2, <2>4, <2>5
       DEF DeviceIsApart, IsApart, Alone, Presented, Captured, Saved, Opposed, Held, Newest,
           Expects, n
<1> QED
  BY <1>6, <1>7, <1>8, OneDeviceMoves

LEMMA ReadFailsApart ==
    ASSUME SyncInv, ApartInv, TypeOK', [Next]_vars, NEW d \in Device, ReadFails(d)
    PROVE  ApartInv'
<1>1. /\ Busy(d, "command") /\ flow[d]["command"].stage \in {"get", "got"}
      /\ Show(d, "command", "offline") /\ End(d, "command")
      /\ UNCHANGED <<history, late, disk, trace>>
  BY DEF ReadFails, At
<1>2. /\ \A e \in Device \ {d} : flow'[e] = flow[e]
      /\ ~trace[d].overlapped =>
            DeviceIsApart(d) /\ flow'[d]["push"] = None /\ flow'[d]["command"] = None
  BY <1>1, EndsAlone DEF Slot
<1>3. /\ \A e \in Device \ {d} : client'[e] = client[e]
      /\ client'[d].status = "offline" /\ client'[d].revision = client[d].revision
      /\ client'[d].queued = client[d].queued /\ client'[d].initialized = Ready(d, "command")
  BY <1>1, DeviceFacts, ShowFields
<1>4. OthersStay(d) /\ MarksGrow(d) /\ LeavesBehind(d)
  BY <1>1, <1>2, <1>3 DEF OthersStay, MarksGrow, LeavesBehind
<1>5. IsKept(disk'[d], client'[d], trace'[d])
  BY <1>1, <1>3, DeviceFacts DEF IsKept, Ready
<1>6. ASSUME ~trace'[d].overlapped PROVE DeviceIsApart(d)'
  <2>1. DeviceIsApart(d) /\ flow'[d]["push"] = None /\ flow'[d]["command"] = None
    BY <1>1, <1>2, <1>6
  <2>2. client[d].status = "syncing"
    BY <1>1, <2>1 DEF DeviceIsApart, IsApart, Presented, Busy
  <2>3. IsApart(history', disk'[d], client'[d], None, None, trace'[d])
    BY <1>1, <1>3, <2>1, <2>2, OfflineIsApart DEF DeviceIsApart
  <2> QED
    BY <2>1, <2>3 DEF DeviceIsApart
<1> QED
  BY <1>4, <1>5, <1>6, OneDeviceMoves

LEMMA ServiceAbsentApart ==
    ASSUME SyncInv, ApartInv, TypeOK', [Next]_vars, NEW d \in Device, ServiceAbsent(d)
    PROVE  ApartInv'
<1>1. /\ Busy(d, "command") /\ End(d, "command") /\ UNCHANGED <<history, late, disk, trace>>
  BY DEF ServiceAbsent, At
<1>2. /\ \A e \in Device \ {d} : flow'[e] = flow[e]
      /\ ~trace[d].overlapped =>
            DeviceIsApart(d) /\ flow'[d]["push"] = None /\ flow'[d]["command"] = None
  BY <1>1, EndsAlone DEF Slot
<1>3. /\ \A e \in Device \ {d} : client'[e] = client[e]
      /\ client'[d].status = "local" /\ client'[d].revision = None
      /\ client'[d].queued = client[d].queued /\ client'[d].initialized = Ready(d, "command")
  <2>1. client[d] \in Page /\ client \in [Device -> Page]
    BY DeviceFacts, DeviceType DEF TypeOK
  <2> QED
    BY <2>1 DEF ServiceAbsent, Page
<1>4. OthersStay(d) /\ MarksGrow(d) /\ LeavesBehind(d)
  BY <1>1, <1>2, <1>3 DEF OthersStay, MarksGrow, LeavesBehind
<1>5. IsKept(disk'[d], client'[d], trace'[d])
  BY <1>1, <1>3, DeviceFacts DEF IsKept, Ready
<1>6. ASSUME ~trace'[d].overlapped PROVE DeviceIsApart(d)'
  BY <1>1, <1>2, <1>3, <1>6
     DEF DeviceIsApart, IsApart, Alone, Presented, Captured, Saved, Opposed, Held,
         Versioned, Current, Newest, Expects
<1> QED
  BY <1>4, <1>5, <1>6, OneDeviceMoves

LEMMA UploadFailsApart ==
    ASSUME SyncInv, ApartInv, TypeOK', [Next]_vars, NEW d \in Device, NEW s \in Slot,
           UploadFails(d, s)
    PROVE  ApartInv'
<1> DEFINE m == flow[d][s]
<1>1. /\ m # None /\ m.stage \in {"put", "accepted", "refused"} /\ Busy(d, s)
      /\ End(d, s) /\ Orphan(d, {s}) /\ UNCHANGED <<history, disk, trace>>
  BY DEF UploadFails, At, Busy
<1>2. /\ \A e \in Device \ {d} : flow'[e] = flow[e]
      /\ ~trace[d].overlapped =>
            DeviceIsApart(d) /\ flow'[d]["push"] = None /\ flow'[d]["command"] = None
  BY <1>1, EndsAlone
<1>3. /\ \A e \in Device \ {d} : client'[e] = client[e]
      /\ client'[d].revision = client[d].revision
      /\ client'[d].queued = client[d].queued
      /\ client'[d].initialized = client[d].initialized
      /\ \/ client'[d].status = "offline"
         \/ client' = client /\ m.kind \notin {"push", "resolve"}
  BY DeviceFacts, StatusFields DEF UploadFails
<1>4. OthersStay(d) /\ MarksGrow(d) /\ LeavesBehind(d)
  BY <1>1, <1>2, <1>3, OrphanFields DEF OthersStay, MarksGrow
<1>5. IsKept(disk'[d], client'[d], trace'[d])
  BY <1>1, <1>3, DeviceFacts DEF IsKept
<1>6. ASSUME ~trace'[d].overlapped PROVE DeviceIsApart(d)'
  <2>1. DeviceIsApart(d) /\ flow'[d]["push"] = None /\ flow'[d]["command"] = None
    BY <1>1, <1>2, <1>6
  <2>2. client[d].status = "syncing"
    BY <1>1, <2>1 DEF DeviceIsApart, IsApart, Presented, Slot
  <2>3. CASE client'[d].status = "offline"
    <3>1. IsApart(history', disk'[d], client'[d], None, None, trace'[d])
      BY <1>1, <1>3, <2>1, <2>2, <2>3, OfflineIsApart DEF DeviceIsApart
    <3> QED
      BY <2>1, <3>1 DEF DeviceIsApart
  <2>4. CASE client' = client /\ m.kind \notin {"push", "resolve"}
    <3>1. Current(disk[d], client[d])
      BY <1>1, <2>1, <2>2, <2>4
         DEF DeviceIsApart, IsApart, Alone, Versioned, Undecided, Slot
    <3> QED
      BY <1>1, <2>1, <2>2, <2>4, <3>1
         DEF DeviceIsApart, IsApart, Alone, Presented, Captured, Saved, Opposed, Held,
             Versioned, Newest, Expects
  <2> QED
    BY <1>3, <2>3, <2>4
<1> QED
  BY <1>4, <1>5, <1>6, OneDeviceMoves

LEMMA SettledGrows ==
    ASSUME SyncInv, [Next]_vars, NEW d \in Device PROVE trace[d].settled \subseteq trace'[d].settled
<1>0. trace \in [Device -> Marks]
  BY DEF SyncInv, TypeOK, Marks
<1> USE <1>0 DEF Marks
<1>1. ASSUME NEW e \in Device, NEW r, See(e, r) \/ Settle(e, r)
      PROVE  trace[d].settled \subseteq trace'[d].settled
  BY <1>1 DEF See, Settle
<1>2. ASSUME NEW e \in Device, NEW s, Overlap(e, s)
      PROVE  trace[d].settled \subseteq trace'[d].settled
  BY <1>2 DEF Overlap
<1>3. ASSUME NEW e \in Device, ResolveWithDevice(e)
      PROVE  trace[d].settled \subseteq trace'[d].settled
  BY <1>3 DEF ResolveWithDevice
<1>4. ASSUME trace' = trace PROVE trace[d].settled \subseteq trace'[d].settled
  BY <1>4
<1>5. ASSUME NEW e \in Device, PageStep(e) PROVE trace[d].settled \subseteq trace'[d].settled
  BY <1>1, <1>2, <1>4, <1>5
     DEF PageStep, PushStart, ReconcileStep, UploadStep, Initialize, Reconcile, CaptureForReconcile,
         Converge, Diverge, HydrateAutomatically, AdoptServer, Hydrated, HydrationRestored,
         AdoptionRestored, HydrationBroken, UploadFirst, UploadChange, PushDigested, Accepted,
         Refused, Seal, PoisonedFlowEnds
<1>6. ASSUME NEW e \in Device, UserStep(e) PROVE trace[d].settled \subseteq trace'[d].settled
  BY <1>2, <1>3, <1>4, <1>6 DEF UserStep, Edit, Reload, Retry, Reconcile, ResolveWithServer
<1>7. ASSUME NEW e \in Device, FailureStep(e) \/ ServerStep(e) PROVE trace' = trace
  BY <1>7
     DEF FailureStep, ReadFails, ServiceAbsent, UploadFails, ServerStep, ServerReads, ServerReplaces
<1>8. CASE ServerReplacesLate \/ UNCHANGED vars
  BY <1>4, <1>8 DEF ServerReplacesLate, vars
<1> QED
  BY <1>4, <1>5, <1>6, <1>7, <1>8 DEF Next

\* What a command may restore is what it captured when it began.
LEMMA CommandCaptures ==
    ASSUME SyncInv, [Next]_vars, NEW d \in Device,
           flow'[d]["command"] # None, flow'[d]["command"].metadata # None
    PROVE  \/ flow'[d]["command"].metadata = disk[d].known
           \/ /\ flow[d]["command"] # None
              /\ flow'[d]["command"].metadata = flow[d]["command"].metadata
<1> DEFINE Carried ==
       \/ flow'[d]["command"].metadata = disk[d].known
       \/ /\ flow[d]["command"] # None
          /\ flow'[d]["command"].metadata = flow[d]["command"].metadata
<1>0. flow \in Flows /\ Slot = {"push", "command"}
  BY FlowsType DEF Slot
<1> USE <1>0
<1>1. ASSUME flow' = flow PROVE Carried
  BY <1>1
<1>2. ASSUME NEW e \in Device, NEW s \in Slot, End(e, s) PROVE Carried
  BY <1>2 DEF End, SetFlow, Flows
<1>3. ASSUME NEW e \in Device, PageEnds(e) PROVE Carried
  BY <1>3 DEF PageEnds, NoFlow, Flows
<1>4. ASSUME NEW e \in Device, NEW s \in Slot, NEW stage, NEW kind, NEW entries, NEW remote,
             NEW expected, SetFlow(e, s, Start(stage, kind, entries, remote, expected))
      PROVE  Carried
  BY <1>4 DEF SetFlow, Start, Flows
<1>5. ASSUME NEW e \in Device, NEW s \in Slot, NEW f, Busy(e, s), SetFlow(e, s, f),
             f.metadata = flow[e][s].metadata
      PROVE  Carried
  BY <1>5 DEF SetFlow, Flows, Busy
<1>6. ASSUME NEW e \in Device, ServerReads(e) \/ CaptureForReconcile(e) PROVE Carried
  BY <1>6 DEF ServerReads, CaptureForReconcile, At, Busy, Flows, Waiting
<1>7. ASSUME NEW e \in Device, NEW s \in Slot, ServerReplaces(e, s) PROVE Carried
  <2>1. Busy(e, s) /\ flow[e][s] \in Waiting
    BY <1>7 DEF ServerReplaces, At, Busy, Flows
  <2>2. PICK stage, x :
           SetFlow(e, s, [flow[e][s] EXCEPT !.stage = stage, !.remote = x])
    BY <1>7 DEF ServerReplaces
  <2>3. [flow[e][s] EXCEPT !.stage = stage, !.remote = x].metadata = flow[e][s].metadata
    BY <2>1 DEF Waiting
  <2> QED
    BY <1>5, <2>1, <2>2, <2>3
<1>8. ASSUME NEW e \in Device, NEW s \in Slot, Accepted(e, s) PROVE Carried
  BY <1>8 DEF Accepted, Advance, At, Busy, Flows, Waiting
<1>9. ASSUME NEW e \in Device, ResolveWithServer(e) PROVE Carried
  BY <1>9 DEF ResolveWithServer, SetFlow, Start, Flows
<1>10. ASSUME NEW e \in Device, PageStep(e) PROVE Carried
  <2>1. CASE PushStart(e) \/ PushDigested(e)
    BY <1>1, <1>2, <1>4, <2>1 DEF PushStart, PushDigested, Upload
  <2>2. CASE ReconcileStep(e)
    BY <1>1, <1>2, <1>3, <1>4, <1>6, <2>2
       DEF ReconcileStep, Initialize, Reconcile, Converge, Diverge, HydrateAutomatically,
           AdoptServer, UploadFirst, UploadChange, Upload
  <2>3. ASSUME NEW s \in Slot, UploadStep(e, s) PROVE Carried
    BY <1>2, <1>3, <1>8, <2>3 DEF UploadStep, Refused, Seal, PoisonedFlowEnds
  <2> QED
    BY <1>10, <2>1, <2>2, <2>3 DEF PageStep
<1>11. ASSUME NEW e \in Device, UserStep(e) PROVE Carried
  BY <1>1, <1>3, <1>4, <1>9, <1>11
     DEF UserStep, Edit, Reload, Retry, Reconcile, ResolveWithDevice, Upload
<1>12. ASSUME NEW e \in Device, FailureStep(e) \/ ServerStep(e) PROVE Carried
  BY <1>2, <1>6, <1>7, <1>12 DEF FailureStep, ReadFails, ServiceAbsent, UploadFails, ServerStep
<1>13. CASE ServerReplacesLate \/ UNCHANGED vars
  BY <1>1, <1>13 DEF ServerReplacesLate, vars
<1> QED
  BY <1>10, <1>11, <1>12, <1>13 DEF Next

LEMMA MetadataSettledStep ==
    ASSUME SyncInv, ApartInv, MetadataSettled, [Next]_vars PROVE MetadataSettled'
<1> SUFFICES ASSUME NEW d \in Device, flow'[d]["command"] # None,
                    flow'[d]["command"].metadata # None
             PROVE  flow'[d]["command"].metadata.revision \in trace'[d].settled
  BY DEF MetadataSettled
<1>1. disk[d].known # None => disk[d].known.revision \in trace[d].settled
  BY DEF ApartInv, DevicesKept, IsKept
<1> QED
  BY <1>1, CommandCaptures, SettledGrows DEF MetadataSettled

LEMMA ApartStarts == Init => ApartInv /\ MetadataSettled
<1> SUFFICES ASSUME Init PROVE ApartInv /\ MetadataSettled
  OBVIOUS
<1>1. \A d \in Device : /\ disk[d].known = None /\ client[d] = NewPage /\ flow[d] = NoFlow
                        /\ trace[d].settled = {0}
  <2>1. PICK start : disk = [d \in Device |->
                                [content |-> start[d], known |-> None, backups |-> {}]]
    BY DEF Init
  <2>2. /\ client = [d \in Device |-> NewPage] /\ flow = [d \in Device |-> NoFlow]
        /\ trace = [d \in Device |-> [seen |-> {}, settled |-> {0}, overlapped |-> FALSE]]
    BY DEF Init
  <2> QED
    BY <2>1, <2>2
<1>2. DevicesKept
  <2>1. ~(NewPage.queued > 0)
    BY DEF NewPage
  <2> QED
    BY <1>1, <2>1 DEF DevicesKept, IsKept
<1>3. DevicesApart
  BY <1>1, NewPageIsApart DEF DevicesApart, DeviceIsApart
<1>4. LateSettled
  BY DEF Init, LateSettled
<1>5. MetadataSettled
  BY <1>1 DEF MetadataSettled, NoFlow, Slot
<1> QED
  BY <1>2, <1>3, <1>4, <1>5 DEF ApartInv

LEMMA ApartStep ==
    ASSUME SyncInv, ApartInv, MetadataSettled, TypeOK', [Next]_vars PROVE ApartInv'
<1>1. CASE ServerReplacesLate
  BY <1>1, ServerReplacesLateApart
<1>2. ASSUME NEW d \in Device, ServerStep(d) PROVE ApartInv'
  BY <1>2, ServerReadsApart, ServerReplacesApart DEF ServerStep
<1>3. ASSUME NEW d \in Device, PushStart(d) PROVE ApartInv'
  BY <1>3, PushStartApart
<1>4. ASSUME NEW d \in Device, ~Microtask(d), ReconcileStep(d) PROVE ApartInv'
  <2>1. CASE Initialize(d)
    BY <1>4, <2>1, ReconcileApart DEF Initialize, Kind
  <2> QED
    BY <1>4, <2>1, CaptureApart, ConvergeApart, DivergeApart, HydrateApart, AdoptApart,
       UploadFirstApart, UploadChangeApart
       DEF ReconcileStep
<1>5. ASSUME NEW d \in Device, PushDigested(d) PROVE ApartInv'
  BY <1>5, PushDigestedApart
<1>6. ASSUME NEW d \in Device, NEW s \in Slot, UploadStep(d, s) PROVE ApartInv'
  BY <1>6, AcceptedApart, RefusedApart, SealApart, PoisonedFlowEndsApart DEF UploadStep
<1>7. ASSUME NEW d \in Device, ~Microtask(d), UserStep(d) PROVE ApartInv'
  <2>1. CASE Retry(d)
    BY <1>7, <2>1, ReconcileApart DEF Retry, Kind
  <2> QED
    BY <1>7, <2>1, EditApart, ReloadApart, ResolveWithServerApart, ResolveWithDeviceApart
       DEF UserStep
<1>8. ASSUME NEW d \in Device, FailureStep(d) PROVE ApartInv'
  BY <1>8, ReadFailsApart, ServiceAbsentApart, UploadFailsApart DEF FailureStep
<1>9. CASE UNCHANGED vars
  BY <1>9 DEF vars, ApartInv, DevicesKept, DevicesApart, DeviceIsApart, LateSettled
<1> QED
  BY <1>1, <1>2, <1>3, <1>4, <1>5, <1>6, <1>7, <1>8, <1>9 DEF Next, PageStep

\* Whatever requests are lost or late: a device whose pushes and commands have
\* not run into each other works with what is on it, knows which revision it
\* holds, and would replace only that one or the one it was told to replace.
THEOREM ApartAlways == Spec => [](SyncInv /\ ApartInv /\ MetadataSettled)
<1>1. Init => SyncInv /\ ApartInv /\ MetadataSettled
  BY InvariantStarts, ApartStarts
<1>2. SyncInv /\ ApartInv /\ MetadataSettled /\ [Next]_vars
         => (SyncInv /\ ApartInv /\ MetadataSettled)'
  <2> SUFFICES ASSUME SyncInv, ApartInv, MetadataSettled, [Next]_vars
               PROVE  SyncInv' /\ ApartInv' /\ MetadataSettled'
    OBVIOUS
  <2>1. TypeOK'
    BY TypeStep DEF SyncInv
  <2> QED
    BY <2>1, ShownStep, FlowStep, PagesStep, StorageStep, LateStep, ApartStep, MetadataSettledStep
       DEF SyncInv
<1> QED
  BY <1>1, <1>2, PTL DEF Spec

\* A page that says "Synced" and has nothing under way has saved what is on the
\* device, unless a command ran into the pushes: pushCurrent(), upload() and
\* enqueueSync() miss no edit.
THEOREM SyncedStaysSaved == Spec => []SyncedMeansSaved
<1>1. SyncInv /\ ApartInv => SyncedMeansSaved
  BY DEF ApartInv, DevicesApart, DeviceIsApart, IsApart, Saved, SyncedMeansSaved, Quiet, Busy,
         Slot
<1> QED
  BY <1>1, ApartAlways, PTL

-----------------------------------------------------------------------------
(* What a step may never do.                                               *)

\* Only StateStore.replace() changes the history.
LEMMA HistoryChanges ==
    ASSUME [Next]_vars, history' # history
    PROVE  ServerReplacesLate \/ \E d \in Device, s \in Slot : ServerReplaces(d, s)
<1>1. ASSUME NEW d \in Device, PageStep(d) PROVE history' = history
  BY <1>1 DEF PageStep, PushStart, ReconcileStep, Initialize, Reconcile, CaptureForReconcile,
     Converge, Diverge, HydrateAutomatically, AdoptServer, UploadFirst, UploadChange,
     PushDigested, UploadStep, Accepted, Refused, Seal, PoisonedFlowEnds
<1>2. ASSUME NEW d \in Device, UserStep(d) \/ FailureStep(d) PROVE history' = history
  BY <1>2 DEF UserStep, Edit, Reload, Retry, Reconcile, ResolveWithServer, ResolveWithDevice,
     FailureStep, ReadFails, ServiceAbsent, UploadFails
<1>3. ASSUME NEW d \in Device, ServerReads(d) PROVE history' = history
  BY <1>3 DEF ServerReads
<1>4. ASSUME UNCHANGED vars PROVE history' = history
  BY <1>4 DEF vars
<1> QED
  BY <1>1, <1>2, <1>3, <1>4 DEF Next, ServerStep

\* And it appends what it accepts.
LEMMA Replacement ==
    ASSUME SyncInv, NEW d \in Device, NEW s \in Slot, ServerReplaces(d, s), history' # history
    PROVE  /\ At(d, s, "put") /\ flow[d][s].expected = Len(history)
           /\ history' = Append(history, flow[d][s].entries)
           /\ late' = late
           /\ \A e \in Device, t \in Slot : e # d \/ t # s => flow'[e][t] = flow[e][t]
<1>1. /\ At(d, s, "put") /\ flow[d][s].expected = Len(history) /\ late' = late
      /\ history' = Append(history, flow[d][s].entries)
      /\ \E f : SetFlow(d, s, f)
  BY DEF ServerReplaces, Accepts
<1>2. PICK f : SetFlow(d, s, f)
  BY <1>1
<1>3. \A e \in Device, t \in Slot : e # d \/ t # s => flow'[e][t] = flow[e][t]
  BY <1>2, FlowFields DEF SetFlow, SyncInv
<1> QED
  BY <1>1, <1>3

\* reconcile() and pushCurrent() replace the server's copy only when the device
\* has held it or its user chose to, also through requests served late, unless
\* a command ran into the pushes.
THEOREM ServerCopyIsKept == Spec => ServerCopyKept
<1>1. SyncInv /\ ApartInv /\ [Next]_vars
         => [\A d \in Device : ReplacesUndecided(d) => trace[d].overlapped]_vars
  <2> SUFFICES ASSUME SyncInv, ApartInv, [Next]_vars, NEW d \in Device, ReplacesUndecided(d),
                      ~trace[d].overlapped
               PROVE  FALSE
    OBVIOUS
  <2>1. history' # history /\ Len(history) \notin trace[d].settled /\ DeviceIsApart(d)
    BY DeviceFacts DEF ReplacesUndecided
  <2>2. CASE ServerReplacesLate
    <3>1. PICK r \in late :
             /\ late' = late \ {r} /\ flow' = flow
             /\ history' = IF Accepts(r.expected) THEN Append(history, r.entries) ELSE history
      BY <2>2 DEF ServerReplacesLate
    <3>2. r.expected = Len(history)
      BY <2>1, <3>1 DEF Accepts
    <3>3. r.device = d
      BY <3>1 DEF ReplacesUndecided
    <3> QED
      BY <2>1, <3>2, <3>3 DEF ApartInv, LateSettled
  <2>3. ASSUME NEW e \in Device, NEW t \in Slot, ServerReplaces(e, t) PROVE FALSE
    <3>1. /\ At(e, t, "put") /\ flow[e][t].expected = Len(history) /\ late' = late
          /\ \A b \in Device, s \in Slot : b # e \/ s # t => flow'[b][s] = flow[b][s]
      BY <2>1, <2>3, Replacement
    <3>2. e = d
      BY <3>1 DEF ReplacesUndecided
    <3>3. Expects(history, disk[d], trace[d], flow[d][t])
      BY <2>1 DEF DeviceIsApart, IsApart, Slot
    <3> QED
      BY <2>1, <3>1, <3>2, <3>3 DEF Expects, At, Busy
  <2> QED
    BY <2>1, <2>2, <2>3, HistoryChanges
<1> QED
  BY <1>1, ApartAlways, PTL DEF Spec, ServerCopyKept

\* Whatever answers are lost and however many pushes are queued, the latest
\* snapshot is not stored a second time as a new revision, unless the user
\* resolves a conflict with it or a command ran into the pushes.
THEOREM SnapshotsStoredOnce == Spec => StoredOnce
<1> DEFINE Once(d, s) ==
       At(d, s, "put") /\ history' # history /\ flow'[d][s] # flow[d][s]
          => \/ history'[Len(history')] # Latest.content
             \/ flow[d][s].kind = "resolve" \/ trace[d].overlapped
<1>1. SyncInv /\ ApartInv /\ [Next]_vars => [\A d \in Device : \A s \in Slot : Once(d, s)]_vars
  <2> SUFFICES ASSUME SyncInv, ApartInv, [Next]_vars, NEW d \in Device, NEW s \in Slot,
                      history' # history, flow'[d][s] # flow[d][s],
                      flow[d][s].kind # "resolve", ~trace[d].overlapped
               PROVE  history'[Len(history')] # Latest.content
    OBVIOUS
  <2>1. PICK e \in Device, t \in Slot : ServerReplaces(e, t)
    BY HistoryChanges DEF ServerReplacesLate
  <2>2. /\ At(d, s, "put") /\ flow[d][s].expected = Len(history)
        /\ history' = Append(history, flow[d][s].entries)
    BY <2>1, Replacement
  <2>3. Expects(history, disk[d], trace[d], flow[d][s]) /\ history \in Seq(Contents)
    BY DeviceFacts DEF DeviceIsApart, IsApart, Slot, TypeOK
  <2>4. flow[d][s].entries # Stored(history, Len(history))
    BY <2>2, <2>3 DEF Expects, At, Busy
  <2>5. Latest.content = Stored(history, Len(history))
    BY <2>3, LatestType DEF IsTrue
  <2>6. history'[Len(history')] = flow[d][s].entries
    BY <2>2, <2>3, AtType, DeviceFacts DEF At
  <2> QED
    BY <2>4, <2>5, <2>6
<1> QED
  BY <1>1, ApartAlways, PTL DEF Spec, StoredOnce

\* hydrateRemote() replaces what is on a device, from a reconcile or by its
\* user's choice, or puts back what it captured.
TakesOver(d) ==
    /\ flow[d]["command"] # None
    /\ \/ MayHydrate(d) /\ Hydrated(d, Remote(d), {})
       \/ Hydrated(d, Remote(d), {Entries(d)})
       \/ AdoptionRestored(d)

\* Nothing else does, except its user's edits.
LEMMA ContentChanges ==
    ASSUME SyncInv, [Next]_vars, NEW d \in Device, disk'[d].content \notin {disk[d].content, Torn}
    PROVE  written' # written \/ TakesOver(d)
<1>0. TypeOK /\ disk \in [Device -> Storage] /\ disk[d] \in Storage
  BY DeviceType DEF SyncInv, TypeOK
<1>a. disk' # disk
  OBVIOUS
<1>1. ASSUME NEW e \in Device, NEW known, disk' = [disk EXCEPT ![e].known = known] PROVE FALSE
  <2>1. \A b \in Device : disk'[b].content = disk[b].content
    BY <1>0, <1>1, KnownFields
  <2> QED
    BY <2>1
<1>2. ASSUME NEW e \in Device, HydrationBroken(e) PROVE FALSE
  <2>1. \A b \in Device : disk'[b].content \in {disk[b].content, Torn}
    BY <1>0, <1>2 DEF HydrationBroken, Storage
  <2> QED
    BY <2>1
<1>3. ASSUME NEW e \in Device, NEW x, NEW B, Hydrated(e, x, B) PROVE e = d
  BY <1>0, <1>3 DEF Hydrated
<1>9. ASSUME NEW e \in Device, Busy(e, "command"), AdoptionRestored(e) PROVE TakesOver(d)
  <2>1. e = d
    BY <1>0, <1>9 DEF AdoptionRestored
  <2> QED
    BY <1>9, <2>1 DEF TakesOver, Busy
<1>4. ASSUME NEW e \in Device, PageStep(e) PROVE TakesOver(d)
  <2>1. ASSUME NEW s \in Slot, UploadStep(e, s) PROVE FALSE
    BY <1>a, <1>1, <2>1
       DEF UploadStep, Accepted, Refused, Seal, PoisonedFlowEnds
  <2>2. CASE HydrateAutomatically(e)
    BY <1>a, <1>2, <1>3, <2>2
       DEF HydrateAutomatically, MayHydrate, Comparing, At, Busy, HydrationRestored, TakesOver
  <2>3. CASE AdoptServer(e)
    BY <1>a, <1>2, <1>3, <1>9, <2>3 DEF AdoptServer, At, Busy, TakesOver
  <2>4. CASE Converge(e)
    BY <1>1, <2>4 DEF Converge
  <2> QED
    BY <1>4, <1>a, <2>1, <2>2, <2>3, <2>4
       DEF PageStep, PushStart, ReconcileStep, Initialize, Reconcile, CaptureForReconcile,
           Diverge, UploadFirst, UploadChange, PushDigested
<1>5. ASSUME NEW e \in Device, UserStep(e) PROVE written' # written
  <2>1. CASE Edit(e)
    BY <2>1 DEF Edit
  <2>2. CASE ResolveWithDevice(e)
    <3>1. \A b \in Device : disk'[b].content = disk[b].content
      BY <1>0, <2>2 DEF ResolveWithDevice, Storage
    <3> QED
      BY <3>1
  <2> QED
    BY <1>5, <1>a, <2>1, <2>2 DEF UserStep, Reload, Retry, Reconcile, ResolveWithServer
<1>6. ASSUME NEW e \in Device, FailureStep(e) \/ ServerStep(e) PROVE FALSE
  BY <1>6, <1>a
     DEF FailureStep, ReadFails, ServiceAbsent, UploadFails, ServerStep, ServerReads, ServerReplaces
<1>7. CASE ServerReplacesLate
  BY <1>7, <1>a DEF ServerReplacesLate
<1>8. CASE UNCHANGED vars
  BY <1>8, <1>a DEF vars
<1> QED
  BY <1>4, <1>5, <1>6, <1>7, <1>8 DEF Next

\* hydrateRemote() and its rollback overwrite what a device holds only when the
\* server or a backup has it, or its user has edited since the command captured
\* it, whatever else runs.
THEOREM DeviceCopyIsKept == Spec => DeviceCopyKept
<1> DEFINE Kept(d) ==
       disk'[d].content \notin {disk[d].content, Torn} /\ written' = written
          => \/ disk[d].content \in Copies(d) \union {Empty, Torn}
             \/ disk[d].content # Entries(d)
<1>1. SyncInv /\ [Next]_vars => [\A d \in Device : Kept(d)]_vars
  <2> SUFFICES ASSUME SyncInv, [Next]_vars, NEW d \in Device,
                      disk'[d].content \notin {disk[d].content, Torn}, written' = written,
                      Entries(d) = disk[d].content
               PROVE  disk[d].content \in Copies(d) \union {Empty, Torn}
    OBVIOUS
  <2>1. TakesOver(d) /\ TypeOK /\ disk[d] \in Storage /\ history \in Seq(Contents)
    BY ContentChanges, DeviceType DEF SyncInv, TypeOK
  <2>2. CASE MayHydrate(d)
    <3>1. CASE Entries(d) = Empty
      BY <3>1
    <3>2. CASE LocalUnchanged(d)
      <4> DEFINE r == disk[d].known.revision
      <4>1. r \in Nat /\ r <= Len(history) /\ Stored(history, r) = disk[d].content
        BY <2>1, <3>2
           DEF LocalUnchanged, SyncInv, StoragesAreGood, StorageIsGood, IsTrue, Storage, Snapshot
      <4>2. r = 0 \/ r \in DOMAIN history
        BY <2>1, <4>1
      <4> HIDE DEF r
      <4> QED
        BY <4>1, <4>2 DEF Stored, Copies
    <3> QED
      BY <2>2, <3>1, <3>2 DEF MayHydrate
  <2>3. CASE Hydrated(d, Remote(d), {Entries(d)})
    <3>1. disk'[d].backups = disk[d].backups \union {Entries(d)}
      BY <2>1, <2>3 DEF Hydrated, TypeOK
    <3> QED
      BY <3>1 DEF Copies
  <2>4. CASE AdoptionRestored(d)
    <3>1. disk'[d].content = Entries(d)
      BY <2>1, <2>4 DEF AdoptionRestored, TypeOK
    <3> QED
      BY <3>1
  <2> QED
    BY <2>1, <2>2, <2>3, <2>4 DEF TakesOver
<1> QED
  BY <1>1, SyncAlways, PTL DEF Spec, DeviceCopyKept
=============================================================================
