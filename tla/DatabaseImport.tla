---------------------------- MODULE DatabaseImport ----------------------------
(***************************************************************************)
(* The first market database of a deployment: an upload is staged, checked  *)
(* by a background worker and linked as the target.                        *)
(* server/database_import_store.py, one thread per request of              *)
(* server/database_import_api.py.                                          *)
(* A request holds the store's lock from Begin to its last step; uploads    *)
(* and preparations look whether importing is allowed before they take it,  *)
(* and the worker takes it only to change its job.  The process may end     *)
(* between any two steps, and a write may fail; files survive both.         *)
(***************************************************************************)
EXTENDS Naturals, FiniteSets

CONSTANTS
    Upload,     \* upload identities, random and never used twice
    Valid,      \* the uploads whose data validate_database() accepts
    None,       \* no target, no holder of the lock
    Foreign,    \* a target this store did not link
    MaxFaults   \* bound on write faults, crashes and changes of the target

ASSUME ImportAssumption ==
    /\ Valid \subseteq Upload
    /\ MaxFaults \in Nat
    /\ None \notin Upload
    /\ None # Foreign
    /\ {None, Foreign} \cap [upload : Upload, content : {"partial", "complete"}] = {}

VARIABLES
    service,    \* "up", "down", or "starting" while it restores its jobs
    job,        \* job[u]: state of the job in memory
    manifest,   \* manifest[u]: state of the job on disk
    source,     \* uploads whose staged source exists
    candidate,  \* candidate[u]: "none", "partial" or "complete"
    target,     \* the market database: None, Foreign or a candidate linked
    locked,     \* the activation lock file exists
    holder,     \* the request that holds the lock, and its next step
    waiting,    \* requests past their unlocked check
    worker,     \* worker[u]: next step of the preparation thread
    used,       \* history: identities given out
    skipped,    \* history: uploads whose manifest a restart could not read
    confirmed,  \* history: an activation was answered with success
    faults

files == <<manifest, source, candidate, target, locked>>
vars == <<service, job, manifest, source, candidate, target, locked, holder,
          waiting, worker, used, skipped, confirmed, faults>>
history == <<used, skipped, confirmed>>

JobState == {"absent", "uploaded", "preparing", "ready", "failed", "discarded", "activated"}
Active == {"uploaded", "preparing", "ready"}
Linked == [upload : Upload, content : {"partial", "complete"}]
Free == [op |-> "none", upload |-> None, next |-> "none"]

Init ==
    /\ service = "up"
    /\ job = [u \in Upload |-> "absent"]
    /\ manifest = [u \in Upload |-> "absent"]
    /\ source = {}
    /\ candidate = [u \in Upload |-> "none"]
    /\ target = None
    /\ locked = FALSE
    /\ holder = Free
    /\ waiting = {}
    /\ worker = [u \in Upload |-> "idle"]
    /\ used = {}
    /\ skipped = {}
    /\ confirmed = FALSE
    /\ faults = 0
-----------------------------------------------------------------------------
Fault == faults < MaxFaults /\ faults' = faults + 1

\* _assert_import_allowed()
AllowedByTarget == target = None
Allowed == ~locked /\ target = None

Idle == service = "up" /\ holder = Free

\* _persist(): the manifest is replaced whole, or the old one stays.
Persist(u, state) == manifest' = [manifest EXCEPT ![u] = state] /\ UNCHANGED faults
PersistFails == Fault /\ UNCHANGED manifest

Hold(op, u, step) == holder' = [op |-> op, upload |-> u, next |-> step]
At(op, step) == service = "up" /\ holder.op = op /\ holder.next = step
Release == holder' = Free

Unlink(u) == candidate' = [candidate EXCEPT ![u] = "none"]
-----------------------------------------------------------------------------
(* upload()                                                                *)

AdmitUpload(u) ==
    /\ service = "up"
    /\ Allowed
    /\ u \notin used
    /\ waiting' = waiting \union {<<"upload", u>>}
    /\ used' = used \union {u}
    /\ UNCHANGED <<service, job, files, holder, worker, skipped, confirmed, faults>>

BusyBeforeReady == \E v \in Upload : job[v] \in {"uploaded", "preparing"}
Busy == \E v \in Upload : job[v] \in Active

\* The body is streamed to the source under the lock.
StageSource(u) ==
    /\ Idle
    /\ <<"upload", u>> \in waiting
    /\ waiting' = waiting \ {<<"upload", u>>}
    /\ \/ ~Busy /\ source' = source \union {u} /\ Hold("upload", u, "record")
       \/ Busy /\ UNCHANGED <<source, holder>>
    /\ UNCHANGED <<service, job, manifest, candidate, target, locked, worker, history, faults>>

\* A truncated or failing stream removes the directory; a manifest that cannot
\* be written leaves the job in memory.
RecordUpload(u) ==
    /\ At("upload", "record")
    /\ holder.upload = u
    /\ Release
    /\ \/ /\ job' = [job EXCEPT ![u] = "uploaded"]
          /\ Persist(u, "uploaded") \/ PersistFails
          /\ UNCHANGED source
       \/ Fault /\ source' = source \ {u} /\ UNCHANGED <<job, manifest>>
    /\ UNCHANGED <<service, candidate, target, locked, waiting, worker, history>>
-----------------------------------------------------------------------------
(* prepare() and _prepare_worker()                                         *)

AskPreparation(u) ==
    /\ service = "up"
    /\ Allowed
    /\ job[u] # "absent"
    /\ waiting' = waiting \union {<<"prepare", u>>}
    /\ UNCHANGED <<service, job, files, holder, worker, history, faults>>

\* The state changes before the manifest: a failing write starts no worker.
StartPreparation(u) ==
    /\ Idle
    /\ <<"prepare", u>> \in waiting
    /\ waiting' = waiting \ {<<"prepare", u>>}
    /\ \/ /\ job[u] = "uploaded"
          /\ job' = [job EXCEPT ![u] = "preparing"]
          /\ \/ Persist(u, "preparing") /\ worker' = [worker EXCEPT ![u] = "enter"]
             \/ PersistFails /\ UNCHANGED worker
       \/ job[u] # "uploaded" /\ UNCHANGED <<job, manifest, worker, faults>>
    /\ UNCHANGED <<service, source, candidate, target, locked, holder, history>>

Step(u, from, to) ==
    /\ service = "up"
    /\ worker[u] = from
    /\ worker' = [worker EXCEPT ![u] = to]

\* The path of the candidate is recorded outside the try: a failing write ends
\* the worker and leaves its job "preparing".
EnterWorker(u) ==
    /\ holder = Free
    /\ \/ Step(u, "enter", "clear") /\ Persist(u, job[u])
       \/ Step(u, "enter", "idle") /\ PersistFails
    /\ UNCHANGED <<service, job, source, candidate, target, locked, holder, waiting, history>>

ClearCandidate(u) ==
    /\ Step(u, "clear", "build")
    /\ Unlink(u)
    /\ UNCHANGED <<service, job, manifest, source, target, locked, holder, waiting, history, faults>>

\* The conversion or the copy begins; without source or space it fails.
BuildCandidate(u) ==
    /\ \/ u \in source /\ Step(u, "build", "validate") /\ candidate' = [candidate EXCEPT ![u] = "partial"]
          /\ UNCHANGED faults
       \/ u \notin source /\ Step(u, "build", "drop_candidate") /\ UNCHANGED <<candidate, faults>>
       \/ Fault /\ Step(u, "build", "drop_candidate") /\ UNCHANGED candidate
    /\ UNCHANGED <<service, job, manifest, source, target, locked, holder, waiting, history>>

ValidateCandidate(u) ==
    /\ \/ u \in Valid /\ Step(u, "validate", "pass")
       \/ u \notin Valid /\ Step(u, "validate", "drop_candidate")
    /\ candidate' = [candidate EXCEPT ![u] = "complete"]
    /\ UNCHANGED <<service, job, manifest, source, target, locked, holder, waiting, history, faults>>

PassCandidate(u) ==
    /\ holder = Free
    /\ job' = [job EXCEPT ![u] = "ready"]
    /\ \/ Step(u, "pass", "idle") /\ Persist(u, "ready")
       \/ Step(u, "pass", "drop_candidate") /\ PersistFails
    /\ UNCHANGED <<service, source, candidate, target, locked, holder, waiting, history>>

DropRejectedCandidateReported(u) ==
    /\ Step(u, "drop_candidate", "drop_source")
    /\ holder = Free
    /\ Unlink(u)
    /\ job' = [job EXCEPT ![u] = "failed"]
    /\ Persist(u, "failed")
    /\ UNCHANGED <<service, source, target, locked, holder, waiting, history>>

\* Both except clauses: the two files, then the report.
DropRejectedCandidate(u) ==
    /\ Step(u, "drop_candidate", "drop_source")
    /\ Unlink(u)
    /\ UNCHANGED <<service, job, manifest, source, target, locked, holder, waiting, history, faults>>

DropRejectedSource(u) ==
    /\ Step(u, "drop_source", "report")
    /\ source' = source \ {u}
    /\ UNCHANGED <<service, job, manifest, candidate, target, locked, holder, waiting, history, faults>>

\* discard() replaces the job in memory by a copy; the worker keeps the old one.
ReportFailure(u) ==
    /\ holder = Free
    /\ Step(u, "report", "idle")
    /\ job' = [job EXCEPT ![u] = IF @ = "discarded" THEN @ ELSE "failed"]
    /\ Persist(u, "failed") \/ PersistFails
    /\ UNCHANGED <<service, source, candidate, target, locked, holder, waiting, history>>
-----------------------------------------------------------------------------
(* discard()                                                               *)

BeginDiscard(u) ==
    /\ Idle
    /\ Allowed
    /\ job[u] \in {"uploaded", "ready", "failed"}
    /\ Hold("discard", u, "candidate")
    /\ UNCHANGED <<service, job, files, waiting, worker, history, faults>>

DiscardCandidate(u) ==
    /\ At("discard", "candidate")
    /\ holder.upload = u
    /\ Unlink(u)
    /\ Hold("discard", u, "source")
    /\ UNCHANGED <<service, job, manifest, source, target, locked, waiting, worker, history, faults>>

DiscardSource(u) ==
    /\ At("discard", "source")
    /\ holder.upload = u
    /\ source' = source \ {u}
    /\ Hold("discard", u, "record")
    /\ UNCHANGED <<service, job, manifest, candidate, target, locked, waiting, worker, history, faults>>

\* A directory that cannot be synced fails the request behind its manifest.
RecordDiscard(u) ==
    /\ At("discard", "record")
    /\ holder.upload = u
    /\ Release
    /\ \/ Persist(u, "discarded") /\ job' = [job EXCEPT ![u] = "discarded"]
       \/ PersistFails /\ UNCHANGED job
       \/ Fault /\ manifest' = [manifest EXCEPT ![u] = "discarded"] /\ UNCHANGED job
    /\ UNCHANGED <<service, source, candidate, target, locked, waiting, worker, history>>
-----------------------------------------------------------------------------
(* activate()                                                              *)

BeginActivation(u) ==
    /\ Idle
    /\ Allowed
    /\ job[u] = "ready"
    /\ candidate[u] # "none"
    /\ Hold("activate", u, "link")
    /\ UNCHANGED <<service, job, files, waiting, worker, history, faults>>

LinkReplace(u) == target' = [upload |-> u, content |-> candidate[u]] /\ Hold("activate", u, "lock")

LinkVanished(u) ==
    IF target = None
    THEN target' = [upload |-> u, content |-> candidate[u]] /\ Hold("activate", u, "lock")
    ELSE UNCHANGED target /\ Release

\* os.link() refuses a target that appeared since the check, and a candidate
\* that a failing worker has just removed.
Link(u) ==
    IF target = None /\ candidate[u] # "none"
    THEN target' = [upload |-> u, content |-> candidate[u]] /\ Hold("activate", u, "lock")
    ELSE UNCHANGED target /\ Release

LinkTarget(u) ==
    /\ At("activate", "link")
    /\ holder.upload = u
    /\ Link(u)
    /\ UNCHANGED <<service, job, manifest, source, candidate, locked, waiting, worker, history, faults>>

WriteLockBestEffort(u) ==
    /\ At("activate", "lock")
    /\ holder.upload = u
    /\ Hold("activate", u, "candidate")
    /\ \/ locked' = TRUE /\ UNCHANGED faults
       \/ Fault /\ UNCHANGED locked
    /\ UNCHANGED <<service, job, manifest, source, candidate, target, waiting, worker, history>>

\* The first write after the link, and the sync of its directory: the request
\* fails, the target stays, and the lock may be there.
WriteLock(u) ==
    /\ At("activate", "lock")
    /\ holder.upload = u
    /\ \/ locked' = TRUE /\ Hold("activate", u, "candidate") /\ UNCHANGED faults
       \/ Fault /\ Release /\ UNCHANGED locked
       \/ Fault /\ Release /\ locked' = TRUE
    /\ UNCHANGED <<service, job, manifest, source, candidate, target, waiting, worker, history>>

\* candidate.unlink() without missing_ok
DropActivatedCandidate(u) ==
    /\ At("activate", "candidate")
    /\ holder.upload = u
    /\ Unlink(u)
    /\ IF candidate[u] = "none" THEN Release ELSE Hold("activate", u, "source")
    /\ UNCHANGED <<service, job, manifest, source, target, locked, waiting, worker, history, faults>>

DropActivatedSource(u) ==
    /\ At("activate", "source")
    /\ holder.upload = u
    /\ source' = source \ {u}
    /\ Hold("activate", u, "record")
    /\ UNCHANGED <<service, job, manifest, candidate, target, locked, waiting, worker, history, faults>>

RecordActivation(u) ==
    /\ At("activate", "record")
    /\ holder.upload = u
    /\ Release
    /\ job' = [job EXCEPT ![u] = "activated"]
    /\ \/ Persist(u, "activated") /\ confirmed' = TRUE
       \/ PersistFails /\ UNCHANGED confirmed
    /\ UNCHANGED <<service, source, candidate, target, locked, waiting, worker, used, skipped>>
-----------------------------------------------------------------------------
\* A file that cannot be removed ends the request where it is; the worker drops
\* what it has, or ends in an except clause and leaves its job as it is.
UnlinkFails(u) ==
    /\ service = "up"
    /\ Fault
    /\ \/ /\ holder.upload = u
          /\ holder.op \in {"discard", "activate"} /\ holder.next \in {"candidate", "source"}
          /\ Release
          /\ UNCHANGED worker
       \/ Step(u, "clear", "drop_candidate") /\ UNCHANGED holder
       \/ Step(u, "drop_candidate", "idle") /\ UNCHANGED holder
       \/ Step(u, "drop_source", "idle") /\ UNCHANGED holder
    /\ UNCHANGED <<service, job, files, waiting, history>>
-----------------------------------------------------------------------------
(* The process ends, and starts again.                                     *)

Crash ==
    /\ service # "down"
    /\ Fault
    /\ service' = "down"
    /\ job' = [u \in Upload |-> "absent"]
    /\ holder' = Free
    /\ waiting' = {}
    /\ worker' = [u \in Upload |-> "idle"]
    /\ UNCHANGED <<files, history>>

\* __init__: a target without its lock gets one.
Start ==
    /\ service = "down"
    /\ service' = "starting"
    /\ locked' = (locked \/ target # None)
    /\ job' = [u \in Upload |-> IF manifest[u] = "absent" THEN "absent" ELSE "unread"]
    /\ UNCHANGED <<manifest, source, candidate, target, holder, waiting, worker, history, faults>>

Retryable(u) == IF u \in source THEN "uploaded" ELSE "failed"

\* The state a retained job is restored in.
RestoredResumed(u) ==
    IF manifest[u] = "preparing" /\ candidate[u] # "none" THEN "ready"
    ELSE IF manifest[u] = "uploaded" \/ manifest[u] = "preparing" THEN Retryable(u) ELSE manifest[u]
Restored(u) ==
    CASE manifest[u] = "preparing"                           -> Retryable(u)
      [] manifest[u] = "ready" /\ candidate[u] = "none"      -> Retryable(u)
      [] manifest[u] = "uploaded"                            -> Retryable(u)
      [] OTHER                                               -> manifest[u]

\* _restore_jobs() for one manifest; one it cannot read is passed over.
RestoreJob(u) ==
    /\ service = "starting"
    /\ job[u] = "unread"
    /\ \/ /\ job' = [job EXCEPT ![u] = Restored(u)]
          /\ Persist(u, Restored(u))
          /\ IF manifest[u] = "preparing" /\ Restored(u) # "ready" THEN Unlink(u) ELSE UNCHANGED candidate
          /\ UNCHANGED skipped
       \/ /\ Fault
          /\ job' = [job EXCEPT ![u] = "absent"]
          /\ skipped' = skipped \union {u}
          /\ UNCHANGED <<manifest, candidate>>
    /\ UNCHANGED <<service, source, target, locked, holder, waiting, worker, used, confirmed>>

Serve ==
    /\ service = "starting"
    /\ \A u \in Upload : job[u] # "unread"
    /\ service' = "up"
    /\ UNCHANGED <<job, files, holder, waiting, worker, history, faults>>

\* _load(): a request names a job the restart passed over.
LoadSkipped(u) ==
    /\ Idle
    /\ job[u] = "absent"
    /\ manifest[u] # "absent"
    /\ job' = [job EXCEPT ![u] = manifest[u]]
    /\ UNCHANGED <<service, files, holder, waiting, worker, history, faults>>

\* Somebody else creates or removes the database file.
TargetChanges ==
    /\ Fault
    /\ target' = IF target = None THEN Foreign ELSE None
    /\ UNCHANGED <<service, job, manifest, source, candidate, locked, holder, waiting, worker, history>>

Request(u) ==
    \/ AdmitUpload(u) \/ StageSource(u) \/ RecordUpload(u)
    \/ AskPreparation(u) \/ StartPreparation(u) \/ LoadSkipped(u)
    \/ BeginDiscard(u) \/ DiscardCandidate(u) \/ DiscardSource(u) \/ RecordDiscard(u)
    \/ BeginActivation(u) \/ LinkTarget(u) \/ WriteLock(u) \/ DropActivatedCandidate(u)
    \/ DropActivatedSource(u) \/ RecordActivation(u)

Worker(u) ==
    \/ EnterWorker(u) \/ ClearCandidate(u) \/ BuildCandidate(u) \/ ValidateCandidate(u)
    \/ PassCandidate(u) \/ DropRejectedCandidate(u) \/ DropRejectedSource(u) \/ ReportFailure(u)

Next ==
    \/ \E u \in Upload : Request(u) \/ Worker(u) \/ UnlinkFails(u) \/ RestoreJob(u)
    \/ Crash \/ Start \/ Serve \/ TargetChanges

Spec == Init /\ [][Next]_vars
-----------------------------------------------------------------------------
\* Every variable has its type.
TypeOK ==
    /\ service \in {"up", "down", "starting"}
    /\ job \in [Upload -> JobState \union {"unread"}]
    /\ manifest \in [Upload -> JobState]
    /\ source \subseteq Upload
    /\ candidate \in [Upload -> {"none", "partial", "complete"}]
    /\ target \in {None, Foreign} \union Linked
    /\ locked \in BOOLEAN
    /\ holder \in [op : {"none", "upload", "discard", "activate"}, upload : Upload \union {None},
                   next : {"none", "record", "candidate", "source", "link", "lock"}]
    /\ waiting \subseteq {"upload", "prepare"} \X Upload
    /\ worker \in [Upload -> {"idle", "enter", "clear", "build", "validate", "pass",
                              "drop_candidate", "drop_source", "report"}]
    /\ used \subseteq Upload /\ skipped \subseteq Upload
    /\ confirmed \in BOOLEAN
    /\ faults \in 0..MaxFaults

\* At most one upload is uploaded, preparing or ready, whatever requests waited
\* for the lock and whatever was restored, but for one whose manifest a restart
\* could not read and a later request loads beside its successor.
OneActiveImport ==
    \A u, v \in Upload \ skipped : job[u] \in Active /\ job[v] \in Active => u = v

\* The market database is a whole candidate that validation accepted: never one
\* a worker still writes, never one an interrupted worker left behind.
ActiveIsValidated ==
    target \in Linked => target.upload \in Valid /\ target.content = "complete"

\* Once an activation was confirmed importing stays locked, also after restarts
\* and after the target is removed.
ActivationIsFinal == confirmed => locked

\* The target is linked where nothing is, only before the lock, and nothing but
\* its removal changes it: the race of the check with a target that appears
\* ends in a refusal.
TargetIsNeverReplaced ==
    [][target' # target => (target = None /\ (locked => target' = Foreign)) \/ target' = None]_vars

\* A job recorded as failed, discarded or activated has left no staged file
\* behind, wherever the process ended.
FinishedLeavesNothing ==
    \A u \in Upload : manifest[u] \in {"failed", "discarded", "activated"} =>
        u \notin source /\ candidate[u] = "none"
=============================================================================
