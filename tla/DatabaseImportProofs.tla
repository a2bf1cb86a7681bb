------------------------- MODULE DatabaseImportProofs -------------------------
(***************************************************************************)
(* Theorems about DatabaseImport, for any uploads and any number of        *)
(* faults, crashes and restarts.                                           *)
(***************************************************************************)
EXTENDS DatabaseImport, TLAPS

\* Nothing runs in a process that is down or starting.
Stopped ==
    service # "up" => holder = Free /\ waiting = {} /\ \A u \in Upload : worker[u] = "idle"

Held(op, u) == holder.op = op /\ holder.upload = u

\* An identity is admitted once and recorded once.
Admitted ==
    \A u \in Upload :
       /\ <<"upload", u>> \in waiting => u \in used
       /\ Held("upload", u) => u \in used /\ <<"upload", u>> \notin waiting

Unrecorded ==
    \A u \in Upload :
       u \notin used \/ <<"upload", u>> \in waiting \/ Held("upload", u)
          => job[u] = "absent" /\ manifest[u] = "absent"

\* What is not yet being prepared has no candidate and no worker.
Unprepared ==
    \A u \in Upload :
       manifest[u] \in {"absent", "uploaded"} \/ job[u] = "uploaded"
          => candidate[u] = "none" /\ worker[u] = "idle"

\* A worker builds only for a job that is "preparing" in memory and on disk.
WorkersPrepare ==
    \A u \in Upload :
       /\ worker[u] \in {"enter", "clear", "build", "validate", "pass"}
             => job[u] = "preparing" /\ manifest[u] = "preparing"
       /\ worker[u] = "pass" => u \in Valid /\ candidate[u] = "complete"
       /\ worker[u] \in {"drop_source", "report"} => candidate[u] = "none"
       /\ worker[u] = "report" => u \notin source

\* A job that is "ready" in memory or on disk has passed validation; a failing
\* worker may have removed its candidate, but nobody builds another one.
ReadyIsValidated ==
    \A u \in Upload :
       job[u] = "ready" \/ manifest[u] = "ready"
          => u \in Valid /\ candidate[u] \in {"none", "complete"}

\* How far the request that holds the lock has come.
HolderIsBetween ==
    \A u \in Upload :
       /\ Held("discard", u) =>
             /\ job[u] \in {"uploaded", "ready", "failed"}
             /\ holder.next \in {"source", "record"} => candidate[u] = "none"
             /\ holder.next = "record" => u \notin source
       /\ Held("activate", u) =>
             /\ job[u] = "ready"
             /\ holder.next = "link" => ~locked
             /\ holder.next \in {"candidate", "source", "record"} => locked
             /\ holder.next \in {"source", "record"} => candidate[u] = "none"
             /\ holder.next = "record" => u \notin source

\* The inductive invariant about one upload at a time.
ImportInv ==
    /\ TypeOK
    /\ Stopped
    /\ Admitted
    /\ Unrecorded
    /\ Unprepared
    /\ WorkersPrepare
    /\ ReadyIsValidated
    /\ HolderIsBetween
    /\ FinishedLeavesNothing
    /\ ActivationIsFinal
    /\ ActiveIsValidated

\* What a restart would make active again.
Resumes(u) ==
    \/ manifest[u] \in Active /\ u \in source
    \/ manifest[u] = "ready" /\ candidate[u] # "none"

\* What a restart would resume is active in memory.
ResumesWhatIsActive ==
    \A u \in Upload \ skipped : service = "up" /\ Resumes(u) => job[u] \in Active

OneResumes == \A u, v \in Upload \ skipped : Resumes(u) /\ Resumes(v) => u = v

\* While the service starts, the jobs it has read are those on disk.
StartsFromDisk ==
    service = "starting" =>
       \A u \in Upload \ skipped :
          /\ job[u] = "unread" \/ job[u] = manifest[u]
          /\ job[u] \in Active => Resumes(u)

NothingForgotten ==
    service = "up" => \A u \in Upload \ skipped : job[u] = "absent" => manifest[u] = "absent"

NoSecondUpload ==
    holder.op = "upload" => ~Busy

\* The inductive invariant about two uploads.
PairInv ==
    /\ ImportInv
    /\ ResumesWhatIsActive
    /\ OneResumes
    /\ StartsFromDisk
    /\ NothingForgotten
    /\ NoSecondUpload
    /\ OneActiveImport
-----------------------------------------------------------------------------

LEMMA HolderType ==
    ASSUME NEW u \in Upload, NEW op \in {"upload", "discard", "activate"},
           NEW step \in {"record", "candidate", "source", "link", "lock"}
    PROVE  [op |-> op, upload |-> u, next |-> step] \in
              [op : {"none", "upload", "discard", "activate"}, upload : Upload \union {None},
               next : {"none", "record", "candidate", "source", "link", "lock"}]
OBVIOUS

\* Every step keeps the types.
LEMMA TypeStep == ASSUME ImportInv, [Next]_vars PROVE TypeOK'
<1>0. TypeOK /\ MaxFaults \in Nat
  BY ImportAssumption DEF ImportInv
<1> USE <1>0 DEF files, history, JobState
<1>1. ASSUME NEW u \in Upload, AdmitUpload(u) PROVE TypeOK'
  BY <1>1 DEF AdmitUpload, TypeOK
<1>2. ASSUME NEW u \in Upload, StageSource(u) PROVE TypeOK'
  BY <1>2 DEF StageSource, Idle, Free, Hold, TypeOK
<1>3. ASSUME NEW u \in Upload, RecordUpload(u) PROVE TypeOK'
  BY <1>3 DEF RecordUpload, At, Release, Free, Persist, PersistFails, Fault, TypeOK
<1>4. ASSUME NEW u \in Upload, AskPreparation(u) PROVE TypeOK'
  BY <1>4 DEF AskPreparation, TypeOK
<1>5. ASSUME NEW u \in Upload, StartPreparation(u) PROVE TypeOK'
  BY <1>5 DEF StartPreparation, Idle, Persist, PersistFails, Fault, TypeOK
<1>6. ASSUME NEW u \in Upload, LoadSkipped(u) PROVE TypeOK'
  BY <1>6 DEF LoadSkipped, Idle, TypeOK
<1>7. ASSUME NEW u \in Upload, BeginDiscard(u) PROVE TypeOK'
  BY <1>7 DEF BeginDiscard, Idle, Hold, Allowed, TypeOK
<1>8. ASSUME NEW u \in Upload, DiscardCandidate(u) PROVE TypeOK'
  BY <1>8 DEF DiscardCandidate, At, Unlink, Hold, TypeOK
<1>9. ASSUME NEW u \in Upload, DiscardSource(u) PROVE TypeOK'
  BY <1>9 DEF DiscardSource, At, Hold, TypeOK
<1>10. ASSUME NEW u \in Upload, RecordDiscard(u) PROVE TypeOK'
  BY <1>10 DEF RecordDiscard, At, Release, Free, Persist, PersistFails, Fault, TypeOK
<1>11. ASSUME NEW u \in Upload, BeginActivation(u) PROVE TypeOK'
  BY <1>11 DEF BeginActivation, Idle, Allowed, Hold, TypeOK
<1>12. ASSUME NEW u \in Upload, LinkTarget(u) PROVE TypeOK'
  BY <1>12 DEF LinkTarget, At, Link, Hold, Release, Free, TypeOK, Linked
<1>13. ASSUME NEW u \in Upload, WriteLock(u) PROVE TypeOK'
  <2>1. CASE locked' = TRUE /\ Hold("activate", u, "candidate") /\ UNCHANGED faults
    BY <1>13, <2>1 DEF WriteLock, Hold, TypeOK
  <2>2. CASE Fault /\ Release /\ UNCHANGED locked
    BY <1>13, <2>2 DEF WriteLock, Fault, Release, Free, TypeOK
  <2>3. CASE Fault /\ Release /\ locked' = TRUE
    BY <1>13, <2>3 DEF WriteLock, Fault, Release, Free, TypeOK
  <2> QED
    BY <1>13, <2>1, <2>2, <2>3 DEF WriteLock
<1>14. ASSUME NEW u \in Upload, DropActivatedCandidate(u) PROVE TypeOK'
  BY <1>14 DEF DropActivatedCandidate, At, Unlink, Release, Free, Hold, TypeOK
<1>15. ASSUME NEW u \in Upload, DropActivatedSource(u) PROVE TypeOK'
  BY <1>15 DEF DropActivatedSource, At, Hold, TypeOK
<1>16. ASSUME NEW u \in Upload, RecordActivation(u) PROVE TypeOK'
  <2>1. manifest' \in [Upload -> JobState] /\ faults' \in 0..MaxFaults
    BY <1>16 DEF RecordActivation, Persist, PersistFails, Fault, TypeOK
  <2>2. confirmed' \in BOOLEAN
    BY <1>16 DEF RecordActivation, TypeOK
  <2> QED
    BY <1>16, <2>1, <2>2 DEF RecordActivation, Release, Free, TypeOK
<1>17. ASSUME NEW u \in Upload, EnterWorker(u) PROVE TypeOK'
  BY <1>17 DEF EnterWorker, Step, Persist, PersistFails, Fault, TypeOK, ImportInv,
     WorkersPrepare
<1>18. ASSUME NEW u \in Upload, ClearCandidate(u) PROVE TypeOK'
  BY <1>18 DEF ClearCandidate, Step, Unlink, TypeOK
<1>19. ASSUME NEW u \in Upload, BuildCandidate(u) PROVE TypeOK'
  BY <1>19 DEF BuildCandidate, Step, Fault, TypeOK
<1>20. ASSUME NEW u \in Upload, ValidateCandidate(u) PROVE TypeOK'
  BY <1>20 DEF ValidateCandidate, Step, TypeOK
<1>21. ASSUME NEW u \in Upload, PassCandidate(u) PROVE TypeOK'
  BY <1>21 DEF PassCandidate, Step, Persist, PersistFails, Fault, TypeOK
<1>22. ASSUME NEW u \in Upload, DropRejectedCandidate(u) PROVE TypeOK'
  BY <1>22 DEF DropRejectedCandidate, Step, Unlink, TypeOK
<1>23. ASSUME NEW u \in Upload, DropRejectedSource(u) PROVE TypeOK'
  BY <1>23 DEF DropRejectedSource, Step, TypeOK
<1>24. ASSUME NEW u \in Upload, ReportFailure(u) PROVE TypeOK'
  BY <1>24 DEF ReportFailure, Step, Persist, PersistFails, Fault, TypeOK
<1>25. ASSUME NEW u \in Upload, RestoreJob(u) PROVE TypeOK'
  BY <1>25 DEF RestoreJob, Restored, Retryable, Persist, Unlink, Fault, TypeOK
<1>26. CASE Crash
  BY <1>26 DEF Crash, Fault, Free, TypeOK
<1>27. CASE Start
  BY <1>27 DEF Start, TypeOK
<1>28. CASE Serve
  BY <1>28 DEF Serve, TypeOK
<1>29. CASE TargetChanges
  BY <1>29 DEF TargetChanges, Fault, TypeOK
<1>30. CASE UNCHANGED vars
  BY <1>30 DEF vars, files, history, TypeOK
<1>31. ASSUME NEW u \in Upload, UnlinkFails(u) PROVE TypeOK'
  BY <1>31 DEF UnlinkFails, Step, Fault, Release, Free, files, history, TypeOK
<1> QED
  BY <1>1, <1>2, <1>3, <1>4, <1>5, <1>6, <1>7, <1>8, <1>9, <1>10, <1>11, <1>12, <1>13,
     <1>14, <1>15, <1>16, <1>17, <1>18, <1>19, <1>20, <1>21, <1>22, <1>23, <1>24, <1>25,
     <1>26, <1>27, <1>28, <1>29, <1>30, <1>31 DEF Next, Request, Worker

\* Every step keeps each part of the invariant.
LEMMA StoppedStep == ASSUME ImportInv, [Next]_vars PROVE Stopped'
<1>0. /\ service \in {"up", "down", "starting"} /\ Valid \subseteq Upload /\ None \notin Upload
      /\ job \in [Upload -> JobState \union {"unread"}] /\ manifest \in [Upload -> JobState]
      /\ source \subseteq Upload /\ candidate \in [Upload -> {"none", "partial", "complete"}]
      /\ worker \in [Upload -> {"idle", "enter", "clear", "build", "validate", "pass",
                                "drop_candidate", "drop_source", "report"}]
  BY ImportAssumption DEF ImportInv, TypeOK
<1> USE <1>0 DEF files, history
<1>1. ASSUME NEW u \in Upload, AdmitUpload(u) PROVE Stopped'
  BY <1>1 DEF AdmitUpload, ImportInv, Stopped
<1>2. ASSUME NEW u \in Upload, StageSource(u) PROVE Stopped'
  BY <1>2 DEF StageSource, Idle, Free, Hold, ImportInv, Stopped
<1>3. ASSUME NEW u \in Upload, RecordUpload(u) PROVE Stopped'
  BY <1>3 DEF RecordUpload, At, Release, Free, Persist, PersistFails, Fault, ImportInv, Stopped
<1>4. ASSUME NEW u \in Upload, AskPreparation(u) PROVE Stopped'
  BY <1>4 DEF AskPreparation, ImportInv, Stopped
<1>5. ASSUME NEW u \in Upload, StartPreparation(u) PROVE Stopped'
  BY <1>5 DEF StartPreparation, Idle, Persist, PersistFails, Fault, ImportInv, Stopped
<1>6. ASSUME NEW u \in Upload, LoadSkipped(u) PROVE Stopped'
  BY <1>6 DEF LoadSkipped, Idle, ImportInv, Stopped
<1>7. ASSUME NEW u \in Upload, BeginDiscard(u) PROVE Stopped'
  BY <1>7 DEF BeginDiscard, Idle, Hold, Allowed, ImportInv, Stopped
<1>8. ASSUME NEW u \in Upload, DiscardCandidate(u) PROVE Stopped'
  BY <1>8 DEF DiscardCandidate, At, Unlink, Hold, ImportInv, Stopped
<1>9. ASSUME NEW u \in Upload, DiscardSource(u) PROVE Stopped'
  BY <1>9 DEF DiscardSource, At, Hold, ImportInv, Stopped
<1>10. ASSUME NEW u \in Upload, RecordDiscard(u) PROVE Stopped'
  BY <1>10 DEF RecordDiscard, At, Release, Free, Persist, PersistFails, Fault, ImportInv,
     Stopped
<1>11. ASSUME NEW u \in Upload, BeginActivation(u) PROVE Stopped'
  BY <1>11 DEF BeginActivation, Idle, Allowed, Hold, ImportInv, Stopped
<1>12. ASSUME NEW u \in Upload, LinkTarget(u) PROVE Stopped'
  BY <1>12 DEF LinkTarget, At, Link, Hold, Release, Free, ImportInv, Stopped
<1>13. ASSUME NEW u \in Upload, WriteLock(u) PROVE Stopped'
  BY <1>13 DEF WriteLock, At, Hold, Release, Free, Fault, ImportInv, Stopped
<1>14. ASSUME NEW u \in Upload, DropActivatedCandidate(u) PROVE Stopped'
  BY <1>14 DEF DropActivatedCandidate, At, Unlink, Release, Free, Hold, ImportInv, Stopped
<1>15. ASSUME NEW u \in Upload, DropActivatedSource(u) PROVE Stopped'
  BY <1>15 DEF DropActivatedSource, At, Hold, ImportInv, Stopped
<1>16. ASSUME NEW u \in Upload, RecordActivation(u) PROVE Stopped'
  BY <1>16 DEF RecordActivation, At, Release, Free, Persist, PersistFails, Fault, ImportInv,
     Stopped
<1>17. ASSUME NEW u \in Upload, EnterWorker(u) PROVE Stopped'
  BY <1>17 DEF EnterWorker, Step, Persist, PersistFails, Fault, ImportInv, Stopped
<1>18. ASSUME NEW u \in Upload, ClearCandidate(u) PROVE Stopped'
  BY <1>18 DEF ClearCandidate, Step, Unlink, ImportInv, Stopped
<1>19. ASSUME NEW u \in Upload, BuildCandidate(u) PROVE Stopped'
  BY <1>19 DEF BuildCandidate, Step, Fault, ImportInv, Stopped
<1>20. ASSUME NEW u \in Upload, ValidateCandidate(u) PROVE Stopped'
  BY <1>20 DEF ValidateCandidate, Step, ImportInv, Stopped
<1>21. ASSUME NEW u \in Upload, PassCandidate(u) PROVE Stopped'
  BY <1>21 DEF PassCandidate, Step, Persist, PersistFails, Fault, ImportInv, Stopped
<1>22. ASSUME NEW u \in Upload, DropRejectedCandidate(u) PROVE Stopped'
  BY <1>22 DEF DropRejectedCandidate, Step, Unlink, ImportInv, Stopped
<1>23. ASSUME NEW u \in Upload, DropRejectedSource(u) PROVE Stopped'
  BY <1>23 DEF DropRejectedSource, Step, ImportInv, Stopped
<1>24. ASSUME NEW u \in Upload, ReportFailure(u) PROVE Stopped'
  BY <1>24 DEF ReportFailure, Step, Persist, PersistFails, Fault, ImportInv, Stopped
<1>25. ASSUME NEW u \in Upload, RestoreJob(u) PROVE Stopped'
  BY <1>25 DEF RestoreJob, Restored, Retryable, Persist, Unlink, Fault, ImportInv, Stopped
<1>26. CASE Crash
  BY <1>26 DEF Crash, Fault, Free, ImportInv, Stopped
<1>27. CASE Start
  BY <1>27 DEF Start, ImportInv, Stopped
<1>28. CASE Serve
  BY <1>28 DEF Serve, ImportInv, Stopped
<1>29. CASE TargetChanges
  BY <1>29 DEF TargetChanges, Fault, ImportInv, Stopped
<1>30. CASE UNCHANGED vars
  BY <1>30 DEF vars, files, history, ImportInv, Stopped
<1>31. ASSUME NEW u \in Upload, UnlinkFails(u) PROVE Stopped'
  BY <1>31 DEF UnlinkFails, Step, Fault, Release, Free, files, history, ImportInv,
     Stopped
<1> QED
  BY <1>1, <1>2, <1>3, <1>4, <1>5, <1>6, <1>7, <1>8, <1>9, <1>10, <1>11, <1>12, <1>13,
     <1>14, <1>15, <1>16, <1>17, <1>18, <1>19, <1>20, <1>21, <1>22, <1>23, <1>24, <1>25,
     <1>26, <1>27, <1>28, <1>29, <1>30, <1>31 DEF Next, Request, Worker

\* No identity is recorded twice.
LEMMA AdmittedStep == ASSUME ImportInv, [Next]_vars PROVE Admitted'
<1>0. /\ service \in {"up", "down", "starting"} /\ Valid \subseteq Upload /\ None \notin Upload
      /\ job \in [Upload -> JobState \union {"unread"}] /\ manifest \in [Upload -> JobState]
      /\ source \subseteq Upload /\ candidate \in [Upload -> {"none", "partial", "complete"}]
      /\ worker \in [Upload -> {"idle", "enter", "clear", "build", "validate", "pass",
                                "drop_candidate", "drop_source", "report"}]
  BY ImportAssumption DEF ImportInv, TypeOK
<1> USE <1>0 DEF files, history
<1>1. ASSUME NEW u \in Upload, AdmitUpload(u) PROVE Admitted'
  BY <1>1 DEF AdmitUpload, ImportInv, Admitted, Held, Free
<1>2. ASSUME NEW u \in Upload, StageSource(u) PROVE Admitted'
  <2>1. /\ <<"upload", u>> \in waiting /\ waiting' = waiting \ {<<"upload", u>>}
        /\ used' = used /\ holder.op = "none"
    BY <1>2 DEF StageSource, Idle, Free
  <2>2. \A v \in Upload : <<"upload", v>> \in waiting' <=> v # u /\ <<"upload", v>> \in waiting
    BY <2>1
  <2>3. \A v \in Upload : Held("upload", v)' => v = u
    BY <1>2, <2>1 DEF StageSource, Held, Hold
  <2> QED
    BY <2>1, <2>2, <2>3 DEF ImportInv, Admitted
<1>3. ASSUME NEW u \in Upload, RecordUpload(u) PROVE Admitted'
  BY <1>3 DEF RecordUpload, At, Release, Free, Persist, PersistFails, Fault, ImportInv,
     Admitted, Held, Free
<1>4. ASSUME NEW u \in Upload, AskPreparation(u) PROVE Admitted'
  BY <1>4 DEF AskPreparation, ImportInv, Admitted, Held, Free
<1>5. ASSUME NEW u \in Upload, StartPreparation(u) PROVE Admitted'
  BY <1>5 DEF StartPreparation, Idle, Persist, PersistFails, Fault, ImportInv, Admitted,
     Held, Free
<1>6. ASSUME NEW u \in Upload, LoadSkipped(u) PROVE Admitted'
  BY <1>6 DEF LoadSkipped, Idle, ImportInv, Admitted, Held, Free
<1>7. ASSUME NEW u \in Upload, BeginDiscard(u) PROVE Admitted'
  BY <1>7 DEF BeginDiscard, Idle, Hold, Allowed, ImportInv, Admitted, Held, Free
<1>8. ASSUME NEW u \in Upload, DiscardCandidate(u) PROVE Admitted'
  BY <1>8 DEF DiscardCandidate, At, Unlink, Hold, ImportInv, Admitted, Held, Free
<1>9. ASSUME NEW u \in Upload, DiscardSource(u) PROVE Admitted'
  BY <1>9 DEF DiscardSource, At, Hold, ImportInv, Admitted, Held, Free
<1>10. ASSUME NEW u \in Upload, RecordDiscard(u) PROVE Admitted'
  BY <1>10 DEF RecordDiscard, At, Release, Free, Persist, PersistFails, Fault, ImportInv,
     Admitted, Held, Free
<1>11. ASSUME NEW u \in Upload, BeginActivation(u) PROVE Admitted'
  BY <1>11 DEF BeginActivation, Idle, Allowed, Hold, ImportInv, Admitted, Held, Free
<1>12. ASSUME NEW u \in Upload, LinkTarget(u) PROVE Admitted'
  <2>1. waiting' = waiting /\ used' = used
    BY <1>12 DEF LinkTarget
  <2>2. \A v \in Upload : ~Held("upload", v)'
    BY <1>12 DEF LinkTarget, At, Link, Hold, Release, Free, Held
  <2> QED
    BY <2>1, <2>2 DEF ImportInv, Admitted
<1>13. ASSUME NEW u \in Upload, WriteLock(u) PROVE Admitted'
  <2>1. waiting' = waiting /\ used' = used
    BY <1>13 DEF WriteLock
  <2>2. \A v \in Upload : ~Held("upload", v)'
    BY <1>13 DEF WriteLock, At, Hold, Release, Free, Held
  <2> QED
    BY <2>1, <2>2 DEF ImportInv, Admitted
<1>14. ASSUME NEW u \in Upload, DropActivatedCandidate(u) PROVE Admitted'
  <2>1. waiting' = waiting /\ used' = used
    BY <1>14 DEF DropActivatedCandidate
  <2>2. \A v \in Upload : ~Held("upload", v)'
    BY <1>14 DEF DropActivatedCandidate, At, Hold, Release, Free, Held
  <2> QED
    BY <2>1, <2>2 DEF ImportInv, Admitted
<1>15. ASSUME NEW u \in Upload, DropActivatedSource(u) PROVE Admitted'
  BY <1>15 DEF DropActivatedSource, At, Hold, ImportInv, Admitted, Held, Free
<1>16. ASSUME NEW u \in Upload, RecordActivation(u) PROVE Admitted'
  BY <1>16 DEF RecordActivation, At, Release, Free, Persist, PersistFails, Fault, ImportInv,
     Admitted, Held, Free
<1>17. ASSUME NEW u \in Upload, EnterWorker(u) PROVE Admitted'
  BY <1>17 DEF EnterWorker, Step, Persist, PersistFails, Fault, ImportInv, Admitted, Held, Free
<1>18. ASSUME NEW u \in Upload, ClearCandidate(u) PROVE Admitted'
  BY <1>18 DEF ClearCandidate, Step, Unlink, ImportInv, Admitted, Held, Free
<1>19. ASSUME NEW u \in Upload, BuildCandidate(u) PROVE Admitted'
  BY <1>19 DEF BuildCandidate, Step, Fault, ImportInv, Admitted, Held, Free
<1>20. ASSUME NEW u \in Upload, ValidateCandidate(u) PROVE Admitted'
  BY <1>20 DEF ValidateCandidate, Step, ImportInv, Admitted, Held, Free
<1>21. ASSUME NEW u \in Upload, PassCandidate(u) PROVE Admitted'
  BY <1>21 DEF PassCandidate, Step, Persist, PersistFails, Fault, ImportInv, Admitted, Held,
     Free
<1>22. ASSUME NEW u \in Upload, DropRejectedCandidate(u) PROVE Admitted'
  BY <1>22 DEF DropRejectedCandidate, Step, Unlink, ImportInv, Admitted, Held, Free
<1>23. ASSUME NEW u \in Upload, DropRejectedSource(u) PROVE Admitted'
  BY <1>23 DEF DropRejectedSource, Step, ImportInv, Admitted, Held, Free
<1>24. ASSUME NEW u \in Upload, ReportFailure(u) PROVE Admitted'
  BY <1>24 DEF ReportFailure, Step, Persist, PersistFails, Fault, ImportInv, Admitted, Held,
     Free
<1>25. ASSUME NEW u \in Upload, RestoreJob(u) PROVE Admitted'
  BY <1>25 DEF RestoreJob, Restored, Retryable, Persist, Unlink, Fault, ImportInv, Admitted,
     Held, Free
<1>26. CASE Crash
  BY <1>26 DEF Crash, Fault, Free, ImportInv, Admitted, Held, Free
<1>27. CASE Start
  BY <1>27 DEF Start, ImportInv, Admitted, Held, Free
<1>28. CASE Serve
  BY <1>28 DEF Serve, ImportInv, Admitted, Held, Free
<1>29. CASE TargetChanges
  BY <1>29 DEF TargetChanges, Fault, ImportInv, Admitted, Held, Free
<1>30. CASE UNCHANGED vars
  BY <1>30 DEF vars, files, history, ImportInv, Admitted, Held, Free
<1>31. ASSUME NEW u \in Upload, UnlinkFails(u) PROVE Admitted'
  <2>1. waiting' = waiting /\ used' = used
    BY <1>31 DEF UnlinkFails
  <2>2. \A v \in Upload : Held("upload", v)' => Held("upload", v)
    BY <1>31 DEF UnlinkFails, Release, Free, Held
  <2> QED
    BY <2>1, <2>2 DEF ImportInv, Admitted
<1> QED
  BY <1>1, <1>2, <1>3, <1>4, <1>5, <1>6, <1>7, <1>8, <1>9, <1>10, <1>11, <1>12, <1>13,
     <1>14, <1>15, <1>16, <1>17, <1>18, <1>19, <1>20, <1>21, <1>22, <1>23, <1>24, <1>25,
     <1>26, <1>27, <1>28, <1>29, <1>30, <1>31 DEF Next, Request, Worker

\* An identity without a record has no job.
LEMMA UnrecordedStep == ASSUME ImportInv, [Next]_vars PROVE Unrecorded'
<1>0. /\ service \in {"up", "down", "starting"} /\ Valid \subseteq Upload /\ None \notin Upload
      /\ job \in [Upload -> JobState \union {"unread"}] /\ manifest \in [Upload -> JobState]
      /\ source \subseteq Upload /\ candidate \in [Upload -> {"none", "partial", "complete"}]
      /\ worker \in [Upload -> {"idle", "enter", "clear", "build", "validate", "pass",
                                "drop_candidate", "drop_source", "report"}]
  BY ImportAssumption DEF ImportInv, TypeOK
<1> USE <1>0 DEF files, history
<1>1. ASSUME NEW u \in Upload, AdmitUpload(u) PROVE Unrecorded'
  BY <1>1 DEF AdmitUpload, ImportInv, Unrecorded, Held, Free, Admitted, Unprepared,
     WorkersPrepare, HolderIsBetween
<1>2. ASSUME NEW u \in Upload, StageSource(u) PROVE Unrecorded'
  BY <1>2 DEF StageSource, Idle, Free, Hold, ImportInv, Unrecorded, Held, Free, Admitted,
     Unprepared, WorkersPrepare, HolderIsBetween
<1>3. ASSUME NEW u \in Upload, RecordUpload(u) PROVE Unrecorded'
  BY <1>3 DEF RecordUpload, At, Release, Free, Persist, PersistFails, Fault, ImportInv,
     Unrecorded, Held, Free, Admitted, Unprepared, WorkersPrepare, HolderIsBetween
<1>4. ASSUME NEW u \in Upload, AskPreparation(u) PROVE Unrecorded'
  BY <1>4 DEF AskPreparation, ImportInv, Unrecorded, Held, Free, Admitted, Unprepared,
     WorkersPrepare, HolderIsBetween
<1>5. ASSUME NEW u \in Upload, StartPreparation(u) PROVE Unrecorded'
  BY <1>5 DEF StartPreparation, Idle, Persist, PersistFails, Fault, ImportInv, Unrecorded,
     Held, Free, Admitted, Unprepared, WorkersPrepare, HolderIsBetween
<1>6. ASSUME NEW u \in Upload, LoadSkipped(u) PROVE Unrecorded'
  BY <1>6 DEF LoadSkipped, Idle, ImportInv, Unrecorded, Held, Free, Admitted, Unprepared,
     WorkersPrepare, HolderIsBetween
<1>7. ASSUME NEW u \in Upload, BeginDiscard(u) PROVE Unrecorded'
  BY <1>7 DEF BeginDiscard, Idle, Hold, Allowed, ImportInv, Unrecorded, Held, Free, Admitted,
     Unprepared, WorkersPrepare, HolderIsBetween
<1>8. ASSUME NEW u \in Upload, DiscardCandidate(u) PROVE Unrecorded'
  BY <1>8 DEF DiscardCandidate, At, Unlink, Hold, ImportInv, Unrecorded, Held, Free,
     Admitted, Unprepared, WorkersPrepare, HolderIsBetween
<1>9. ASSUME NEW u \in Upload, DiscardSource(u) PROVE Unrecorded'
  BY <1>9 DEF DiscardSource, At, Hold, ImportInv, Unrecorded, Held, Free, Admitted,
     Unprepared, WorkersPrepare, HolderIsBetween
<1>10. ASSUME NEW u \in Upload, RecordDiscard(u) PROVE Unrecorded'
  BY <1>10 DEF RecordDiscard, At, Release, Free, Persist, PersistFails, Fault, ImportInv,
     Unrecorded, Held, Free, Admitted, Unprepared, WorkersPrepare, HolderIsBetween
<1>11. ASSUME NEW u \in Upload, BeginActivation(u) PROVE Unrecorded'
  BY <1>11 DEF BeginActivation, Idle, Allowed, Hold, ImportInv, Unrecorded, Held, Free,
     Admitted, Unprepared, WorkersPrepare, HolderIsBetween
<1>12. ASSUME NEW u \in Upload, LinkTarget(u) PROVE Unrecorded'
  BY <1>12 DEF LinkTarget, At, Link, Hold, Release, Free, ImportInv, Unrecorded, Held, Free,
     Admitted, Unprepared, WorkersPrepare, HolderIsBetween
<1>13. ASSUME NEW u \in Upload, WriteLock(u) PROVE Unrecorded'
  BY <1>13 DEF WriteLock, At, Hold, Release, Free, Fault, ImportInv, Unrecorded, Held, Free,
     Admitted, Unprepared, WorkersPrepare, HolderIsBetween
<1>14. ASSUME NEW u \in Upload, DropActivatedCandidate(u) PROVE Unrecorded'
  BY <1>14 DEF DropActivatedCandidate, At, Unlink, Release, Free, Hold, ImportInv,
     Unrecorded, Held, Free, Admitted, Unprepared, WorkersPrepare, HolderIsBetween
<1>15. ASSUME NEW u \in Upload, DropActivatedSource(u) PROVE Unrecorded'
  BY <1>15 DEF DropActivatedSource, At, Hold, ImportInv, Unrecorded, Held, Free, Admitted,
     Unprepared, WorkersPrepare, HolderIsBetween
<1>16. ASSUME NEW u \in Upload, RecordActivation(u) PROVE Unrecorded'
  BY <1>16 DEF RecordActivation, At, Release, Free, Persist, PersistFails, Fault, ImportInv,
     Unrecorded, Held, Free, Admitted, Unprepared, WorkersPrepare, HolderIsBetween
<1>17. ASSUME NEW u \in Upload, EnterWorker(u) PROVE Unrecorded'
  BY <1>17 DEF EnterWorker, Step, Persist, PersistFails, Fault, ImportInv, Unrecorded, Held,
     Free, Admitted, Unprepared, WorkersPrepare, HolderIsBetween
<1>18. ASSUME NEW u \in Upload, ClearCandidate(u) PROVE Unrecorded'
  BY <1>18 DEF ClearCandidate, Step, Unlink, ImportInv, Unrecorded, Held, Free, Admitted,
     Unprepared, WorkersPrepare, HolderIsBetween
<1>19. ASSUME NEW u \in Upload, BuildCandidate(u) PROVE Unrecorded'
  BY <1>19 DEF BuildCandidate, Step, Fault, ImportInv, Unrecorded, Held, Free, Admitted,
     Unprepared, WorkersPrepare, HolderIsBetween
<1>20. ASSUME NEW u \in Upload, ValidateCandidate(u) PROVE Unrecorded'
  BY <1>20 DEF ValidateCandidate, Step, ImportInv, Unrecorded, Held, Free, Admitted,
     Unprepared, WorkersPrepare, HolderIsBetween
<1>21. ASSUME NEW u \in Upload, PassCandidate(u) PROVE Unrecorded'
  BY <1>21 DEF PassCandidate, Step, Persist, PersistFails, Fault, ImportInv, Unrecorded,
     Held, Free, Admitted, Unprepared, WorkersPrepare, HolderIsBetween
<1>22. ASSUME NEW u \in Upload, DropRejectedCandidate(u) PROVE Unrecorded'
  BY <1>22 DEF DropRejectedCandidate, Step, Unlink, ImportInv, Unrecorded, Held, Free,
     Admitted, Unprepared, WorkersPrepare, HolderIsBetween
<1>23. ASSUME NEW u \in Upload, DropRejectedSource(u) PROVE Unrecorded'
  BY <1>23 DEF DropRejectedSource, Step, ImportInv, Unrecorded, Held, Free, Admitted,
     Unprepared, WorkersPrepare, HolderIsBetween
<1>24. ASSUME NEW u \in Upload, ReportFailure(u) PROVE Unrecorded'
  BY <1>24 DEF ReportFailure, Step, Persist, PersistFails, Fault, ImportInv, Unrecorded,
     Held, Free, Admitted, Unprepared, WorkersPrepare, HolderIsBetween
<1>25. ASSUME NEW u \in Upload, RestoreJob(u) PROVE Unrecorded'
  BY <1>25 DEF RestoreJob, Restored, Retryable, Persist, Unlink, Fault, ImportInv,
     Unrecorded, Held, Free, Admitted, Unprepared, WorkersPrepare, HolderIsBetween
<1>26. CASE Crash
  BY <1>26 DEF Crash, Fault, Free, ImportInv, Unrecorded, Held, Free, Admitted, Unprepared,
     WorkersPrepare, HolderIsBetween
<1>27. CASE Start
  BY <1>27 DEF Start, ImportInv, Unrecorded, Held, Free, Admitted, Unprepared,
     WorkersPrepare, HolderIsBetween
<1>28. CASE Serve
  BY <1>28 DEF Serve, ImportInv, Unrecorded, Held, Free, Admitted, Unprepared,
     WorkersPrepare, HolderIsBetween
<1>29. CASE TargetChanges
  BY <1>29 DEF TargetChanges, Fault, ImportInv, Unrecorded, Held, Free, Admitted, Unprepared,
     WorkersPrepare, HolderIsBetween
<1>30. CASE UNCHANGED vars
  BY <1>30 DEF vars, files, history, ImportInv, Unrecorded, Held, Free, Admitted, Unprepared,
     WorkersPrepare, HolderIsBetween
<1>31. ASSUME NEW u \in Upload, UnlinkFails(u) PROVE Unrecorded'
  BY <1>31 DEF UnlinkFails, Step, Fault, Release, Free, files, history, ImportInv,
     Unrecorded, Held, Admitted, Unprepared, WorkersPrepare, HolderIsBetween
<1> QED
  BY <1>1, <1>2, <1>3, <1>4, <1>5, <1>6, <1>7, <1>8, <1>9, <1>10, <1>11, <1>12, <1>13,
     <1>14, <1>15, <1>16, <1>17, <1>18, <1>19, <1>20, <1>21, <1>22, <1>23, <1>24, <1>25,
     <1>26, <1>27, <1>28, <1>29, <1>30, <1>31 DEF Next, Request, Worker

\* Only a worker makes a candidate.
LEMMA UnpreparedStep == ASSUME ImportInv, [Next]_vars PROVE Unprepared'
<1>0. /\ service \in {"up", "down", "starting"} /\ Valid \subseteq Upload /\ None \notin Upload
      /\ job \in [Upload -> JobState \union {"unread"}] /\ manifest \in [Upload -> JobState]
      /\ source \subseteq Upload /\ candidate \in [Upload -> {"none", "partial", "complete"}]
      /\ worker \in [Upload -> {"idle", "enter", "clear", "build", "validate", "pass",
                                "drop_candidate", "drop_source", "report"}]
  BY ImportAssumption DEF ImportInv, TypeOK
<1> USE <1>0 DEF files, history
<1>1. ASSUME NEW u \in Upload, AdmitUpload(u) PROVE Unprepared'
  BY <1>1 DEF AdmitUpload, ImportInv, Unprepared, Stopped, Unrecorded, WorkersPrepare,
     HolderIsBetween, Held
<1>2. ASSUME NEW u \in Upload, StageSource(u) PROVE Unprepared'
  BY <1>2 DEF StageSource, Idle, Free, Hold, ImportInv, Unprepared, Stopped, Unrecorded,
     WorkersPrepare, HolderIsBetween, Held
<1>3. ASSUME NEW u \in Upload, RecordUpload(u) PROVE Unprepared'
  <2>1. candidate[u] = "none" /\ worker[u] = "idle"
    BY <1>3 DEF RecordUpload, At, ImportInv, Unrecorded, Unprepared, Held
  <2>2. /\ candidate' = candidate /\ worker' = worker
        /\ \A v \in Upload \ {u} : job'[v] = job[v] /\ manifest'[v] = manifest[v]
        /\ source' \subseteq source
    BY <1>3 DEF RecordUpload, Persist, PersistFails
  <2> QED
    BY <2>1, <2>2 DEF ImportInv, Unprepared
<1>4. ASSUME NEW u \in Upload, AskPreparation(u) PROVE Unprepared'
  BY <1>4 DEF AskPreparation, ImportInv, Unprepared, Stopped, Unrecorded, WorkersPrepare,
     HolderIsBetween, Held
<1>5. ASSUME NEW u \in Upload, StartPreparation(u) PROVE Unprepared'
  BY <1>5 DEF StartPreparation, Idle, Persist, PersistFails, Fault, ImportInv, Unprepared,
     Stopped, Unrecorded, WorkersPrepare, HolderIsBetween, Held
<1>6. ASSUME NEW u \in Upload, LoadSkipped(u) PROVE Unprepared'
  BY <1>6 DEF LoadSkipped, Idle, ImportInv, Unprepared, Stopped, Unrecorded, WorkersPrepare,
     HolderIsBetween, Held
<1>7. ASSUME NEW u \in Upload, BeginDiscard(u) PROVE Unprepared'
  BY <1>7 DEF BeginDiscard, Idle, Hold, Allowed, ImportInv, Unprepared, Stopped, Unrecorded,
     WorkersPrepare, HolderIsBetween, Held
<1>8. ASSUME NEW u \in Upload, DiscardCandidate(u) PROVE Unprepared'
  BY <1>8 DEF DiscardCandidate, At, Unlink, Hold, ImportInv, Unprepared, Stopped, Unrecorded,
     WorkersPrepare, HolderIsBetween, Held
<1>9. ASSUME NEW u \in Upload, DiscardSource(u) PROVE Unprepared'
  BY <1>9 DEF DiscardSource, At, Hold, ImportInv, Unprepared, Stopped, Unrecorded,
     WorkersPrepare, HolderIsBetween, Held
<1>10. ASSUME NEW u \in Upload, RecordDiscard(u) PROVE Unprepared'
  BY <1>10 DEF RecordDiscard, At, Release, Free, Persist, PersistFails, Fault, ImportInv,
     Unprepared, Stopped, Unrecorded, WorkersPrepare, HolderIsBetween, Held
<1>11. ASSUME NEW u \in Upload, BeginActivation(u) PROVE Unprepared'
  BY <1>11 DEF BeginActivation, Idle, Allowed, Hold, ImportInv, Unprepared, Stopped,
     Unrecorded, WorkersPrepare, HolderIsBetween, Held
<1>12. ASSUME NEW u \in Upload, LinkTarget(u) PROVE Unprepared'
  BY <1>12 DEF LinkTarget, At, Link, Hold, Release, Free, ImportInv, Unprepared, Stopped,
     Unrecorded, WorkersPrepare, HolderIsBetween, Held
<1>13. ASSUME NEW u \in Upload, WriteLock(u) PROVE Unprepared'
  BY <1>13 DEF WriteLock, At, Hold, Release, Free, Fault, ImportInv, Unprepared, Stopped,
     Unrecorded, WorkersPrepare, HolderIsBetween, Held
<1>14. ASSUME NEW u \in Upload, DropActivatedCandidate(u) PROVE Unprepared'
  BY <1>14 DEF DropActivatedCandidate, At, Unlink, Release, Free, Hold, ImportInv,
     Unprepared, Stopped, Unrecorded, WorkersPrepare, HolderIsBetween, Held
<1>15. ASSUME NEW u \in Upload, DropActivatedSource(u) PROVE Unprepared'
  BY <1>15 DEF DropActivatedSource, At, Hold, ImportInv, Unprepared, Stopped, Unrecorded,
     WorkersPrepare, HolderIsBetween, Held
<1>16. ASSUME NEW u \in Upload, RecordActivation(u) PROVE Unprepared'
  BY <1>16 DEF RecordActivation, At, Release, Free, Persist, PersistFails, Fault, ImportInv,
     Unprepared, Stopped, Unrecorded, WorkersPrepare, HolderIsBetween, Held
<1>17. ASSUME NEW u \in Upload, EnterWorker(u) PROVE Unprepared'
  BY <1>17 DEF EnterWorker, Step, Persist, PersistFails, Fault, ImportInv, Unprepared,
     Stopped, Unrecorded, WorkersPrepare, HolderIsBetween, Held
<1>18. ASSUME NEW u \in Upload, ClearCandidate(u) PROVE Unprepared'
  BY <1>18 DEF ClearCandidate, Step, Unlink, ImportInv, Unprepared, Stopped, Unrecorded,
     WorkersPrepare, HolderIsBetween, Held
<1>19. ASSUME NEW u \in Upload, BuildCandidate(u) PROVE Unprepared'
  BY <1>19 DEF BuildCandidate, Step, Fault, ImportInv, Unprepared, Stopped, Unrecorded,
     WorkersPrepare, HolderIsBetween, Held
<1>20. ASSUME NEW u \in Upload, ValidateCandidate(u) PROVE Unprepared'
  BY <1>20 DEF ValidateCandidate, Step, ImportInv, Unprepared, Stopped, Unrecorded,
     WorkersPrepare, HolderIsBetween, Held
<1>21. ASSUME NEW u \in Upload, PassCandidate(u) PROVE Unprepared'
  BY <1>21 DEF PassCandidate, Step, Persist, PersistFails, Fault, ImportInv, Unprepared,
     Stopped, Unrecorded, WorkersPrepare, HolderIsBetween, Held
<1>22. ASSUME NEW u \in Upload, DropRejectedCandidate(u) PROVE Unprepared'
  BY <1>22 DEF DropRejectedCandidate, Step, Unlink, ImportInv, Unprepared, Stopped,
     Unrecorded, WorkersPrepare, HolderIsBetween, Held
<1>23. ASSUME NEW u \in Upload, DropRejectedSource(u) PROVE Unprepared'
  BY <1>23 DEF DropRejectedSource, Step, ImportInv, Unprepared, Stopped, Unrecorded,
     WorkersPrepare, HolderIsBetween, Held
<1>24. ASSUME NEW u \in Upload, ReportFailure(u) PROVE Unprepared'
  BY <1>24 DEF ReportFailure, Step, Persist, PersistFails, Fault, ImportInv, Unprepared,
     Stopped, Unrecorded, WorkersPrepare, HolderIsBetween, Held
<1>25. ASSUME NEW u \in Upload, RestoreJob(u) PROVE Unprepared'
  BY <1>25 DEF RestoreJob, Restored, Retryable, Persist, Unlink, Fault, ImportInv,
     Unprepared, Stopped, Unrecorded, WorkersPrepare, HolderIsBetween, Held
<1>26. CASE Crash
  BY <1>26 DEF Crash, Fault, Free, ImportInv, Unprepared, Stopped, Unrecorded,
     WorkersPrepare, HolderIsBetween, Held, Free
<1>27. CASE Start
  BY <1>27 DEF Start, ImportInv, Unprepared, Stopped, Unrecorded, WorkersPrepare,
     HolderIsBetween, Held
<1>28. CASE Serve
  BY <1>28 DEF Serve, ImportInv, Unprepared, Stopped, Unrecorded, WorkersPrepare,
     HolderIsBetween, Held
<1>29. CASE TargetChanges
  BY <1>29 DEF TargetChanges, Fault, ImportInv, Unprepared, Stopped, Unrecorded,
     WorkersPrepare, HolderIsBetween, Held
<1>30. CASE UNCHANGED vars
  BY <1>30 DEF vars, files, history, ImportInv, Unprepared, Stopped, Unrecorded,
     WorkersPrepare, HolderIsBetween, Held
<1>31. ASSUME NEW u \in Upload, UnlinkFails(u) PROVE Unprepared'
  BY <1>31 DEF UnlinkFails, Step, Fault, Release, Free, files, history, ImportInv,
     Unprepared, Stopped, Unrecorded, WorkersPrepare, HolderIsBetween, Held
<1> QED
  BY <1>1, <1>2, <1>3, <1>4, <1>5, <1>6, <1>7, <1>8, <1>9, <1>10, <1>11, <1>12, <1>13,
     <1>14, <1>15, <1>16, <1>17, <1>18, <1>19, <1>20, <1>21, <1>22, <1>23, <1>24, <1>25,
     <1>26, <1>27, <1>28, <1>29, <1>30, <1>31 DEF Next, Request, Worker

\* Nobody else moves a job with a worker.
LEMMA WorkersStep == ASSUME ImportInv, [Next]_vars PROVE WorkersPrepare'
<1>0. /\ service \in {"up", "down", "starting"} /\ Valid \subseteq Upload /\ None \notin Upload
      /\ job \in [Upload -> JobState \union {"unread"}] /\ manifest \in [Upload -> JobState]
      /\ source \subseteq Upload /\ candidate \in [Upload -> {"none", "partial", "complete"}]
      /\ worker \in [Upload -> {"idle", "enter", "clear", "build", "validate", "pass",
                                "drop_candidate", "drop_source", "report"}]
  BY ImportAssumption DEF ImportInv, TypeOK
<1> USE <1>0 DEF files, history
<1>1. ASSUME NEW u \in Upload, AdmitUpload(u) PROVE WorkersPrepare'
  BY <1>1 DEF AdmitUpload, ImportInv, WorkersPrepare, Stopped, Unrecorded, Unprepared,
     HolderIsBetween, Held
<1>2. ASSUME NEW u \in Upload, StageSource(u) PROVE WorkersPrepare'
  BY <1>2 DEF StageSource, Idle, Free, Hold, ImportInv, WorkersPrepare, Stopped, Unrecorded,
     Unprepared, HolderIsBetween, Held
<1>3. ASSUME NEW u \in Upload, RecordUpload(u) PROVE WorkersPrepare'
  <2>1. candidate[u] = "none" /\ worker[u] = "idle"
    BY <1>3 DEF RecordUpload, At, ImportInv, Unrecorded, Unprepared, Held
  <2>2. /\ candidate' = candidate /\ worker' = worker
        /\ \A v \in Upload \ {u} : job'[v] = job[v] /\ manifest'[v] = manifest[v]
        /\ source' \subseteq source
    BY <1>3 DEF RecordUpload, Persist, PersistFails
  <2> QED
    BY <2>1, <2>2 DEF ImportInv, WorkersPrepare
<1>4. ASSUME NEW u \in Upload, AskPreparation(u) PROVE WorkersPrepare'
  BY <1>4 DEF AskPreparation, ImportInv, WorkersPrepare, Stopped, Unrecorded, Unprepared,
     HolderIsBetween, Held
<1>5. ASSUME NEW u \in Upload, StartPreparation(u) PROVE WorkersPrepare'
  BY <1>5 DEF StartPreparation, Idle, Persist, PersistFails, Fault, ImportInv,
     WorkersPrepare, Stopped, Unrecorded, Unprepared, HolderIsBetween, Held
<1>6. ASSUME NEW u \in Upload, LoadSkipped(u) PROVE WorkersPrepare'
  BY <1>6 DEF LoadSkipped, Idle, ImportInv, WorkersPrepare, Stopped, Unrecorded, Unprepared,
     HolderIsBetween, Held
<1>7. ASSUME NEW u \in Upload, BeginDiscard(u) PROVE WorkersPrepare'
  BY <1>7 DEF BeginDiscard, Idle, Hold, Allowed, ImportInv, WorkersPrepare, Stopped,
     Unrecorded, Unprepared, HolderIsBetween, Held
<1>8. ASSUME NEW u \in Upload, DiscardCandidate(u) PROVE WorkersPrepare'
  BY <1>8 DEF DiscardCandidate, At, Unlink, Hold, ImportInv, WorkersPrepare, Stopped,
     Unrecorded, Unprepared, HolderIsBetween, Held
<1>9. ASSUME NEW u \in Upload, DiscardSource(u) PROVE WorkersPrepare'
  BY <1>9 DEF DiscardSource, At, Hold, ImportInv, WorkersPrepare, Stopped, Unrecorded,
     Unprepared, HolderIsBetween, Held
<1>10. ASSUME NEW u \in Upload, RecordDiscard(u) PROVE WorkersPrepare'
  BY <1>10 DEF RecordDiscard, At, Release, Free, Persist, PersistFails, Fault, ImportInv,
     WorkersPrepare, Stopped, Unrecorded, Unprepared, HolderIsBetween, Held
<1>11. ASSUME NEW u \in Upload, BeginActivation(u) PROVE WorkersPrepare'
  BY <1>11 DEF BeginActivation, Idle, Allowed, Hold, ImportInv, WorkersPrepare, Stopped,
     Unrecorded, Unprepared, HolderIsBetween, Held
<1>12. ASSUME NEW u \in Upload, LinkTarget(u) PROVE WorkersPrepare'
  BY <1>12 DEF LinkTarget, At, Link, Hold, Release, Free, ImportInv, WorkersPrepare, Stopped,
     Unrecorded, Unprepared, HolderIsBetween, Held
<1>13. ASSUME NEW u \in Upload, WriteLock(u) PROVE WorkersPrepare'
  BY <1>13 DEF WriteLock, At, Hold, Release, Free, Fault, ImportInv, WorkersPrepare, Stopped,
     Unrecorded, Unprepared, HolderIsBetween, Held
<1>14. ASSUME NEW u \in Upload, DropActivatedCandidate(u) PROVE WorkersPrepare'
  BY <1>14 DEF DropActivatedCandidate, At, Unlink, Release, Free, Hold, ImportInv,
     WorkersPrepare, Stopped, Unrecorded, Unprepared, HolderIsBetween, Held
<1>15. ASSUME NEW u \in Upload, DropActivatedSource(u) PROVE WorkersPrepare'
  BY <1>15 DEF DropActivatedSource, At, Hold, ImportInv, WorkersPrepare, Stopped, Unrecorded,
     Unprepared, HolderIsBetween, Held
<1>16. ASSUME NEW u \in Upload, RecordActivation(u) PROVE WorkersPrepare'
  BY <1>16 DEF RecordActivation, At, Release, Free, Persist, PersistFails, Fault, ImportInv,
     WorkersPrepare, Stopped, Unrecorded, Unprepared, HolderIsBetween, Held
<1>17. ASSUME NEW u \in Upload, EnterWorker(u) PROVE WorkersPrepare'
  BY <1>17 DEF EnterWorker, Step, Persist, PersistFails, Fault, ImportInv, WorkersPrepare,
     Stopped, Unrecorded, Unprepared, HolderIsBetween, Held
<1>18. ASSUME NEW u \in Upload, ClearCandidate(u) PROVE WorkersPrepare'
  BY <1>18 DEF ClearCandidate, Step, Unlink, ImportInv, WorkersPrepare, Stopped, Unrecorded,
     Unprepared, HolderIsBetween, Held
<1>19. ASSUME NEW u \in Upload, BuildCandidate(u) PROVE WorkersPrepare'
  BY <1>19 DEF BuildCandidate, Step, Fault, ImportInv, WorkersPrepare, Stopped, Unrecorded,
     Unprepared, HolderIsBetween, Held
<1>20. ASSUME NEW u \in Upload, ValidateCandidate(u) PROVE WorkersPrepare'
  BY <1>20 DEF ValidateCandidate, Step, ImportInv, WorkersPrepare, Stopped, Unrecorded,
     Unprepared, HolderIsBetween, Held
<1>21. ASSUME NEW u \in Upload, PassCandidate(u) PROVE WorkersPrepare'
  BY <1>21 DEF PassCandidate, Step, Persist, PersistFails, Fault, ImportInv, WorkersPrepare,
     Stopped, Unrecorded, Unprepared, HolderIsBetween, Held
<1>22. ASSUME NEW u \in Upload, DropRejectedCandidate(u) PROVE WorkersPrepare'
  BY <1>22 DEF DropRejectedCandidate, Step, Unlink, ImportInv, WorkersPrepare, Stopped,
     Unrecorded, Unprepared, HolderIsBetween, Held
<1>23. ASSUME NEW u \in Upload, DropRejectedSource(u) PROVE WorkersPrepare'
  BY <1>23 DEF DropRejectedSource, Step, ImportInv, WorkersPrepare, Stopped, Unrecorded,
     Unprepared, HolderIsBetween, Held
<1>24. ASSUME NEW u \in Upload, ReportFailure(u) PROVE WorkersPrepare'
  BY <1>24 DEF ReportFailure, Step, Persist, PersistFails, Fault, ImportInv, WorkersPrepare,
     Stopped, Unrecorded, Unprepared, HolderIsBetween, Held
<1>25. ASSUME NEW u \in Upload, RestoreJob(u) PROVE WorkersPrepare'
  BY <1>25 DEF RestoreJob, Restored, Retryable, Persist, Unlink, Fault, ImportInv,
     WorkersPrepare, Stopped, Unrecorded, Unprepared, HolderIsBetween, Held
<1>26. CASE Crash
  BY <1>26 DEF Crash, Fault, Free, ImportInv, WorkersPrepare, Stopped, Unrecorded,
     Unprepared, HolderIsBetween, Held
<1>27. CASE Start
  BY <1>27 DEF Start, ImportInv, WorkersPrepare, Stopped, Unrecorded, Unprepared,
     HolderIsBetween, Held
<1>28. CASE Serve
  BY <1>28 DEF Serve, ImportInv, WorkersPrepare, Stopped, Unrecorded, Unprepared,
     HolderIsBetween, Held
<1>29. CASE TargetChanges
  BY <1>29 DEF TargetChanges, Fault, ImportInv, WorkersPrepare, Stopped, Unrecorded,
     Unprepared, HolderIsBetween, Held
<1>30. CASE UNCHANGED vars
  BY <1>30 DEF vars, files, history, ImportInv, WorkersPrepare, Stopped, Unrecorded,
     Unprepared, HolderIsBetween, Held
<1>31. ASSUME NEW u \in Upload, UnlinkFails(u) PROVE WorkersPrepare'
  BY <1>31 DEF UnlinkFails, Step, Fault, Release, Free, files, history, ImportInv,
     WorkersPrepare, Stopped, Unrecorded, Unprepared, HolderIsBetween, Held
<1> QED
  BY <1>1, <1>2, <1>3, <1>4, <1>5, <1>6, <1>7, <1>8, <1>9, <1>10, <1>11, <1>12, <1>13,
     <1>14, <1>15, <1>16, <1>17, <1>18, <1>19, <1>20, <1>21, <1>22, <1>23, <1>24, <1>25,
     <1>26, <1>27, <1>28, <1>29, <1>30, <1>31 DEF Next, Request, Worker

\* Nobody builds over a ready candidate.
LEMMA ReadyStep == ASSUME ImportInv, [Next]_vars PROVE ReadyIsValidated'
<1>0. /\ service \in {"up", "down", "starting"} /\ Valid \subseteq Upload /\ None \notin Upload
      /\ job \in [Upload -> JobState \union {"unread"}] /\ manifest \in [Upload -> JobState]
      /\ source \subseteq Upload /\ candidate \in [Upload -> {"none", "partial", "complete"}]
      /\ worker \in [Upload -> {"idle", "enter", "clear", "build", "validate", "pass",
                                "drop_candidate", "drop_source", "report"}]
  BY ImportAssumption DEF ImportInv, TypeOK
<1> USE <1>0 DEF files, history
<1>1. ASSUME NEW u \in Upload, AdmitUpload(u) PROVE ReadyIsValidated'
  BY <1>1 DEF AdmitUpload, ImportInv, ReadyIsValidated, Stopped, WorkersPrepare, Unprepared
<1>2. ASSUME NEW u \in Upload, StageSource(u) PROVE ReadyIsValidated'
  BY <1>2 DEF StageSource, Idle, Free, Hold, ImportInv, ReadyIsValidated, Stopped,
     WorkersPrepare, Unprepared
<1>3. ASSUME NEW u \in Upload, RecordUpload(u) PROVE ReadyIsValidated'
  BY <1>3 DEF RecordUpload, At, Release, Free, Persist, PersistFails, Fault, ImportInv,
     ReadyIsValidated, Stopped, WorkersPrepare, Unprepared
<1>4. ASSUME NEW u \in Upload, AskPreparation(u) PROVE ReadyIsValidated'
  BY <1>4 DEF AskPreparation, ImportInv, ReadyIsValidated, Stopped, WorkersPrepare, Unprepared
<1>5. ASSUME NEW u \in Upload, StartPreparation(u) PROVE ReadyIsValidated'
  BY <1>5 DEF StartPreparation, Idle, Persist, PersistFails, Fault, ImportInv,
     ReadyIsValidated, Stopped, WorkersPrepare, Unprepared
<1>6. ASSUME NEW u \in Upload, LoadSkipped(u) PROVE ReadyIsValidated'
  BY <1>6 DEF LoadSkipped, Idle, ImportInv, ReadyIsValidated, Stopped, WorkersPrepare,
     Unprepared
<1>7. ASSUME NEW u \in Upload, BeginDiscard(u) PROVE ReadyIsValidated'
  BY <1>7 DEF BeginDiscard, Idle, Hold, Allowed, ImportInv, ReadyIsValidated, Stopped,
     WorkersPrepare, Unprepared
<1>8. ASSUME NEW u \in Upload, DiscardCandidate(u) PROVE ReadyIsValidated'
  BY <1>8 DEF DiscardCandidate, At, Unlink, Hold, ImportInv, ReadyIsValidated, Stopped,
     WorkersPrepare, Unprepared
<1>9. ASSUME NEW u \in Upload, DiscardSource(u) PROVE ReadyIsValidated'
  BY <1>9 DEF DiscardSource, At, Hold, ImportInv, ReadyIsValidated, Stopped, WorkersPrepare,
     Unprepared
<1>10. ASSUME NEW u \in Upload, RecordDiscard(u) PROVE ReadyIsValidated'
  BY <1>10 DEF RecordDiscard, At, Release, Free, Persist, PersistFails, Fault, ImportInv,
     ReadyIsValidated, Stopped, WorkersPrepare, Unprepared
<1>11. ASSUME NEW u \in Upload, BeginActivation(u) PROVE ReadyIsValidated'
  BY <1>11 DEF BeginActivation, Idle, Allowed, Hold, ImportInv, ReadyIsValidated, Stopped,
     WorkersPrepare, Unprepared
<1>12. ASSUME NEW u \in Upload, LinkTarget(u) PROVE ReadyIsValidated'
  BY <1>12 DEF LinkTarget, At, Link, Hold, Release, Free, ImportInv, ReadyIsValidated,
     Stopped, WorkersPrepare, Unprepared
<1>13. ASSUME NEW u \in Upload, WriteLock(u) PROVE ReadyIsValidated'
  BY <1>13 DEF WriteLock, At, Hold, Release, Free, Fault, ImportInv, ReadyIsValidated,
     Stopped, WorkersPrepare, Unprepared
<1>14. ASSUME NEW u \in Upload, DropActivatedCandidate(u) PROVE ReadyIsValidated'
  BY <1>14 DEF DropActivatedCandidate, At, Unlink, Release, Free, Hold, ImportInv,
     ReadyIsValidated, Stopped, WorkersPrepare, Unprepared
<1>15. ASSUME NEW u \in Upload, DropActivatedSource(u) PROVE ReadyIsValidated'
  BY <1>15 DEF DropActivatedSource, At, Hold, ImportInv, ReadyIsValidated, Stopped,
     WorkersPrepare, Unprepared
<1>16. ASSUME NEW u \in Upload, RecordActivation(u) PROVE ReadyIsValidated'
  BY <1>16 DEF RecordActivation, At, Release, Free, Persist, PersistFails, Fault, ImportInv,
     ReadyIsValidated, Stopped, WorkersPrepare, Unprepared
<1>17. ASSUME NEW u \in Upload, EnterWorker(u) PROVE ReadyIsValidated'
  BY <1>17 DEF EnterWorker, Step, Persist, PersistFails, Fault, ImportInv, ReadyIsValidated,
     Stopped, WorkersPrepare, Unprepared
<1>18. ASSUME NEW u \in Upload, ClearCandidate(u) PROVE ReadyIsValidated'
  BY <1>18 DEF ClearCandidate, Step, Unlink, ImportInv, ReadyIsValidated, Stopped,
     WorkersPrepare, Unprepared
<1>19. ASSUME NEW u \in Upload, BuildCandidate(u) PROVE ReadyIsValidated'
  BY <1>19 DEF BuildCandidate, Step, Fault, ImportInv, ReadyIsValidated, Stopped,
     WorkersPrepare, Unprepared
<1>20. ASSUME NEW u \in Upload, ValidateCandidate(u) PROVE ReadyIsValidated'
  BY <1>20 DEF ValidateCandidate, Step, ImportInv, ReadyIsValidated, Stopped, WorkersPrepare,
     Unprepared
<1>21. ASSUME NEW u \in Upload, PassCandidate(u) PROVE ReadyIsValidated'
  BY <1>21 DEF PassCandidate, Step, Persist, PersistFails, Fault, ImportInv,
     ReadyIsValidated, Stopped, WorkersPrepare, Unprepared
<1>22. ASSUME NEW u \in Upload, DropRejectedCandidate(u) PROVE ReadyIsValidated'
  BY <1>22 DEF DropRejectedCandidate, Step, Unlink, ImportInv, ReadyIsValidated, Stopped,
     WorkersPrepare, Unprepared
<1>23. ASSUME NEW u \in Upload, DropRejectedSource(u) PROVE ReadyIsValidated'
  BY <1>23 DEF DropRejectedSource, Step, ImportInv, ReadyIsValidated, Stopped,
     WorkersPrepare, Unprepared
<1>24. ASSUME NEW u \in Upload, ReportFailure(u) PROVE ReadyIsValidated'
  BY <1>24 DEF ReportFailure, Step, Persist, PersistFails, Fault, ImportInv,
     ReadyIsValidated, Stopped, WorkersPrepare, Unprepared
<1>25. ASSUME NEW u \in Upload, RestoreJob(u) PROVE ReadyIsValidated'
  BY <1>25 DEF RestoreJob, Restored, Retryable, Persist, Unlink, Fault, ImportInv,
     ReadyIsValidated, Stopped, WorkersPrepare, Unprepared
<1>26. CASE Crash
  BY <1>26 DEF Crash, Fault, Free, ImportInv, ReadyIsValidated, Stopped, WorkersPrepare,
     Unprepared
<1>27. CASE Start
  BY <1>27 DEF Start, ImportInv, ReadyIsValidated, Stopped, WorkersPrepare, Unprepared
<1>28. CASE Serve
  BY <1>28 DEF Serve, ImportInv, ReadyIsValidated, Stopped, WorkersPrepare, Unprepared
<1>29. CASE TargetChanges
  BY <1>29 DEF TargetChanges, Fault, ImportInv, ReadyIsValidated, Stopped, WorkersPrepare,
     Unprepared
<1>30. CASE UNCHANGED vars
  BY <1>30 DEF vars, files, history, ImportInv, ReadyIsValidated, Stopped, WorkersPrepare,
     Unprepared
<1>31. ASSUME NEW u \in Upload, UnlinkFails(u) PROVE ReadyIsValidated'
  BY <1>31 DEF UnlinkFails, Step, Fault, Release, Free, files, history, ImportInv,
     ReadyIsValidated, Stopped, WorkersPrepare, Unprepared
<1> QED
  BY <1>1, <1>2, <1>3, <1>4, <1>5, <1>6, <1>7, <1>8, <1>9, <1>10, <1>11, <1>12, <1>13,
     <1>14, <1>15, <1>16, <1>17, <1>18, <1>19, <1>20, <1>21, <1>22, <1>23, <1>24, <1>25,
     <1>26, <1>27, <1>28, <1>29, <1>30, <1>31 DEF Next, Request, Worker

\* Nobody interferes with the request that holds the lock, but for a worker
\* that removes files.
LEMMA HolderStep == ASSUME ImportInv, [Next]_vars PROVE HolderIsBetween'
<1>0. /\ service \in {"up", "down", "starting"} /\ Valid \subseteq Upload /\ None \notin Upload
      /\ job \in [Upload -> JobState \union {"unread"}] /\ manifest \in [Upload -> JobState]
      /\ source \subseteq Upload /\ candidate \in [Upload -> {"none", "partial", "complete"}]
      /\ worker \in [Upload -> {"idle", "enter", "clear", "build", "validate", "pass",
                                "drop_candidate", "drop_source", "report"}]
  BY ImportAssumption DEF ImportInv, TypeOK
<1> USE <1>0 DEF files, history
<1>1. ASSUME NEW u \in Upload, AdmitUpload(u) PROVE HolderIsBetween'
  BY <1>1 DEF AdmitUpload, ImportInv, HolderIsBetween, Stopped, WorkersPrepare, Held, Free
<1>2. ASSUME NEW u \in Upload, StageSource(u) PROVE HolderIsBetween'
  BY <1>2 DEF StageSource, Idle, Free, Hold, ImportInv, HolderIsBetween, Stopped,
     WorkersPrepare, Held, Free
<1>3. ASSUME NEW u \in Upload, RecordUpload(u) PROVE HolderIsBetween'
  BY <1>3 DEF RecordUpload, At, Release, Free, Persist, PersistFails, Fault, ImportInv,
     HolderIsBetween, Stopped, WorkersPrepare, Held, Free
<1>4. ASSUME NEW u \in Upload, AskPreparation(u) PROVE HolderIsBetween'
  BY <1>4 DEF AskPreparation, ImportInv, HolderIsBetween, Stopped, WorkersPrepare, Held, Free
<1>5. ASSUME NEW u \in Upload, StartPreparation(u) PROVE HolderIsBetween'
  BY <1>5 DEF StartPreparation, Idle, Persist, PersistFails, Fault, ImportInv,
     HolderIsBetween, Stopped, WorkersPrepare, Held, Free
<1>6. ASSUME NEW u \in Upload, LoadSkipped(u) PROVE HolderIsBetween'
  BY <1>6 DEF LoadSkipped, Idle, ImportInv, HolderIsBetween, Stopped, WorkersPrepare, Held, Free
<1>7. ASSUME NEW u \in Upload, BeginDiscard(u) PROVE HolderIsBetween'
  BY <1>7 DEF BeginDiscard, Idle, Hold, Allowed, ImportInv, HolderIsBetween, Stopped,
     WorkersPrepare, Held, Free
<1>8. ASSUME NEW u \in Upload, DiscardCandidate(u) PROVE HolderIsBetween'
  BY <1>8 DEF DiscardCandidate, At, Unlink, Hold, ImportInv, HolderIsBetween, Stopped,
     WorkersPrepare, Held, Free
<1>9. ASSUME NEW u \in Upload, DiscardSource(u) PROVE HolderIsBetween'
  BY <1>9 DEF DiscardSource, At, Hold, ImportInv, HolderIsBetween, Stopped, WorkersPrepare,
     Held, Free
<1>10. ASSUME NEW u \in Upload, RecordDiscard(u) PROVE HolderIsBetween'
  BY <1>10 DEF RecordDiscard, At, Release, Free, Persist, PersistFails, Fault, ImportInv,
     HolderIsBetween, Stopped, WorkersPrepare, Held, Free
<1>11. ASSUME NEW u \in Upload, BeginActivation(u) PROVE HolderIsBetween'
  BY <1>11 DEF BeginActivation, Idle, Allowed, Hold, ImportInv, HolderIsBetween, Stopped,
     WorkersPrepare, Held, Free
<1>12. ASSUME NEW u \in Upload, LinkTarget(u) PROVE HolderIsBetween'
  BY <1>12 DEF LinkTarget, At, Link, Hold, Release, Free, ImportInv, HolderIsBetween,
     Stopped, WorkersPrepare, Held, Free
<1>13. ASSUME NEW u \in Upload, WriteLock(u) PROVE HolderIsBetween'
  BY <1>13 DEF WriteLock, At, Hold, Release, Free, Fault, ImportInv, HolderIsBetween,
     Stopped, WorkersPrepare, Held, Free
<1>14. ASSUME NEW u \in Upload, DropActivatedCandidate(u) PROVE HolderIsBetween'
  BY <1>14 DEF DropActivatedCandidate, At, Unlink, Release, Free, Hold, ImportInv,
     HolderIsBetween, Stopped, WorkersPrepare, Held, Free
<1>15. ASSUME NEW u \in Upload, DropActivatedSource(u) PROVE HolderIsBetween'
  BY <1>15 DEF DropActivatedSource, At, Hold, ImportInv, HolderIsBetween, Stopped,
     WorkersPrepare, Held, Free
<1>16. ASSUME NEW u \in Upload, RecordActivation(u) PROVE HolderIsBetween'
  BY <1>16 DEF RecordActivation, At, Release, Free, Persist, PersistFails, Fault, ImportInv,
     HolderIsBetween, Stopped, WorkersPrepare, Held, Free
<1>17. ASSUME NEW u \in Upload, EnterWorker(u) PROVE HolderIsBetween'
  BY <1>17 DEF EnterWorker, Step, Persist, PersistFails, Fault, ImportInv, HolderIsBetween,
     Stopped, WorkersPrepare, Held, Free
<1>18. ASSUME NEW u \in Upload, ClearCandidate(u) PROVE HolderIsBetween'
  BY <1>18 DEF ClearCandidate, Step, Unlink, ImportInv, HolderIsBetween, Stopped,
     WorkersPrepare, Held, Free
<1>19. ASSUME NEW u \in Upload, BuildCandidate(u) PROVE HolderIsBetween'
  BY <1>19 DEF BuildCandidate, Step, Fault, ImportInv, HolderIsBetween, Stopped,
     WorkersPrepare, Held, Free
<1>20. ASSUME NEW u \in Upload, ValidateCandidate(u) PROVE HolderIsBetween'
  BY <1>20 DEF ValidateCandidate, Step, ImportInv, HolderIsBetween, Stopped, WorkersPrepare,
     Held, Free
<1>21. ASSUME NEW u \in Upload, PassCandidate(u) PROVE HolderIsBetween'
  BY <1>21 DEF PassCandidate, Step, Persist, PersistFails, Fault, ImportInv, HolderIsBetween,
     Stopped, WorkersPrepare, Held, Free
<1>22. ASSUME NEW u \in Upload, DropRejectedCandidate(u) PROVE HolderIsBetween'
  BY <1>22 DEF DropRejectedCandidate, Step, Unlink, ImportInv, HolderIsBetween, Stopped,
     WorkersPrepare, Held, Free
<1>23. ASSUME NEW u \in Upload, DropRejectedSource(u) PROVE HolderIsBetween'
  BY <1>23 DEF DropRejectedSource, Step, ImportInv, HolderIsBetween, Stopped, WorkersPrepare,
     Held, Free
<1>24. ASSUME NEW u \in Upload, ReportFailure(u) PROVE HolderIsBetween'
  BY <1>24 DEF ReportFailure, Step, Persist, PersistFails, Fault, ImportInv, HolderIsBetween,
     Stopped, WorkersPrepare, Held, Free
<1>25. ASSUME NEW u \in Upload, RestoreJob(u) PROVE HolderIsBetween'
  BY <1>25 DEF RestoreJob, Restored, Retryable, Persist, Unlink, Fault, ImportInv,
     HolderIsBetween, Stopped, WorkersPrepare, Held, Free
<1>26. CASE Crash
  BY <1>26 DEF Crash, Fault, Free, ImportInv, HolderIsBetween, Stopped, WorkersPrepare, Held,
     Free
<1>27. CASE Start
  BY <1>27 DEF Start, ImportInv, HolderIsBetween, Stopped, WorkersPrepare, Held, Free
<1>28. CASE Serve
  BY <1>28 DEF Serve, ImportInv, HolderIsBetween, Stopped, WorkersPrepare, Held, Free
<1>29. CASE TargetChanges
  BY <1>29 DEF TargetChanges, Fault, ImportInv, HolderIsBetween, Stopped, WorkersPrepare,
     Held, Free
<1>30. CASE UNCHANGED vars
  BY <1>30 DEF vars, files, history, ImportInv, HolderIsBetween, Stopped, WorkersPrepare,
     Held, Free
<1>31. ASSUME NEW u \in Upload, UnlinkFails(u) PROVE HolderIsBetween'
  BY <1>31 DEF UnlinkFails, Step, Fault, Release, Free, files, history, ImportInv,
     HolderIsBetween, Stopped, WorkersPrepare, Held
<1> QED
  BY <1>1, <1>2, <1>3, <1>4, <1>5, <1>6, <1>7, <1>8, <1>9, <1>10, <1>11, <1>12, <1>13,
     <1>14, <1>15, <1>16, <1>17, <1>18, <1>19, <1>20, <1>21, <1>22, <1>23, <1>24, <1>25,
     <1>26, <1>27, <1>28, <1>29, <1>30, <1>31 DEF Next, Request, Worker

\* What is recorded as finished has left no file.
LEMMA FinishedStep == ASSUME ImportInv, [Next]_vars PROVE FinishedLeavesNothing'
<1>0. /\ service \in {"up", "down", "starting"} /\ Valid \subseteq Upload /\ None \notin Upload
      /\ job \in [Upload -> JobState \union {"unread"}] /\ manifest \in [Upload -> JobState]
      /\ source \subseteq Upload /\ candidate \in [Upload -> {"none", "partial", "complete"}]
      /\ worker \in [Upload -> {"idle", "enter", "clear", "build", "validate", "pass",
                                "drop_candidate", "drop_source", "report"}]
  BY ImportAssumption DEF ImportInv, TypeOK
<1> USE <1>0 DEF files, history
<1>1. ASSUME NEW u \in Upload, AdmitUpload(u) PROVE FinishedLeavesNothing'
  BY <1>1 DEF AdmitUpload, ImportInv, FinishedLeavesNothing, Stopped, WorkersPrepare,
     Unprepared, Unrecorded, HolderIsBetween, Held
<1>2. ASSUME NEW u \in Upload, StageSource(u) PROVE FinishedLeavesNothing'
  BY <1>2 DEF StageSource, Idle, Free, Hold, ImportInv, FinishedLeavesNothing, Stopped,
     WorkersPrepare, Unprepared, Unrecorded, HolderIsBetween, Held
<1>3. ASSUME NEW u \in Upload, RecordUpload(u) PROVE FinishedLeavesNothing'
  BY <1>3 DEF RecordUpload, At, Release, Free, Persist, PersistFails, Fault, ImportInv,
     FinishedLeavesNothing, Stopped, WorkersPrepare, Unprepared, Unrecorded, HolderIsBetween,
     Held
<1>4. ASSUME NEW u \in Upload, AskPreparation(u) PROVE FinishedLeavesNothing'
  BY <1>4 DEF AskPreparation, ImportInv, FinishedLeavesNothing, Stopped, WorkersPrepare,
     Unprepared, Unrecorded, HolderIsBetween, Held
<1>5. ASSUME NEW u \in Upload, StartPreparation(u) PROVE FinishedLeavesNothing'
  BY <1>5 DEF StartPreparation, Idle, Persist, PersistFails, Fault, ImportInv,
     FinishedLeavesNothing, Stopped, WorkersPrepare, Unprepared, Unrecorded, HolderIsBetween,
     Held
<1>6. ASSUME NEW u \in Upload, LoadSkipped(u) PROVE FinishedLeavesNothing'
  BY <1>6 DEF LoadSkipped, Idle, ImportInv, FinishedLeavesNothing, Stopped, WorkersPrepare,
     Unprepared, Unrecorded, HolderIsBetween, Held
<1>7. ASSUME NEW u \in Upload, BeginDiscard(u) PROVE FinishedLeavesNothing'
  BY <1>7 DEF BeginDiscard, Idle, Hold, Allowed, ImportInv, FinishedLeavesNothing, Stopped,
     WorkersPrepare, Unprepared, Unrecorded, HolderIsBetween, Held
<1>8. ASSUME NEW u \in Upload, DiscardCandidate(u) PROVE FinishedLeavesNothing'
  BY <1>8 DEF DiscardCandidate, At, Unlink, Hold, ImportInv, FinishedLeavesNothing, Stopped,
     WorkersPrepare, Unprepared, Unrecorded, HolderIsBetween, Held
<1>9. ASSUME NEW u \in Upload, DiscardSource(u) PROVE FinishedLeavesNothing'
  BY <1>9 DEF DiscardSource, At, Hold, ImportInv, FinishedLeavesNothing, Stopped,
     WorkersPrepare, Unprepared, Unrecorded, HolderIsBetween, Held
<1>10. ASSUME NEW u \in Upload, RecordDiscard(u) PROVE FinishedLeavesNothing'
  BY <1>10 DEF RecordDiscard, At, Release, Free, Persist, PersistFails, Fault, ImportInv,
     FinishedLeavesNothing, Stopped, WorkersPrepare, Unprepared, Unrecorded, HolderIsBetween,
     Held
<1>11. ASSUME NEW u \in Upload, BeginActivation(u) PROVE FinishedLeavesNothing'
  BY <1>11 DEF BeginActivation, Idle, Allowed, Hold, ImportInv, FinishedLeavesNothing,
     Stopped, WorkersPrepare, Unprepared, Unrecorded, HolderIsBetween, Held
<1>12. ASSUME NEW u \in Upload, LinkTarget(u) PROVE FinishedLeavesNothing'
  BY <1>12 DEF LinkTarget, At, Link, Hold, Release, Free, ImportInv, FinishedLeavesNothing,
     Stopped, WorkersPrepare, Unprepared, Unrecorded, HolderIsBetween, Held
<1>13. ASSUME NEW u \in Upload, WriteLock(u) PROVE FinishedLeavesNothing'
  BY <1>13 DEF WriteLock, At, Hold, Release, Free, Fault, ImportInv, FinishedLeavesNothing,
     Stopped, WorkersPrepare, Unprepared, Unrecorded, HolderIsBetween, Held
<1>14. ASSUME NEW u \in Upload, DropActivatedCandidate(u) PROVE FinishedLeavesNothing'
  BY <1>14 DEF DropActivatedCandidate, At, Unlink, Release, Free, Hold, ImportInv,
     FinishedLeavesNothing, Stopped, WorkersPrepare, Unprepared, Unrecorded, HolderIsBetween,
     Held
<1>15. ASSUME NEW u \in Upload, DropActivatedSource(u) PROVE FinishedLeavesNothing'
  BY <1>15 DEF DropActivatedSource, At, Hold, ImportInv, FinishedLeavesNothing, Stopped,
     WorkersPrepare, Unprepared, Unrecorded, HolderIsBetween, Held
<1>16. ASSUME NEW u \in Upload, RecordActivation(u) PROVE FinishedLeavesNothing'
  BY <1>16 DEF RecordActivation, At, Release, Free, Persist, PersistFails, Fault, ImportInv,
     FinishedLeavesNothing, Stopped, WorkersPrepare, Unprepared, Unrecorded, HolderIsBetween,
     Held
<1>17. ASSUME NEW u \in Upload, EnterWorker(u) PROVE FinishedLeavesNothing'
  BY <1>17 DEF EnterWorker, Step, Persist, PersistFails, Fault, ImportInv,
     FinishedLeavesNothing, Stopped, WorkersPrepare, Unprepared, Unrecorded, HolderIsBetween,
     Held
<1>18. ASSUME NEW u \in Upload, ClearCandidate(u) PROVE FinishedLeavesNothing'
  BY <1>18 DEF ClearCandidate, Step, Unlink, ImportInv, FinishedLeavesNothing, Stopped,
     WorkersPrepare, Unprepared, Unrecorded, HolderIsBetween, Held
<1>19. ASSUME NEW u \in Upload, BuildCandidate(u) PROVE FinishedLeavesNothing'
  BY <1>19 DEF BuildCandidate, Step, Fault, ImportInv, FinishedLeavesNothing, Stopped,
     WorkersPrepare, Unprepared, Unrecorded, HolderIsBetween, Held
<1>20. ASSUME NEW u \in Upload, ValidateCandidate(u) PROVE FinishedLeavesNothing'
  BY <1>20 DEF ValidateCandidate, Step, ImportInv, FinishedLeavesNothing, Stopped,
     WorkersPrepare, Unprepared, Unrecorded, HolderIsBetween, Held
<1>21. ASSUME NEW u \in Upload, PassCandidate(u) PROVE FinishedLeavesNothing'
  BY <1>21 DEF PassCandidate, Step, Persist, PersistFails, Fault, ImportInv,
     FinishedLeavesNothing, Stopped, WorkersPrepare, Unprepared, Unrecorded, HolderIsBetween,
     Held
<1>22. ASSUME NEW u \in Upload, DropRejectedCandidate(u) PROVE FinishedLeavesNothing'
  BY <1>22 DEF DropRejectedCandidate, Step, Unlink, ImportInv, FinishedLeavesNothing,
     Stopped, WorkersPrepare, Unprepared, Unrecorded, HolderIsBetween, Held
<1>23. ASSUME NEW u \in Upload, DropRejectedSource(u) PROVE FinishedLeavesNothing'
  BY <1>23 DEF DropRejectedSource, Step, ImportInv, FinishedLeavesNothing, Stopped,
     WorkersPrepare, Unprepared, Unrecorded, HolderIsBetween, Held
<1>24. ASSUME NEW u \in Upload, ReportFailure(u) PROVE FinishedLeavesNothing'
  BY <1>24 DEF ReportFailure, Step, Persist, PersistFails, Fault, ImportInv,
     FinishedLeavesNothing, Stopped, WorkersPrepare, Unprepared, Unrecorded, HolderIsBetween,
     Held
<1>25. ASSUME NEW u \in Upload, RestoreJob(u) PROVE FinishedLeavesNothing'
  BY <1>25 DEF RestoreJob, Restored, Retryable, Persist, Unlink, Fault, ImportInv,
     FinishedLeavesNothing, Stopped, WorkersPrepare, Unprepared, Unrecorded, HolderIsBetween,
     Held
<1>26. CASE Crash
  BY <1>26 DEF Crash, Fault, Free, ImportInv, FinishedLeavesNothing, Stopped, WorkersPrepare,
     Unprepared, Unrecorded, HolderIsBetween, Held
<1>27. CASE Start
  BY <1>27 DEF Start, ImportInv, FinishedLeavesNothing, Stopped, WorkersPrepare, Unprepared,
     Unrecorded, HolderIsBetween, Held
<1>28. CASE Serve
  BY <1>28 DEF Serve, ImportInv, FinishedLeavesNothing, Stopped, WorkersPrepare, Unprepared,
     Unrecorded, HolderIsBetween, Held
<1>29. CASE TargetChanges
  BY <1>29 DEF TargetChanges, Fault, ImportInv, FinishedLeavesNothing, Stopped,
     WorkersPrepare, Unprepared, Unrecorded, HolderIsBetween, Held
<1>30. CASE UNCHANGED vars
  BY <1>30 DEF vars, files, history, ImportInv, FinishedLeavesNothing, Stopped,
     WorkersPrepare, Unprepared, Unrecorded, HolderIsBetween, Held
<1>31. ASSUME NEW u \in Upload, UnlinkFails(u) PROVE FinishedLeavesNothing'
  BY <1>31 DEF UnlinkFails, Step, Fault, Release, Free, files, history, ImportInv,
     FinishedLeavesNothing, Stopped, WorkersPrepare, Unprepared, Unrecorded,
     HolderIsBetween, Held
<1> QED
  BY <1>1, <1>2, <1>3, <1>4, <1>5, <1>6, <1>7, <1>8, <1>9, <1>10, <1>11, <1>12, <1>13,
     <1>14, <1>15, <1>16, <1>17, <1>18, <1>19, <1>20, <1>21, <1>22, <1>23, <1>24, <1>25,
     <1>26, <1>27, <1>28, <1>29, <1>30, <1>31 DEF Next, Request, Worker

\* Nothing unlocks.
LEMMA FinalStep == ASSUME ImportInv, [Next]_vars PROVE ActivationIsFinal'
<1>0. /\ service \in {"up", "down", "starting"} /\ Valid \subseteq Upload /\ None \notin Upload
      /\ job \in [Upload -> JobState \union {"unread"}] /\ manifest \in [Upload -> JobState]
      /\ source \subseteq Upload /\ candidate \in [Upload -> {"none", "partial", "complete"}]
      /\ worker \in [Upload -> {"idle", "enter", "clear", "build", "validate", "pass",
                                "drop_candidate", "drop_source", "report"}]
  BY ImportAssumption DEF ImportInv, TypeOK
<1> USE <1>0 DEF files, history
<1>1. ASSUME NEW u \in Upload, AdmitUpload(u) PROVE ActivationIsFinal'
  BY <1>1 DEF AdmitUpload, ImportInv, ActivationIsFinal, HolderIsBetween, Held
<1>2. ASSUME NEW u \in Upload, StageSource(u) PROVE ActivationIsFinal'
  BY <1>2 DEF StageSource, Idle, Free, Hold, ImportInv, ActivationIsFinal, HolderIsBetween, Held
<1>3. ASSUME NEW u \in Upload, RecordUpload(u) PROVE ActivationIsFinal'
  BY <1>3 DEF RecordUpload, At, Release, Free, Persist, PersistFails, Fault, ImportInv,
     ActivationIsFinal, HolderIsBetween, Held
<1>4. ASSUME NEW u \in Upload, AskPreparation(u) PROVE ActivationIsFinal'
  BY <1>4 DEF AskPreparation, ImportInv, ActivationIsFinal, HolderIsBetween, Held
<1>5. ASSUME NEW u \in Upload, StartPreparation(u) PROVE ActivationIsFinal'
  BY <1>5 DEF StartPreparation, Idle, Persist, PersistFails, Fault, ImportInv,
     ActivationIsFinal, HolderIsBetween, Held
<1>6. ASSUME NEW u \in Upload, LoadSkipped(u) PROVE ActivationIsFinal'
  BY <1>6 DEF LoadSkipped, Idle, ImportInv, ActivationIsFinal, HolderIsBetween, Held
<1>7. ASSUME NEW u \in Upload, BeginDiscard(u) PROVE ActivationIsFinal'
  BY <1>7 DEF BeginDiscard, Idle, Hold, Allowed, ImportInv, ActivationIsFinal,
     HolderIsBetween, Held
<1>8. ASSUME NEW u \in Upload, DiscardCandidate(u) PROVE ActivationIsFinal'
  BY <1>8 DEF DiscardCandidate, At, Unlink, Hold, ImportInv, ActivationIsFinal,
     HolderIsBetween, Held
<1>9. ASSUME NEW u \in Upload, DiscardSource(u) PROVE ActivationIsFinal'
  BY <1>9 DEF DiscardSource, At, Hold, ImportInv, ActivationIsFinal, HolderIsBetween, Held
<1>10. ASSUME NEW u \in Upload, RecordDiscard(u) PROVE ActivationIsFinal'
  BY <1>10 DEF RecordDiscard, At, Release, Free, Persist, PersistFails, Fault, ImportInv,
     ActivationIsFinal, HolderIsBetween, Held
<1>11. ASSUME NEW u \in Upload, BeginActivation(u) PROVE ActivationIsFinal'
  BY <1>11 DEF BeginActivation, Idle, Allowed, Hold, ImportInv, ActivationIsFinal,
     HolderIsBetween, Held
<1>12. ASSUME NEW u \in Upload, LinkTarget(u) PROVE ActivationIsFinal'
  BY <1>12 DEF LinkTarget, At, Link, Hold, Release, Free, ImportInv, ActivationIsFinal,
     HolderIsBetween, Held
<1>13. ASSUME NEW u \in Upload, WriteLock(u) PROVE ActivationIsFinal'
  BY <1>13 DEF WriteLock, At, Hold, Release, Free, Fault, ImportInv, ActivationIsFinal,
     HolderIsBetween, Held
<1>14. ASSUME NEW u \in Upload, DropActivatedCandidate(u) PROVE ActivationIsFinal'
  BY <1>14 DEF DropActivatedCandidate, At, Unlink, Release, Free, Hold, ImportInv,
     ActivationIsFinal, HolderIsBetween, Held
<1>15. ASSUME NEW u \in Upload, DropActivatedSource(u) PROVE ActivationIsFinal'
  BY <1>15 DEF DropActivatedSource, At, Hold, ImportInv, ActivationIsFinal, HolderIsBetween,
     Held
<1>16. ASSUME NEW u \in Upload, RecordActivation(u) PROVE ActivationIsFinal'
  BY <1>16 DEF RecordActivation, At, Release, Free, Persist, PersistFails, Fault, ImportInv,
     ActivationIsFinal, HolderIsBetween, Held
<1>17. ASSUME NEW u \in Upload, EnterWorker(u) PROVE ActivationIsFinal'
  BY <1>17 DEF EnterWorker, Step, Persist, PersistFails, Fault, ImportInv, ActivationIsFinal,
     HolderIsBetween, Held
<1>18. ASSUME NEW u \in Upload, ClearCandidate(u) PROVE ActivationIsFinal'
  BY <1>18 DEF ClearCandidate, Step, Unlink, ImportInv, ActivationIsFinal, HolderIsBetween, Held
<1>19. ASSUME NEW u \in Upload, BuildCandidate(u) PROVE ActivationIsFinal'
  BY <1>19 DEF BuildCandidate, Step, Fault, ImportInv, ActivationIsFinal, HolderIsBetween, Held
<1>20. ASSUME NEW u \in Upload, ValidateCandidate(u) PROVE ActivationIsFinal'
  BY <1>20 DEF ValidateCandidate, Step, ImportInv, ActivationIsFinal, HolderIsBetween, Held
<1>21. ASSUME NEW u \in Upload, PassCandidate(u) PROVE ActivationIsFinal'
  BY <1>21 DEF PassCandidate, Step, Persist, PersistFails, Fault, ImportInv,
     ActivationIsFinal, HolderIsBetween, Held
<1>22. ASSUME NEW u \in Upload, DropRejectedCandidate(u) PROVE ActivationIsFinal'
  BY <1>22 DEF DropRejectedCandidate, Step, Unlink, ImportInv, ActivationIsFinal,
     HolderIsBetween, Held
<1>23. ASSUME NEW u \in Upload, DropRejectedSource(u) PROVE ActivationIsFinal'
  BY <1>23 DEF DropRejectedSource, Step, ImportInv, ActivationIsFinal, HolderIsBetween, Held
<1>24. ASSUME NEW u \in Upload, ReportFailure(u) PROVE ActivationIsFinal'
  BY <1>24 DEF ReportFailure, Step, Persist, PersistFails, Fault, ImportInv,
     ActivationIsFinal, HolderIsBetween, Held
<1>25. ASSUME NEW u \in Upload, RestoreJob(u) PROVE ActivationIsFinal'
  BY <1>25 DEF RestoreJob, Restored, Retryable, Persist, Unlink, Fault, ImportInv,
     ActivationIsFinal, HolderIsBetween, Held
<1>26. CASE Crash
  BY <1>26 DEF Crash, Fault, Free, ImportInv, ActivationIsFinal, HolderIsBetween, Held
<1>27. CASE Start
  BY <1>27 DEF Start, ImportInv, ActivationIsFinal, HolderIsBetween, Held
<1>28. CASE Serve
  BY <1>28 DEF Serve, ImportInv, ActivationIsFinal, HolderIsBetween, Held
<1>29. CASE TargetChanges
  BY <1>29 DEF TargetChanges, Fault, ImportInv, ActivationIsFinal, HolderIsBetween, Held
<1>30. CASE UNCHANGED vars
  BY <1>30 DEF vars, files, history, ImportInv, ActivationIsFinal, HolderIsBetween, Held
<1>31. ASSUME NEW u \in Upload, UnlinkFails(u) PROVE ActivationIsFinal'
  BY <1>31 DEF UnlinkFails, Step, Fault, Release, Free, files, history, ImportInv,
     ActivationIsFinal, HolderIsBetween, Held
<1> QED
  BY <1>1, <1>2, <1>3, <1>4, <1>5, <1>6, <1>7, <1>8, <1>9, <1>10, <1>11, <1>12, <1>13,
     <1>14, <1>15, <1>16, <1>17, <1>18, <1>19, <1>20, <1>21, <1>22, <1>23, <1>24, <1>25,
     <1>26, <1>27, <1>28, <1>29, <1>30, <1>31 DEF Next, Request, Worker

\* What is linked has been validated.
LEMMA ActiveStep == ASSUME ImportInv, [Next]_vars PROVE ActiveIsValidated'
<1>0. /\ service \in {"up", "down", "starting"} /\ Valid \subseteq Upload /\ None \notin Upload
      /\ job \in [Upload -> JobState \union {"unread"}] /\ manifest \in [Upload -> JobState]
      /\ source \subseteq Upload /\ candidate \in [Upload -> {"none", "partial", "complete"}]
      /\ worker \in [Upload -> {"idle", "enter", "clear", "build", "validate", "pass",
                                "drop_candidate", "drop_source", "report"}]
  BY ImportAssumption DEF ImportInv, TypeOK
<1> USE <1>0 DEF files, history
<1>1. ASSUME NEW u \in Upload, AdmitUpload(u) PROVE ActiveIsValidated'
  BY <1>1 DEF AdmitUpload, ImportInv, ActiveIsValidated, HolderIsBetween, ReadyIsValidated,
     Held, Linked
<1>2. ASSUME NEW u \in Upload, StageSource(u) PROVE ActiveIsValidated'
  BY <1>2 DEF StageSource, Idle, Free, Hold, ImportInv, ActiveIsValidated, HolderIsBetween,
     ReadyIsValidated, Held, Linked
<1>3. ASSUME NEW u \in Upload, RecordUpload(u) PROVE ActiveIsValidated'
  BY <1>3 DEF RecordUpload, At, Release, Free, Persist, PersistFails, Fault, ImportInv,
     ActiveIsValidated, HolderIsBetween, ReadyIsValidated, Held, Linked
<1>4. ASSUME NEW u \in Upload, AskPreparation(u) PROVE ActiveIsValidated'
  BY <1>4 DEF AskPreparation, ImportInv, ActiveIsValidated, HolderIsBetween,
     ReadyIsValidated, Held, Linked
<1>5. ASSUME NEW u \in Upload, StartPreparation(u) PROVE ActiveIsValidated'
  BY <1>5 DEF StartPreparation, Idle, Persist, PersistFails, Fault, ImportInv,
     ActiveIsValidated, HolderIsBetween, ReadyIsValidated, Held, Linked
<1>6. ASSUME NEW u \in Upload, LoadSkipped(u) PROVE ActiveIsValidated'
  BY <1>6 DEF LoadSkipped, Idle, ImportInv, ActiveIsValidated, HolderIsBetween,
     ReadyIsValidated, Held, Linked
<1>7. ASSUME NEW u \in Upload, BeginDiscard(u) PROVE ActiveIsValidated'
  BY <1>7 DEF BeginDiscard, Idle, Hold, Allowed, ImportInv, ActiveIsValidated,
     HolderIsBetween, ReadyIsValidated, Held, Linked
<1>8. ASSUME NEW u \in Upload, DiscardCandidate(u) PROVE ActiveIsValidated'
  BY <1>8 DEF DiscardCandidate, At, Unlink, Hold, ImportInv, ActiveIsValidated,
     HolderIsBetween, ReadyIsValidated, Held, Linked
<1>9. ASSUME NEW u \in Upload, DiscardSource(u) PROVE ActiveIsValidated'
  BY <1>9 DEF DiscardSource, At, Hold, ImportInv, ActiveIsValidated, HolderIsBetween,
     ReadyIsValidated, Held, Linked
<1>10. ASSUME NEW u \in Upload, RecordDiscard(u) PROVE ActiveIsValidated'
  BY <1>10 DEF RecordDiscard, At, Release, Free, Persist, PersistFails, Fault, ImportInv,
     ActiveIsValidated, HolderIsBetween, ReadyIsValidated, Held, Linked
<1>11. ASSUME NEW u \in Upload, BeginActivation(u) PROVE ActiveIsValidated'
  BY <1>11 DEF BeginActivation, Idle, Allowed, Hold, ImportInv, ActiveIsValidated,
     HolderIsBetween, ReadyIsValidated, Held, Linked
<1>12. ASSUME NEW u \in Upload, LinkTarget(u) PROVE ActiveIsValidated'
  BY <1>12 DEF LinkTarget, At, Link, Hold, Release, Free, ImportInv, ActiveIsValidated,
     HolderIsBetween, ReadyIsValidated, Held, Linked
<1>13. ASSUME NEW u \in Upload, WriteLock(u) PROVE ActiveIsValidated'
  BY <1>13 DEF WriteLock, At, Hold, Release, Free, Fault, ImportInv, ActiveIsValidated,
     HolderIsBetween, ReadyIsValidated, Held, Linked
<1>14. ASSUME NEW u \in Upload, DropActivatedCandidate(u) PROVE ActiveIsValidated'
  BY <1>14 DEF DropActivatedCandidate, At, Unlink, Release, Free, Hold, ImportInv,
     ActiveIsValidated, HolderIsBetween, ReadyIsValidated, Held, Linked
<1>15. ASSUME NEW u \in Upload, DropActivatedSource(u) PROVE ActiveIsValidated'
  BY <1>15 DEF DropActivatedSource, At, Hold, ImportInv, ActiveIsValidated, HolderIsBetween,
     ReadyIsValidated, Held, Linked
<1>16. ASSUME NEW u \in Upload, RecordActivation(u) PROVE ActiveIsValidated'
  BY <1>16 DEF RecordActivation, At, Release, Free, Persist, PersistFails, Fault, ImportInv,
     ActiveIsValidated, HolderIsBetween, ReadyIsValidated, Held, Linked
<1>17. ASSUME NEW u \in Upload, EnterWorker(u) PROVE ActiveIsValidated'
  BY <1>17 DEF EnterWorker, Step, Persist, PersistFails, Fault, ImportInv, ActiveIsValidated,
     HolderIsBetween, ReadyIsValidated, Held, Linked
<1>18. ASSUME NEW u \in Upload, ClearCandidate(u) PROVE ActiveIsValidated'
  BY <1>18 DEF ClearCandidate, Step, Unlink, ImportInv, ActiveIsValidated, HolderIsBetween,
     ReadyIsValidated, Held, Linked
<1>19. ASSUME NEW u \in Upload, BuildCandidate(u) PROVE ActiveIsValidated'
  BY <1>19 DEF BuildCandidate, Step, Fault, ImportInv, ActiveIsValidated, HolderIsBetween,
     ReadyIsValidated, Held, Linked
<1>20. ASSUME NEW u \in Upload, ValidateCandidate(u) PROVE ActiveIsValidated'
  BY <1>20 DEF ValidateCandidate, Step, ImportInv, ActiveIsValidated, HolderIsBetween,
     ReadyIsValidated, Held, Linked
<1>21. ASSUME NEW u \in Upload, PassCandidate(u) PROVE ActiveIsValidated'
  BY <1>21 DEF PassCandidate, Step, Persist, PersistFails, Fault, ImportInv,
     ActiveIsValidated, HolderIsBetween, ReadyIsValidated, Held, Linked
<1>22. ASSUME NEW u \in Upload, DropRejectedCandidate(u) PROVE ActiveIsValidated'
  BY <1>22 DEF DropRejectedCandidate, Step, Unlink, ImportInv, ActiveIsValidated,
     HolderIsBetween, ReadyIsValidated, Held, Linked
<1>23. ASSUME NEW u \in Upload, DropRejectedSource(u) PROVE ActiveIsValidated'
  BY <1>23 DEF DropRejectedSource, Step, ImportInv, ActiveIsValidated, HolderIsBetween,
     ReadyIsValidated, Held, Linked
<1>24. ASSUME NEW u \in Upload, ReportFailure(u) PROVE ActiveIsValidated'
  BY <1>24 DEF ReportFailure, Step, Persist, PersistFails, Fault, ImportInv,
     ActiveIsValidated, HolderIsBetween, ReadyIsValidated, Held, Linked
<1>25. ASSUME NEW u \in Upload, RestoreJob(u) PROVE ActiveIsValidated'
  BY <1>25 DEF RestoreJob, Restored, Retryable, Persist, Unlink, Fault, ImportInv,
     ActiveIsValidated, HolderIsBetween, ReadyIsValidated, Held, Linked
<1>26. CASE Crash
  BY <1>26 DEF Crash, Fault, Free, ImportInv, ActiveIsValidated, HolderIsBetween,
     ReadyIsValidated, Held, Linked
<1>27. CASE Start
  BY <1>27 DEF Start, ImportInv, ActiveIsValidated, HolderIsBetween, ReadyIsValidated, Held,
     Linked
<1>28. CASE Serve
  BY <1>28 DEF Serve, ImportInv, ActiveIsValidated, HolderIsBetween, ReadyIsValidated, Held,
     Linked
<1>29. CASE TargetChanges
  <2>1. target' \notin Linked
    BY <1>29, ImportAssumption DEF TargetChanges, Linked
  <2> QED
    BY <2>1 DEF ActiveIsValidated
<1>30. CASE UNCHANGED vars
  BY <1>30 DEF vars, files, history, ImportInv, ActiveIsValidated, HolderIsBetween,
     ReadyIsValidated, Held, Linked
<1>31. ASSUME NEW u \in Upload, UnlinkFails(u) PROVE ActiveIsValidated'
  BY <1>31 DEF UnlinkFails, Step, Fault, Release, Free, files, history, ImportInv,
     ActiveIsValidated, HolderIsBetween, ReadyIsValidated, Held, Linked
<1> QED
  BY <1>1, <1>2, <1>3, <1>4, <1>5, <1>6, <1>7, <1>8, <1>9, <1>10, <1>11, <1>12, <1>13,
     <1>14, <1>15, <1>16, <1>17, <1>18, <1>19, <1>20, <1>21, <1>22, <1>23, <1>24, <1>25,
     <1>26, <1>27, <1>28, <1>29, <1>30, <1>31 DEF Next, Request, Worker

LEMMA ImportStarts == Init => PairInv
<1> SUFFICES ASSUME Init PROVE PairInv
  OBVIOUS
<1>1. TypeOK
  <2>1. holder \in [op : {"none", "upload", "discard", "activate"}, upload : Upload \union {None},
                    next : {"none", "record", "candidate", "source", "link", "lock"}]
    BY DEF Init, Free
  <2>2. faults \in 0..MaxFaults
    BY ImportAssumption DEF Init
  <2> QED
    BY <2>1, <2>2 DEF Init, TypeOK, JobState
<1>2. Stopped /\ Admitted /\ Unrecorded /\ Unprepared
  BY DEF Init, Free, Held, Stopped, Admitted, Unrecorded, Unprepared
<1>3. WorkersPrepare /\ ReadyIsValidated /\ HolderIsBetween
  BY DEF Init, Free, Held, WorkersPrepare, ReadyIsValidated, HolderIsBetween
<1>4. FinishedLeavesNothing /\ ActivationIsFinal
  BY DEF Init, FinishedLeavesNothing, ActivationIsFinal
<1>5. ActiveIsValidated
  BY ImportAssumption DEF Init, ActiveIsValidated, Linked
<1>6. ResumesWhatIsActive /\ OneResumes /\ StartsFromDisk /\ NothingForgotten
  BY DEF Init, Resumes, Active, ResumesWhatIsActive, OneResumes, StartsFromDisk, NothingForgotten
<1>7. NoSecondUpload /\ OneActiveImport
  BY DEF Init, Free, Active, NoSecondUpload, OneActiveImport
<1> QED
  BY <1>1, <1>2, <1>3, <1>4, <1>5, <1>6, <1>7 DEF ImportInv, PairInv

LEMMA ImportStep == ImportInv /\ [Next]_vars => ImportInv'
BY TypeStep, StoppedStep, AdmittedStep, UnrecordedStep, UnpreparedStep, WorkersStep, ReadyStep,
   HolderStep, FinishedStep, FinalStep, ActiveStep DEF ImportInv


\* In the service, only a skipped manifest has no job.
LEMMA ForgottenStep == ASSUME PairInv, [Next]_vars PROVE NothingForgotten'
<1>0. /\ skipped \subseteq Upload /\ service \in {"up", "down", "starting"} /\ Valid \subseteq Upload /\ None \notin Upload
      /\ job \in [Upload -> JobState \union {"unread"}] /\ manifest \in [Upload -> JobState]
      /\ source \subseteq Upload /\ candidate \in [Upload -> {"none", "partial", "complete"}]
      /\ worker \in [Upload -> {"idle", "enter", "clear", "build", "validate", "pass",
                                "drop_candidate", "drop_source", "report"}]
  BY ImportAssumption DEF PairInv, ImportInv, TypeOK
<1>a. ImportInv
  BY DEF PairInv
<1> USE <1>0, <1>a DEF files, history
<1>1. ASSUME NEW u \in Upload, AdmitUpload(u) PROVE NothingForgotten'
  BY <1>1 DEF AdmitUpload, PairInv, NothingForgotten, StartsFromDisk, ImportInv, Unprepared,
     WorkersPrepare
<1>2. ASSUME NEW u \in Upload, StageSource(u) PROVE NothingForgotten'
  BY <1>2 DEF StageSource, Idle, Free, Hold, PairInv, NothingForgotten, StartsFromDisk,
     ImportInv, Unprepared, WorkersPrepare
<1>3. ASSUME NEW u \in Upload, RecordUpload(u) PROVE NothingForgotten'
  BY <1>3 DEF RecordUpload, At, Release, Free, Persist, PersistFails, Fault, PairInv,
     NothingForgotten, StartsFromDisk, ImportInv, Unprepared, WorkersPrepare, Unrecorded, Held
<1>4. ASSUME NEW u \in Upload, AskPreparation(u) PROVE NothingForgotten'
  BY <1>4 DEF AskPreparation, PairInv, NothingForgotten, StartsFromDisk, ImportInv,
     Unprepared, WorkersPrepare
<1>5. ASSUME NEW u \in Upload, StartPreparation(u) PROVE NothingForgotten'
  BY <1>5 DEF StartPreparation, Idle, Persist, PersistFails, Fault, PairInv,
     NothingForgotten, StartsFromDisk, ImportInv, Unprepared, WorkersPrepare
<1>6. ASSUME NEW u \in Upload, LoadSkipped(u) PROVE NothingForgotten'
  BY <1>6 DEF LoadSkipped, Idle, PairInv, NothingForgotten, StartsFromDisk, ImportInv,
     Unprepared, WorkersPrepare
<1>7. ASSUME NEW u \in Upload, BeginDiscard(u) PROVE NothingForgotten'
  BY <1>7 DEF BeginDiscard, Idle, Hold, Allowed, PairInv, NothingForgotten, StartsFromDisk,
     ImportInv, Unprepared, WorkersPrepare
<1>8. ASSUME NEW u \in Upload, DiscardCandidate(u) PROVE NothingForgotten'
  BY <1>8 DEF DiscardCandidate, At, Unlink, Hold, PairInv, NothingForgotten, StartsFromDisk,
     ImportInv, Unprepared, WorkersPrepare
<1>9. ASSUME NEW u \in Upload, DiscardSource(u) PROVE NothingForgotten'
  BY <1>9 DEF DiscardSource, At, Hold, PairInv, NothingForgotten, StartsFromDisk, ImportInv,
     Unprepared, WorkersPrepare
<1>10. ASSUME NEW u \in Upload, RecordDiscard(u) PROVE NothingForgotten'
  <2>1. /\ service = "up" /\ service' = service /\ skipped' = skipped
        /\ job[u] \in {"uploaded", "ready", "failed"}
    BY <1>10 DEF RecordDiscard, At, PairInv, ImportInv, HolderIsBetween, Held
  <2>2. job' = job \/ job' = [job EXCEPT ![u] = "discarded"]
    BY <1>10 DEF RecordDiscard
  <2>3. manifest' = manifest \/ manifest' = [manifest EXCEPT ![u] = "discarded"]
    BY <1>10 DEF RecordDiscard, Persist, PersistFails
  <2>4. \A v \in Upload : job'[v] = "absent" => v # u /\ job[v] = "absent" /\ manifest'[v] = manifest[v]
    BY <2>1, <2>2, <2>3
  <2> QED
    BY <2>1, <2>4 DEF PairInv, NothingForgotten
<1>11. ASSUME NEW u \in Upload, BeginActivation(u) PROVE NothingForgotten'
  BY <1>11 DEF BeginActivation, Idle, Allowed, Hold, PairInv, NothingForgotten,
     StartsFromDisk, ImportInv, Unprepared, WorkersPrepare
<1>12. ASSUME NEW u \in Upload, LinkTarget(u) PROVE NothingForgotten'
  BY <1>12 DEF LinkTarget, At, Link, Hold, Release, Free, PairInv, NothingForgotten,
     StartsFromDisk, ImportInv, Unprepared, WorkersPrepare
<1>13. ASSUME NEW u \in Upload, WriteLock(u) PROVE NothingForgotten'
  BY <1>13 DEF WriteLock, At, Hold, Release, Free, Fault, PairInv, NothingForgotten,
     StartsFromDisk, ImportInv, Unprepared, WorkersPrepare
<1>14. ASSUME NEW u \in Upload, DropActivatedCandidate(u) PROVE NothingForgotten'
  BY <1>14 DEF DropActivatedCandidate, At, Unlink, Release, Free, Hold, PairInv,
     NothingForgotten, StartsFromDisk, ImportInv, Unprepared, WorkersPrepare
<1>15. ASSUME NEW u \in Upload, DropActivatedSource(u) PROVE NothingForgotten'
  BY <1>15 DEF DropActivatedSource, At, Hold, PairInv, NothingForgotten, StartsFromDisk,
     ImportInv, Unprepared, WorkersPrepare
<1>16. ASSUME NEW u \in Upload, RecordActivation(u) PROVE NothingForgotten'
  BY <1>16 DEF RecordActivation, At, Release, Free, Persist, PersistFails, Fault, PairInv,
     NothingForgotten, StartsFromDisk, ImportInv, Unprepared, WorkersPrepare
<1>17. ASSUME NEW u \in Upload, EnterWorker(u) PROVE NothingForgotten'
  BY <1>17 DEF EnterWorker, Step, Persist, PersistFails, Fault, PairInv, NothingForgotten,
     StartsFromDisk, ImportInv, Unprepared, WorkersPrepare
<1>18. ASSUME NEW u \in Upload, ClearCandidate(u) PROVE NothingForgotten'
  BY <1>18 DEF ClearCandidate, Step, Unlink, PairInv, NothingForgotten, StartsFromDisk,
     ImportInv, Unprepared, WorkersPrepare
<1>19. ASSUME NEW u \in Upload, BuildCandidate(u) PROVE NothingForgotten'
  BY <1>19 DEF BuildCandidate, Step, Fault, PairInv, NothingForgotten, StartsFromDisk,
     ImportInv, Unprepared, WorkersPrepare
<1>20. ASSUME NEW u \in Upload, ValidateCandidate(u) PROVE NothingForgotten'
  BY <1>20 DEF ValidateCandidate, Step, PairInv, NothingForgotten, StartsFromDisk, ImportInv,
     Unprepared, WorkersPrepare
<1>21. ASSUME NEW u \in Upload, PassCandidate(u) PROVE NothingForgotten'
  BY <1>21 DEF PassCandidate, Step, Persist, PersistFails, Fault, PairInv, NothingForgotten,
     StartsFromDisk, ImportInv, Unprepared, WorkersPrepare
<1>22. ASSUME NEW u \in Upload, DropRejectedCandidate(u) PROVE NothingForgotten'
  BY <1>22 DEF DropRejectedCandidate, Step, Unlink, PairInv, NothingForgotten,
     StartsFromDisk, ImportInv, Unprepared, WorkersPrepare
<1>23. ASSUME NEW u \in Upload, DropRejectedSource(u) PROVE NothingForgotten'
  BY <1>23 DEF DropRejectedSource, Step, PairInv, NothingForgotten, StartsFromDisk,
     ImportInv, Unprepared, WorkersPrepare
<1>24. ASSUME NEW u \in Upload, ReportFailure(u) PROVE NothingForgotten'
  BY <1>24 DEF ReportFailure, Step, Persist, PersistFails, Fault, PairInv, NothingForgotten,
     StartsFromDisk, ImportInv, Unprepared, WorkersPrepare
<1>25. ASSUME NEW u \in Upload, RestoreJob(u) PROVE NothingForgotten'
  BY <1>25 DEF RestoreJob, Restored, Retryable, Persist, Unlink, Fault, PairInv,
     NothingForgotten, StartsFromDisk, ImportInv, Unprepared, WorkersPrepare
<1>26. CASE Crash
  BY <1>26 DEF Crash, Fault, Free, PairInv, NothingForgotten, StartsFromDisk, ImportInv,
     Unprepared, WorkersPrepare
<1>27. CASE Start
  BY <1>27 DEF Start, PairInv, NothingForgotten, StartsFromDisk, ImportInv, Unprepared,
     WorkersPrepare
<1>28. CASE Serve
  BY <1>28 DEF Serve, PairInv, NothingForgotten, StartsFromDisk, ImportInv, Unprepared,
     WorkersPrepare
<1>29. CASE TargetChanges
  BY <1>29 DEF TargetChanges, Fault, PairInv, NothingForgotten, StartsFromDisk, ImportInv,
     Unprepared, WorkersPrepare
<1>30. CASE UNCHANGED vars
  BY <1>30 DEF vars, files, history, PairInv, NothingForgotten, StartsFromDisk, ImportInv,
     Unprepared, WorkersPrepare
<1>31. ASSUME NEW u \in Upload, UnlinkFails(u) PROVE NothingForgotten'
  BY <1>31 DEF UnlinkFails, Step, Fault, Release, Free, files, history, PairInv,
     NothingForgotten, StartsFromDisk, ImportInv, Unprepared, WorkersPrepare
<1> QED
  BY <1>1, <1>2, <1>3, <1>4, <1>5, <1>6, <1>7, <1>8, <1>9, <1>10, <1>11, <1>12, <1>13,
     <1>14, <1>15, <1>16, <1>17, <1>18, <1>19, <1>20, <1>21, <1>22, <1>23, <1>24, <1>25,
     <1>26, <1>27, <1>28, <1>29, <1>30, <1>31 DEF Next, Request, Worker

\* An upload that is staged has seen no other, and none appears.
LEMMA SecondStep == ASSUME PairInv, [Next]_vars PROVE NoSecondUpload'
<1>0. /\ skipped \subseteq Upload /\ service \in {"up", "down", "starting"} /\ Valid \subseteq Upload /\ None \notin Upload
      /\ job \in [Upload -> JobState \union {"unread"}] /\ manifest \in [Upload -> JobState]
      /\ source \subseteq Upload /\ candidate \in [Upload -> {"none", "partial", "complete"}]
      /\ worker \in [Upload -> {"idle", "enter", "clear", "build", "validate", "pass",
                                "drop_candidate", "drop_source", "report"}]
  BY ImportAssumption DEF PairInv, ImportInv, TypeOK
<1>a. ImportInv
  BY DEF PairInv
<1> USE <1>0, <1>a DEF files, history
<1>1. ASSUME NEW u \in Upload, AdmitUpload(u) PROVE NoSecondUpload'
  BY <1>1 DEF AdmitUpload, PairInv, NoSecondUpload, Busy, Active, Free, ImportInv, Stopped
<1>2. ASSUME NEW u \in Upload, StageSource(u) PROVE NoSecondUpload'
  BY <1>2 DEF StageSource, Idle, Free, Hold, PairInv, NoSecondUpload, Busy, Active, Free,
     ImportInv, Stopped
<1>3. ASSUME NEW u \in Upload, RecordUpload(u) PROVE NoSecondUpload'
  BY <1>3 DEF RecordUpload, At, Release, Free, Persist, PersistFails, Fault, PairInv,
     NoSecondUpload, Busy, Active, Free, ImportInv, Stopped
<1>4. ASSUME NEW u \in Upload, AskPreparation(u) PROVE NoSecondUpload'
  BY <1>4 DEF AskPreparation, PairInv, NoSecondUpload, Busy, Active, Free, ImportInv, Stopped
<1>5. ASSUME NEW u \in Upload, StartPreparation(u) PROVE NoSecondUpload'
  BY <1>5 DEF StartPreparation, Idle, Persist, PersistFails, Fault, PairInv, NoSecondUpload,
     Busy, Active, Free, ImportInv, Stopped
<1>6. ASSUME NEW u \in Upload, LoadSkipped(u) PROVE NoSecondUpload'
  BY <1>6 DEF LoadSkipped, Idle, PairInv, NoSecondUpload, Busy, Active, Free, ImportInv, Stopped
<1>7. ASSUME NEW u \in Upload, BeginDiscard(u) PROVE NoSecondUpload'
  BY <1>7 DEF BeginDiscard, Idle, Hold, Allowed, PairInv, NoSecondUpload, Busy, Active, Free,
     ImportInv, Stopped
<1>8. ASSUME NEW u \in Upload, DiscardCandidate(u) PROVE NoSecondUpload'
  BY <1>8 DEF DiscardCandidate, At, Unlink, Hold, PairInv, NoSecondUpload, Busy, Active,
     Free, ImportInv, Stopped
<1>9. ASSUME NEW u \in Upload, DiscardSource(u) PROVE NoSecondUpload'
  BY <1>9 DEF DiscardSource, At, Hold, PairInv, NoSecondUpload, Busy, Active, Free,
     ImportInv, Stopped
<1>10. ASSUME NEW u \in Upload, RecordDiscard(u) PROVE NoSecondUpload'
  BY <1>10 DEF RecordDiscard, At, Release, Free, Persist, PersistFails, Fault, PairInv,
     NoSecondUpload, Busy, Active, Free, ImportInv, Stopped
<1>11. ASSUME NEW u \in Upload, BeginActivation(u) PROVE NoSecondUpload'
  BY <1>11 DEF BeginActivation, Idle, Allowed, Hold, PairInv, NoSecondUpload, Busy, Active,
     Free, ImportInv, Stopped
<1>12. ASSUME NEW u \in Upload, LinkTarget(u) PROVE NoSecondUpload'
  BY <1>12 DEF LinkTarget, At, Link, Hold, Release, Free, PairInv, NoSecondUpload, Busy,
     Active, Free, ImportInv, Stopped
<1>13. ASSUME NEW u \in Upload, WriteLock(u) PROVE NoSecondUpload'
  BY <1>13 DEF WriteLock, At, Hold, Release, Free, Fault, PairInv, NoSecondUpload, Busy,
     Active, Free, ImportInv, Stopped
<1>14. ASSUME NEW u \in Upload, DropActivatedCandidate(u) PROVE NoSecondUpload'
  BY <1>14 DEF DropActivatedCandidate, At, Unlink, Release, Free, Hold, PairInv,
     NoSecondUpload, Busy, Active, Free, ImportInv, Stopped
<1>15. ASSUME NEW u \in Upload, DropActivatedSource(u) PROVE NoSecondUpload'
  BY <1>15 DEF DropActivatedSource, At, Hold, PairInv, NoSecondUpload, Busy, Active, Free,
     ImportInv, Stopped
<1>16. ASSUME NEW u \in Upload, RecordActivation(u) PROVE NoSecondUpload'
  BY <1>16 DEF RecordActivation, At, Release, Free, Persist, PersistFails, Fault, PairInv,
     NoSecondUpload, Busy, Active, Free, ImportInv, Stopped
<1>17. ASSUME NEW u \in Upload, EnterWorker(u) PROVE NoSecondUpload'
  BY <1>17 DEF EnterWorker, Step, Persist, PersistFails, Fault, PairInv, NoSecondUpload,
     Busy, Active, Free, ImportInv, Stopped
<1>18. ASSUME NEW u \in Upload, ClearCandidate(u) PROVE NoSecondUpload'
  BY <1>18 DEF ClearCandidate, Step, Unlink, PairInv, NoSecondUpload, Busy, Active, Free,
     ImportInv, Stopped
<1>19. ASSUME NEW u \in Upload, BuildCandidate(u) PROVE NoSecondUpload'
  BY <1>19 DEF BuildCandidate, Step, Fault, PairInv, NoSecondUpload, Busy, Active, Free,
     ImportInv, Stopped
<1>20. ASSUME NEW u \in Upload, ValidateCandidate(u) PROVE NoSecondUpload'
  BY <1>20 DEF ValidateCandidate, Step, PairInv, NoSecondUpload, Busy, Active, Free,
     ImportInv, Stopped
<1>21. ASSUME NEW u \in Upload, PassCandidate(u) PROVE NoSecondUpload'
  BY <1>21 DEF PassCandidate, Step, Persist, PersistFails, Fault, PairInv, NoSecondUpload,
     Busy, Active, Free, ImportInv, Stopped
<1>22. ASSUME NEW u \in Upload, DropRejectedCandidate(u) PROVE NoSecondUpload'
  BY <1>22 DEF DropRejectedCandidate, Step, Unlink, PairInv, NoSecondUpload, Busy, Active,
     Free, ImportInv, Stopped
<1>23. ASSUME NEW u \in Upload, DropRejectedSource(u) PROVE NoSecondUpload'
  BY <1>23 DEF DropRejectedSource, Step, PairInv, NoSecondUpload, Busy, Active, Free,
     ImportInv, Stopped
<1>24. ASSUME NEW u \in Upload, ReportFailure(u) PROVE NoSecondUpload'
  BY <1>24 DEF ReportFailure, Step, Persist, PersistFails, Fault, PairInv, NoSecondUpload,
     Busy, Active, Free, ImportInv, Stopped
<1>25. ASSUME NEW u \in Upload, RestoreJob(u) PROVE NoSecondUpload'
  BY <1>25 DEF RestoreJob, Restored, Retryable, Persist, Unlink, Fault, PairInv,
     NoSecondUpload, Busy, Active, Free, ImportInv, Stopped
<1>26. CASE Crash
  BY <1>26 DEF Crash, Fault, Free, PairInv, NoSecondUpload, Busy, Active, Free, ImportInv,
     Stopped
<1>27. CASE Start
  BY <1>27 DEF Start, PairInv, NoSecondUpload, Busy, Active, Free, ImportInv, Stopped
<1>28. CASE Serve
  BY <1>28 DEF Serve, PairInv, NoSecondUpload, Busy, Active, Free, ImportInv, Stopped
<1>29. CASE TargetChanges
  BY <1>29 DEF TargetChanges, Fault, PairInv, NoSecondUpload, Busy, Active, Free, ImportInv,
     Stopped
<1>30. CASE UNCHANGED vars
  BY <1>30 DEF vars, files, history, PairInv, NoSecondUpload, Busy, Active, Free, ImportInv,
     Stopped
<1>31. ASSUME NEW u \in Upload, UnlinkFails(u) PROVE NoSecondUpload'
  BY <1>31 DEF UnlinkFails, Step, Fault, Release, Free, files, history, PairInv,
     NoSecondUpload, Busy, Active, ImportInv, Stopped
<1> QED
  BY <1>1, <1>2, <1>3, <1>4, <1>5, <1>6, <1>7, <1>8, <1>9, <1>10, <1>11, <1>12, <1>13,
     <1>14, <1>15, <1>16, <1>17, <1>18, <1>19, <1>20, <1>21, <1>22, <1>23, <1>24, <1>25,
     <1>26, <1>27, <1>28, <1>29, <1>30, <1>31 DEF Next, Request, Worker

\* A starting service reads what is on disk.
LEMMA StartsStep == ASSUME PairInv, [Next]_vars PROVE StartsFromDisk'
<1>0. /\ skipped \subseteq Upload /\ service \in {"up", "down", "starting"} /\ Valid \subseteq Upload /\ None \notin Upload
      /\ job \in [Upload -> JobState \union {"unread"}] /\ manifest \in [Upload -> JobState]
      /\ source \subseteq Upload /\ candidate \in [Upload -> {"none", "partial", "complete"}]
      /\ worker \in [Upload -> {"idle", "enter", "clear", "build", "validate", "pass",
                                "drop_candidate", "drop_source", "report"}]
  BY ImportAssumption DEF PairInv, ImportInv, TypeOK
<1>a. ImportInv
  BY DEF PairInv
<1> USE <1>0, <1>a DEF files, history
<1>1. ASSUME NEW u \in Upload, AdmitUpload(u) PROVE StartsFromDisk'
  BY <1>1 DEF AdmitUpload, PairInv, StartsFromDisk, Resumes, Active, ImportInv, Stopped, Free
<1>2. ASSUME NEW u \in Upload, StageSource(u) PROVE StartsFromDisk'
  BY <1>2 DEF StageSource, Idle, Free, Hold, PairInv, StartsFromDisk, Resumes, Active,
     ImportInv, Stopped, Free
<1>3. ASSUME NEW u \in Upload, RecordUpload(u) PROVE StartsFromDisk'
  BY <1>3 DEF RecordUpload, At, Release, Free, Persist, PersistFails, Fault, PairInv,
     StartsFromDisk, Resumes, Active, ImportInv, Stopped, Free
<1>4. ASSUME NEW u \in Upload, AskPreparation(u) PROVE StartsFromDisk'
  BY <1>4 DEF AskPreparation, PairInv, StartsFromDisk, Resumes, Active, ImportInv, Stopped, Free
<1>5. ASSUME NEW u \in Upload, StartPreparation(u) PROVE StartsFromDisk'
  BY <1>5 DEF StartPreparation, Idle, Persist, PersistFails, Fault, PairInv, StartsFromDisk,
     Resumes, Active, ImportInv, Stopped, Free
<1>6. ASSUME NEW u \in Upload, LoadSkipped(u) PROVE StartsFromDisk'
  BY <1>6 DEF LoadSkipped, Idle, PairInv, StartsFromDisk, Resumes, Active, ImportInv,
     Stopped, Free
<1>7. ASSUME NEW u \in Upload, BeginDiscard(u) PROVE StartsFromDisk'
  BY <1>7 DEF BeginDiscard, Idle, Hold, Allowed, PairInv, StartsFromDisk, Resumes, Active,
     ImportInv, Stopped, Free
<1>8. ASSUME NEW u \in Upload, DiscardCandidate(u) PROVE StartsFromDisk'
  BY <1>8 DEF DiscardCandidate, At, Unlink, Hold, PairInv, StartsFromDisk, Resumes, Active,
     ImportInv, Stopped, Free
<1>9. ASSUME NEW u \in Upload, DiscardSource(u) PROVE StartsFromDisk'
  BY <1>9 DEF DiscardSource, At, Hold, PairInv, StartsFromDisk, Resumes, Active, ImportInv,
     Stopped, Free
<1>10. ASSUME NEW u \in Upload, RecordDiscard(u) PROVE StartsFromDisk'
  BY <1>10 DEF RecordDiscard, At, Release, Free, Persist, PersistFails, Fault, PairInv,
     StartsFromDisk, Resumes, Active, ImportInv, Stopped, Free
<1>11. ASSUME NEW u \in Upload, BeginActivation(u) PROVE StartsFromDisk'
  BY <1>11 DEF BeginActivation, Idle, Allowed, Hold, PairInv, StartsFromDisk, Resumes,
     Active, ImportInv, Stopped, Free
<1>12. ASSUME NEW u \in Upload, LinkTarget(u) PROVE StartsFromDisk'
  BY <1>12 DEF LinkTarget, At, Link, Hold, Release, Free, PairInv, StartsFromDisk, Resumes,
     Active, ImportInv, Stopped, Free
<1>13. ASSUME NEW u \in Upload, WriteLock(u) PROVE StartsFromDisk'
  BY <1>13 DEF WriteLock, At, Hold, Release, Free, Fault, PairInv, StartsFromDisk, Resumes,
     Active, ImportInv, Stopped, Free
<1>14. ASSUME NEW u \in Upload, DropActivatedCandidate(u) PROVE StartsFromDisk'
  BY <1>14 DEF DropActivatedCandidate, At, Unlink, Release, Free, Hold, PairInv,
     StartsFromDisk, Resumes, Active, ImportInv, Stopped, Free
<1>15. ASSUME NEW u \in Upload, DropActivatedSource(u) PROVE StartsFromDisk'
  BY <1>15 DEF DropActivatedSource, At, Hold, PairInv, StartsFromDisk, Resumes, Active,
     ImportInv, Stopped, Free
<1>16. ASSUME NEW u \in Upload, RecordActivation(u) PROVE StartsFromDisk'
  BY <1>16 DEF RecordActivation, At, Release, Free, Persist, PersistFails, Fault, PairInv,
     StartsFromDisk, Resumes, Active, ImportInv, Stopped, Free
<1>17. ASSUME NEW u \in Upload, EnterWorker(u) PROVE StartsFromDisk'
  BY <1>17 DEF EnterWorker, Step, Persist, PersistFails, Fault, PairInv, StartsFromDisk,
     Resumes, Active, ImportInv, Stopped, Free
<1>18. ASSUME NEW u \in Upload, ClearCandidate(u) PROVE StartsFromDisk'
  BY <1>18 DEF ClearCandidate, Step, Unlink, PairInv, StartsFromDisk, Resumes, Active,
     ImportInv, Stopped, Free
<1>19. ASSUME NEW u \in Upload, BuildCandidate(u) PROVE StartsFromDisk'
  BY <1>19 DEF BuildCandidate, Step, Fault, PairInv, StartsFromDisk, Resumes, Active,
     ImportInv, Stopped, Free
<1>20. ASSUME NEW u \in Upload, ValidateCandidate(u) PROVE StartsFromDisk'
  BY <1>20 DEF ValidateCandidate, Step, PairInv, StartsFromDisk, Resumes, Active, ImportInv,
     Stopped, Free
<1>21. ASSUME NEW u \in Upload, PassCandidate(u) PROVE StartsFromDisk'
  BY <1>21 DEF PassCandidate, Step, Persist, PersistFails, Fault, PairInv, StartsFromDisk,
     Resumes, Active, ImportInv, Stopped, Free
<1>22. ASSUME NEW u \in Upload, DropRejectedCandidate(u) PROVE StartsFromDisk'
  BY <1>22 DEF DropRejectedCandidate, Step, Unlink, PairInv, StartsFromDisk, Resumes, Active,
     ImportInv, Stopped, Free
<1>23. ASSUME NEW u \in Upload, DropRejectedSource(u) PROVE StartsFromDisk'
  BY <1>23 DEF DropRejectedSource, Step, PairInv, StartsFromDisk, Resumes, Active, ImportInv,
     Stopped, Free
<1>24. ASSUME NEW u \in Upload, ReportFailure(u) PROVE StartsFromDisk'
  BY <1>24 DEF ReportFailure, Step, Persist, PersistFails, Fault, PairInv, StartsFromDisk,
     Resumes, Active, ImportInv, Stopped, Free
<1>25. ASSUME NEW u \in Upload, RestoreJob(u) PROVE StartsFromDisk'
  BY <1>25 DEF RestoreJob, Restored, Retryable, Persist, Unlink, Fault, PairInv,
     StartsFromDisk, Resumes, Active, ImportInv, Stopped, Free
<1>26. CASE Crash
  BY <1>26 DEF Crash, Fault, Free, PairInv, StartsFromDisk, Resumes, Active, ImportInv,
     Stopped, Free
<1>27. CASE Start
  BY <1>27 DEF Start, PairInv, StartsFromDisk, Resumes, Active, ImportInv, Stopped, Free
<1>28. CASE Serve
  BY <1>28 DEF Serve, PairInv, StartsFromDisk, Resumes, Active, ImportInv, Stopped, Free
<1>29. CASE TargetChanges
  BY <1>29 DEF TargetChanges, Fault, PairInv, StartsFromDisk, Resumes, Active, ImportInv,
     Stopped, Free
<1>30. CASE UNCHANGED vars
  BY <1>30 DEF vars, files, history, PairInv, StartsFromDisk, Resumes, Active, ImportInv,
     Stopped, Free
<1>31. ASSUME NEW u \in Upload, UnlinkFails(u) PROVE StartsFromDisk'
  BY <1>31 DEF UnlinkFails, Step, Fault, Release, Free, files, history, PairInv,
     StartsFromDisk, Resumes, Active, ImportInv, Stopped
<1> QED
  BY <1>1, <1>2, <1>3, <1>4, <1>5, <1>6, <1>7, <1>8, <1>9, <1>10, <1>11, <1>12, <1>13,
     <1>14, <1>15, <1>16, <1>17, <1>18, <1>19, <1>20, <1>21, <1>22, <1>23, <1>24, <1>25,
     <1>26, <1>27, <1>28, <1>29, <1>30, <1>31 DEF Next, Request, Worker

\* What a restart would resume is active.
LEMMA ResumesStep == ASSUME PairInv, [Next]_vars PROVE ResumesWhatIsActive'
<1>0. /\ skipped \subseteq Upload /\ service \in {"up", "down", "starting"} /\ Valid \subseteq Upload /\ None \notin Upload
      /\ job \in [Upload -> JobState \union {"unread"}] /\ manifest \in [Upload -> JobState]
      /\ source \subseteq Upload /\ candidate \in [Upload -> {"none", "partial", "complete"}]
      /\ worker \in [Upload -> {"idle", "enter", "clear", "build", "validate", "pass",
                                "drop_candidate", "drop_source", "report"}]
  BY ImportAssumption DEF PairInv, ImportInv, TypeOK
<1>a. ImportInv
  BY DEF PairInv
<1> USE <1>0, <1>a DEF files, history
<1>1. ASSUME NEW u \in Upload, AdmitUpload(u) PROVE ResumesWhatIsActive'
  BY <1>1 DEF AdmitUpload, PairInv, ResumesWhatIsActive, Resumes, Active, StartsFromDisk,
     NothingForgotten, ImportInv, Unrecorded, WorkersPrepare, HolderIsBetween, Held
<1>2. ASSUME NEW u \in Upload, StageSource(u) PROVE ResumesWhatIsActive'
  BY <1>2 DEF StageSource, Idle, Free, Hold, PairInv, ResumesWhatIsActive, Resumes, Active,
     StartsFromDisk, NothingForgotten, ImportInv, Unrecorded, WorkersPrepare,
     HolderIsBetween, Held
<1>3. ASSUME NEW u \in Upload, RecordUpload(u) PROVE ResumesWhatIsActive'
  BY <1>3 DEF RecordUpload, At, Release, Free, Persist, PersistFails, Fault, PairInv,
     ResumesWhatIsActive, Resumes, Active, StartsFromDisk, NothingForgotten, ImportInv,
     Unrecorded, WorkersPrepare, HolderIsBetween, Held
<1>4. ASSUME NEW u \in Upload, AskPreparation(u) PROVE ResumesWhatIsActive'
  BY <1>4 DEF AskPreparation, PairInv, ResumesWhatIsActive, Resumes, Active, StartsFromDisk,
     NothingForgotten, ImportInv, Unrecorded, WorkersPrepare, HolderIsBetween, Held
<1>5. ASSUME NEW u \in Upload, StartPreparation(u) PROVE ResumesWhatIsActive'
  BY <1>5 DEF StartPreparation, Idle, Persist, PersistFails, Fault, PairInv,
     ResumesWhatIsActive, Resumes, Active, StartsFromDisk, NothingForgotten, ImportInv,
     Unrecorded, WorkersPrepare, HolderIsBetween, Held
<1>6. ASSUME NEW u \in Upload, LoadSkipped(u) PROVE ResumesWhatIsActive'
  BY <1>6 DEF LoadSkipped, Idle, PairInv, ResumesWhatIsActive, Resumes, Active,
     StartsFromDisk, NothingForgotten, ImportInv, Unrecorded, WorkersPrepare,
     HolderIsBetween, Held
<1>7. ASSUME NEW u \in Upload, BeginDiscard(u) PROVE ResumesWhatIsActive'
  BY <1>7 DEF BeginDiscard, Idle, Hold, Allowed, PairInv, ResumesWhatIsActive, Resumes,
     Active, StartsFromDisk, NothingForgotten, ImportInv, Unrecorded, WorkersPrepare,
     HolderIsBetween, Held
<1>8. ASSUME NEW u \in Upload, DiscardCandidate(u) PROVE ResumesWhatIsActive'
  BY <1>8 DEF DiscardCandidate, At, Unlink, Hold, PairInv, ResumesWhatIsActive, Resumes,
     Active, StartsFromDisk, NothingForgotten, ImportInv, Unrecorded, WorkersPrepare,
     HolderIsBetween, Held
<1>9. ASSUME NEW u \in Upload, DiscardSource(u) PROVE ResumesWhatIsActive'
  BY <1>9 DEF DiscardSource, At, Hold, PairInv, ResumesWhatIsActive, Resumes, Active,
     StartsFromDisk, NothingForgotten, ImportInv, Unrecorded, WorkersPrepare,
     HolderIsBetween, Held
<1>10. ASSUME NEW u \in Upload, RecordDiscard(u) PROVE ResumesWhatIsActive'
  BY <1>10 DEF RecordDiscard, At, Release, Free, Persist, PersistFails, Fault, PairInv,
     ResumesWhatIsActive, Resumes, Active, StartsFromDisk, NothingForgotten, ImportInv,
     Unrecorded, WorkersPrepare, HolderIsBetween, Held
<1>11. ASSUME NEW u \in Upload, BeginActivation(u) PROVE ResumesWhatIsActive'
  BY <1>11 DEF BeginActivation, Idle, Allowed, Hold, PairInv, ResumesWhatIsActive, Resumes,
     Active, StartsFromDisk, NothingForgotten, ImportInv, Unrecorded, WorkersPrepare,
     HolderIsBetween, Held
<1>12. ASSUME NEW u \in Upload, LinkTarget(u) PROVE ResumesWhatIsActive'
  BY <1>12 DEF LinkTarget, At, Link, Hold, Release, Free, PairInv, ResumesWhatIsActive,
     Resumes, Active, StartsFromDisk, NothingForgotten, ImportInv, Unrecorded,
     WorkersPrepare, HolderIsBetween, Held
<1>13. ASSUME NEW u \in Upload, WriteLock(u) PROVE ResumesWhatIsActive'
  BY <1>13 DEF WriteLock, At, Hold, Release, Free, Fault, PairInv, ResumesWhatIsActive,
     Resumes, Active, StartsFromDisk, NothingForgotten, ImportInv, Unrecorded,
     WorkersPrepare, HolderIsBetween, Held
<1>14. ASSUME NEW u \in Upload, DropActivatedCandidate(u) PROVE ResumesWhatIsActive'
  BY <1>14 DEF DropActivatedCandidate, At, Unlink, Release, Free, Hold, PairInv,
     ResumesWhatIsActive, Resumes, Active, StartsFromDisk, NothingForgotten, ImportInv,
     Unrecorded, WorkersPrepare, HolderIsBetween, Held
<1>15. ASSUME NEW u \in Upload, DropActivatedSource(u) PROVE ResumesWhatIsActive'
  BY <1>15 DEF DropActivatedSource, At, Hold, PairInv, ResumesWhatIsActive, Resumes, Active,
     StartsFromDisk, NothingForgotten, ImportInv, Unrecorded, WorkersPrepare,
     HolderIsBetween, Held
<1>16. ASSUME NEW u \in Upload, RecordActivation(u) PROVE ResumesWhatIsActive'
  BY <1>16 DEF RecordActivation, At, Release, Free, Persist, PersistFails, Fault, PairInv,
     ResumesWhatIsActive, Resumes, Active, StartsFromDisk, NothingForgotten, ImportInv,
     Unrecorded, WorkersPrepare, HolderIsBetween, Held
<1>17. ASSUME NEW u \in Upload, EnterWorker(u) PROVE ResumesWhatIsActive'
  BY <1>17 DEF EnterWorker, Step, Persist, PersistFails, Fault, PairInv, ResumesWhatIsActive,
     Resumes, Active, StartsFromDisk, NothingForgotten, ImportInv, Unrecorded,
     WorkersPrepare, HolderIsBetween, Held
<1>18. ASSUME NEW u \in Upload, ClearCandidate(u) PROVE ResumesWhatIsActive'
  BY <1>18 DEF ClearCandidate, Step, Unlink, PairInv, ResumesWhatIsActive, Resumes, Active,
     StartsFromDisk, NothingForgotten, ImportInv, Unrecorded, WorkersPrepare,
     HolderIsBetween, Held
<1>19. ASSUME NEW u \in Upload, BuildCandidate(u) PROVE ResumesWhatIsActive'
  BY <1>19 DEF BuildCandidate, Step, Fault, PairInv, ResumesWhatIsActive, Resumes, Active,
     StartsFromDisk, NothingForgotten, ImportInv, Unrecorded, WorkersPrepare,
     HolderIsBetween, Held
<1>20. ASSUME NEW u \in Upload, ValidateCandidate(u) PROVE ResumesWhatIsActive'
  BY <1>20 DEF ValidateCandidate, Step, PairInv, ResumesWhatIsActive, Resumes, Active,
     StartsFromDisk, NothingForgotten, ImportInv, Unrecorded, WorkersPrepare,
     HolderIsBetween, Held
<1>21. ASSUME NEW u \in Upload, PassCandidate(u) PROVE ResumesWhatIsActive'
  BY <1>21 DEF PassCandidate, Step, Persist, PersistFails, Fault, PairInv,
     ResumesWhatIsActive, Resumes, Active, StartsFromDisk, NothingForgotten, ImportInv,
     Unrecorded, WorkersPrepare, HolderIsBetween, Held
<1>22. ASSUME NEW u \in Upload, DropRejectedCandidate(u) PROVE ResumesWhatIsActive'
  BY <1>22 DEF DropRejectedCandidate, Step, Unlink, PairInv, ResumesWhatIsActive, Resumes,
     Active, StartsFromDisk, NothingForgotten, ImportInv, Unrecorded, WorkersPrepare,
     HolderIsBetween, Held
<1>23. ASSUME NEW u \in Upload, DropRejectedSource(u) PROVE ResumesWhatIsActive'
  BY <1>23 DEF DropRejectedSource, Step, PairInv, ResumesWhatIsActive, Resumes, Active,
     StartsFromDisk, NothingForgotten, ImportInv, Unrecorded, WorkersPrepare,
     HolderIsBetween, Held
<1>24. ASSUME NEW u \in Upload, ReportFailure(u) PROVE ResumesWhatIsActive'
  BY <1>24 DEF ReportFailure, Step, Persist, PersistFails, Fault, PairInv,
     ResumesWhatIsActive, Resumes, Active, StartsFromDisk, NothingForgotten, ImportInv,
     Unrecorded, WorkersPrepare, HolderIsBetween, Held
<1>25. ASSUME NEW u \in Upload, RestoreJob(u) PROVE ResumesWhatIsActive'
  BY <1>25 DEF RestoreJob, Restored, Retryable, Persist, Unlink, Fault, PairInv,
     ResumesWhatIsActive, Resumes, Active, StartsFromDisk, NothingForgotten, ImportInv,
     Unrecorded, WorkersPrepare, HolderIsBetween, Held
<1>26. CASE Crash
  BY <1>26 DEF Crash, Fault, Free, PairInv, ResumesWhatIsActive, Resumes, Active,
     StartsFromDisk, NothingForgotten, ImportInv, Unrecorded, WorkersPrepare,
     HolderIsBetween, Held
<1>27. CASE Start
  BY <1>27 DEF Start, PairInv, ResumesWhatIsActive, Resumes, Active, StartsFromDisk,
     NothingForgotten, ImportInv, Unrecorded, WorkersPrepare, HolderIsBetween, Held
<1>28. CASE Serve
  BY <1>28 DEF Serve, PairInv, ResumesWhatIsActive, Resumes, Active, StartsFromDisk,
     NothingForgotten, ImportInv, Unrecorded, WorkersPrepare, HolderIsBetween, Held
<1>29. CASE TargetChanges
  BY <1>29 DEF TargetChanges, Fault, PairInv, ResumesWhatIsActive, Resumes, Active,
     StartsFromDisk, NothingForgotten, ImportInv, Unrecorded, WorkersPrepare,
     HolderIsBetween, Held
<1>30. CASE UNCHANGED vars
  BY <1>30 DEF vars, files, history, PairInv, ResumesWhatIsActive, Resumes, Active,
     StartsFromDisk, NothingForgotten, ImportInv, Unrecorded, WorkersPrepare,
     HolderIsBetween, Held
<1>31. ASSUME NEW u \in Upload, UnlinkFails(u) PROVE ResumesWhatIsActive'
  BY <1>31 DEF UnlinkFails, Step, Fault, Release, Free, files, history, PairInv,
     ResumesWhatIsActive, Resumes, Active, StartsFromDisk, NothingForgotten,
     ImportInv, Unrecorded, WorkersPrepare, HolderIsBetween, Held
<1> QED
  BY <1>1, <1>2, <1>3, <1>4, <1>5, <1>6, <1>7, <1>8, <1>9, <1>10, <1>11, <1>12, <1>13,
     <1>14, <1>15, <1>16, <1>17, <1>18, <1>19, <1>20, <1>21, <1>22, <1>23, <1>24, <1>25,
     <1>26, <1>27, <1>28, <1>29, <1>30, <1>31 DEF Next, Request, Worker

\* No second upload becomes active.
LEMMA OneActiveStep == ASSUME PairInv, [Next]_vars PROVE OneActiveImport'
<1>0. /\ skipped \subseteq Upload /\ service \in {"up", "down", "starting"} /\ Valid \subseteq Upload /\ None \notin Upload
      /\ job \in [Upload -> JobState \union {"unread"}] /\ manifest \in [Upload -> JobState]
      /\ source \subseteq Upload /\ candidate \in [Upload -> {"none", "partial", "complete"}]
      /\ worker \in [Upload -> {"idle", "enter", "clear", "build", "validate", "pass",
                                "drop_candidate", "drop_source", "report"}]
  BY ImportAssumption DEF PairInv, ImportInv, TypeOK
<1>a. ImportInv
  BY DEF PairInv
<1> USE <1>0, <1>a DEF files, history
<1>1. ASSUME NEW u \in Upload, AdmitUpload(u) PROVE OneActiveImport'
  BY <1>1 DEF AdmitUpload, PairInv, OneActiveImport, OneResumes, StartsFromDisk,
     NoSecondUpload, NothingForgotten, Resumes, Active, Busy, ImportInv, WorkersPrepare
<1>2. ASSUME NEW u \in Upload, StageSource(u) PROVE OneActiveImport'
  BY <1>2 DEF StageSource, Idle, Free, Hold, PairInv, OneActiveImport, OneResumes,
     StartsFromDisk, NoSecondUpload, NothingForgotten, Resumes, Active, Busy, ImportInv,
     WorkersPrepare
<1>3. ASSUME NEW u \in Upload, RecordUpload(u) PROVE OneActiveImport'
  BY <1>3 DEF RecordUpload, At, Release, Free, Persist, PersistFails, Fault, PairInv,
     OneActiveImport, OneResumes, StartsFromDisk, NoSecondUpload, NothingForgotten, Resumes,
     Active, Busy, ImportInv, WorkersPrepare
<1>4. ASSUME NEW u \in Upload, AskPreparation(u) PROVE OneActiveImport'
  BY <1>4 DEF AskPreparation, PairInv, OneActiveImport, OneResumes, StartsFromDisk,
     NoSecondUpload, NothingForgotten, Resumes, Active, Busy, ImportInv, WorkersPrepare
<1>5. ASSUME NEW u \in Upload, StartPreparation(u) PROVE OneActiveImport'
  BY <1>5 DEF StartPreparation, Idle, Persist, PersistFails, Fault, PairInv, OneActiveImport,
     OneResumes, StartsFromDisk, NoSecondUpload, NothingForgotten, Resumes, Active, Busy,
     ImportInv, WorkersPrepare
<1>6. ASSUME NEW u \in Upload, LoadSkipped(u) PROVE OneActiveImport'
  BY <1>6 DEF LoadSkipped, Idle, PairInv, OneActiveImport, OneResumes, StartsFromDisk,
     NoSecondUpload, NothingForgotten, Resumes, Active, Busy, ImportInv, WorkersPrepare
<1>7. ASSUME NEW u \in Upload, BeginDiscard(u) PROVE OneActiveImport'
  BY <1>7 DEF BeginDiscard, Idle, Hold, Allowed, PairInv, OneActiveImport, OneResumes,
     StartsFromDisk, NoSecondUpload, NothingForgotten, Resumes, Active, Busy, ImportInv,
     WorkersPrepare
<1>8. ASSUME NEW u \in Upload, DiscardCandidate(u) PROVE OneActiveImport'
  BY <1>8 DEF DiscardCandidate, At, Unlink, Hold, PairInv, OneActiveImport, OneResumes,
     StartsFromDisk, NoSecondUpload, NothingForgotten, Resumes, Active, Busy, ImportInv,
     WorkersPrepare
<1>9. ASSUME NEW u \in Upload, DiscardSource(u) PROVE OneActiveImport'
  BY <1>9 DEF DiscardSource, At, Hold, PairInv, OneActiveImport, OneResumes, StartsFromDisk,
     NoSecondUpload, NothingForgotten, Resumes, Active, Busy, ImportInv, WorkersPrepare
<1>10. ASSUME NEW u \in Upload, RecordDiscard(u) PROVE OneActiveImport'
  BY <1>10 DEF RecordDiscard, At, Release, Free, Persist, PersistFails, Fault, PairInv,
     OneActiveImport, OneResumes, StartsFromDisk, NoSecondUpload, NothingForgotten, Resumes,
     Active, Busy, ImportInv, WorkersPrepare
<1>11. ASSUME NEW u \in Upload, BeginActivation(u) PROVE OneActiveImport'
  BY <1>11 DEF BeginActivation, Idle, Allowed, Hold, PairInv, OneActiveImport, OneResumes,
     StartsFromDisk, NoSecondUpload, NothingForgotten, Resumes, Active, Busy, ImportInv,
     WorkersPrepare
<1>12. ASSUME NEW u \in Upload, LinkTarget(u) PROVE OneActiveImport'
  BY <1>12 DEF LinkTarget, At, Link, Hold, Release, Free, PairInv, OneActiveImport,
     OneResumes, StartsFromDisk, NoSecondUpload, NothingForgotten, Resumes, Active, Busy,
     ImportInv, WorkersPrepare
<1>13. ASSUME NEW u \in Upload, WriteLock(u) PROVE OneActiveImport'
  BY <1>13 DEF WriteLock, At, Hold, Release, Free, Fault, PairInv, OneActiveImport,
     OneResumes, StartsFromDisk, NoSecondUpload, NothingForgotten, Resumes, Active, Busy,
     ImportInv, WorkersPrepare
<1>14. ASSUME NEW u \in Upload, DropActivatedCandidate(u) PROVE OneActiveImport'
  BY <1>14 DEF DropActivatedCandidate, At, Unlink, Release, Free, Hold, PairInv,
     OneActiveImport, OneResumes, StartsFromDisk, NoSecondUpload, NothingForgotten, Resumes,
     Active, Busy, ImportInv, WorkersPrepare
<1>15. ASSUME NEW u \in Upload, DropActivatedSource(u) PROVE OneActiveImport'
  BY <1>15 DEF DropActivatedSource, At, Hold, PairInv, OneActiveImport, OneResumes,
     StartsFromDisk, NoSecondUpload, NothingForgotten, Resumes, Active, Busy, ImportInv,
     WorkersPrepare
<1>16. ASSUME NEW u \in Upload, RecordActivation(u) PROVE OneActiveImport'
  BY <1>16 DEF RecordActivation, At, Release, Free, Persist, PersistFails, Fault, PairInv,
     OneActiveImport, OneResumes, StartsFromDisk, NoSecondUpload, NothingForgotten, Resumes,
     Active, Busy, ImportInv, WorkersPrepare
<1>17. ASSUME NEW u \in Upload, EnterWorker(u) PROVE OneActiveImport'
  BY <1>17 DEF EnterWorker, Step, Persist, PersistFails, Fault, PairInv, OneActiveImport,
     OneResumes, StartsFromDisk, NoSecondUpload, NothingForgotten, Resumes, Active, Busy,
     ImportInv, WorkersPrepare
<1>18. ASSUME NEW u \in Upload, ClearCandidate(u) PROVE OneActiveImport'
  BY <1>18 DEF ClearCandidate, Step, Unlink, PairInv, OneActiveImport, OneResumes,
     StartsFromDisk, NoSecondUpload, NothingForgotten, Resumes, Active, Busy, ImportInv,
     WorkersPrepare
<1>19. ASSUME NEW u \in Upload, BuildCandidate(u) PROVE OneActiveImport'
  BY <1>19 DEF BuildCandidate, Step, Fault, PairInv, OneActiveImport, OneResumes,
     StartsFromDisk, NoSecondUpload, NothingForgotten, Resumes, Active, Busy, ImportInv,
     WorkersPrepare
<1>20. ASSUME NEW u \in Upload, ValidateCandidate(u) PROVE OneActiveImport'
  BY <1>20 DEF ValidateCandidate, Step, PairInv, OneActiveImport, OneResumes, StartsFromDisk,
     NoSecondUpload, NothingForgotten, Resumes, Active, Busy, ImportInv, WorkersPrepare
<1>21. ASSUME NEW u \in Upload, PassCandidate(u) PROVE OneActiveImport'
  BY <1>21 DEF PassCandidate, Step, Persist, PersistFails, Fault, PairInv, OneActiveImport,
     OneResumes, StartsFromDisk, NoSecondUpload, NothingForgotten, Resumes, Active, Busy,
     ImportInv, WorkersPrepare
<1>22. ASSUME NEW u \in Upload, DropRejectedCandidate(u) PROVE OneActiveImport'
  BY <1>22 DEF DropRejectedCandidate, Step, Unlink, PairInv, OneActiveImport, OneResumes,
     StartsFromDisk, NoSecondUpload, NothingForgotten, Resumes, Active, Busy, ImportInv,
     WorkersPrepare
<1>23. ASSUME NEW u \in Upload, DropRejectedSource(u) PROVE OneActiveImport'
  BY <1>23 DEF DropRejectedSource, Step, PairInv, OneActiveImport, OneResumes,
     StartsFromDisk, NoSecondUpload, NothingForgotten, Resumes, Active, Busy, ImportInv,
     WorkersPrepare
<1>24. ASSUME NEW u \in Upload, ReportFailure(u) PROVE OneActiveImport'
  BY <1>24 DEF ReportFailure, Step, Persist, PersistFails, Fault, PairInv, OneActiveImport,
     OneResumes, StartsFromDisk, NoSecondUpload, NothingForgotten, Resumes, Active, Busy,
     ImportInv, WorkersPrepare
<1>25. ASSUME NEW u \in Upload, RestoreJob(u) PROVE OneActiveImport'
  BY <1>25 DEF RestoreJob, Restored, Retryable, Persist, Unlink, Fault, PairInv,
     OneActiveImport, OneResumes, StartsFromDisk, NoSecondUpload, NothingForgotten, Resumes,
     Active, Busy, ImportInv, WorkersPrepare
<1>26. CASE Crash
  BY <1>26 DEF Crash, Fault, Free, PairInv, OneActiveImport, OneResumes, StartsFromDisk,
     NoSecondUpload, NothingForgotten, Resumes, Active, Busy, ImportInv, WorkersPrepare
<1>27. CASE Start
  BY <1>27 DEF Start, PairInv, OneActiveImport, OneResumes, StartsFromDisk, NoSecondUpload,
     NothingForgotten, Resumes, Active, Busy, ImportInv, WorkersPrepare
<1>28. CASE Serve
  BY <1>28 DEF Serve, PairInv, OneActiveImport, OneResumes, StartsFromDisk, NoSecondUpload,
     NothingForgotten, Resumes, Active, Busy, ImportInv, WorkersPrepare
<1>29. CASE TargetChanges
  BY <1>29 DEF TargetChanges, Fault, PairInv, OneActiveImport, OneResumes, StartsFromDisk,
     NoSecondUpload, NothingForgotten, Resumes, Active, Busy, ImportInv, WorkersPrepare
<1>30. CASE UNCHANGED vars
  BY <1>30 DEF vars, files, history, PairInv, OneActiveImport, OneResumes, StartsFromDisk,
     NoSecondUpload, NothingForgotten, Resumes, Active, Busy, ImportInv, WorkersPrepare
<1>31. ASSUME NEW u \in Upload, UnlinkFails(u) PROVE OneActiveImport'
  BY <1>31 DEF UnlinkFails, Step, Fault, Release, Free, files, history, PairInv,
     OneActiveImport, OneResumes, StartsFromDisk, NoSecondUpload, NothingForgotten,
     Resumes, Active, Busy, ImportInv, WorkersPrepare
<1> QED
  BY <1>1, <1>2, <1>3, <1>4, <1>5, <1>6, <1>7, <1>8, <1>9, <1>10, <1>11, <1>12, <1>13,
     <1>14, <1>15, <1>16, <1>17, <1>18, <1>19, <1>20, <1>21, <1>22, <1>23, <1>24, <1>25,
     <1>26, <1>27, <1>28, <1>29, <1>30, <1>31 DEF Next, Request, Worker

\* At most one upload would be resumed.
LEMMA OneResumesStep ==
    ASSUME PairInv, [Next]_vars, ImportInv', ResumesWhatIsActive', OneActiveImport'
    PROVE  OneResumes'
<1>1. CASE service' = "up"
  BY <1>1 DEF OneResumes, ResumesWhatIsActive, OneActiveImport
<1>2. CASE service' # "up" /\ UNCHANGED <<manifest, source, candidate, skipped>>
  BY <1>2 DEF PairInv, OneResumes, Resumes
<1>3. ASSUME NEW u \in Upload, RestoreJob(u) PROVE OneResumes'
  BY <1>3 DEF RestoreJob, Restored, Retryable, Persist, Unlink, PairInv, ImportInv, TypeOK,
     OneResumes, Resumes, Active, JobState
<1>4. service' = "up" \/ UNCHANGED <<manifest, source, candidate, skipped>>
         \/ \E u \in Upload : RestoreJob(u)
  <2>1. ASSUME NEW u \in Upload, Request(u) \/ Worker(u) \/ UnlinkFails(u)
       PROVE  service' = "up"
    BY <2>1 DEF Request, Worker, UnlinkFails, AdmitUpload, StageSource, Idle, RecordUpload, At,
       AskPreparation, StartPreparation, LoadSkipped, BeginDiscard, DiscardCandidate, DiscardSource,
       RecordDiscard, BeginActivation, LinkTarget, WriteLock, DropActivatedCandidate,
       DropActivatedSource, RecordActivation, EnterWorker, Step, ClearCandidate, BuildCandidate,
       ValidateCandidate, PassCandidate, DropRejectedCandidate, DropRejectedSource, ReportFailure
  <2>2. CASE Crash \/ Start \/ Serve \/ TargetChanges \/ UNCHANGED vars
    BY <2>2 DEF Crash, Start, Serve, TargetChanges, vars, files, history
  <2> QED
    BY <2>1, <2>2 DEF Next
<1> QED
  BY <1>1, <1>2, <1>3, <1>4

\* The invariant holds in every reachable state, whatever requests wait for the
\* lock and wherever the process ends.
THEOREM ImportsAlways == Spec => []PairInv
<1>1. PairInv /\ [Next]_vars => PairInv'
  <2> SUFFICES ASSUME PairInv, [Next]_vars PROVE PairInv'
    OBVIOUS
  <2>1. ImportInv'
    BY ImportStep DEF PairInv
  <2>2. ResumesWhatIsActive' /\ OneActiveImport'
    BY ResumesStep, OneActiveStep
  <2> QED
    BY <2>1, <2>2, OneResumesStep, StartsStep, ForgottenStep, SecondStep DEF PairInv
<1> QED
  BY <1>1, ImportStarts, PTL DEF Spec

\* Every variable of the import service keeps its type.
THEOREM ImportTypes == Spec => []TypeOK
<1>1. PairInv => TypeOK
  BY DEF PairInv, ImportInv
<1> QED
  BY <1>1, ImportsAlways, PTL

\* upload(), _load() and _restore_jobs() never make a second upload active
\* beside the first, but for one that a restart could not read.
THEOREM OneImportAtATime == Spec => []OneActiveImport
<1>1. PairInv => OneActiveImport
  BY DEF PairInv
<1> QED
  BY <1>1, ImportsAlways, PTL

\* activate() links only a whole candidate that validation accepted.
THEOREM OnlyValidatedIsLinked == Spec => []ActiveIsValidated
<1>1. PairInv => ActiveIsValidated
  BY DEF PairInv, ImportInv
<1> QED
  BY <1>1, ImportsAlways, PTL

\* A confirmed activation locks importing for good.
THEOREM ActivationLocks == Spec => []ActivationIsFinal
<1>1. PairInv => ActivationIsFinal
  BY DEF PairInv, ImportInv
<1> QED
  BY <1>1, ImportsAlways, PTL

\* What is recorded as failed, discarded or activated has left no staged file.
THEOREM NothingIsLeftBehind == Spec => []FinishedLeavesNothing
<1>1. PairInv => FinishedLeavesNothing
  BY DEF PairInv, ImportInv
<1> QED
  BY <1>1, ImportsAlways, PTL

\* No step of the service replaces a target, and none links one once importing
\* is locked.
THEOREM TargetsStay == Spec => TargetIsNeverReplaced
<1> DEFINE Kept == target' # target =>
                      (target = None /\ (locked => target' = Foreign)) \/ target' = None
<1>1. ASSUME PairInv, [Next]_vars PROVE [Kept]_vars
  <2>1. ASSUME NEW u \in Upload, LinkTarget(u) PROVE Kept
    BY <1>1, <2>1 DEF LinkTarget, At, Link, PairInv, ImportInv, HolderIsBetween, Held
  <2>2. CASE TargetChanges
    BY <2>2 DEF TargetChanges
  <2>3. target' = target \/ TargetChanges \/ \E u \in Upload : LinkTarget(u)
    <3>1. ASSUME NEW u \in Upload, Request(u) PROVE target' = target \/ LinkTarget(u)
      BY <3>1 DEF Request, files, AdmitUpload, StageSource, RecordUpload, AskPreparation,
         StartPreparation, LoadSkipped, BeginDiscard, DiscardCandidate, DiscardSource,
         RecordDiscard, BeginActivation, WriteLock, DropActivatedCandidate,
         DropActivatedSource, RecordActivation
    <3>2. ASSUME NEW u \in Upload, Worker(u) PROVE target' = target
      BY <3>2 DEF Worker, files, EnterWorker, ClearCandidate, BuildCandidate, ValidateCandidate,
         PassCandidate, DropRejectedCandidate, DropRejectedSource, ReportFailure
    <3>3. ASSUME NEW u \in Upload, RestoreJob(u) \/ UnlinkFails(u) PROVE target' = target
      BY <3>3 DEF RestoreJob, UnlinkFails, files
    <3>4. CASE Crash \/ Start \/ Serve
      BY <3>4 DEF Crash, Start, Serve, files
    <3>5. CASE UNCHANGED vars
      BY <3>5 DEF vars, files
    <3> QED
      BY <1>1, <3>1, <3>2, <3>3, <3>4, <3>5 DEF Next
  <2> QED
    BY <2>1, <2>2, <2>3
<1> QED
  BY <1>1, ImportsAlways, PTL DEF Spec, TargetIsNeverReplaced
=============================================================================
