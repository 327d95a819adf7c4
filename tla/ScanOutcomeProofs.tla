--------------------------- MODULE ScanOutcomeProofs ---------------------------
(****************************************************************************)
(* Proofs about what becomes of a scan: what its row says while a job works *)
(* on it and when nothing does any more, and that the handlers and the      *)
(* worker implement ScanContract.                                           *)
(****************************************************************************)
EXTENDS ScanServiceProofs

-----------------------------------------------------------------------------
(* The inductive invariant, in four parts.                                  *)

(* One execution at a time works for a scan, and only once its request has  *)
(* handed the job over.                                                     *)
HandOverInv ==
    \A s \in Scans :
        /\ exec[s].at # "idle" =>
               IF Inline THEN pc[s] = "inline" ELSE job[s].state = "started"
        /\ pc[s] \in {"idle", "checked", "stored", "inserted", "counted"} =>
               job[s].state = "none" /\ exec[s].at = "idle"
        /\ pc[s] \in {"inserted", "counted"} /\ Live(s) => row[s] = Blank("queued")
        /\ pc[s] # "done" => reply[s] = "none"
        /\ pc[s] = "unqueued" => ~Inline /\ faults > 0
        /\ reply[s] = "503" => ~Inline /\ faults > 0
        /\ Inline => job[s].state = "none"

(* The session of an execution knows the row: its status too, unless the    *)
(* request marked the scan failed behind its back.                          *)
SessionInv ==
    \A s \in Scans :
        LET seen == exec[s].seen IN
        /\ exec[s].at \in {"scanning", "reported"} =>
               seen.status = "running" /\ seen.stage = "scanning"
        /\ exec[s].at = "saved" => seen.status = "complete"
        /\ (exec[s].at # "idle" /\ Live(s)) =>
               /\ row[s].stage = seen.stage
               /\ row[s].status # seen.status => row[s].status = "failed" /\ reply[s] = "503"

(* Objects are stored by the request they are named after.                  *)
ObjectInv ==
    \A p \in Scans : p \in objects =>
        /\ pc[p] \notin {"idle", "checked"}
        /\ row[p].status = "none" =>
               \/ pc[p] = "stored"
               \/ pc[p] = "done" /\ reply[p] \in {"500", "lost"}
        /\ row[p].status # "none" \/ pc[p] = "stored" => path[p] = p

(* An execution that is about to fail while nothing has failed yet found no *)
(* object, or no row.                                                       *)
FailingInv ==
    \A s \in Scans :
        (exec[s].at = "failing" /\ Live(s) /\ faults = 0) => path[s] \notin objects

(* As long as nothing has failed, jobs do not run twice on a complete scan. *)
ReliableInv ==
    faults = 0 =>
        \A s \in Scans : Live(s) =>
            /\ job[s].state \in {"queued", "scheduled"} => row[s].status \in {"queued", "failed"}
            /\ exec[s].at = "loaded" => row[s].status \in {"queued", "failed"}
            /\ exec[s].at = "failing" => row[s].status = "running"

OutcomeInv ==
    /\ HandOverInv /\ SessionInv /\ ObjectInv /\ FailingInv /\ ReliableInv
    /\ StageMeansRunning /\ StrandedOnlyByLoss
    /\ FailsForWantOfObject /\ InlineReplyMeansComplete

LEMMA InitOutcome == Init => OutcomeInv
BY BoundsAssumption
DEF Init, OutcomeInv, HandOverInv, SessionInv, ObjectInv, FailingInv, ReliableInv,
    StageMeansRunning, StrandedOnlyByLoss, FailsForWantOfObject,
    InlineReplyMeansComplete, Blank, Live, Idle, Pending

-----------------------------------------------------------------------------
(* One execution at a time.                                                 *)

LEMMA RequestHandOver ==
    ASSUME TypeOK, SafetyInv, HandOverInv, NEW s \in Scans, Request(s)
    PROVE  HandOverInv'
<1> USE BoundsAssumption, ModeAssumption
    DEF TypeOK, HandOverInv, Live, db, work, Goto, Respond, Fault
<1>a. CASE EnforceQuota(s)
    BY <1>a DEF EnforceQuota
<1>b. CASE SaveUpload(s)
    BY <1>b DEF SaveUpload
<1>c. CASE RejectUpload(s)
    BY <1>c DEF RejectUpload
<1>d. CASE UploadOutage(s)
    BY <1>d DEF UploadOutage
<1>e. CASE AcceptPath(s)
    BY <1>e DEF AcceptPath
<1>f. CASE RejectPath(s)
    BY <1>f DEF RejectPath
<1>g. CASE InsertScan(s)
    BY <1>g DEF InsertScan
<1>h. CASE RecordCreated(s)
    BY <1>h DEF RecordCreated
<1>i. CASE Enqueue(s)
    BY <1>i DEF Enqueue, NewJob
<1>j. CASE EnqueueError(s)
    BY <1>j DEF EnqueueError, NewJob
<1>k. CASE MarkUnqueued(s)
    BY <1>k DEF MarkUnqueued
<1>l. CASE DatabaseError(s)
    BY <1>l DEF DatabaseError
<1> QED
    BY <1>a, <1>b, <1>c, <1>d, <1>e, <1>f, <1>g, <1>h, <1>i, <1>j, <1>k, <1>l
    DEF Request

LEMMA DeleteHandOver ==
    ASSUME TypeOK, HandOverInv, NEW s \in Scans, Delete(s) \/ Requeue(s)
    PROVE  HandOverInv'
<1> USE BoundsAssumption, ModeAssumption
    DEF TypeOK, HandOverInv, Live, request, db, work, Fault
<1>a. CASE LoadForDelete(s)
    BY <1>a DEF LoadForDelete
<1>b. CASE DeleteUpload(s)
    BY <1>b DEF DeleteUpload
<1>c. CASE DeleteRow(s)
    BY <1>c DEF DeleteRow, Blank
<1>d. CASE DeleteError(s)
    BY <1>d DEF DeleteError
<1>e. CASE Requeue(s)
    BY <1>e DEF Requeue, SetJob
<1> QED
    BY <1>a, <1>b, <1>c, <1>d, <1>e DEF Delete

(* What Return and Raise leave behind.                                      *)
LEMMA EndOfExecution ==
    ASSUME TypeOK, NEW s \in Scans, Return(s) \/ Raise(s)
    PROVE  /\ \A r \in Scans \ {s} :
                 pc'[r] = pc[r] /\ reply'[r] = reply[r] /\ job'[r] = job[r]
           /\ Inline => /\ pc'[s] = "done" /\ reply'[s] \in {"202", "500"} /\ job' = job
                        /\ Raise(s) => reply'[s] = "500"
           /\ ~Inline => /\ pc' = pc /\ reply' = reply
                         /\ job'[s].state \in {"finished", "scheduled", "failed"}
                         /\ Return(s) => job'[s].state = "finished"
                         /\ Raise(s) => job'[s].state \in {"scheduled", "failed"}
<1>1. Inline => Return(s) = (Respond(s, "202") /\ UNCHANGED job)
    BY DEF Return
<1>2. Inline => Raise(s) = (Respond(s, "500") /\ UNCHANGED job)
    BY DEF Raise
<1>3. CASE Inline
    BY <1>1, <1>2, <1>3 DEF Respond, TypeOK
<1>4. CASE ~Inline
    BY <1>4 DEF Return, Raise, SetJob, TypeOK
<1> QED
    BY <1>3, <1>4

LEMMA WorkerHandOver ==
    ASSUME TypeOK, SafetyInv, HandOverInv, NEW s \in Scans,
           WorkerStep(s) \/ WorkerFault(s)
    PROVE  HandOverInv'
<1> USE BoundsAssumption, ModeAssumption
    DEF TypeOK, HandOverInv, Live, request, db, Step, Interrupted, Fault
<1>a. CASE LoadScan(s)
    BY <1>a DEF LoadScan, Ready, Goto, SetJob
<1>b. CASE ScanGone(s)
    BY <1>b, EndOfExecution DEF ScanGone, Ready
<1>c. CASE MarkRunning(s)
    BY <1>c DEF MarkRunning
<1>d. CASE Scan(s) \/ ScanError(s) \/ Timeout(s)
    BY <1>d DEF Scan, ScanError, Timeout
<1>e. CASE SaveReport(s)
    BY <1>e DEF SaveReport
<1>f. CASE FinishJob(s)
    BY <1>f, EndOfExecution DEF FinishJob
<1>g. CASE MarkFailed(s)
    BY <1>g, EndOfExecution DEF MarkFailed
<1>h. CASE InferenceNotReady(s)
    BY <1>h, EndOfExecution DEF InferenceNotReady, Ready
<1>i. CASE ExecutionLost(s)
    BY <1>i, EndOfExecution DEF ExecutionLost
<1> QED
    BY <1>a, <1>b, <1>c, <1>d, <1>e, <1>f, <1>g, <1>h, <1>i DEF WorkerStep, WorkerFault

-----------------------------------------------------------------------------
(* How often a scan is counted as completed.                                *)

(* No execution has begun for the scan; none will any more; how many are    *)
(* over and made way for another attempt.                                   *)
Unbegun(s) == IF Inline THEN pc[s] \notin {"inline", "done"} ELSE job[s].state = "none"
Ended(s) == IF Inline THEN pc[s] = "done" ELSE job[s].state \in {"finished", "failed"}
Spent(s) == IF Inline THEN 0 ELSE MaxRetries - job[s].retries

(* An execution adds its event as it becomes "saved", or when an alarm left *)
(* the event in its session and the except branch commits it.  It then ends *)
(* the job, or a failure comes in between, which costs an attempt too.      *)
Counted(s) ==
    /\ Unbegun(s) => completed[s] = 0
    /\ completed[s] <= faults + 1
    /\ completed[s] <= Spent(s) + 1
    /\ completed[s] <= faults \/ exec[s].at = "saved" \/ Ended(s)
    /\ completed[s] <= Spent(s) \/ exec[s].at \in {"saved", "failing"} \/ Ended(s)
    /\ exec[s].at = "failing" /\ exec[s].held = "event" =>
           completed[s] + 1 <= faults /\ completed[s] <= Spent(s)
CountInv == \A s \in Scans : Counted(s)

LEMMA InitCount == Init => CountInv
BY BoundsAssumption, ModeAssumption
DEF Init, CountInv, Counted, Unbegun, Ended, Spent, Idle

LEMMA CountTypes ==
    ASSUME TypeOK
    PROVE  /\ faults \in Nat
           /\ \A s \in Scans : completed[s] \in Nat /\ Spent(s) \in Nat
BY BoundsAssumption, ModeAssumption DEF TypeOK, Job, Spent

(* A scan that is counted no further, whose execution and retries are left  *)
(* alone, keeps within its bounds.                                          *)
LEMMA CountFrame ==
    ASSUME TypeOK, TypeOK', NEW s \in Scans, Counted(s), faults' >= faults,
           completed'[s] = completed[s], exec'[s] = exec[s],
           Unbegun(s)' => Unbegun(s), Ended(s) => Ended(s)', Spent(s)' = Spent(s)
    PROVE  Counted(s)'
<1>1. /\ faults \in Nat /\ faults' \in Nat /\ completed[s] \in Nat
      /\ Spent(s) \in Nat
    BY CountTypes DEF TypeOK
<1> QED
    BY <1>1 DEF Counted

LEMMA CountNone ==
    ASSUME TypeOK', NEW s \in Scans, completed'[s] = 0, exec'[s].at # "failing"
    PROVE  Counted(s)'
<1>0. faults' \in Nat /\ Spent(s)' \in Nat
    BY BoundsAssumption, ModeAssumption DEF TypeOK, Job, Spent
<1>1. \A n \in Nat : 0 <= n /\ 0 <= n + 1
    OBVIOUS
<1> QED
    BY <1>0, <1>1 DEF Counted

LEMMA FaultsGrow ==
    ASSUME TypeOK, [Next]_vars
    PROVE  faults' >= faults
BY DEF TypeOK, Next, vars, Fault, Request, EnforceQuota, SaveUpload, RejectUpload,
       UploadOutage, AcceptPath, RejectPath, InsertScan, RecordCreated, Enqueue,
       EnqueueError, MarkUnqueued, DatabaseError, Delete, LoadForDelete, DeleteUpload,
       DeleteRow, DeleteError, Requeue, WorkerStep, WorkerFault, LoadScan, ScanGone,
       MarkRunning, Scan, SaveReport, FinishJob, MarkFailed, InferenceNotReady,
       ScanError, Timeout, ExecutionLost, NewMonth, ApiCrash

LEMMA RequestCount ==
    ASSUME TypeOK, TypeOK', SafetyInv, HandOverInv, CountInv, faults' >= faults,
           NEW s \in Scans, Request(s), NEW r \in Scans
    PROVE  Counted(r)'
<1>1. completed' = completed /\ exec' = exec
    BY DEF Request, EnforceQuota, SaveUpload, RejectUpload, UploadOutage, AcceptPath,
        RejectPath, InsertScan, RecordCreated, Enqueue, EnqueueError, MarkUnqueued,
        DatabaseError, db, work
<1>2. pc[s] \notin {"inline", "done"} /\ \A q \in Scans \ {s} : pc'[q] = pc[q]
    BY DEF TypeOK, Request, EnforceQuota, SaveUpload, RejectUpload, UploadOutage,
        AcceptPath, RejectPath, InsertScan, RecordCreated, Enqueue, EnqueueError,
        MarkUnqueued, DatabaseError, Goto, Respond
<1>3. job' = job \/ (~Inline /\ job[s].state = "none")
    BY DEF Request, EnforceQuota, SaveUpload, RejectUpload, UploadOutage, AcceptPath,
        RejectPath, InsertScan, RecordCreated, Enqueue, EnqueueError, MarkUnqueued,
        DatabaseError, HandOverInv, work
<1>4. \A q \in Scans \ {s} : job'[q] = job[q]
    BY DEF TypeOK, Request, EnforceQuota, SaveUpload, RejectUpload, UploadOutage,
        AcceptPath, RejectPath, InsertScan, RecordCreated, Enqueue, EnqueueError,
        MarkUnqueued, DatabaseError, work
<1>5. CASE Unbegun(r)
    <2>1. exec[r].at = "idle"
        BY <1>5, ModeAssumption DEF Unbegun, HandOverInv
    <2> QED
        BY <1>1, <1>5, <2>1, CountNone DEF CountInv, Counted
<1>6. CASE ~Unbegun(r)
    <2>1. job'[r] = job[r] /\ (Inline => pc'[r] = pc[r])
        BY <1>2, <1>3, <1>4, <1>6, ModeAssumption DEF Unbegun
    <2>2. Spent(r)' = Spent(r) /\ (Ended(r) => Ended(r)') /\ ~Unbegun(r)'
        BY <1>6, <2>1, ModeAssumption DEF Spent, Ended, Unbegun
    <2> QED
        BY <1>1, <2>2, CountFrame DEF CountInv
<1> QED
    BY <1>5, <1>6

LEMMA DeleteCount ==
    ASSUME TypeOK, TypeOK', CountInv, faults' >= faults,
           NEW s \in Scans, Delete(s) \/ Requeue(s), NEW r \in Scans
    PROVE  Counted(r)'
<1>1. completed' = completed /\ exec' = exec /\ pc' = pc
    BY DEF Delete, LoadForDelete, DeleteUpload, DeleteRow, DeleteError, Requeue,
        request, db, work
<1>2. \/ job'[r] = job[r]
      \/ /\ job[r].state = "scheduled" /\ job'[r].state = "queued"
         /\ job'[r].retries = job[r].retries
    BY DEF TypeOK, Delete, LoadForDelete, DeleteUpload, DeleteRow, DeleteError, Requeue,
        SetJob, work
<1>3. /\ Spent(r)' = Spent(r) /\ (Ended(r) => Ended(r)')
      /\ Unbegun(r)' => Unbegun(r)
    BY <1>1, <1>2, ModeAssumption DEF Spent, Ended, Unbegun
<1> QED
    BY <1>1, <1>3, CountFrame DEF CountInv

(* What the end of an execution costs.                                      *)
LEMMA EndCosts ==
    ASSUME TypeOK, NEW s \in Scans, Return(s) \/ Raise(s)
    PROVE  /\ ~Unbegun(s)'
           /\ Spent(s)' >= Spent(s)
           /\ Return(s) => Ended(s)'
           /\ Raise(s) => Ended(s)' \/ Spent(s)' = Spent(s) + 1
<1>1. CASE Inline
    BY <1>1, EndOfExecution DEF Unbegun, Ended, Spent
<1>2. CASE ~Inline
    <2>1. job[s].retries \in 0..MaxRetries /\ MaxRetries \in Nat
        BY BoundsAssumption DEF TypeOK, Job
    <2>2. Return(s) => /\ job'[s].state = "finished"
                       /\ job'[s].retries = job[s].retries
        BY <1>2 DEF Return, SetJob, TypeOK
    <2>3. Raise(s) => \/ /\ job'[s].state = "scheduled"
                         /\ job'[s].retries = job[s].retries - 1
                      \/ /\ job'[s].state = "failed"
                         /\ job'[s].retries = 0
        BY <1>2 DEF Raise, TypeOK
    <2> QED
        BY <1>2, <2>1, <2>2, <2>3 DEF Unbegun, Ended, Spent
<1> QED
    BY <1>1, <1>2

LEMMA WorkerCount ==
    ASSUME TypeOK, TypeOK', SafetyInv, HandOverInv, CountInv, faults' >= faults,
           NEW s \in Scans, WorkerStep(s) \/ WorkerFault(s), NEW r \in Scans
    PROVE  Counted(r)'
<1>0. Counted(r) /\ Counted(s)
    BY DEF CountInv
<1>t. /\ faults \in Nat /\ faults' \in Nat
      /\ completed[s] \in Nat /\ Spent(s) \in Nat /\ Spent(s)' \in Nat
    BY CountTypes, BoundsAssumption, ModeAssumption DEF TypeOK, Job, Spent
<1>1. CASE r # s
    <2>1. /\ completed'[r] = completed[r] /\ exec'[r] = exec[r]
          /\ pc'[r] = pc[r] /\ job'[r] = job[r]
        BY <1>1, EndOfExecution, ModeAssumption
        DEF TypeOK, WorkerStep, WorkerFault, LoadScan, ScanGone, MarkRunning, Scan,
            SaveReport, FinishJob, MarkFailed, InferenceNotReady, ScanError, Timeout,
            ExecutionLost, Step, Interrupted, SetJob, db, request, Goto
    <2>2. /\ Spent(r)' = Spent(r) /\ (Ended(r) => Ended(r)')
          /\ Unbegun(r)' => Unbegun(r)
        BY <2>1 DEF Spent, Ended, Unbegun
    <2> QED
        BY <1>0, <2>1, <2>2, CountFrame
<1>2. CASE r = s
    <2>i. exec[s].at # "idle" => ~Ended(s)
        BY ModeAssumption DEF HandOverInv, Ended
    <2>a. CASE LoadScan(s)
        <3>1. /\ completed'[s] = completed[s] /\ ~Ended(s) /\ ~Unbegun(s)'
              /\ Spent(s)' = Spent(s) /\ exec'[s].at = "loaded"
            BY <2>a, ModeAssumption
            DEF LoadScan, Ready, Ended, Unbegun, Spent, TypeOK, SetJob, Goto, Step, db
        <3>2. exec[s].at = "idle"
            BY <2>a, ModeAssumption DEF LoadScan, Ready, HandOverInv
        <3> QED
            BY <1>0, <1>2, <1>t, <3>1, <3>2 DEF Counted
    <2>b. CASE ScanGone(s)
        <3>1. /\ completed'[s] = completed[s] /\ Return(s) /\ faults' = faults
              /\ exec'[s].at = "idle"
            BY <2>b, ModeAssumption DEF ScanGone, Ready, HandOverInv, db
        <3> QED
            BY <1>0, <1>2, <1>t, <3>1, EndCosts DEF Counted
    <2>c. CASE MarkRunning(s) \/ Scan(s)
        <3>1. /\ completed'[s] = completed[s] /\ pc' = pc /\ job' = job
              /\ exec[s].at \notin {"saved", "failing"} /\ exec'[s].held = "nothing"
              /\ faults' = faults
            BY <2>c DEF MarkRunning, Scan, Step, TypeOK, request, db
        <3>2. /\ Spent(s)' = Spent(s) /\ (Unbegun(s)' => Unbegun(s))
              /\ Ended(s) => Ended(s)'
            BY <3>1 DEF Spent, Ended, Unbegun
        <3> QED
            BY <1>0, <1>2, <1>t, <3>1, <3>2 DEF Counted
    <2>d. CASE ScanError(s) \/ Timeout(s)
        <3>1. /\ completed'[s] = completed[s] /\ pc' = pc /\ job' = job
              /\ exec'[s].at = "failing" /\ faults' = faults + 1
              /\ exec'[s].held # "nothing" => exec[s].at = "reported"
              /\ exec[s].at \notin {"idle", "failing"}
            BY <2>d DEF ScanError, Timeout, Interrupted, Fault, TypeOK, request, db
        <3>2. /\ Spent(s)' = Spent(s) /\ (Unbegun(s)' => Unbegun(s))
              /\ Ended(s) => Ended(s)'
            BY <3>1 DEF Spent, Ended, Unbegun
        <3> QED
            BY <1>0, <1>2, <1>t, <2>i, <3>1, <3>2 DEF Counted
    <2>e. CASE SaveReport(s)
        <3>1. /\ pc' = pc /\ job' = job /\ faults' = faults /\ exec[s].at = "reported"
              /\ \/ completed'[s] = completed[s] + 1 /\ exec'[s].at = "saved"
                 \/ /\ completed'[s] = completed[s] /\ exec'[s].at = "failing"
                    /\ exec'[s].held = "nothing"
            BY <2>e DEF SaveReport, Step, TypeOK, request
        <3>2. /\ Spent(s)' = Spent(s) /\ ~Unbegun(s)' /\ ~Ended(s)
            BY <3>1, ModeAssumption DEF Spent, Ended, Unbegun, HandOverInv
        <3> QED
            BY <1>0, <1>2, <1>t, <3>1, <3>2 DEF Counted
    <2>f. CASE FinishJob(s)
        <3>1. /\ completed'[s] = completed[s] /\ Return(s) /\ faults' = faults
              /\ exec'[s].at = "idle"
            BY <2>f DEF FinishJob, Step, TypeOK, db
        <3> QED
            BY <1>0, <1>2, <1>t, <3>1, EndCosts DEF Counted
    <2>g. CASE MarkFailed(s)
        <3>1. /\ Raise(s) /\ exec[s].at = "failing" /\ exec'[s].at = "idle"
              /\ faults' = faults
              /\ \/ completed'[s] = completed[s]
                 \/ completed'[s] = completed[s] + 1 /\ exec[s].held = "event"
            BY <2>g DEF MarkFailed, Step, TypeOK
        <3> QED
            BY <1>0, <1>2, <1>t, <2>i, <3>1, EndCosts DEF Counted
    <2>h. CASE InferenceNotReady(s) \/ ExecutionLost(s)
        <3>1. /\ completed'[s] = completed[s] /\ Raise(s) /\ faults' = faults + 1
              /\ exec'[s].at = "idle"
            BY <2>h, ModeAssumption
            DEF InferenceNotReady, ExecutionLost, Ready, HandOverInv, Fault, Step, TypeOK, db
        <3> QED
            BY <1>0, <1>2, <1>t, <3>1, EndCosts DEF Counted
    <2> QED
        BY <2>a, <2>b, <2>c, <2>d, <2>e, <2>f, <2>g, <2>h DEF WorkerStep, WorkerFault
<1> QED
    BY <1>1, <1>2

LEMMA NextCount ==
    TypeOK /\ TypeOK' /\ SafetyInv /\ HandOverInv /\ CountInv /\ [Next]_vars => CountInv'
<1> SUFFICES ASSUME TypeOK, TypeOK', SafetyInv, HandOverInv, CountInv, [Next]_vars,
                    NEW r \in Scans
             PROVE  Counted(r)'
    BY DEF CountInv
<1>0. faults' >= faults
    BY FaultsGrow
<1>1. ASSUME NEW s \in Scans,
             Request(s) \/ Delete(s) \/ Requeue(s) \/ WorkerStep(s) \/ WorkerFault(s)
      PROVE  Counted(r)'
    BY <1>0, <1>1, RequestCount, DeleteCount, WorkerCount
<1>2. CASE ApiCrash
    <2>1. /\ completed'[r] = completed[r] /\ job' = job /\ faults' = faults + 1
          /\ pc'[r] \in {pc[r], "done"}
          /\ Inline /\ pc[r] = "inline" => pc'[r] = "done"
          /\ ~Inline => exec' = exec
        BY <1>2 DEF ApiCrash, Fault, Serving, InFlight, db
    <2>2. Counted(r) /\ faults \in Nat /\ completed[r] \in Nat /\ Spent(r) \in Nat
        BY CountTypes DEF CountInv
    <2>3. CASE Unbegun(r)
        <3>1. exec'[r].at = "idle"
            BY <1>2, <2>3, ModeAssumption DEF ApiCrash, Unbegun, HandOverInv, Idle
        <3> QED
            BY <2>1, <2>2, <2>3, <3>1, CountNone DEF Counted
    <2>4. CASE ~Unbegun(r)
        <3>1. /\ Spent(r)' = Spent(r) /\ ~Unbegun(r)' /\ (Ended(r) => Ended(r)')
              /\ Inline => Ended(r)' /\ exec'[r].at = "idle"
            BY <1>2, <2>1, <2>4, ModeAssumption DEF ApiCrash, Idle, Spent, Ended, Unbegun
        <3> QED
            BY <2>1, <2>2, <3>1, ModeAssumption DEF Counted
    <2> QED
        BY <2>3, <2>4
<1>3. CASE NewMonth \/ UNCHANGED vars
    <2>1. completed' = completed /\ exec' = exec /\ pc' = pc /\ job' = job
        BY <1>3 DEF NewMonth, vars, request, work
    <2>2. /\ Spent(r)' = Spent(r) /\ (Ended(r) => Ended(r)')
          /\ Unbegun(r)' => Unbegun(r)
        BY <2>1 DEF Spent, Ended, Unbegun
    <2> QED
        BY <1>0, <2>1, <2>2, CountFrame DEF CountInv
<1> QED
    BY <1>1, <1>2, <1>3 DEF Next

-----------------------------------------------------------------------------
(* The session knows the row.                                               *)

LEMMA RequestSession ==
    ASSUME TypeOK, SafetyInv, HandOverInv, SessionInv, NEW s \in Scans, Request(s)
    PROVE  SessionInv'
<1>u. LET r == Update(row[s], Blank("queued"), Failed(Blank("queued")))
      IN  r.stage = row[s].stage /\ r.status = "failed"
    BY DEF TypeOK, Row, Update, Failed, Blank
<1> USE BoundsAssumption, ModeAssumption
    DEF TypeOK, HandOverInv, SessionInv, Live, db, work, Goto, Respond
<1>a. CASE EnforceQuota(s)
    BY <1>a DEF EnforceQuota
<1>b. CASE SaveUpload(s) \/ AcceptPath(s)
    BY <1>b DEF SaveUpload, AcceptPath
<1>c. CASE RejectUpload(s) \/ RejectPath(s) \/ UploadOutage(s)
    BY <1>c DEF RejectUpload, RejectPath, UploadOutage
<1>g. CASE InsertScan(s)
    BY <1>g DEF InsertScan
<1>h. CASE RecordCreated(s)
    BY <1>h DEF RecordCreated
<1>i. CASE Enqueue(s)
    BY <1>i DEF Enqueue
<1>j. CASE EnqueueError(s)
    BY <1>j DEF EnqueueError
<1>k. CASE MarkUnqueued(s)
    BY <1>u, <1>k DEF MarkUnqueued
<1>l. CASE DatabaseError(s)
    BY <1>l DEF DatabaseError
<1> QED
    BY <1>a, <1>b, <1>c, <1>g, <1>h, <1>i, <1>j, <1>k, <1>l DEF Request

LEMMA DeleteSession ==
    ASSUME TypeOK, SessionInv, NEW s \in Scans, Delete(s) \/ Requeue(s)
    PROVE  SessionInv'
BY DEF TypeOK, SessionInv, Live, request, db, work, Delete, LoadForDelete, DeleteUpload,
       DeleteRow, DeleteError, Requeue, Blank

(* What the writes of a session do to the status and the stage of a row.    *)
LEMMA StageEffect ==
    ASSUME NEW now \in Row, NEW seen \in Row, NEW held \in Held, now.stage = seen.stage
    PROVE  /\ Update(now, seen, Running(seen)).stage = "scanning"
           /\ Update(now, seen, Failed(Kept(seen, held))).stage = "none"
           /\ Update(now, seen, Complete(seen)).stage = "none"
           /\ seen.status # "running" => Update(now, seen, Running(seen)).status = "running"
           /\ seen.status = "running" => Update(now, seen, Running(seen)).status = now.status
           /\ seen.status # "complete" =>
                  Update(now, seen, Complete(seen)).status = "complete"
           /\ seen.status # "failed" =>
                  Update(now, seen, Failed(Kept(seen, held))).status = "failed"
           /\ seen.status = "failed" =>
                  Update(now, seen, Failed(Kept(seen, held))).status = now.status
           /\ Running(seen).status = "running" /\ Running(seen).stage = "scanning"
           /\ Complete(seen).status = "complete" /\ Complete(seen).stage = "none"
BY DEF Row, Update, Running, Failed, Complete, Kept

LEMMA WorkerSession ==
    ASSUME TypeOK, SafetyInv, HandOverInv, SessionInv, NEW s \in Scans,
           WorkerStep(s) \/ WorkerFault(s)
    PROVE  SessionInv'
<1> DEFINE seen == exec[s].seen
<1> DEFINE held == exec[s].held
<1>1. seen \in Row /\ row[s] \in Row /\ held \in Held
    BY DEF TypeOK, Exec
<1>2. exec[s].at # "idle" /\ Live(s) => row[s].stage = seen.stage
    BY DEF SessionInv
<1>s. row[s].stage = seen.stage =>
          /\ Update(row[s], seen, Running(seen)).stage = "scanning"
          /\ Update(row[s], seen, Running(seen)).status =
                 IF seen.status = "running" THEN row[s].status ELSE "running"
          /\ Update(row[s], seen, Failed(Kept(seen, held))).stage = "none"
          /\ Update(row[s], seen, Failed(Kept(seen, held))).status =
                 IF seen.status = "failed" THEN row[s].status ELSE "failed"
          /\ Running(seen).status = "running" /\ Running(seen).stage = "scanning"
    BY <1>1, StageEffect
<1> USE DEF TypeOK, SessionInv, Live, request, db, Step, Interrupted
<1>a. CASE LoadScan(s)
    BY <1>a, ModeAssumption DEF LoadScan, Goto
<1>b. CASE ScanGone(s) \/ InferenceNotReady(s)
    BY <1>b, EndOfExecution, ModeAssumption DEF ScanGone, InferenceNotReady, Ready, HandOverInv
<1>c. CASE MarkRunning(s)
    <2>1. CASE Live(s)
        BY <1>c, <1>1, <1>2, <1>s, <2>1 DEF MarkRunning
    <2>2. CASE ~Live(s)
        BY <1>c, <1>1, <2>2 DEF MarkRunning, Running
    <2> QED
        BY <2>1, <2>2
<1>d. CASE Scan(s) \/ ScanError(s) \/ Timeout(s)
    BY <1>d DEF Scan, ScanError, Timeout
<1>e. CASE SaveReport(s)
    <2>1. CASE Live(s)
        BY <1>e, <1>1, <1>2, <2>1, StageEffect DEF SaveReport
    <2>2. CASE ~Live(s)
        BY <1>e, <1>1, <2>2 DEF SaveReport
    <2> QED
        BY <2>1, <2>2
<1>f. CASE FinishJob(s) \/ MarkFailed(s) \/ ExecutionLost(s)
    <2>1. exec' = [exec EXCEPT ![s] = Idle]
        BY <1>f DEF FinishJob, MarkFailed, ExecutionLost, Idle
    <2>2. \A r \in Scans \ {s} : row'[r] = row[r] /\ reply'[r] = reply[r]
        BY <1>f, EndOfExecution DEF FinishJob, MarkFailed, ExecutionLost
    <2> QED
        BY <2>1, <2>2 DEF Idle
<1> QED
    BY <1>a, <1>b, <1>c, <1>d, <1>e, <1>f DEF WorkerStep, WorkerFault

-----------------------------------------------------------------------------
(* The objects.                                                             *)

LEMMA RequestObject ==
    ASSUME TypeOK, SafetyInv, ObjectInv, NEW s \in Scans, Request(s)
    PROVE  ObjectInv'
<1>u. Update(row[s], Blank("queued"), Failed(Blank("queued"))).status = "failed"
    BY DEF TypeOK, Row, Update, Failed, Blank
<1> USE DEF TypeOK, SafetyInv, RequestInv, ObjectInv, Live, db, work, Goto, Respond
<1>a. CASE EnforceQuota(s)
    BY <1>a DEF EnforceQuota
<1>b. CASE SaveUpload(s)
    BY <1>b DEF SaveUpload
<1>c. CASE RejectUpload(s) \/ RejectPath(s)
    BY <1>c DEF RejectUpload, RejectPath
<1>d. CASE UploadOutage(s)
    BY <1>d DEF UploadOutage
<1>e. CASE AcceptPath(s)
    BY <1>e DEF AcceptPath
<1>g. CASE InsertScan(s)
    BY <1>g DEF InsertScan, Blank
<1>h. CASE RecordCreated(s)
    BY <1>h DEF RecordCreated
<1>i. CASE Enqueue(s) \/ EnqueueError(s)
    BY <1>i DEF Enqueue, EnqueueError
<1>k. CASE MarkUnqueued(s)
    BY <1>u, <1>k DEF MarkUnqueued
<1>l. CASE DatabaseError(s)
    BY <1>l DEF DatabaseError
<1> QED
    BY <1>a, <1>b, <1>c, <1>d, <1>e, <1>g, <1>h, <1>i, <1>k, <1>l DEF Request

LEMMA DeleteObject ==
    ASSUME TypeOK, SafetyInv, ObjectInv, NEW s \in Scans, Delete(s) \/ Requeue(s)
    PROVE  ObjectInv'
BY DEF TypeOK, SafetyInv, RequestInv, DeleteInv, ObjectInv, Live, request, db, work,
       Delete, LoadForDelete, DeleteUpload, DeleteRow, DeleteError, Requeue, Blank

LEMMA WorkerObject ==
    ASSUME TypeOK, SafetyInv, HandOverInv, ObjectInv, NEW s \in Scans,
           WorkerStep(s) \/ WorkerFault(s)
    PROVE  ObjectInv'
<1>1. objects' = objects /\ path' = path
    BY DEF WorkerStep, WorkerFault, LoadScan, ScanGone, MarkRunning, Scan, SaveReport,
        FinishJob, MarkFailed, InferenceNotReady, ScanError, Timeout, ExecutionLost, request
<1>2. \A r \in Scans : row[r].status # "none" => row'[r].status # "none"
    <2> DEFINE seen == exec[s].seen
    <2> DEFINE held == exec[s].held
    <2>1. seen \in Row /\ row[s] \in Row /\ held \in Held
        BY DEF TypeOK, Exec
    <2>2. /\ Update(row[s], seen, Running(seen)).status \in {"running", row[s].status}
          /\ Update(row[s], seen, Failed(Kept(seen, held))).status \in {"failed", row[s].status}
          /\ Update(row[s], seen, Complete(seen)).status \in {"complete", row[s].status}
        BY <2>1, UpdateEffect
    <2>3. CASE row' = row
        BY <2>3
    <2>4. CASE MarkRunning(s) \/ SaveReport(s) \/ MarkFailed(s)
        BY <2>2, <2>4 DEF TypeOK, MarkRunning, SaveReport, MarkFailed
    <2> QED
        BY <2>3, <2>4 DEF WorkerStep, WorkerFault, LoadScan, ScanGone, Scan, FinishJob,
            InferenceNotReady, ScanError, Timeout, ExecutionLost, db
<1>3. \A r \in Scans : row[r].status = "none" =>
          row'[r] = row[r] /\ pc'[r] = pc[r] /\ reply'[r] = reply[r]
    <2>1. exec[s].at # "idle" \/ Ready(s)
        BY DEF WorkerStep, WorkerFault, LoadScan, ScanGone, MarkRunning, Scan, SaveReport,
            FinishJob, MarkFailed, InferenceNotReady, ScanError, Timeout, ExecutionLost
    <2>2. row[s].status # "none"
        BY <2>1 DEF SafetyInv, ChargeInv, Ready
    <2>3. \A r \in Scans \ {s} :
              row'[r] = row[r] /\ pc'[r] = pc[r] /\ reply'[r] = reply[r]
        BY EndOfExecution, ModeAssumption
        DEF TypeOK, WorkerStep, WorkerFault, LoadScan, ScanGone, MarkRunning, Scan,
            SaveReport, FinishJob, MarkFailed, InferenceNotReady, ScanError, Timeout,
            ExecutionLost, db, request, Goto
    <2> QED
        BY <2>2, <2>3
<1>4. \A r \in Scans : pc[r] \notin {"idle", "checked"} => pc'[r] \notin {"idle", "checked"}
    BY EndOfExecution, ModeAssumption
    DEF TypeOK, WorkerStep, WorkerFault, LoadScan, ScanGone, MarkRunning, Scan,
        SaveReport, FinishJob, MarkFailed, InferenceNotReady, ScanError, Timeout,
        ExecutionLost, request, Goto, Ready
<1>5. \A r \in Scans : pc'[r] = "stored" => pc[r] = "stored"
    BY EndOfExecution, ModeAssumption
    DEF TypeOK, WorkerStep, WorkerFault, LoadScan, ScanGone, MarkRunning, Scan,
        SaveReport, FinishJob, MarkFailed, InferenceNotReady, ScanError, Timeout,
        ExecutionLost, request, Goto, Ready
<1> QED
    BY <1>1, <1>2, <1>3, <1>4, <1>5 DEF ObjectInv, TypeOK

-----------------------------------------------------------------------------
(* A scan that fails though nothing failed has no object.                   *)

LEMMA RequestFailing ==
    ASSUME TypeOK, SafetyInv, HandOverInv, FailingInv, FailsForWantOfObject,
           NEW s \in Scans, Request(s)
    PROVE  FailingInv' /\ FailsForWantOfObject'
<1> USE BoundsAssumption, ScansAssumption
    DEF TypeOK, SafetyInv, RequestInv, HandOverInv, FailingInv, FailsForWantOfObject,
        Live, db, work, Goto, Respond, Fault
<1>a. CASE EnforceQuota(s)
    BY <1>a DEF EnforceQuota
<1>b. CASE SaveUpload(s)
    BY <1>b DEF SaveUpload
<1>c. CASE RejectUpload(s) \/ RejectPath(s)
    BY <1>c DEF RejectUpload, RejectPath
<1>d. CASE UploadOutage(s)
    BY <1>d DEF UploadOutage
<1>e. CASE AcceptPath(s)
    BY <1>e DEF AcceptPath
<1>g. CASE InsertScan(s)
    BY <1>g DEF InsertScan, Blank
<1>h. CASE RecordCreated(s)
    BY <1>h DEF RecordCreated
<1>i. CASE Enqueue(s) \/ EnqueueError(s)
    BY <1>i DEF Enqueue, EnqueueError
<1>k. CASE MarkUnqueued(s)
    BY <1>k DEF MarkUnqueued
<1>l. CASE DatabaseError(s)
    BY <1>l DEF DatabaseError
<1> QED
    BY <1>a, <1>b, <1>c, <1>d, <1>e, <1>g, <1>h, <1>i, <1>k, <1>l DEF Request

LEMMA DeleteFailing ==
    ASSUME TypeOK, SafetyInv, FailingInv, FailsForWantOfObject, NEW s \in Scans,
           Delete(s) \/ Requeue(s)
    PROVE  FailingInv' /\ FailsForWantOfObject'
BY BoundsAssumption
DEF TypeOK, FailingInv, FailsForWantOfObject, Live, request, db, work, Fault,
    Delete, LoadForDelete, DeleteUpload, DeleteRow, DeleteError, Requeue, Blank

LEMMA WorkerFailing ==
    ASSUME TypeOK, SafetyInv, FailingInv, FailsForWantOfObject, NEW s \in Scans,
           WorkerStep(s) \/ WorkerFault(s)
    PROVE  FailingInv' /\ FailsForWantOfObject'
<1> DEFINE seen == exec[s].seen
<1> DEFINE held == exec[s].held
<1>1. seen \in Row /\ row[s] \in Row /\ held \in Held
    BY DEF TypeOK, Exec
<1>2. /\ Update(row[s], seen, Running(seen)).status \in {"running", row[s].status}
      /\ Update(row[s], seen, Failed(Kept(seen, held))).status \in {"failed", row[s].status}
      /\ Update(row[s], seen, Complete(seen)).status \in {"complete", row[s].status}
    BY <1>1, UpdateEffect
<1> USE BoundsAssumption
    DEF TypeOK, FailingInv, FailsForWantOfObject, Live, request, db, Step, Interrupted, Fault
<1>a. CASE LoadScan(s)
    BY <1>a DEF LoadScan
<1>b. CASE ScanGone(s) \/ InferenceNotReady(s)
    BY <1>b DEF ScanGone, InferenceNotReady
<1>c. CASE MarkRunning(s)
    BY <1>c, <1>2 DEF MarkRunning
<1>d. CASE Scan(s) \/ ScanError(s) \/ Timeout(s)
    BY <1>d DEF Scan, ScanError, Timeout
<1>e. CASE SaveReport(s)
    BY <1>e, <1>2 DEF SaveReport
<1>f. CASE FinishJob(s) \/ ExecutionLost(s)
    BY <1>f DEF FinishJob, ExecutionLost
<1>g. CASE MarkFailed(s)
    BY <1>g, <1>2 DEF MarkFailed
<1> QED
    BY <1>a, <1>b, <1>c, <1>d, <1>e, <1>f, <1>g DEF WorkerStep, WorkerFault

-----------------------------------------------------------------------------
(* Jobs that run twice when nothing ever fails.                             *)

LEMMA RequestReliable ==
    ASSUME TypeOK, HandOverInv, ReliableInv, NEW s \in Scans, Request(s)
    PROVE  ReliableInv'
<1> USE BoundsAssumption, ModeAssumption
    DEF TypeOK, HandOverInv, ReliableInv, Live, db, work, Goto, Respond, Fault
<1>a. CASE EnforceQuota(s) \/ SaveUpload(s) \/ AcceptPath(s)
    BY <1>a DEF EnforceQuota, SaveUpload, AcceptPath
<1>b. CASE RejectUpload(s) \/ RejectPath(s) \/ UploadOutage(s) \/ DatabaseError(s)
    BY <1>b DEF RejectUpload, RejectPath, UploadOutage, DatabaseError
<1>c. CASE InsertScan(s)
    BY <1>c DEF InsertScan, Blank
<1>d. CASE RecordCreated(s)
    BY <1>d DEF RecordCreated
<1>e. CASE Enqueue(s) \/ EnqueueError(s)
    BY <1>e DEF Enqueue, EnqueueError, NewJob, Blank
<1>f. CASE MarkUnqueued(s)
    BY <1>f DEF MarkUnqueued
<1> QED
    BY <1>a, <1>b, <1>c, <1>d, <1>e, <1>f DEF Request

LEMMA DeleteReliable ==
    ASSUME TypeOK, ReliableInv, NEW s \in Scans, Delete(s) \/ Requeue(s)
    PROVE  ReliableInv'
BY BoundsAssumption
DEF TypeOK, ReliableInv, Live, request, db, work, SetJob, Fault,
       Delete, LoadForDelete, DeleteUpload, DeleteRow, DeleteError, Requeue, Blank

LEMMA WorkerReliable ==
    ASSUME TypeOK, SafetyInv, HandOverInv, SessionInv, ReliableInv, NEW s \in Scans,
           WorkerStep(s) \/ WorkerFault(s)
    PROVE  ReliableInv'
<1> SUFFICES ASSUME faults' = 0 PROVE ReliableInv'
    BY DEF ReliableInv
<1> DEFINE seen == exec[s].seen
<1> DEFINE held == exec[s].held
<1>0. faults = 0 /\ ~Fault
    <2>1. faults \in Nat /\ (faults' = faults \/ Fault)
        BY BoundsAssumption
        DEF TypeOK, WorkerStep, WorkerFault, LoadScan, ScanGone, MarkRunning, Scan,
            SaveReport, FinishJob, MarkFailed, InferenceNotReady, ScanError, Timeout,
            ExecutionLost
    <2> QED
        BY <2>1 DEF Fault
<1>1. seen \in Row /\ row[s] \in Row /\ held \in Held
    BY DEF TypeOK, Exec
<1>2. exec[s].at # "idle" /\ Live(s) =>
          row[s].stage = seen.stage /\ row[s].status = seen.status
    BY <1>0 DEF SessionInv, HandOverInv
<1>3. exec[s].at # "idle" => job[s].state \in {"started", "none"}
    BY DEF HandOverInv
<1>s. row[s].stage = seen.stage =>
          /\ Update(row[s], seen, Running(seen)).stage = "scanning"
          /\ Update(row[s], seen, Running(seen)).status =
                 IF seen.status = "running" THEN row[s].status ELSE "running"
          /\ Update(row[s], seen, Failed(Kept(seen, held))).stage = "none"
          /\ Update(row[s], seen, Failed(Kept(seen, held))).status =
                 IF seen.status = "failed" THEN row[s].status ELSE "failed"
          /\ Running(seen).status = "running" /\ Running(seen).stage = "scanning"
    BY <1>1, StageEffect
<1> USE DEF TypeOK, ReliableInv, Live, request, db, Step, Interrupted
<1>a. CASE LoadScan(s)
    BY <1>a, ModeAssumption DEF LoadScan, Ready, SetJob, HandOverInv, Goto, Blank
<1>b. CASE ScanGone(s)
    BY <1>b, EndOfExecution DEF ScanGone
<1>c. CASE MarkRunning(s)
    BY <1>0, <1>c, <1>1, <1>2, <1>3, <1>s DEF MarkRunning
<1>d. CASE Scan(s)
    BY <1>d, <1>2 DEF Scan, SessionInv
<1>e. CASE SaveReport(s)
    <2>1. job' = job /\ exec'[s].at \in {"saved", "failing"} /\ job[s].state \in {"started", "none"}
        BY <1>3, <1>e DEF SaveReport
    <2>2. exec'[s].at = "failing" => ~Live(s) /\ row' = row
        BY <1>e DEF SaveReport
    <2>3. \A r \in Scans \ {s} : row'[r] = row[r] /\ exec'[r] = exec[r]
        BY <1>e DEF SaveReport
    <2> QED
        BY <1>0, <2>1, <2>2, <2>3
<1>f. CASE FinishJob(s)
    BY <1>f, <1>3, EndOfExecution, ModeAssumption DEF FinishJob
<1>g. CASE MarkFailed(s)
    BY <1>g, <1>1, <1>2, <1>3, EndOfExecution, StageEffect DEF MarkFailed
<1>h. CASE WorkerFault(s)
    BY <1>h, <1>0 DEF WorkerFault, InferenceNotReady, ScanError, Timeout, ExecutionLost
<1> QED
    BY <1>a, <1>b, <1>c, <1>d, <1>e, <1>f, <1>g, <1>h DEF WorkerStep

-----------------------------------------------------------------------------
(* What the row says while the scan is worked on, and after.                *)

LEMMA RequestRow ==
    ASSUME TypeOK, SafetyInv, HandOverInv, SessionInv,
           StageMeansRunning, StrandedOnlyByLoss, InlineReplyMeansComplete,
           NEW s \in Scans, Request(s)
    PROVE  StageMeansRunning' /\ StrandedOnlyByLoss' /\ InlineReplyMeansComplete'
<1>u. LET r == Update(row[s], Blank("queued"), Failed(Blank("queued")))
      IN  r.stage = row[s].stage /\ r.status = "failed"
    BY DEF TypeOK, Row, Update, Failed, Blank
<1> USE BoundsAssumption, ModeAssumption
    DEF TypeOK, SafetyInv, RequestInv, HandOverInv, StageMeansRunning,
        StrandedOnlyByLoss, InlineReplyMeansComplete, Pending, InFlight, Uncounted,
        Live, db, work, Goto, Respond, Fault
<1>a. CASE EnforceQuota(s)
    BY <1>a DEF EnforceQuota
<1>b. CASE SaveUpload(s) \/ AcceptPath(s)
    BY <1>b DEF SaveUpload, AcceptPath
<1>c. CASE RejectUpload(s) \/ RejectPath(s)
    BY <1>c DEF RejectUpload, RejectPath
<1>d. CASE UploadOutage(s)
    BY <1>d DEF UploadOutage
<1>e. CASE DatabaseError(s)
    BY <1>e DEF DatabaseError
<1>g. CASE InsertScan(s)
    BY <1>g DEF InsertScan, Blank
<1>h. CASE RecordCreated(s)
    BY <1>h DEF RecordCreated
<1>i. CASE Enqueue(s)
    BY <1>i DEF Enqueue, NewJob
<1>j. CASE EnqueueError(s)
    BY <1>j DEF EnqueueError, NewJob
<1>k. CASE MarkUnqueued(s)
    BY <1>u, <1>k DEF MarkUnqueued
<1> QED
    BY <1>a, <1>b, <1>c, <1>d, <1>e, <1>g, <1>h, <1>i, <1>j, <1>k DEF Request

LEMMA DeleteRowStep ==
    ASSUME TypeOK, StageMeansRunning, StrandedOnlyByLoss, InlineReplyMeansComplete,
           NEW s \in Scans, Delete(s) \/ Requeue(s)
    PROVE  StageMeansRunning' /\ StrandedOnlyByLoss' /\ InlineReplyMeansComplete'
BY BoundsAssumption
DEF TypeOK, StageMeansRunning, StrandedOnlyByLoss, InlineReplyMeansComplete, Pending,
    request, db, work, SetJob, Fault,
    Delete, LoadForDelete, DeleteUpload, DeleteRow, DeleteError, Requeue, Blank

LEMMA WorkerRow ==
    ASSUME TypeOK, SafetyInv, HandOverInv, SessionInv,
           StageMeansRunning, StrandedOnlyByLoss, InlineReplyMeansComplete,
           NEW s \in Scans, WorkerStep(s) \/ WorkerFault(s)
    PROVE  StageMeansRunning' /\ StrandedOnlyByLoss' /\ InlineReplyMeansComplete'
<1> DEFINE seen == exec[s].seen
<1> DEFINE held == exec[s].held
<1>1. seen \in Row /\ row[s] \in Row /\ held \in Held
    BY DEF TypeOK, Exec
<1>2. /\ exec[s].at # "idle" /\ Live(s) =>
             /\ row[s].stage = seen.stage
             /\ row[s].status # seen.status => row[s].status = "failed" /\ reply[s] = "503"
      /\ exec[s].at = "saved" => seen.status = "complete"
      /\ exec[s].at = "reported" => seen.status = "running"
    BY DEF SessionInv
<1>3. /\ exec[s].at # "idle" => IF Inline THEN pc[s] = "inline" ELSE job[s].state = "started"
      /\ pc[s] # "done" => reply[s] = "none"
      /\ reply[s] = "503" => ~Inline
    BY DEF HandOverInv
<1>4. exec[s].at # "idle" \/ Ready(s) => row[s].status # "none"
    BY DEF SafetyInv, ChargeInv, Ready
<1>5. Fault => faults' > 0
    BY BoundsAssumption DEF Fault, TypeOK
<1>s. row[s].stage = seen.stage =>
          /\ Update(row[s], seen, Running(seen)).stage = "scanning"
          /\ Update(row[s], seen, Running(seen)).status =
                 IF seen.status = "running" THEN row[s].status ELSE "running"
          /\ Update(row[s], seen, Failed(Kept(seen, held))).stage = "none"
          /\ Update(row[s], seen, Failed(Kept(seen, held))).status =
                 IF seen.status = "failed" THEN row[s].status ELSE "failed"
          /\ Running(seen).status = "running" /\ Running(seen).stage = "scanning"
    BY <1>1, StageEffect
<1> USE ModeAssumption
    DEF TypeOK, StageMeansRunning, StrandedOnlyByLoss, InlineReplyMeansComplete,
        Pending, InFlight, Live, request, db, Step, Interrupted
<1>a. CASE LoadScan(s)
    BY <1>a, <1>3 DEF LoadScan, Ready, SetJob, Goto
<1>b. CASE ScanGone(s)
    BY <1>b, <1>3, <1>4, EndOfExecution DEF ScanGone, Ready
<1>c. CASE MarkRunning(s)
    <2>1. CASE Live(s)
        <3>1. row'[s].status \in {"running", row[s].status} /\ exec'[s].at # "idle"
            BY <1>1, <1>c, <2>1, UpdateEffect DEF MarkRunning
        <3>2. \/ row'[s].status = "running"
              \/ row'[s].status = "failed" /\ reply[s] = "503"
            <4>1. row'[s] = Update(row[s], seen, Running(seen)) /\ exec[s].at # "idle"
                BY <1>c, <2>1 DEF MarkRunning
            <4>2. row[s].stage = seen.stage
                BY <1>2, <2>1, <4>1
            <4>3. row'[s].status =
                      IF seen.status = "running" THEN row[s].status ELSE "running"
                BY <1>s, <4>1, <4>2
            <4>4. \/ row[s].status = seen.status
                  \/ row[s].status = "failed" /\ reply[s] = "503"
                BY <1>2, <2>1, <4>1
            <4> QED
                BY <4>3, <4>4
        <3>3. \A r \in Scans \ {s} : row'[r] = row[r] /\ exec'[r] = exec[r]
            BY <1>c DEF MarkRunning
        <3> QED
            BY <1>3, <1>c, <2>1, <3>1, <3>2, <3>3 DEF MarkRunning
    <2>2. CASE ~Live(s)
        BY <1>c, <2>2 DEF MarkRunning
    <2> QED
        BY <2>1, <2>2
<1>d. CASE Scan(s) \/ ScanError(s) \/ Timeout(s)
    BY <1>d, <1>5 DEF Scan, ScanError, Timeout
<1>e. CASE SaveReport(s)
    <2>1. CASE Live(s)
        <3>1. row'[s].stage = "none" /\ row'[s].status = "complete" /\ exec'[s].at # "idle"
            BY <1>1, <1>2, <1>e, <2>1, StageEffect DEF SaveReport
        <3>2. \A r \in Scans \ {s} : row'[r] = row[r] /\ exec'[r] = exec[r]
            BY <1>e DEF SaveReport
        <3> QED
            BY <1>3, <1>e, <2>1, <3>1, <3>2 DEF SaveReport
    <2>2. CASE ~Live(s)
        BY <1>e, <2>2 DEF SaveReport
    <2> QED
        BY <2>1, <2>2
<1>f. CASE FinishJob(s)
    BY <1>f, <1>2, <1>3, <1>4, EndOfExecution DEF FinishJob
<1>g. CASE MarkFailed(s)
    <2>1. Raise(s) /\ exec[s].at = "failing"
        BY <1>g DEF MarkFailed
    <2>2. CASE ~Live(s)
        BY <1>g, <1>2, <1>3, <1>4, <2>1, <2>2, EndOfExecution DEF MarkFailed
    <2>3. CASE Live(s)
        <3> DEFINE r == Update(row[s], seen, Failed(Kept(seen, held)))
        <3>1. row' = [row EXCEPT ![s] = r]
            BY <1>g, <2>3 DEF MarkFailed
        <3>2. r.stage = "none" /\ r.status = "failed"
            BY <1>2, <1>s, <2>1, <2>3
        <3> HIDE DEF r
        <3> QED
            BY <1>g, <1>3, <2>1, <2>3, <3>1, <3>2, EndOfExecution DEF MarkFailed
    <2> QED
        BY <2>2, <2>3
<1>h. CASE InferenceNotReady(s)
    BY <1>h, <1>3, <1>5, EndOfExecution DEF InferenceNotReady, Ready
<1>i. CASE ExecutionLost(s)
    BY <1>i, <1>3, <1>5, EndOfExecution DEF ExecutionLost
<1> QED
    BY <1>a, <1>b, <1>c, <1>d, <1>e, <1>f, <1>g, <1>h, <1>i DEF WorkerStep, WorkerFault

-----------------------------------------------------------------------------
(* The invariant as a whole.                                                *)

LEMMA CrashOutcome ==
    ASSUME TypeOK, SafetyInv, OutcomeInv, ApiCrash
    PROVE  OutcomeInv'
<1>0. faults' > 0
    BY BoundsAssumption DEF ApiCrash, Fault, TypeOK
<1> USE ModeAssumption
    DEF TypeOK, OutcomeInv, ApiCrash, Live, db, Idle, Serving, InFlight, Uncounted
<1>1. HandOverInv'
    BY <1>0 DEF HandOverInv
<1>2. SessionInv'
    BY DEF SessionInv, HandOverInv
<1>3. ObjectInv'
    BY DEF ObjectInv, SafetyInv, RequestInv
<1>4. FailingInv' /\ FailsForWantOfObject'
    BY <1>0 DEF FailingInv, FailsForWantOfObject
<1>5. ReliableInv'
    BY <1>0 DEF ReliableInv
<1>6. StageMeansRunning' /\ InlineReplyMeansComplete'
    BY DEF StageMeansRunning, InlineReplyMeansComplete, HandOverInv
<1>7. StrandedOnlyByLoss'
    BY <1>0 DEF StrandedOnlyByLoss, Pending, HandOverInv
<1> QED
    BY <1>1, <1>2, <1>3, <1>4, <1>5, <1>6, <1>7

LEMMA NextOutcome == TypeOK /\ SafetyInv /\ OutcomeInv /\ [Next]_vars => OutcomeInv'
<1> SUFFICES ASSUME TypeOK, SafetyInv, OutcomeInv, [Next]_vars PROVE OutcomeInv'
    OBVIOUS
<1>1. ASSUME NEW s \in Scans, Request(s) PROVE OutcomeInv'
    BY <1>1, RequestHandOver, RequestSession, RequestObject, RequestFailing,
       RequestReliable, RequestRow DEF OutcomeInv
<1>2. ASSUME NEW s \in Scans, Delete(s) \/ Requeue(s) PROVE OutcomeInv'
    BY <1>2, DeleteHandOver, DeleteSession, DeleteObject, DeleteFailing,
       DeleteReliable, DeleteRowStep DEF OutcomeInv
<1>3. ASSUME NEW s \in Scans, WorkerStep(s) \/ WorkerFault(s) PROVE OutcomeInv'
    BY <1>3, WorkerHandOver, WorkerSession, WorkerObject, WorkerFailing,
       WorkerReliable, WorkerRow DEF OutcomeInv
<1>4. CASE ApiCrash
    BY <1>4, CrashOutcome
<1>5. CASE NewMonth \/ UNCHANGED vars
    BY <1>5 DEF NewMonth, vars, request, work, OutcomeInv, HandOverInv, SessionInv,
        ObjectInv, FailingInv, ReliableInv, StageMeansRunning, StrandedOnlyByLoss,
        Pending, FailsForWantOfObject, InlineReplyMeansComplete, Live
<1> QED
    BY <1>1, <1>2, <1>3, <1>4, <1>5 DEF Next

LEMMA OutcomeCorrect == Spec => []OutcomeInv
<1>1. TypeOK /\ SafetyInv /\ OutcomeInv /\ [Next]_vars => OutcomeInv'
    BY NextOutcome
<1> QED
    BY InitOutcome, <1>1, TypeCorrect, SafetyCorrect, PTL DEF Spec

(* A counted scan has its report and a complete one its event, a report     *)
(* without an event is that of a failed attempt, and no scan is counted as  *)
(* completed more often than failures and attempts allow.                   *)
THEOREM ReportsAreCounted == Spec => []EventsMatchReports
<1>1. TypeOK /\ TypeOK' /\ SafetyInv /\ OutcomeInv /\ CountInv /\ [Next]_vars => CountInv'
    BY NextCount DEF OutcomeInv
<1>2. TypeOK /\ SafetyInv /\ CountInv => EventsMatchReports
    <2> SUFFICES ASSUME TypeOK, SafetyInv, CountInv, NEW s \in Scans
                 PROVE  /\ Live(s) /\ completed[s] > 0 => row[s].report
                        /\ row[s].status = "complete" => row[s].report /\ completed[s] > 0
                        /\ row[s].report /\ completed[s] = 0 =>
                               faults > 0 /\ row[s].status \in {"running", "failed"}
                        /\ completed[s] <= 1 + faults
                        /\ completed[s] <= 1 + (IF Inline THEN 0 ELSE MaxRetries)
        BY DEF EventsMatchReports
    <2>1. completed[s] <= faults + 1 /\ completed[s] <= Spent(s) + 1
        BY DEF CountInv, Counted
    <2>2. Inline => Spent(s) = 0
        BY DEF Spent
    <2>3. ~Inline => Spent(s) <= MaxRetries
        BY BoundsAssumption DEF Spent, TypeOK, Job
    <2>4. /\ faults \in Nat /\ completed[s] \in Nat /\ Spent(s) \in Nat
          /\ MaxRetries \in Nat
        BY CountTypes, BoundsAssumption
    <2> QED
        BY <2>1, <2>2, <2>3, <2>4, ModeAssumption DEF SafetyInv, ReportInv
<1> QED
    BY InitCount, <1>1, <1>2, TypeCorrect, SafetyCorrect, OutcomeCorrect, PTL DEF Spec

(* "stage" is set on running scans, the 503 that was queued after all apart. *)
THEOREM StageIsTrue == Spec => []StageMeansRunning
<1>1. OutcomeInv => StageMeansRunning
    BY DEF OutcomeInv
<1> QED
    BY <1>1, OutcomeCorrect, PTL

(* A scan nobody works on any more is settled, or something was lost.       *)
THEOREM StrandingNeedsLoss == Spec => []StrandedOnlyByLoss
<1>1. OutcomeInv => StrandedOnlyByLoss
    BY DEF OutcomeInv
<1> QED
    BY <1>1, OutcomeCorrect, PTL

(* With an environment that never fails, a scan fails only without object.  *)
THEOREM FailureNeedsCause == Spec => []FailsForWantOfObject
<1>1. OutcomeInv => FailsForWantOfObject
    BY DEF OutcomeInv
<1> QED
    BY <1>1, OutcomeCorrect, PTL

(* Inline, a 202 is sent for a complete scan or one that was deleted.       *)
THEOREM InlineReplyIsTrue == Spec => []InlineReplyMeansComplete
<1>1. OutcomeInv => InlineReplyMeansComplete
    BY DEF OutcomeInv
<1> QED
    BY <1>1, OutcomeCorrect, PTL

(* An object nobody will ever delete comes from an upload request that died. *)
THEOREM OrphansAreExplained == Spec => []OrphansComeFromFailures
<1>1. TypeOK /\ SafetyInv /\ OutcomeInv => OrphansComeFromFailures
    <2> SUFFICES ASSUME TypeOK, SafetyInv, OutcomeInv,
                        NEW p \in Scans, OrphanObject(p)
                 PROVE  row[p].status = "none" /\ reply[p] \in {"500", "lost"}
        BY DEF OrphansComeFromFailures
    <2>1. row[p].status # "none" => path[p] = p
        BY DEF OutcomeInv, ObjectInv, OrphanObject
    <2>2. row[p].status # "deleted" \/ path[p] # p
        BY DEF SafetyInv, DeleteInv, OrphanObject
    <2>3. row[p].status = "none"
        BY <2>1, <2>2 DEF OrphanObject, Live
    <2> QED
        BY <2>3 DEF OutcomeInv, ObjectInv, OrphanObject
<1> QED
    BY <1>1, TypeCorrect, SafetyCorrect, OutcomeCorrect, PTL

-----------------------------------------------------------------------------
(* Jobs end.  The steps that are left to an execution where it stands, and  *)
(* to all the executions of a scan: an attempt takes at most seven, from    *)
(* the one that queues its job to the one that gives it up.                 *)
StepsBehind(at) ==
    CASE at = "loaded"   -> 5
      [] at = "scanning" -> 4
      [] at = "reported" -> 3
      [] at = "saved"    -> 2
      [] at = "failing"  -> 1
      [] OTHER           -> 0
StepsLeft(s) ==
    IF Inline
    THEN CASE pc[s] = "done"   -> 0
           [] pc[s] = "inline" -> StepsBehind(exec[s].at)
           [] OTHER            -> 6
    ELSE CASE job[s].state = "none"      -> 7 * MaxRetries + 7
           [] job[s].state = "scheduled" -> 7 * job[s].retries + 7
           [] job[s].state = "queued"    -> 7 * job[s].retries + 6
           [] job[s].state = "started"   -> 7 * job[s].retries + StepsBehind(exec[s].at)
           [] OTHER                      -> 0

LEMMA StepsBehindType ==
    ASSUME NEW at \in ExecSteps
    PROVE  /\ StepsBehind(at) \in 0..5
           /\ at # "idle" => StepsBehind(at) > 0
BY DEF ExecSteps, StepsBehind

LEMMA StepsLeftType == TypeOK => \A s \in Scans : StepsLeft(s) \in Nat
<1> SUFFICES ASSUME TypeOK, NEW s \in Scans PROVE StepsLeft(s) \in Nat
    OBVIOUS
<1>1. /\ job[s].retries \in Nat /\ MaxRetries \in Nat
      /\ StepsBehind(exec[s].at) \in Nat
    BY BoundsAssumption, StepsBehindType DEF TypeOK, Job, Exec
<1> QED
    BY <1>1, ModeAssumption DEF StepsLeft

(* Where a scan stands, in terms that do not mention the other scans.       *)
LEMMA StepsLeftFrame ==
    ASSUME NEW s \in Scans, pc'[s] = pc[s], job'[s] = job[s],
           exec'[s].at = exec[s].at
    PROVE  StepsLeft(s)' = StepsLeft(s)
BY DEF StepsLeft

(* The end of an execution, however it ends, leaves fewer.                  *)
LEMMA EndLeavesFewer ==
    ASSUME TypeOK, HandOverInv, NEW s \in Scans, exec[s].at # "idle" \/ Ready(s),
           Return(s) \/ Raise(s)
    PROVE  StepsLeft(s)' < StepsLeft(s)
<1>0. /\ job[s].retries \in Nat /\ StepsBehind(exec[s].at) \in Nat
      /\ exec[s].at # "idle" => StepsBehind(exec[s].at) > 0
    BY StepsBehindType DEF TypeOK, Job, Exec
<1>1. CASE Inline
    <2>1. StepsLeft(s)' = 0
        BY <1>1, EndOfExecution DEF StepsLeft
    <2>2. StepsLeft(s) > 0
        BY <1>0, <1>1 DEF HandOverInv, Ready, StepsLeft
    <2> QED
        BY <2>1, <2>2
<1>2. CASE ~Inline
    <2>1. \/ job'[s].state \in {"finished", "failed"}
          \/ /\ job'[s].state = "scheduled" /\ job[s].retries > 0
             /\ job'[s].retries = job[s].retries - 1
        BY <1>2 DEF Return, Raise, SetJob, TypeOK
    <2>2. StepsLeft(s)' = 0 \/ StepsLeft(s)' = 7 * (job[s].retries - 1) + 7
        BY <1>2, <2>1 DEF StepsLeft
    <2>3. \/ StepsLeft(s) = 7 * job[s].retries + 6
          \/ /\ StepsLeft(s) = 7 * job[s].retries + StepsBehind(exec[s].at)
             /\ StepsBehind(exec[s].at) > 0
        BY <1>0, <1>2 DEF HandOverInv, Ready, StepsLeft
    <2> QED
        BY <1>0, <2>2, <2>3
<1> QED
    BY <1>1, <1>2

LEMMA WorkerLeavesFewer ==
    ASSUME TypeOK, HandOverInv, NEW s \in Scans,
           WorkerStep(s) \/ WorkerFault(s) \/ Requeue(s)
    PROVE  /\ StepsLeft(s)' < StepsLeft(s)
           /\ \A r \in Scans \ {s} : StepsLeft(r)' = StepsLeft(r)
<1>0. job[s].retries \in Nat
    BY DEF TypeOK, Job
<1>1. \A r \in Scans \ {s} :
          pc'[r] = pc[r] /\ job'[r] = job[r] /\ exec'[r].at = exec[r].at
    BY EndOfExecution, ModeAssumption
    DEF TypeOK, WorkerStep, WorkerFault, Requeue, LoadScan, ScanGone, MarkRunning, Scan,
        SaveReport, FinishJob, MarkFailed, InferenceNotReady, ScanError, Timeout,
        ExecutionLost, Step, Interrupted, SetJob, request, Goto
<1>2. CASE LoadScan(s)
    <2>1. exec'[s].at = "loaded"
        BY <1>2 DEF LoadScan, Step, TypeOK
    <2>2. Inline => pc[s] = "counted" /\ pc'[s] = "inline"
        BY <1>2 DEF LoadScan, Ready, Goto, TypeOK
    <2>3. ~Inline => /\ job[s].state = "queued" /\ job'[s].state = "started"
                    /\ job'[s].retries = job[s].retries
        BY <1>2 DEF LoadScan, Ready, SetJob, TypeOK
    <2> QED
        BY <1>0, <1>1, <2>1, <2>2, <2>3, StepsLeftFrame, ModeAssumption
        DEF StepsLeft, StepsBehind
<1>3. CASE Requeue(s)
    <2>1. /\ ~Inline /\ job[s].state = "scheduled" /\ job'[s].state = "queued"
          /\ job'[s].retries = job[s].retries
        BY <1>3, ModeAssumption DEF Requeue, SetJob, TypeOK, HandOverInv
    <2> QED
        BY <1>0, <1>1, <2>1, StepsLeftFrame DEF StepsLeft
<1>4. CASE MarkRunning(s) \/ Scan(s) \/ SaveReport(s) \/ ScanError(s) \/ Timeout(s)
    <2>1. pc' = pc /\ job' = job /\ exec[s].at # "idle"
        BY <1>4 DEF MarkRunning, Scan, SaveReport, ScanError, Timeout, request
    <2>2. /\ StepsBehind(exec[s].at) \in Nat /\ StepsBehind(exec'[s].at) \in Nat
          /\ StepsBehind(exec'[s].at) < StepsBehind(exec[s].at)
        BY <1>4
        DEF MarkRunning, Scan, SaveReport, ScanError, Timeout, Step, Interrupted, TypeOK, StepsBehind
    <2>3. IF Inline THEN pc[s] = "inline" ELSE job[s].state = "started"
        BY <2>1 DEF HandOverInv
    <2> QED
        BY <1>0, <1>1, <2>1, <2>2, <2>3, StepsLeftFrame, ModeAssumption DEF StepsLeft
<1>5. CASE ScanGone(s) \/ FinishJob(s) \/ MarkFailed(s) \/ InferenceNotReady(s)
           \/ ExecutionLost(s)
    <2>1. /\ exec[s].at # "idle" \/ Ready(s)
          /\ Return(s) \/ Raise(s)
        BY <1>5 DEF ScanGone, FinishJob, MarkFailed, InferenceNotReady, ExecutionLost
    <2> QED
        BY <1>1, <2>1, EndLeavesFewer, StepsLeftFrame
<1> QED
    BY <1>2, <1>3, <1>4, <1>5 DEF WorkerStep, WorkerFault

LEMMA OthersLeaveNoMore ==
    ASSUME TypeOK, HandOverInv, NEW s \in Scans,
           \/ \E r \in Scans : Request(r) \/ Delete(r)
           \/ ApiCrash \/ NewMonth \/ UNCHANGED vars
    PROVE  StepsLeft(s)' <= StepsLeft(s)
<1>0. /\ job[s].retries \in Nat /\ MaxRetries \in Nat /\ StepsLeft(s) \in Nat
      /\ StepsBehind(exec[s].at) \in Nat
    BY BoundsAssumption, StepsLeftType, StepsBehindType DEF TypeOK, Job, Exec
<1>1. CASE Inline
    <2>1. \/ pc'[s] = pc[s] /\ exec'[s].at = exec[s].at
          \/ pc'[s] = "done"
          \/ pc[s] \notin {"inline", "done"} /\ pc'[s] \notin {"inline", "done"}
        <3>1. CASE \E r \in Scans : Request(r)
            <4>1. PICK r \in Scans : Request(r)
                BY <3>1
            <4>2. exec' = exec
                BY <4>1 DEF Request, EnforceQuota, SaveUpload, RejectUpload, UploadOutage,
                    AcceptPath, RejectPath, InsertScan, RecordCreated, Enqueue, EnqueueError,
                    MarkUnqueued, DatabaseError, work
            <4>3. CASE r = s
                BY <4>1, <4>3
                DEF TypeOK, Request, EnforceQuota, SaveUpload, RejectUpload, UploadOutage,
                    AcceptPath, RejectPath, InsertScan, RecordCreated, Enqueue, EnqueueError,
                    MarkUnqueued, DatabaseError, Goto, Respond
            <4>4. CASE r # s
                BY <4>1, <4>2, <4>4
                DEF TypeOK, Request, EnforceQuota, SaveUpload, RejectUpload, UploadOutage,
                    AcceptPath, RejectPath, InsertScan, RecordCreated, Enqueue, EnqueueError,
                    MarkUnqueued, DatabaseError, Goto, Respond
            <4> QED
                BY <4>3, <4>4
        <3>2. CASE \/ \E r \in Scans : Delete(r)
                   \/ NewMonth \/ UNCHANGED vars
            BY <3>2 DEF Delete, LoadForDelete, DeleteUpload, DeleteRow, DeleteError,
                NewMonth, vars, request, work
        <3>3. CASE ApiCrash
            <4>1. CASE pc[s] \in InFlight
                BY <3>3, <4>1 DEF ApiCrash, Serving
            <4>2. CASE pc[s] \notin InFlight
                <5>1. exec[s].at = "idle"
                    BY <1>1, <4>2 DEF HandOverInv, InFlight
                <5>2. pc'[s] = pc[s] /\ exec'[s] = Idle
                    BY <1>1, <3>3, <4>2 DEF ApiCrash, Serving
                <5> QED
                    BY <5>1, <5>2 DEF Idle
            <4> QED
                BY <4>1, <4>2
        <3> QED
            BY <3>1, <3>2, <3>3
    <2> QED
        BY <1>0, <1>1, <2>1 DEF StepsLeft
<1>2. CASE ~Inline
    <2>1. /\ exec' = exec
          /\ job'[s] = job[s] \/ (job[s].state = "none" /\ job'[s] = NewJob)
        BY <1>2
        DEF TypeOK, Request, EnforceQuota, SaveUpload, RejectUpload, UploadOutage,
            AcceptPath, RejectPath, InsertScan, RecordCreated, Enqueue, EnqueueError,
            MarkUnqueued, DatabaseError, Delete, LoadForDelete, DeleteUpload, DeleteRow,
            DeleteError, ApiCrash, NewMonth, HandOverInv, vars, request, work
    <2>2. CASE job'[s] = job[s]
        BY <1>0, <1>2, <2>1, <2>2 DEF StepsLeft
    <2>3. CASE job[s].state = "none" /\ job'[s] = NewJob
        BY <1>0, <1>2, <2>3 DEF StepsLeft, NewJob
    <2> QED
        BY <2>1, <2>2, <2>3
<1> QED
    BY <1>1, <1>2

(* Whatever is retried, lost, interrupted or raced, the worker and the      *)
(* scheduler take at most 7 * MaxRetries + 7 steps for a scan: each of them *)
(* leaves fewer, and no request, delete or crash adds to them.              *)
THEOREM JobsEnd ==
    Spec => /\ [](\A s \in Scans : StepsLeft(s) \in 0..(7 * MaxRetries + 7))
            /\ [][\A s \in Scans :
                     /\ StepsLeft(s)' <= StepsLeft(s)
                     /\ WorkerStep(s) \/ WorkerFault(s) \/ Requeue(s) =>
                            StepsLeft(s)' < StepsLeft(s)]_vars
<1>1. TypeOK => \A s \in Scans : StepsLeft(s) \in 0..(7 * MaxRetries + 7)
    <2> SUFFICES ASSUME TypeOK, NEW s \in Scans
                 PROVE  StepsLeft(s) \in 0..(7 * MaxRetries + 7)
        OBVIOUS
    <2>1. /\ job[s].retries \in 0..MaxRetries /\ MaxRetries \in Nat
          /\ StepsBehind(exec[s].at) \in 0..5
        BY BoundsAssumption, StepsBehindType DEF TypeOK, Job, Exec
    <2> QED
        BY <2>1, ModeAssumption DEF StepsLeft
<1>2. TypeOK' => (\A s \in Scans : StepsLeft(s) \in Nat)'
    BY StepsLeftType, PTL
<1>3. TypeOK /\ TypeOK' /\ HandOverInv /\ [Next]_vars =>
          [\A s \in Scans :
              /\ StepsLeft(s)' <= StepsLeft(s)
              /\ WorkerStep(s) \/ WorkerFault(s) \/ Requeue(s) =>
                     StepsLeft(s)' < StepsLeft(s)]_vars
    <2> SUFFICES ASSUME TypeOK, TypeOK', HandOverInv, Next, NEW s \in Scans
                 PROVE  /\ StepsLeft(s)' <= StepsLeft(s)
                        /\ WorkerStep(s) \/ WorkerFault(s) \/ Requeue(s) =>
                               StepsLeft(s)' < StepsLeft(s)
        OBVIOUS
    <2>1. WorkerStep(s) \/ WorkerFault(s) \/ Requeue(s) => StepsLeft(s)' < StepsLeft(s)
        BY WorkerLeavesFewer
    <2>2. StepsLeft(s)' <= StepsLeft(s)
        <3>1. StepsLeft(s) \in Nat /\ StepsLeft(s)' \in Nat
            BY StepsLeftType, <1>2
        <3>2. \A m, n \in Nat : m < n \/ m = n => m <= n
            OBVIOUS
        <3>3. CASE \E r \in Scans : WorkerStep(r) \/ WorkerFault(r) \/ Requeue(r)
            <4>1. StepsLeft(s)' < StepsLeft(s) \/ StepsLeft(s)' = StepsLeft(s)
                BY <3>3, WorkerLeavesFewer
            <4> QED
                BY <3>1, <3>2, <4>1
        <3>4. CASE ~\E r \in Scans : WorkerStep(r) \/ WorkerFault(r) \/ Requeue(r)
            BY <3>4, OthersLeaveNoMore DEF Next
        <3> QED
            BY <3>3, <3>4
    <2> QED
        BY <2>1, <2>2
<1>4. OutcomeInv => HandOverInv
    BY DEF OutcomeInv
<1>5. TypeOK /\ [Next]_vars => TypeOK'
    BY NextTypeOK
<1> QED
    BY <1>1, <1>3, <1>4, <1>5, TypeCorrect, OutcomeCorrect, PTL DEF Spec

-----------------------------------------------------------------------------
(* The refinement of ScanContract.                                          *)

(* The client's view of the status and of the report of every scan, and     *)
(* whether all went well so far.                                            *)
ReliableView == faults = 0
StatusView == [s \in Scans |-> row[s].status]
ReportView == {s \in Scans : row[s].report}

(* How a write to one row shows in it.                                       *)
LEMMA ViewOfWrite ==
    ASSUME TypeOK, NEW s \in Scans, NEW r, NEW st,
           row' = [row EXCEPT ![s] = r], r.status = st
    PROVE  /\ StatusView' = [StatusView EXCEPT ![s] = st]
           /\ r.report = TRUE => ReportView' = ReportView \cup {s}
           /\ r.report = FALSE => ReportView' = ReportView \ {s}
           /\ r.report = row[s].report => ReportView' = ReportView
BY DEF TypeOK, StatusView, ReportView

(* A write that keeps status and report does not show.                      *)
LEMMA ViewKept ==
    ASSUME TypeOK, NEW s \in Scans, NEW r, row' = [row EXCEPT ![s] = r],
           r.status = row[s].status, r.report = row[s].report, created' = created,
           faults' = faults
    PROVE  UNCHANGED Contract!vars
<1>1. StatusView' = StatusView
    BY DEF TypeOK, StatusView
<1>2. ReportView' = ReportView
    BY ViewOfWrite
<1> QED
    BY <1>1, <1>2 DEF Contract!vars, StatusView, ReportView

(* A step that leaves the rows and the charges alone shows, if at all, as   *)
(* the first failure.                                                       *)
LEMMA FailureRefines ==
    ASSUME TypeOK, [Next]_vars, UNCHANGED <<row, created>>
    PROVE  [Contract!Next]_(Contract!vars)
<1>1. ReliableView' \in BOOLEAN /\ ReliableView \in BOOLEAN
    BY DEF ReliableView
<1>2. ReliableView' => ReliableView
    <2>1. faults \in Nat /\ faults' \in Nat
        BY NextTypeOK, BoundsAssumption DEF TypeOK
    <2>2. faults' >= faults
        BY FaultsGrow
    <2> QED
        BY <2>1, <2>2 DEF ReliableView
<1>3. CASE ReliableView' = ReliableView
    BY <1>3 DEF Contract!vars, ReliableView
<1>4. CASE ReliableView' # ReliableView
    <2>1. ReliableView' = FALSE
        BY <1>1, <1>2, <1>4
    <2>2. Contract!Break
        BY <2>1 DEF Contract!Break, ReliableView
    <2> QED
        BY <2>2 DEF Contract!Next
<1> QED
    BY <1>3, <1>4

LEMMA RequestRefines ==
    ASSUME TypeOK, SafetyInv, OutcomeInv, NEW s \in Scans, Request(s)
    PROVE  [Contract!Next]_(Contract!vars)
<1>n. [Next]_vars
    BY DEF Next
<1>a. CASE UNCHANGED <<row, created>>
    BY <1>a, <1>n, FailureRefines
<1>b. CASE InsertScan(s)
    <2>1. row' = [row EXCEPT ![s] = Blank("queued")] /\ row[s].status = "none"
        BY <1>b DEF InsertScan, SafetyInv, RequestInv
    <2>2. row[s].report = FALSE
        BY <2>1, <1>b DEF SafetyInv, ChargeInv, TypeOK, Row
    <2>0. PICK r : r = Blank("queued")
        OBVIOUS
    <2>3. r.status = "queued" /\ r.report = row[s].report
        BY <2>0, <2>2 DEF Blank
    <2>4. /\ StatusView' = [StatusView EXCEPT ![s] = "queued"]
          /\ ReportView' = ReportView
        BY <2>0, <2>1, <2>3, ViewOfWrite
    <2>5. Contract!Submit(s)
        BY <1>b, <2>1, <2>4 DEF InsertScan, Contract!Submit, Contract!SetStatus, StatusView, ReportView
    <2> QED
        BY <2>5 DEF Contract!Next
<1>c. CASE RecordCreated(s)
    <2>1. CASE Live(s) /\ s \notin created
        <3>1. Contract!Bill(s)
            BY <1>c, <2>1 DEF RecordCreated, Live, Contract!Bill, Contract!Present
        <3> QED
            BY <3>1 DEF Contract!Next
    <2>2. CASE ~Live(s) \/ s \in created
        BY <1>n, <1>c, <2>2, FailureRefines DEF RecordCreated
    <2> QED
        BY <2>1, <2>2
<1>d. CASE MarkUnqueued(s) /\ Live(s)
    <2>0. PICK r : r = Update(row[s], Blank("queued"), Failed(Blank("queued")))
        OBVIOUS
    <2>1. r.status = "failed" /\ r.report = row[s].report
        BY <2>0 DEF TypeOK, Row, Update, Failed, Blank
    <2>2. row' = [row EXCEPT ![s] = r] /\ created' = created /\ s \in created
        BY <1>d, <2>0 DEF MarkUnqueued, SafetyInv, ChargeInv
    <2>3. faults # 0 /\ faults' = faults
        BY <1>d, BoundsAssumption
        DEF MarkUnqueued, OutcomeInv, HandOverInv, TypeOK
    <2>v. StatusView' = [StatusView EXCEPT ![s] = "failed"] /\ ReportView' = ReportView
        BY <2>1, <2>2, ViewOfWrite
    <2>4. Contract!Fail(s)
        BY <1>d, <2>2, <2>3, <2>v
        DEF Live, Contract!Fail, Contract!Present, Contract!SetStatus, StatusView, ReportView
    <2> QED
        BY <2>4 DEF Contract!Next
<1> QED
    BY <1>a, <1>b, <1>c, <1>d
    DEF Request, EnforceQuota, SaveUpload, RejectUpload, UploadOutage, AcceptPath,
        RejectPath, Enqueue, EnqueueError, MarkUnqueued, DatabaseError, db

LEMMA DeleteRefines ==
    ASSUME TypeOK, SafetyInv, NEW s \in Scans, Delete(s) \/ Requeue(s)
    PROVE  [Contract!Next]_(Contract!vars)
<1>n. [Next]_vars
    BY DEF Next
<1>a. CASE UNCHANGED <<row, created>>
    BY <1>a, <1>n, FailureRefines
<1>b. CASE DeleteRow(s)
    <2>1. Live(s)
        BY <1>b DEF DeleteRow, SafetyInv, DeleteInv
    <2>0. PICK r : r = Blank("deleted")
        OBVIOUS
    <2>2. r.status = "deleted" /\ r.report = FALSE /\ row' = [row EXCEPT ![s] = r]
        BY <1>b, <2>0 DEF DeleteRow, Blank
    <2>3. /\ StatusView' = [StatusView EXCEPT ![s] = "deleted"]
          /\ ReportView' = ReportView \ {s}
        BY <2>2, ViewOfWrite
    <2>4. Contract!Remove(s)
        BY <1>b, <2>1, <2>3
        DEF DeleteRow, Live, Contract!Remove, Contract!Present, Contract!SetStatus, StatusView, ReportView
    <2> QED
        BY <2>4 DEF Contract!Next
<1> QED
    BY <1>a, <1>b DEF Delete, LoadForDelete, DeleteUpload, DeleteError, Requeue, db

LEMMA WorkerRefines ==
    ASSUME TypeOK, SafetyInv, OutcomeInv, NEW s \in Scans, WorkerStep(s) \/ WorkerFault(s)
    PROVE  [Contract!Next]_(Contract!vars)
<1> DEFINE seen == exec[s].seen
<1> DEFINE held == exec[s].held
<1>1. seen \in Row /\ row[s] \in Row /\ held \in Held
    BY DEF TypeOK, Exec
<1>2. exec[s].at # "idle" /\ Live(s) =>
          /\ row[s].stage = seen.stage
          /\ row[s].status # seen.status => row[s].status = "failed" /\ faults # 0
    BY BoundsAssumption DEF OutcomeInv, SessionInv, HandOverInv, TypeOK
<1>3. exec[s].at # "idle" => s \in created
    BY DEF SafetyInv, ChargeInv
<1>n. [Next]_vars
    BY DEF Next
<1>a. CASE UNCHANGED <<row, created>>
    BY <1>a, <1>n, FailureRefines
<1>b. CASE MarkRunning(s) /\ Live(s)
    <2>0. PICK r : r = Update(row[s], seen, Running(seen))
        OBVIOUS
    <2>1. /\ row' = [row EXCEPT ![s] = r] /\ created' = created /\ exec[s].at = "loaded"
          /\ faults' = faults
        BY <1>b, <2>0 DEF MarkRunning
    <2>2. r.report = row[s].report /\ r.status \in {"running", row[s].status}
        BY <1>1, <2>0, UpdateEffect
    <2>3. faults = 0 => row[s].status # "complete"
        BY <1>b, <2>1 DEF OutcomeInv, ReliableInv
    <2>4. CASE r.status = row[s].status
        BY <2>1, <2>2, <2>4, ViewKept
    <2>5. CASE r.status = "running"
        <3>v. /\ StatusView' = [StatusView EXCEPT ![s] = "running"]
              /\ ReportView' = ReportView
            BY <2>1, <2>2, <2>5, ViewOfWrite
        <3>1. Contract!Start(s)
            BY <1>3, <1>b, <2>1, <2>3, <3>v
            DEF Live, Contract!Start, Contract!Present, Contract!SetStatus, StatusView, ReportView
        <3> QED
            BY <3>1 DEF Contract!Next
    <2> QED
        BY <2>2, <2>4, <2>5
<1>c. CASE SaveReport(s) /\ Live(s)
    <2>0. PICK r : r = Update(row[s], seen, Complete(seen))
        OBVIOUS
    <2>1. /\ row' = [row EXCEPT ![s] = r] /\ created' = created
          /\ exec[s].at = "reported" /\ faults' = faults
        BY <1>c, <2>0 DEF SaveReport
    <2>2. seen.status = "running"
        BY <2>1 DEF OutcomeInv, SessionInv
    <2>3. seen.report => row[s].report
        BY <1>c, <2>1 DEF SafetyInv, ReportInv
    <2>4. r.status = "complete"
        BY <1>1, <1>2, <1>c, <2>0, <2>1, <2>2, StageEffect
    <2>5. r.report = TRUE
        <3>1. r.report = (row[s].report \/ ~seen.report)
            BY <1>1, <2>0, UpdateEffect
        <3>2. row[s].report \/ ~seen.report
            BY <2>3
        <3> QED
            BY <3>1, <3>2
    <2>6. row[s].status = "running" \/ (row[s].status = "failed" /\ faults # 0)
        BY <1>2, <1>c, <2>1, <2>2
    <2>v. /\ StatusView' = [StatusView EXCEPT ![s] = "complete"]
          /\ ReportView' = ReportView \cup {s}
        BY <2>1, <2>4, <2>5, ViewOfWrite
    <2>7. Contract!Publish(s)
        BY <1>3, <2>1, <2>6, <2>v
        DEF Contract!Publish, Contract!SetStatus, StatusView, ReportView
    <2> QED
        BY <2>7 DEF Contract!Next
<1>d. CASE MarkFailed(s) /\ Live(s)
    <2>0. PICK r : r = Update(row[s], seen, Failed(Kept(seen, held)))
        OBVIOUS
    <2>1. /\ row' = [row EXCEPT ![s] = r] /\ created' = created
          /\ exec[s].at = "failing" /\ faults' = faults
        BY <1>d, <2>0 DEF MarkFailed
    <2>2. r.status \in {"failed", row[s].status} /\ row[s].report \in BOOLEAN
        BY <1>1, <2>0, UpdateEffect DEF Row
    <2>3. faults = 0 => row[s].status = "running"
        BY <1>d, <2>1 DEF OutcomeInv, ReliableInv
    <2>k. \/ r.report = row[s].report
          \/ r.report = TRUE /\ r.status = "failed" /\ faults # 0
        <3>1. r.report = (row[s].report \/ (held # "nothing" /\ ~seen.report))
            BY <1>1, <2>0, UpdateEffect
        <3>2. held # "nothing" => seen.status = "running" /\ faults > 0
            BY <2>1 DEF SafetyInv, ReportInv, Dirty
        <3>3. seen.status # "failed" => r.status = "failed"
            BY <1>1, <2>0, UpdateEffect
        <3>4. faults > 0 => faults # 0
            BY BoundsAssumption DEF TypeOK
        <3>5. CASE held = "nothing"
            BY <2>2, <3>1, <3>5
        <3>6. CASE held # "nothing"
            <4>1. CASE row[s].report
                BY <3>1, <4>1
            <4>2. CASE ~row[s].report
                BY <2>2, <3>1, <3>2, <3>3, <3>4, <3>6, <4>2 DEF Row
            <4> QED
                BY <4>1, <4>2
        <3> QED
            BY <3>5, <3>6
    <2>4. CASE r.status = row[s].status /\ r.report = row[s].report
        BY <2>1, <2>4, ViewKept
    <2>5. CASE r.status = "failed"
        <3>v. StatusView' = [StatusView EXCEPT ![s] = "failed"]
            BY <2>1, <2>5, ViewOfWrite
        <3>r. ReportView' = ReportView \/ (faults # 0 /\ ReportView' = ReportView \cup {s})
            BY <2>1, <2>5, <2>k, ViewOfWrite
        <3>1. Contract!Fail(s)
            BY <1>3, <1>d, <2>1, <2>3, <3>v, <3>r
            DEF Live, Contract!Fail, Contract!Present, Contract!SetStatus, StatusView, ReportView
        <3> QED
            BY <3>1 DEF Contract!Next
    <2> QED
        BY <2>2, <2>k, <2>4, <2>5
<1> QED
    BY <1>a, <1>b, <1>c, <1>d
    DEF WorkerStep, WorkerFault, LoadScan, ScanGone, MarkRunning, Scan, SaveReport,
        FinishJob, MarkFailed, InferenceNotReady, ScanError, Timeout, ExecutionLost, db

(* What clients see of the handlers, the queue and the workers is what       *)
(* ScanContract promises.                                                   *)
THEOREM ServiceImplementsContract == Spec => ImplementsContract
<1>1. Init => Contract!Init
    BY DEF Init, Blank, Contract!Init
<1>2. TypeOK /\ SafetyInv /\ OutcomeInv /\ [Next]_vars => [Contract!Next]_(Contract!vars)
    <2> SUFFICES ASSUME TypeOK, SafetyInv, OutcomeInv, [Next]_vars
                 PROVE  [Contract!Next]_(Contract!vars)
        OBVIOUS
    <2>1. ASSUME NEW s \in Scans,
                 Request(s) \/ Delete(s) \/ Requeue(s) \/ WorkerStep(s) \/ WorkerFault(s)
          PROVE  [Contract!Next]_(Contract!vars)
        BY <2>1, RequestRefines, DeleteRefines, WorkerRefines
    <2>2. CASE NewMonth \/ ApiCrash \/ UNCHANGED vars
        BY <2>2, FailureRefines DEF NewMonth, ApiCrash, vars, db
    <2> QED
        BY <2>1, <2>2 DEF Next
<1> QED
    BY <1>1, <1>2, TypeCorrect, SafetyCorrect, OutcomeCorrect, PTL
    DEF Spec, ImplementsContract, Contract!Spec
=============================================================================
