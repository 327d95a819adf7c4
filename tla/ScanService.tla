------------------------------ MODULE ScanService ------------------------------
(****************************************************************************)
(* The scan life cycle of the hosted service: the request handlers of       *)
(* api/main.py that create and delete scans, the database rows and usage    *)
(* events they commit, the uploaded objects of api/storage.py, the RQ job   *)
(* of each scan and its execution by api/worker.py.                         *)
(*                                                                          *)
(* A member of Scans is one POST request, the scan row it may create, the   *)
(* object it may upload and the job it may enqueue.  A handler is split at  *)
(* its commits and at its calls to storage and to Redis: those are the      *)
(* points where another handler, the worker or a failure can come between.  *)
(****************************************************************************)
EXTENDS Naturals, FiniteSets

CONSTANTS
    Scans,        \* requests, and the scan, object and job of each
    Orgs,         \* organisations
    OrgOf,        \* the organisation of each request
    FreeOrgs,     \* the organisations with tier "free"
    Limit,        \* free_tier_monthly_scans
    Threads,      \* requests the API serves at once
    Inline,       \* run_jobs_inline: the job runs inside the request
    SchedulerOn,  \* some worker runs the RQ scheduler (as shipped, none does)
    MaxRetries,   \* Retry(max = 2) in the code
    MaxFaults,    \* bound on the failures of a behaviour
    NoPath        \* "no storage path chosen yet"

ASSUME ScansAssumption ==
    /\ IsFiniteSet(Scans)
    /\ NoPath \notin Scans
    /\ OrgOf \in [Scans -> Orgs]
    /\ FreeOrgs \subseteq Orgs
ASSUME BoundsAssumption ==
    /\ Limit \in Nat \ {0}
    /\ Threads \in Nat \ {0}
    /\ MaxRetries \in Nat
    /\ MaxFaults \in Nat
ASSUME ModeAssumption ==
    /\ Inline \in BOOLEAN
    /\ SchedulerOn \in BOOLEAN

VARIABLES
    pc,         \* where the creating request of each scan is
    reply,      \* the status code it ended with ("lost": the process died)
    path,       \* Scan.storage_path
    objects,    \* the objects in the upload store, named by their uploader
    row,        \* the scans table
    created,    \* scans with a committed scan_created usage event
    monthly,    \* those whose event lies in the current month
    completed,  \* number of scan_completed usage events of each scan
    job,        \* the RQ job of each scan
    exec,       \* the execution of that job, with the columns its session
                \* loaded and the changes an error left in it
    del,        \* the delete request on each scan
    faults      \* failures so far

vars == <<pc, reply, path, objects, row, created, monthly, completed, job,
          exec, del, faults>>
db == <<row, created, monthly, completed>>
request == <<pc, reply, path>>
work == <<job, exec>>

-----------------------------------------------------------------------------
(* The columns of a scan row that the handlers write.  "none" and "deleted" *)
(* stand for a row that is not there yet and for one that is there no more. *)
Row == [status : {"none", "queued", "running", "complete", "failed", "deleted"},
        stage  : {"none", "scanning"},
        error  : BOOLEAN,
        report : BOOLEAN]
Blank(status) ==
    [status |-> status, stage |-> "none", error |-> FALSE, report |-> FALSE]
Live(s) == row[s].status \notin {"none", "deleted"}

JobStates == {"none", "queued", "started", "scheduled", "finished", "failed"}
Job == [state : JobStates, retries : 0..MaxRetries]

ExecSteps == {"idle", "loaded", "scanning", "reported", "saved", "failing"}

(* What the session of an interrupted execution still holds uncommitted:    *)
(* the report it set on the row, and the scan_completed event added to it.  *)
Held == {"nothing", "report", "event"}
Exec == [at : ExecSteps, seen : Row, held : Held]
Idle == [at |-> "idle", seen |-> Blank("none"), held |-> "nothing"]

Uncounted == {"checked", "stored", "inserted"}
InFlight == Uncounted \cup {"counted", "unqueued", "inline"}
RequestSteps == InFlight \cup {"idle", "done"}
Replies == {"none", "202", "400", "403", "429", "500", "503", "lost"}

(* A session writes the columns it changed since it loaded the row, and     *)
(* leaves the others as the table has them now.                             *)
Update(now, seen, new) ==
    [status |-> IF new.status = seen.status THEN now.status ELSE new.status,
     stage  |-> IF new.stage  = seen.stage  THEN now.stage  ELSE new.stage,
     error  |-> IF new.error  = seen.error  THEN now.error  ELSE new.error,
     report |-> IF new.report = seen.report THEN now.report ELSE new.report]

(* What execute_scan_job and _enqueue make of a row they hold.              *)
(* The mutants, here and below, are the definition that follows them with   *)
(* one plausible slip; a property is worth stating if one of them breaks it.*)
Running_DropsReport(r) ==
    [status |-> "running", stage |-> "scanning", error |-> r.error, report |-> FALSE]
Running(r) ==
    [status |-> "running", stage |-> "scanning", error |-> r.error, report |-> r.report]
Complete_KeepsStatus(r) ==
    [status |-> r.status, stage |-> "none", error |-> r.error, report |-> TRUE]
Complete(r) ==
    [status |-> "complete", stage |-> "none", error |-> r.error, report |-> TRUE]
Failed_KeepsStage(r) ==
    [status |-> "failed", stage |-> r.stage, error |-> TRUE, report |-> r.report]
Failed(r) ==
    [status |-> "failed", stage |-> "none", error |-> TRUE, report |-> r.report]
Kept(r, held) == [r EXCEPT !.report = @ \/ held # "nothing"]

(* _monthly_usage: the scan_created events of this month.                   *)
EventsOf(o) == {s \in monthly : OrgOf[s] = o}
MonthlyUsage(o) == Cardinality(EventsOf(o))
Serving == {s \in Scans : pc[s] \in InFlight}

Fault == faults < MaxFaults /\ faults' = faults + 1

Init ==
    /\ pc = [s \in Scans |-> "idle"]
    /\ reply = [s \in Scans |-> "none"]
    /\ path = [s \in Scans |-> NoPath]
    /\ objects = {}
    /\ row = [s \in Scans |-> Blank("none")]
    /\ created = {}
    /\ monthly = {}
    /\ completed = [s \in Scans |-> 0]
    /\ job = [s \in Scans |-> [state |-> "none", retries |-> 0]]
    /\ exec = [s \in Scans |-> Idle]
    /\ del = [s \in Scans |-> "idle"]
    /\ faults = 0

-----------------------------------------------------------------------------
(* The creating request: upload_scan and create_scan.                       *)

Goto(s, step) == pc' = [pc EXCEPT ![s] = step] /\ UNCHANGED reply
Respond(s, code) ==
    /\ pc' = [pc EXCEPT ![s] = "done"]
    /\ reply' = [reply EXCEPT ![s] = code]

EnforceQuota_OffByOne(s) ==
    /\ pc[s] = "idle"
    /\ Cardinality(Serving) < Threads
    /\ IF OrgOf[s] \in FreeOrgs /\ MonthlyUsage(OrgOf[s]) > Limit
       THEN Respond(s, "429")
       ELSE Goto(s, "checked")
    /\ UNCHANGED <<path, objects, db, work, del, faults>>

(* _enforce_quota reads the usage; nothing holds the count until the event  *)
(* of this request is committed.                                            *)
EnforceQuota(s) ==
    /\ pc[s] = "idle"
    /\ Cardinality(Serving) < Threads
    /\ IF OrgOf[s] \in FreeOrgs /\ MonthlyUsage(OrgOf[s]) >= Limit
       THEN Respond(s, "429")
       ELSE Goto(s, "checked")
    /\ UNCHANGED <<path, objects, db, work, del, faults>>

(* upload_scan: save_upload stores the object under a fresh name.           *)
SaveUpload(s) ==
    /\ pc[s] = "checked"
    /\ Goto(s, "stored")
    /\ path' = [path EXCEPT ![s] = s]
    /\ objects' = objects \cup {s}
    /\ UNCHANGED <<db, work, del, faults>>

RejectUpload_KeepsPartial(s) ==
    /\ pc[s] = "checked"
    /\ Respond(s, "400")
    /\ objects' = objects \cup {s}
    /\ UNCHANGED <<path, db, work, del, faults>>

(* _validated_chunks refuses an empty, oversized or non-ELF upload.         *)
RejectUpload(s) ==
    /\ pc[s] = "checked"
    /\ Respond(s, "400")
    /\ UNCHANGED <<path, objects, db, work, del, faults>>

(* The store fails during the upload, before or after it kept the object;   *)
(* only ValueError is turned into a reply, so this one ends as a 500.       *)
UploadOutage(s) ==
    /\ pc[s] = "checked"
    /\ Fault
    /\ Respond(s, "500")
    /\ objects' \in {objects, objects \cup {s}}
    /\ UNCHANGED <<path, db, work, del>>

(* create_scan: the client names a path of its organisation: that of an     *)
(* upload made or tried before, or (s itself) one nobody uploaded.  Neither *)
(* the object nor its use by another scan is looked for.                    *)
AcceptPath(s) ==
    /\ pc[s] = "checked"
    /\ \E p \in Scans :
          /\ OrgOf[p] = OrgOf[s]
          /\ p = s \/ pc[p] \notin {"idle", "checked"}
          /\ path' = [path EXCEPT ![s] = p]
    /\ Goto(s, "stored")
    /\ UNCHANGED <<objects, db, work, del, faults>>

(* The path the client names is not one of its organisation.                *)
RejectPath(s) ==
    /\ pc[s] = "checked"
    /\ Respond(s, "403")
    /\ UNCHANGED <<path, objects, db, work, del, faults>>

InsertScan(s) ==
    /\ pc[s] = "stored"
    /\ Goto(s, "inserted")
    /\ row' = [row EXCEPT ![s] = Blank("queued")]
    /\ UNCHANGED <<path, objects, created, monthly, completed, work, del, faults>>

(* refresh, then the scan_created event; when the row was deleted in        *)
(* between, the refresh (or the event's foreign key) fails.                 *)
RecordCreated(s) ==
    /\ pc[s] = "inserted"
    /\ \/ /\ Live(s)
          /\ Goto(s, "counted")
          /\ created' = created \cup {s}
          /\ monthly' = monthly \cup {s}
       \/ /\ ~Live(s)
          /\ Respond(s, "500")
          /\ UNCHANGED <<created, monthly>>
    /\ UNCHANGED <<path, objects, row, completed, work, del, faults>>

NewJob == [state |-> "queued", retries |-> MaxRetries]

Enqueue_BeforeEvent(s) ==
    /\ ~Inline
    /\ pc[s] \in {"inserted", "counted"}
    /\ Respond(s, "202")
    /\ job' = [job EXCEPT ![s] = NewJob]
    /\ UNCHANGED <<path, objects, db, exec, del, faults>>

Enqueue(s) ==
    /\ ~Inline
    /\ pc[s] = "counted"
    /\ Respond(s, "202")
    /\ job' = [job EXCEPT ![s] = NewJob]
    /\ UNCHANGED <<path, objects, db, exec, del, faults>>

(* Redis fails before it has the job, or after: the reply is lost but the   *)
(* job is in the queue.                                                     *)
EnqueueError(s) ==
    /\ ~Inline
    /\ pc[s] = "counted"
    /\ Fault
    /\ Goto(s, "unqueued")
    /\ job' \in {job, [job EXCEPT ![s] = NewJob]}
    /\ UNCHANGED <<path, objects, db, exec, del>>

(* The except branch of _enqueue, through the session that inserted the     *)
(* row: its copy still says queued, so stage is not written.                *)
MarkUnqueued(s) ==
    /\ pc[s] = "unqueued"
    /\ \/ /\ Live(s)
          /\ Respond(s, "503")
          /\ row' = [row EXCEPT ![s] =
                         Update(@, Blank("queued"), Failed(Blank("queued")))]
       \/ /\ ~Live(s)
          /\ Respond(s, "500")
          /\ UNCHANGED row
    /\ UNCHANGED <<path, objects, created, monthly, completed, work, del, faults>>

(* A commit of the request raises.                                          *)
DatabaseError(s) ==
    /\ pc[s] \in {"stored", "inserted", "unqueued"}
    /\ Fault
    /\ Respond(s, "500")
    /\ UNCHANGED <<path, objects, db, work, del>>

(* A new month starts: the events of the last one no longer count.          *)
NewMonth ==
    /\ monthly # {}
    /\ monthly' = {}
    /\ UNCHANGED <<request, objects, row, created, completed, work, del, faults>>

-----------------------------------------------------------------------------
(* delete_scan: load the row, remove the object, remove the row.            *)

LoadForDelete(s) ==
    /\ Live(s)
    /\ del[s] = "idle"
    /\ del' = [del EXCEPT ![s] = "loaded"]
    /\ UNCHANGED <<request, objects, db, work, faults>>

DeleteUpload(s) ==
    /\ del[s] = "loaded"
    /\ objects' = objects \ {path[s]}
    /\ del' = [del EXCEPT ![s] = "unlinked"]
    /\ UNCHANGED <<request, db, work, faults>>

DeleteRow_First(s) ==
    /\ del[s] \in {"loaded", "unlinked"}
    /\ row' = [row EXCEPT ![s] = Blank("deleted")]
    /\ del' = [del EXCEPT ![s] = "idle"]
    /\ UNCHANGED <<request, objects, created, monthly, completed, work, faults>>

DeleteRow(s) ==
    /\ del[s] = "unlinked"
    /\ row' = [row EXCEPT ![s] = Blank("deleted")]
    /\ del' = [del EXCEPT ![s] = "idle"]
    /\ UNCHANGED <<request, objects, created, monthly, completed, work, faults>>

(* The store or the database fails: the request ends with an error.         *)
DeleteError(s) ==
    /\ Fault
    /\ \/ /\ del[s] = "loaded"
          /\ objects' \in {objects, objects \ {path[s]}}
       \/ /\ del[s] = "unlinked"
          /\ UNCHANGED objects
    /\ del' = [del EXCEPT ![s] = "idle"]
    /\ UNCHANGED <<request, db, work>>

-----------------------------------------------------------------------------
(* execute_scan_job, in a worker or inside the request.                     *)

Step(s, at, seen) ==
    exec' = [exec EXCEPT ![s] = [at |-> at, seen |-> seen, held |-> "nothing"]]
Interrupted(s, held) ==
    exec' = [exec EXCEPT ![s] = [at |-> "failing", seen |-> @.seen, held |-> held]]

SetJob(s, state) ==
    job' = [job EXCEPT ![s] = [state |-> state, retries |-> @.retries]]

(* The call returns: RQ finishes the job; inline, the request replies.      *)
Return(s) ==
    IF Inline THEN Respond(s, "202") /\ UNCHANGED job
    ELSE /\ SetJob(s, "finished")
         /\ UNCHANGED <<pc, reply>>

Raise_RetriesForever(s) ==
    IF Inline THEN Respond(s, "500") /\ UNCHANGED job
    ELSE /\ job' = [job EXCEPT ![s] =
                        [state |-> "scheduled", retries |-> @.retries - 1]]
         /\ UNCHANGED <<pc, reply>>

(* The call raises, or its process dies: RQ retries the job after an        *)
(* interval while retries are left; inline, the request ends as a 500.      *)
Raise(s) ==
    IF Inline THEN Respond(s, "500") /\ UNCHANGED job
    ELSE /\ job' = [job EXCEPT ![s] =
                        IF @.retries > 0
                        THEN [state |-> "scheduled", retries |-> @.retries - 1]
                        ELSE [state |-> "failed", retries |-> 0]]
         /\ UNCHANGED <<pc, reply>>

(* The scheduler queues a job whose interval has passed.                    *)
Requeue(s) ==
    /\ SchedulerOn
    /\ job[s].state = "scheduled"
    /\ SetJob(s, "queued")
    /\ UNCHANGED <<request, objects, db, exec, del, faults>>

Ready(s) == IF Inline THEN pc[s] = "counted" ELSE job[s].state = "queued"

(* session.get finds the row and the execution goes on with its columns.    *)
LoadScan(s) ==
    /\ Ready(s)
    /\ Live(s)
    /\ Step(s, "loaded", row[s])
    /\ IF Inline THEN Goto(s, "inline") /\ UNCHANGED job
       ELSE /\ SetJob(s, "started")
            /\ UNCHANGED <<pc, reply>>
    /\ UNCHANGED <<path, objects, db, del, faults>>

(* session.get returns None: the scan was deleted before its job ran.       *)
ScanGone(s) ==
    /\ Ready(s)
    /\ ~Live(s)
    /\ Return(s)
    /\ UNCHANGED <<path, objects, db, exec, del, faults>>

(* require_inference_ready raises before the row is read.                   *)
InferenceNotReady(s) ==
    /\ Ready(s)
    /\ Fault
    /\ Raise(s)
    /\ UNCHANGED <<path, objects, db, exec, del>>

(* The first commit.  A session whose copy is running already has nothing   *)
(* to write; otherwise an UPDATE of a deleted row raises.                   *)
MarkRunning(s) ==
    LET seen == exec[s].seen IN
    /\ exec[s].at = "loaded"
    /\ \/ /\ Live(s)
          /\ row' = [row EXCEPT ![s] = Update(@, seen, Running(seen))]
          /\ Step(s, "scanning", Running(seen))
       \/ /\ ~Live(s)
          /\ Step(s, IF seen = Running(seen) THEN "scanning" ELSE "failing", seen)
          /\ UNCHANGED row
    /\ UNCHANGED <<request, objects, created, monthly, completed, job, del, faults>>

Scan_ByOwnName(s) ==
    /\ exec[s].at = "scanning"
    /\ Step(s, IF s \in objects THEN "reported" ELSE "failing", exec[s].seen)
    /\ UNCHANGED <<request, objects, db, job, del, faults>>

(* scan_input reads the object and run_scan_report analyses it.             *)
Scan(s) ==
    /\ exec[s].at = "scanning"
    /\ Step(s, IF path[s] \in objects THEN "reported" ELSE "failing", exec[s].seen)
    /\ UNCHANGED <<request, objects, db, job, del, faults>>

(* Reading the object or analysing it raises; or, with the report already   *)
(* set on the row, report_to_cbom or inference_metadata does.               *)
ScanError(s) ==
    /\ Fault
    /\ \/ exec[s].at = "scanning" /\ Interrupted(s, "nothing")
       \/ exec[s].at = "reported" /\ Interrupted(s, "report")
    /\ UNCHANGED <<request, objects, db, job, del>>

(* The second commit: report, status and scan_completed event, or none of   *)
(* them when the row is gone: the flush fails and the session is rolled     *)
(* back.                                                                    *)
SaveReport(s) ==
    LET seen == exec[s].seen IN
    /\ exec[s].at = "reported"
    /\ \/ /\ Live(s)
          /\ row' = [row EXCEPT ![s] = Update(@, seen, Complete(seen))]
          /\ completed' = [completed EXCEPT ![s] = @ + 1]
          /\ Step(s, "saved", Complete(seen))
       \/ /\ ~Live(s)
          /\ Step(s, "failing", seen)
          /\ UNCHANGED <<row, completed>>
    /\ UNCHANGED <<request, objects, created, monthly, job, del, faults>>

FinishJob(s) ==
    /\ exec[s].at = "saved"
    /\ Step(s, "idle", Blank("none"))
    /\ Return(s)
    /\ UNCHANGED <<path, objects, db, del, faults>>

(* RQ's alarm raises JobTimeoutException wherever the job is; it is armed   *)
(* once per execution and until the function has returned.  Between the     *)
(* assignment of the report and the commit it leaves the session dirty.     *)
Timeout(s) ==
    /\ ~Inline
    /\ Fault
    /\ \/ exec[s].at \in {"loaded", "scanning", "saved"} /\ Interrupted(s, "nothing")
       \/ exec[s].at = "reported" /\ \E held \in {"report", "event"} : Interrupted(s, held)
    /\ UNCHANGED <<request, objects, db, job, del>>

MarkFailed_NoCommit(s) ==
    /\ exec[s].at = "failing"
    /\ Step(s, "idle", Blank("none"))
    /\ Raise(s)
    /\ UNCHANGED <<path, objects, db, del, faults>>
MarkFailed_Upserts(s) ==
    LET seen == exec[s].seen IN
    /\ exec[s].at = "failing"
    /\ row' = [row EXCEPT ![s] = Update(@, seen, Failed(Kept(seen, exec[s].held)))]
    /\ Step(s, "idle", Blank("none"))
    /\ Raise(s)
    /\ UNCHANGED <<path, objects, created, monthly, completed, del, faults>>
MarkFailed_Swallows(s) ==
    LET seen == exec[s].seen IN
    /\ exec[s].at = "failing"
    /\ IF Live(s)
       THEN row' = [row EXCEPT ![s] = Update(@, seen, Failed(Kept(seen, exec[s].held)))]
       ELSE UNCHANGED row
    /\ Step(s, "idle", Blank("none"))
    /\ Return(s)
    /\ UNCHANGED <<path, objects, created, monthly, completed, del, faults>>
MarkFailed_RefreshesRow(s) ==
    LET seen == exec[s].seen IN
    /\ exec[s].at = "failing"
    /\ IF Live(s)
       THEN /\ row' = [row EXCEPT ![s] = Update(@, seen, Failed(seen))]
            /\ completed' = [completed EXCEPT ![s] = IF exec[s].held = "event" THEN @ + 1 ELSE @]
       ELSE UNCHANGED <<row, completed>>
    /\ Step(s, "idle", Blank("none"))
    /\ Raise(s)
    /\ UNCHANGED <<path, objects, created, monthly, del, faults>>

(* The except branch: mark the row failed and raise again.  Nothing rolls   *)
(* the session back first, so its commit also writes the report, and adds   *)
(* the event, that the error left in it.  A session whose flush failed, or  *)
(* whose row is gone, cannot commit and changes nothing.                    *)
MarkFailed(s) ==
    LET seen == exec[s].seen
        held == exec[s].held
    IN
    /\ exec[s].at = "failing"
    /\ IF Live(s)
       THEN /\ row' = [row EXCEPT ![s] = Update(@, seen, Failed(Kept(seen, held)))]
            /\ completed' = [completed EXCEPT ![s] = IF held = "event" THEN @ + 1 ELSE @]
       ELSE UNCHANGED <<row, completed>>
    /\ Step(s, "idle", Blank("none"))
    /\ Raise(s)
    /\ UNCHANGED <<path, objects, created, monthly, del, faults>>

(* The process running the job dies, the database fails under it, or an     *)
(* alarm breaks a commit off: no further commit of this execution happens.  *)
ExecutionLost(s) ==
    /\ exec[s].at # "idle"
    /\ Fault
    /\ Step(s, "idle", Blank("none"))
    /\ Raise(s)
    /\ UNCHANGED <<path, objects, db, del>>

-----------------------------------------------------------------------------
(* The API process dies with every request and delete it serves, and with   *)
(* the executions it runs inline.                                           *)
ApiCrash ==
    /\ Serving # {} \/ \E s \in Scans : del[s] # "idle"
    /\ Fault
    /\ pc' = [s \in Scans |-> IF s \in Serving THEN "done" ELSE pc[s]]
    /\ reply' = [s \in Scans |-> IF s \in Serving THEN "lost" ELSE reply[s]]
    /\ del' = [s \in Scans |-> "idle"]
    /\ exec' = IF Inline THEN [s \in Scans |-> Idle] ELSE exec
    /\ UNCHANGED <<path, objects, db, job>>

Request(s) ==
    \/ EnforceQuota(s)
    \/ SaveUpload(s)
    \/ RejectUpload(s)
    \/ UploadOutage(s)
    \/ AcceptPath(s)
    \/ RejectPath(s)
    \/ InsertScan(s)
    \/ RecordCreated(s)
    \/ Enqueue(s)
    \/ EnqueueError(s)
    \/ MarkUnqueued(s)
    \/ DatabaseError(s)

Delete(s) ==
    \/ LoadForDelete(s)
    \/ DeleteUpload(s)
    \/ DeleteRow(s)
    \/ DeleteError(s)

(* What a live worker does by itself, failures aside.                       *)
WorkerStep(s) ==
    \/ LoadScan(s)
    \/ ScanGone(s)
    \/ MarkRunning(s)
    \/ Scan(s)
    \/ SaveReport(s)
    \/ FinishJob(s)
    \/ MarkFailed(s)

WorkerFault(s) ==
    \/ InferenceNotReady(s)
    \/ ScanError(s)
    \/ Timeout(s)
    \/ ExecutionLost(s)

Next ==
    \/ \E s \in Scans : Request(s) \/ Delete(s) \/ Requeue(s)
                        \/ WorkerStep(s) \/ WorkerFault(s)
    \/ NewMonth
    \/ ApiCrash

Spec == Init /\ [][Next]_vars

(* Workers keep taking jobs and finish what they took.  Clients and         *)
(* requests owe nothing, and nor does the scheduler: worker.Dockerfile      *)
(* starts "rq worker" without --with-scheduler.                             *)
FairSpec == Spec /\ \A s \in Scans : WF_vars(WorkerStep(s))

-----------------------------------------------------------------------------
TypeOK ==
    /\ pc \in [Scans -> RequestSteps]
    /\ reply \in [Scans -> Replies]
    /\ path \in [Scans -> Scans \cup {NoPath}]
    /\ objects \subseteq Scans
    /\ row \in [Scans -> Row]
    /\ created \subseteq Scans
    /\ monthly \subseteq created
    /\ completed \in [Scans -> Nat]
    /\ job \in [Scans -> Job]
    /\ exec \in [Scans -> Exec]
    /\ del \in [Scans -> {"idle", "loaded", "unlinked"}]
    /\ faults \in 0..MaxFaults

(* An organisation on the free tier is charged for less than Limit scans a  *)
(* month plus one per request served at the same time: each of them may     *)
(* pass the check before another one's event is counted.                    *)
QuotaOvershoot ==
    \A o \in FreeOrgs : MonthlyUsage(o) < Limit + Threads

(* Nothing works for a scan, and no report of it exists, without the usage  *)
(* event that charges its organisation; deleting the scan does not undo it. *)
ChargedBeforeWork ==
    \A s \in Scans :
        (job[s].state # "none" \/ exec[s].at # "idle" \/ row[s].report) => s \in created

(* The report of a scan, its status and the scan_completed events it is     *)
(* counted by agree, whatever retries, timeouts and failed commits came in  *)
(* between: a counted scan has its report, a complete one has its event.  A *)
(* report without an event was left behind by an attempt that failed with   *)
(* the report already in its session, and its scan is not shown complete.   *)
(* A scan is counted again only after a failure, and never more often than  *)
(* its job has attempts.                                                    *)
EventsMatchReports ==
    \A s \in Scans :
        /\ Live(s) /\ completed[s] > 0 => row[s].report
        /\ row[s].status = "complete" => row[s].report /\ completed[s] > 0
        /\ row[s].report /\ completed[s] = 0 =>
               faults > 0 /\ row[s].status \in {"running", "failed"}
        /\ completed[s] <= 1 + faults
        /\ completed[s] <= 1 + (IF Inline THEN 0 ELSE MaxRetries)

(* "stage" is set on a running scan only; the one exception is a scan whose *)
(* request got a 503 although its job was queued and has started.           *)
StageMeansRunning ==
    \A s \in Scans : row[s].stage = "scanning" =>
        \/ row[s].status = "running"
        \/ row[s].status = "failed" /\ reply[s] = "503"

(* A deleted scan leaves no object behind: delete_scan removes the object   *)
(* before the row, and no later step of any handler brings it back.         *)
DeletedLeavesNoObject ==
    \A s \in Scans : row[s].status = "deleted" => path[s] \notin objects

(* An object no row names once its upload has ended belongs to a request    *)
(* that died or failed between the upload and the insert.                   *)
OrphanObject(p) ==
    /\ p \in objects
    /\ pc[p] = "done"
    /\ \A s \in Scans : Live(s) => path[s] # p
OrphansComeFromFailures ==
    \A p \in Scans : OrphanObject(p) =>
        row[p].status = "none" /\ reply[p] \in {"500", "lost"}

(* A row is left "queued" or "running" with nothing that will work on it    *)
(* only if its request died or failed before the queue had the job, or if   *)
(* an attempt of its job was itself lost: the last one, or one whose retry  *)
(* waits for a scheduler.                                                   *)
Pending(s) ==
    \/ pc[s] \in InFlight
    \/ exec[s].at # "idle"
    \/ job[s].state = "queued"
StrandedOnlyByLoss ==
    \A s \in Scans :
        (row[s].status \in {"queued", "running"} /\ ~Pending(s)) =>
            \/ reply[s] \in {"500", "lost"}
            \/ job[s].state \in {"failed", "scheduled"} /\ faults > 0

(* While nothing fails in the environment, a scan fails for one reason: its *)
(* object was never there, or went with another scan of the same path.      *)
FailsForWantOfObject ==
    \A s \in Scans : (row[s].status = "failed" /\ faults = 0) => path[s] \notin objects

(* Inline, the 202 is sent after the job: it means the scan is complete,    *)
(* unless it was deleted meanwhile; a scan that failed got a 500.           *)
InlineReplyMeansComplete ==
    Inline => \A s \in Scans :
        reply[s] = "202" => row[s].status \in {"complete", "deleted"}

(* DELETE is final: no execution that still holds the scan in its session   *)
(* brings the row back or changes it.                                       *)
DeletedIsFinal ==
    [][\A s \in Scans : row[s].status = "deleted" => row'[s] = row[s]]_row

(* What API_REFERENCE.md says of GET .../findings: the report is returned   *)
(* after completion, that is until the scan is deleted.                     *)
FindingsStayReadable ==
    [][\A s \in Scans : row[s].status = "complete" =>
                             row'[s].status \in {"complete", "deleted"}]_row

(* The handlers and the worker together implement the client's view.        *)
Contract == INSTANCE ScanContract WITH
    reliable <- (faults = 0),
    status <- [s \in Scans |-> row[s].status],
    report <- {s \in Scans : row[s].report},
    billed <- created
ImplementsContract == Contract!Spec

(* An accepted scan whose object stays in the store ends up complete or     *)
(* failed (or deleted) for good, with one exception: after an attempt that  *)
(* failed or was lost, its job waits for a scheduler that nobody runs.      *)
Settled(s) == row[s].status \in {"complete", "failed", "deleted"}
LeftToScheduler(s) == job[s].state = "scheduled" /\ faults > 0
ScansSettle ==
    \A s \in Scans :
        <>[](job[s].state # "none" /\ path[s] \in objects) =>
            <>[]Settled(s) \/ <>[]LeftToScheduler(s)
=============================================================================
