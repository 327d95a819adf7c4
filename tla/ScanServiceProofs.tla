--------------------------- MODULE ScanServiceProofs ---------------------------
(****************************************************************************)
(* Proofs about ScanService for every set of scans and organisations, every *)
(* quota, number of threads, retries and failures, queued or inline.        *)
(****************************************************************************)
EXTENDS ScanService, FiniteSetTheorems, TLAPS

(* Every row a session can hold or write has the columns of a row.          *)
LEMMA RowTypes ==
    /\ \A st \in {"none", "queued", "running", "complete", "failed", "deleted"} :
          Blank(st) \in Row
    /\ \A r \in Row : Running(r) \in Row /\ Complete(r) \in Row /\ Failed(r) \in Row
    /\ \A now, seen, new \in Row : Update(now, seen, new) \in Row
    /\ \A r \in Row, held \in Held : Kept(r, held) \in Row
BY DEF Row, Blank, Running, Complete, Failed, Update, Kept

LEMMA InitTypeOK == Init => TypeOK
<1> SUFFICES ASSUME Init PROVE TypeOK
    OBVIOUS
<1>1. Blank("none") \in Row
    BY RowTypes
<1>2. Idle \in Exec
    BY <1>1 DEF Idle, Exec, ExecSteps, Held
<1>3. [state |-> "none", retries |-> 0] \in Job
    BY BoundsAssumption DEF Job, JobStates
<1>4. 0 \in 0..MaxFaults
    BY BoundsAssumption
<1> QED
    BY <1>1, <1>2, <1>3, <1>4 DEF Init, TypeOK, RequestSteps, Replies

(* The steps of the creating request.                                       *)
LEMMA RequestTypeOK ==
    ASSUME TypeOK, NEW s \in Scans, Request(s)
    PROVE  TypeOK'
<1>1. /\ Blank("queued") \in Row
      /\ Update(row[s], Blank("queued"), Failed(Blank("queued"))) \in Row
    BY RowTypes DEF TypeOK
<1>2. NewJob \in Job
    BY BoundsAssumption DEF NewJob, Job, JobStates
<1>3. Fault => faults' \in 0..MaxFaults
    BY BoundsAssumption DEF Fault, TypeOK
<1> USE DEF TypeOK, Goto, Respond, RequestSteps, InFlight, Uncounted, Replies,
            db, work
<1>a. CASE EnforceQuota(s)
    BY <1>a DEF EnforceQuota
<1>b. CASE SaveUpload(s)
    BY <1>b DEF SaveUpload
<1>c. CASE RejectUpload(s)
    BY <1>c DEF RejectUpload
<1>d. CASE UploadOutage(s)
    BY <1>3, <1>d DEF UploadOutage
<1>e. CASE AcceptPath(s)
    BY <1>e DEF AcceptPath
<1>f. CASE RejectPath(s)
    BY <1>f DEF RejectPath
<1>g. CASE InsertScan(s)
    BY <1>1, <1>g DEF InsertScan
<1>h. CASE RecordCreated(s)
    BY <1>h DEF RecordCreated
<1>i. CASE Enqueue(s)
    BY <1>2, <1>i DEF Enqueue
<1>j. CASE EnqueueError(s)
    BY <1>2, <1>3, <1>j DEF EnqueueError
<1>k. CASE MarkUnqueued(s)
    BY <1>1, <1>k DEF MarkUnqueued
<1>l. CASE DatabaseError(s)
    BY <1>3, <1>l DEF DatabaseError
<1> QED
    BY <1>a, <1>b, <1>c, <1>d, <1>e, <1>f, <1>g, <1>h, <1>i, <1>j, <1>k, <1>l
    DEF Request

LEMMA SetJobType ==
    ASSUME TypeOK, NEW s \in Scans, NEW state \in JobStates, SetJob(s, state)
    PROVE  job' \in [Scans -> Job]
BY DEF TypeOK, SetJob, Job

(* The steps of a delete, of the scheduler and of the execution of a job.   *)
LEMMA ReturnTypeOK ==
    ASSUME TypeOK, NEW s \in Scans, Return(s) \/ Raise(s)
    PROVE  /\ pc' \in [Scans -> RequestSteps]
           /\ reply' \in [Scans -> Replies]
           /\ job' \in [Scans -> Job]
<1>1. Return(s) => job' \in [Scans -> Job]
    BY SetJobType DEF Return, TypeOK, JobStates
<1>2. Raise(s) => job' \in [Scans -> Job]
    BY BoundsAssumption DEF Raise, TypeOK, Job, JobStates
<1> QED
    BY <1>1, <1>2 DEF TypeOK, Return, Raise, Respond, RequestSteps, Replies

LEMMA DeleteTypeOK ==
    ASSUME TypeOK, NEW s \in Scans, Delete(s) \/ Requeue(s)
    PROVE  TypeOK'
<1>1. Blank("deleted") \in Row
    BY RowTypes
<1>2. Fault => faults' \in 0..MaxFaults
    BY BoundsAssumption DEF Fault, TypeOK
<1>3. Requeue(s) => job' \in [Scans -> Job]
    BY SetJobType DEF Requeue, JobStates
<1> QED
    BY <1>1, <1>2, <1>3
    DEF TypeOK, Delete, LoadForDelete, DeleteUpload, DeleteRow, DeleteError, Requeue,
        request, db, work

LEMMA WorkerTypeOK ==
    ASSUME TypeOK, NEW s \in Scans, WorkerStep(s) \/ WorkerFault(s)
    PROVE  TypeOK'
<1> DEFINE seen == exec[s].seen
<1>1. exec[s] \in Exec /\ seen \in Row /\ exec[s].held \in Held
    BY DEF TypeOK, Exec
<1>2. /\ Running(seen) \in Row /\ Complete(seen) \in Row
      /\ Failed(Kept(seen, exec[s].held)) \in Row
      /\ \A new \in Row : Update(row[s], seen, new) \in Row
    BY <1>1, RowTypes DEF TypeOK
<1>3. \A at \in ExecSteps, r \in Row : Step(s, at, r) => exec' \in [Scans -> Exec]
    BY DEF TypeOK, Step, Exec, Held
<1>6. \A held \in Held : Interrupted(s, held) => exec' \in [Scans -> Exec]
    BY <1>1 DEF TypeOK, Interrupted, Exec, ExecSteps, seen
<1>4. Blank("none") \in Row
    BY RowTypes
<1>5. Fault => faults' \in 0..MaxFaults
    BY BoundsAssumption DEF Fault, TypeOK
<1> HIDE DEF seen
<1>a. CASE LoadScan(s)
    <2>1. exec' \in [Scans -> Exec]
        BY <1>a, <1>3 DEF LoadScan, TypeOK, ExecSteps
    <2>2. job' \in [Scans -> Job]
        BY <1>a, SetJobType DEF LoadScan, TypeOK, JobStates
    <2>3. pc' \in [Scans -> RequestSteps] /\ reply' \in [Scans -> Replies]
        BY <1>a, ModeAssumption DEF LoadScan, TypeOK, Goto, RequestSteps, InFlight
    <2> QED
        BY <1>a, <2>1, <2>2, <2>3 DEF LoadScan, TypeOK, db
<1>b. CASE ScanGone(s)
    BY <1>b, ReturnTypeOK DEF ScanGone, TypeOK, db
<1>c. CASE MarkRunning(s)
    <2>1. exec' \in [Scans -> Exec]
        BY <1>c, <1>1, <1>2, <1>3 DEF MarkRunning, ExecSteps, seen
    <2>2. row' \in [Scans -> Row]
        BY <1>c, <1>2 DEF MarkRunning, TypeOK, seen
    <2> QED
        BY <1>c, <2>1, <2>2 DEF MarkRunning, TypeOK, request
<1>d. CASE Scan(s)
    <2>1. exec' \in [Scans -> Exec]
        BY <1>d, <1>1, <1>3 DEF Scan, ExecSteps, seen
    <2> QED
        BY <1>d, <2>1 DEF Scan, TypeOK, request, db
<1>e. CASE SaveReport(s)
    <2>1. exec' \in [Scans -> Exec]
        BY <1>e, <1>1, <1>2, <1>3 DEF SaveReport, ExecSteps, seen
    <2>2. row' \in [Scans -> Row] /\ completed' \in [Scans -> Nat]
        BY <1>e, <1>2 DEF SaveReport, TypeOK, seen
    <2> QED
        BY <1>e, <2>1, <2>2 DEF SaveReport, TypeOK, request
<1>f. CASE FinishJob(s)
    <2>1. exec' \in [Scans -> Exec]
        BY <1>f, <1>3, <1>4 DEF FinishJob, ExecSteps
    <2> QED
        BY <1>f, <2>1, ReturnTypeOK DEF FinishJob, TypeOK, db
<1>g. CASE MarkFailed(s)
    <2>1. exec' \in [Scans -> Exec]
        BY <1>g, <1>3, <1>4 DEF MarkFailed, ExecSteps
    <2>2. row' \in [Scans -> Row] /\ completed' \in [Scans -> Nat]
        BY <1>g, <1>2 DEF MarkFailed, TypeOK, seen
    <2> QED
        BY <1>g, <2>1, <2>2, ReturnTypeOK DEF MarkFailed, TypeOK
<1>h. CASE InferenceNotReady(s)
    BY <1>h, <1>5, ReturnTypeOK DEF InferenceNotReady, TypeOK, db
<1>i. CASE ScanError(s) \/ Timeout(s)
    <2>1. exec' \in [Scans -> Exec]
        BY <1>i, <1>6 DEF ScanError, Timeout, Held
    <2> QED
        BY <1>i, <1>5, <2>1 DEF ScanError, Timeout, TypeOK, request, db
<1>j. CASE ExecutionLost(s)
    <2>1. exec' \in [Scans -> Exec]
        BY <1>j, <1>3, <1>4 DEF ExecutionLost, ExecSteps
    <2> QED
        BY <1>j, <1>5, <2>1, ReturnTypeOK DEF ExecutionLost, TypeOK, db
<1> QED
    BY <1>a, <1>b, <1>c, <1>d, <1>e, <1>f, <1>g, <1>h, <1>i, <1>j
    DEF WorkerStep, WorkerFault

LEMMA CrashTypeOK ==
    ASSUME TypeOK, ApiCrash
    PROVE  TypeOK'
<1>1. Idle \in Exec
    BY RowTypes DEF Idle, Exec, ExecSteps, Held
<1>2. faults' \in 0..MaxFaults
    BY BoundsAssumption DEF ApiCrash, Fault, TypeOK
<1>3. /\ pc' \in [Scans -> RequestSteps]
      /\ reply' \in [Scans -> Replies]
    BY DEF ApiCrash, TypeOK, RequestSteps, Replies
<1> QED
    BY <1>1, <1>2, <1>3 DEF ApiCrash, TypeOK, db

LEMMA NextTypeOK == TypeOK /\ [Next]_vars => TypeOK'
<1> SUFFICES ASSUME TypeOK, [Next]_vars PROVE TypeOK'
    OBVIOUS
<1>1. ASSUME NEW s \in Scans,
             Request(s) \/ Delete(s) \/ Requeue(s) \/ WorkerStep(s) \/ WorkerFault(s)
      PROVE  TypeOK'
    BY <1>1, RequestTypeOK, DeleteTypeOK, WorkerTypeOK
<1>2. CASE NewMonth
    BY <1>2 DEF NewMonth, TypeOK, request, work
<1>3. CASE ApiCrash
    BY <1>3, CrashTypeOK
<1>4. CASE UNCHANGED vars
    BY <1>4 DEF vars, TypeOK
<1> QED
    BY <1>1, <1>2, <1>3, <1>4 DEF Next

(* Every state the service reaches is one its types allow.                  *)
THEOREM TypeCorrect == Spec => []TypeOK
<1>1. TypeOK /\ [Next]_vars => TypeOK'
    BY NextTypeOK
<1> QED
    BY InitTypeOK, <1>1, PTL DEF Spec

-----------------------------------------------------------------------------
(* The quota.  The requests that passed the check and are not counted yet   *)
(* must be added to the usage to make the bound inductive: each was let in  *)
(* while the usage was below Limit, and at most Threads are there at once.  *)
UncountedOf(o) == {s \in Scans : pc[s] \in Uncounted /\ OrgOf[s] = o}
QuotaInv ==
    /\ Cardinality(Serving) <= Threads
    /\ \A o \in FreeOrgs :
          MonthlyUsage(o) + Cardinality(UncountedOf(o)) < Limit + Threads

(* A request passes the quota check.                                        *)
Admit(s) ==
    /\ pc[s] = "idle"
    /\ Cardinality(Serving) < Threads
    /\ OrgOf[s] \in FreeOrgs => MonthlyUsage(OrgOf[s]) < Limit
    /\ pc' = [pc EXCEPT ![s] = "checked"]
    /\ monthly' = monthly
(* The event of a request is committed.                                     *)
Charge(s) ==
    /\ pc[s] = "inserted"
    /\ pc' = [pc EXCEPT ![s] = "counted"]
    /\ monthly' = monthly \cup {s}
(* No request starts to be served, or counts as uncounted or as charged,    *)
(* that did not before.                                                     *)
Calm ==
    /\ \A s \in Scans : pc'[s] \in InFlight => pc[s] \in InFlight
    /\ \A s \in Scans : pc'[s] \in Uncounted => pc[s] \in Uncounted
    /\ monthly' \subseteq monthly

LEMMA QuotaShape ==
    ASSUME TypeOK, [Next]_vars
    PROVE  (\E s \in Scans : Admit(s) \/ Charge(s)) \/ Calm
<1> USE DEF Goto, Respond, db, request
<1>1. ASSUME NEW s \in Scans, EnforceQuota(s)
      PROVE  Admit(s) \/ Calm
    <2>1. CASE OrgOf[s] \in FreeOrgs /\ MonthlyUsage(OrgOf[s]) >= Limit
        BY <1>1, <2>1 DEF EnforceQuota, Calm, TypeOK, InFlight, Uncounted
    <2>2. CASE ~(OrgOf[s] \in FreeOrgs /\ MonthlyUsage(OrgOf[s]) >= Limit)
        <3>1. OrgOf[s] \in FreeOrgs => MonthlyUsage(OrgOf[s]) < Limit
            <4>1. IsFiniteSet(EventsOf(OrgOf[s]))
                BY ScansAssumption, FS_Subset DEF EventsOf, TypeOK
            <4>2. MonthlyUsage(OrgOf[s]) \in Nat
                BY <4>1, FS_CardinalityType DEF MonthlyUsage
            <4> QED
                BY <2>2, <4>2, BoundsAssumption
        <3> QED
            BY <1>1, <2>2, <3>1 DEF EnforceQuota, Admit
    <2> QED
        BY <2>1, <2>2
<1>2. ASSUME NEW s \in Scans, RecordCreated(s)
      PROVE  Charge(s) \/ Calm
    BY <1>2 DEF RecordCreated, Charge, Calm, TypeOK, InFlight, Uncounted
<1>3. ASSUME NEW s \in Scans, Request(s), ~EnforceQuota(s), ~RecordCreated(s)
      PROVE  Calm
    BY <1>3 DEF Request, SaveUpload, RejectUpload, UploadOutage, AcceptPath, RejectPath,
        InsertScan, Enqueue, EnqueueError, MarkUnqueued, DatabaseError,
        Calm, TypeOK, InFlight, Uncounted
<1>4. ASSUME NEW s \in Scans, Delete(s) \/ Requeue(s)
      PROVE  Calm
    BY <1>4 DEF Delete, LoadForDelete, DeleteUpload, DeleteRow, DeleteError, Requeue, Calm
<1>5. ASSUME NEW s \in Scans, WorkerStep(s) \/ WorkerFault(s)
      PROVE  Calm
    BY <1>5, ModeAssumption
    DEF WorkerStep, WorkerFault, LoadScan, ScanGone, MarkRunning, Scan, SaveReport,
        FinishJob, MarkFailed, InferenceNotReady, ScanError, Timeout, ExecutionLost,
        Ready, Return, Raise, Calm, TypeOK, InFlight, Uncounted
<1>6. NewMonth \/ ApiCrash \/ UNCHANGED vars => Calm
    BY DEF NewMonth, ApiCrash, vars, Calm, TypeOK, Serving, InFlight, Uncounted
<1> QED
    BY <1>1, <1>2, <1>3, <1>4, <1>5, <1>6 DEF Next

LEMMA QuotaFinite ==
    ASSUME TypeOK
    PROVE  /\ IsFiniteSet(Serving) /\ Cardinality(Serving) \in Nat
           /\ \A o : /\ IsFiniteSet(EventsOf(o)) /\ MonthlyUsage(o) \in Nat
                     /\ IsFiniteSet(UncountedOf(o))
                     /\ Cardinality(UncountedOf(o)) \in Nat
                     /\ Cardinality(UncountedOf(o)) <= Cardinality(Serving)
<1>1. IsFiniteSet(Serving)
    BY ScansAssumption, FS_Subset DEF Serving
<1>2. ASSUME NEW o
      PROVE  IsFiniteSet(EventsOf(o)) /\ UncountedOf(o) \subseteq Serving
    <2>1. EventsOf(o) \subseteq Scans /\ UncountedOf(o) \subseteq Serving
        BY DEF EventsOf, TypeOK, UncountedOf, Serving, InFlight
    <2> QED
        BY <2>1, ScansAssumption, FS_Subset
<1> QED
    BY <1>1, <1>2, FS_CardinalityType, FS_Subset DEF MonthlyUsage

LEMMA NextQuota ==
    ASSUME TypeOK, QuotaInv, [Next]_vars
    PROVE  QuotaInv'
<1>t. TypeOK'
    BY NextTypeOK
<1>f. /\ IsFiniteSet(Serving') /\ Cardinality(Serving') \in Nat
      /\ \A o : /\ IsFiniteSet(EventsOf(o)') /\ MonthlyUsage(o)' \in Nat
                /\ IsFiniteSet(UncountedOf(o)')
                /\ Cardinality(UncountedOf(o)') \in Nat
                /\ Cardinality(UncountedOf(o)') <= Cardinality(Serving')
    <2>1. IsFiniteSet(Serving')
        BY ScansAssumption, FS_Subset DEF Serving
    <2>2. ASSUME NEW o
          PROVE  IsFiniteSet(EventsOf(o)') /\ UncountedOf(o)' \subseteq Serving'
        <3>1. EventsOf(o)' \subseteq Scans /\ UncountedOf(o)' \subseteq Serving'
            BY <1>t DEF EventsOf, TypeOK, UncountedOf, Serving, InFlight
        <3> QED
            BY <3>1, ScansAssumption, FS_Subset
    <2> QED
        BY <2>1, <2>2, FS_CardinalityType, FS_Subset DEF MonthlyUsage
<1>1. ASSUME NEW s \in Scans, Admit(s)
      PROVE  QuotaInv'
    <2>1. Serving' = Serving \cup {s}
        BY <1>1 DEF Admit, Serving, TypeOK, InFlight, Uncounted
    <2>2. Cardinality(Serving') <= Threads
        <3>1. s \notin Serving
            BY <1>1 DEF Admit, Serving, InFlight, Uncounted
        <3>2. Cardinality(Serving') = Cardinality(Serving) + 1
            BY <2>1, <3>1, QuotaFinite, FS_AddElement
        <3> QED
            BY <1>1, <3>2, QuotaFinite, BoundsAssumption DEF Admit
    <2>3. ASSUME NEW o \in FreeOrgs
          PROVE  MonthlyUsage(o)' + Cardinality(UncountedOf(o)') < Limit + Threads
        <3>1. MonthlyUsage(o)' = MonthlyUsage(o)
            BY <1>1 DEF Admit, MonthlyUsage, EventsOf
        <3>2. CASE OrgOf[s] = o
            <4>1. MonthlyUsage(o) < Limit
                BY <1>1, <3>2 DEF Admit
            <4> QED
                BY <1>f, <2>2, <3>1, <4>1, QuotaFinite, BoundsAssumption
        <3>3. CASE OrgOf[s] # o
            <4>1. UncountedOf(o)' = UncountedOf(o)
                BY <1>1, <3>3 DEF Admit, UncountedOf, TypeOK
            <4> QED
                BY <3>1, <4>1 DEF QuotaInv
        <3> QED
            BY <3>2, <3>3
    <2> QED
        BY <2>2, <2>3 DEF QuotaInv
<1>2. ASSUME NEW s \in Scans, Charge(s)
      PROVE  QuotaInv'
    <2>1. Serving' = Serving
        BY <1>2 DEF Charge, Serving, TypeOK, InFlight, Uncounted
    <2>2. ASSUME NEW o \in FreeOrgs
          PROVE  MonthlyUsage(o)' + Cardinality(UncountedOf(o)') < Limit + Threads
        <3>1. CASE OrgOf[s] = o
            <4>1. /\ EventsOf(o)' = EventsOf(o) \cup {s}
                  /\ UncountedOf(o)' = UncountedOf(o) \ {s}
                  /\ s \in UncountedOf(o)
                BY <1>2, <3>1 DEF Charge, EventsOf, UncountedOf, TypeOK, Uncounted
            <4>2. MonthlyUsage(o)' <= MonthlyUsage(o) + 1
                <5>1. IsFiniteSet(EventsOf(o)) /\ MonthlyUsage(o) \in Nat
                    BY QuotaFinite
                <5>2. Cardinality(EventsOf(o) \cup {s}) =
                          IF s \in EventsOf(o) THEN MonthlyUsage(o) ELSE MonthlyUsage(o) + 1
                    BY <5>1, FS_AddElement DEF MonthlyUsage
                <5>3. MonthlyUsage(o)' = Cardinality(EventsOf(o) \cup {s})
                    BY <4>1 DEF MonthlyUsage
                <5> QED
                    BY <5>1, <5>2, <5>3
            <4>3. Cardinality(UncountedOf(o)') = Cardinality(UncountedOf(o)) - 1
                BY <4>1, QuotaFinite, FS_RemoveElement
            <4> QED
                BY <1>f, <4>2, <4>3, QuotaFinite, BoundsAssumption DEF QuotaInv
        <3>2. CASE OrgOf[s] # o
            <4>1. EventsOf(o)' = EventsOf(o) /\ UncountedOf(o)' = UncountedOf(o)
                BY <1>2, <3>2 DEF Charge, EventsOf, UncountedOf, TypeOK
            <4> QED
                BY <4>1 DEF QuotaInv, MonthlyUsage
        <3> QED
            BY <3>1, <3>2
    <2> QED
        BY <2>1, <2>2 DEF QuotaInv
<1>3. ASSUME Calm
      PROVE  QuotaInv'
    <2>1. Serving' \subseteq Serving
        BY <1>3 DEF Calm, Serving
    <2>2. Cardinality(Serving') <= Cardinality(Serving)
        BY <2>1, QuotaFinite, FS_Subset
    <2>3. ASSUME NEW o \in FreeOrgs
          PROVE  MonthlyUsage(o)' + Cardinality(UncountedOf(o)') < Limit + Threads
        <3>1. EventsOf(o)' \subseteq EventsOf(o) /\ UncountedOf(o)' \subseteq UncountedOf(o)
            BY <1>3 DEF Calm, EventsOf, UncountedOf
        <3>2. /\ MonthlyUsage(o)' <= MonthlyUsage(o)
              /\ Cardinality(UncountedOf(o)') <= Cardinality(UncountedOf(o))
            BY <3>1, QuotaFinite, FS_Subset DEF MonthlyUsage
        <3> QED
            BY <1>f, <3>2, QuotaFinite, BoundsAssumption DEF QuotaInv
    <2> QED
        BY <1>f, <2>2, <2>3, QuotaFinite, BoundsAssumption DEF QuotaInv
<1> QED
    BY <1>1, <1>2, <1>3, QuotaShape

(* However many requests race past the check, a free organisation is        *)
(* charged for less than Limit + Threads scans a month.                     *)
THEOREM QuotaBounded == Spec => []QuotaOvershoot
<1>1. Init => QuotaInv
    <2> SUFFICES ASSUME Init PROVE QuotaInv
        OBVIOUS
    <2>1. Serving = {} /\ \A o : EventsOf(o) = {} /\ UncountedOf(o) = {}
        BY DEF Init, Serving, EventsOf, UncountedOf, InFlight, Uncounted
    <2> QED
        BY <2>1, FS_EmptySet, BoundsAssumption DEF QuotaInv, MonthlyUsage
<1>2. TypeOK /\ QuotaInv /\ [Next]_vars => QuotaInv'
    BY NextQuota
<1>3. TypeOK /\ QuotaInv => QuotaOvershoot
    BY QuotaFinite, BoundsAssumption DEF QuotaInv, QuotaOvershoot
<1> QED
    BY TypeCorrect, <1>1, <1>2, <1>3, PTL DEF Spec

-----------------------------------------------------------------------------
(* The inductive invariant behind the safety properties, in four parts.     *)

(* How far a request is tells what it has left behind; a path is known only *)
(* after the upload it names was tried.                                     *)
RequestInv ==
    \A s \in Scans :
        /\ pc[s] \in {"idle", "checked", "stored"} => row[s].status = "none"
        /\ pc[s] \in {"idle", "checked"} => path[s] = NoPath
        /\ path[s] # NoPath => pc[path[s]] \notin {"idle", "checked"}

(* A delete holds a live row, and has removed the object before the row.    *)
DeleteInv ==
    \A s \in Scans :
        /\ del[s] # "idle" => Live(s)
        /\ del[s] = "unlinked" \/ row[s].status = "deleted" => path[s] \notin objects

(* The usage event precedes the job, its execution and the report.          *)
ChargeInv ==
    \A s \in Scans :
        /\ s \in created => row[s].status # "none"
        /\ \/ pc[s] \in {"counted", "unqueued", "inline"}
           \/ job[s].state # "none"
           \/ exec[s].at # "idle"
           \/ row[s].report
           => s \in created

(* The session of an attempt broke off with the report already set.         *)
Dirty(s) == exec[s].at = "failing" /\ exec[s].held # "nothing"

(* The report column agrees with the scan_completed events, but for what a  *)
(* dirty session left behind; a session that loaded a report can still find *)
(* it, and one that has worked out a report knows the scan as running.      *)
ReportInv ==
    \A s \in Scans :
        /\ row[s].status = "none" => completed[s] = 0
        /\ Live(s) /\ completed[s] > 0 => row[s].report
        /\ row[s].status = "complete" => row[s].report /\ completed[s] > 0
        /\ row[s].report /\ completed[s] = 0 =>
               faults > 0 /\ row[s].status \in {"running", "failed"}
        /\ Live(s) /\ exec[s].at # "idle" /\ exec[s].seen.report => row[s].report
        /\ exec[s].at \in {"scanning", "reported"} \/ Dirty(s) =>
               exec[s].seen.status = "running"
        /\ Dirty(s) => faults > 0

SafetyInv == RequestInv /\ DeleteInv /\ ChargeInv /\ ReportInv

LEMMA InitSafety == Init => SafetyInv
BY ScansAssumption
DEF Init, SafetyInv, RequestInv, DeleteInv, ChargeInv, ReportInv, Blank, Live, Idle,
    Dirty

(* What the writes of a session do to a row.                                *)
LEMMA UpdateEffect ==
    ASSUME NEW now \in Row, NEW seen \in Row, NEW held \in Held
    PROVE  /\ Update(now, seen, Running(seen)).report = now.report
           /\ Update(now, seen, Running(seen)).status \in {"running", now.status}
           /\ Update(now, seen, Failed(Kept(seen, held))).report =
                  (now.report \/ (held # "nothing" /\ ~seen.report))
           /\ Update(now, seen, Failed(Kept(seen, held))).status \in {"failed", now.status}
           /\ seen.status # "failed" =>
                  Update(now, seen, Failed(Kept(seen, held))).status = "failed"
           /\ Update(now, seen, Complete(seen)).report = (now.report \/ ~seen.report)
           /\ Update(now, seen, Complete(seen)).status \in {"complete", now.status}
           /\ Running(seen).report = seen.report /\ Running(seen).status = "running"
           /\ Complete(seen).report
BY DEF Row, Update, Running, Failed, Complete, Kept

LEMMA RequestSafety ==
    ASSUME TypeOK, SafetyInv, NEW s \in Scans, Request(s)
    PROVE  SafetyInv'
<1>u. LET r == Update(row[s], Blank("queued"), Failed(Blank("queued")))
      IN  r.report = row[s].report /\ r.status = "failed"
    BY DEF TypeOK, Row, Update, Failed, Blank
<1> USE ScansAssumption DEF SafetyInv, RequestInv, DeleteInv, ChargeInv, ReportInv,
                            TypeOK, Live, Dirty, Fault
<1>a. CASE EnforceQuota(s)
    BY <1>a DEF EnforceQuota, Goto, Respond, db, work
<1>b. CASE SaveUpload(s)
    BY <1>b DEF SaveUpload, Goto, db, work
<1>c. CASE RejectUpload(s)
    BY <1>c DEF RejectUpload, Respond, db, work
<1>d. CASE UploadOutage(s)
    BY <1>d DEF UploadOutage, Respond, db, work
<1>e. CASE AcceptPath(s)
    BY <1>e DEF AcceptPath, Goto, db, work
<1>f. CASE RejectPath(s)
    BY <1>f DEF RejectPath, Respond, db, work
<1>g. CASE InsertScan(s)
    BY <1>g DEF InsertScan, Goto, work, Blank
<1>h. CASE RecordCreated(s)
    BY <1>h DEF RecordCreated, Goto, Respond, work
<1>i. CASE Enqueue(s)
    BY <1>i DEF Enqueue, Respond, db, NewJob
<1>j. CASE EnqueueError(s)
    BY <1>j DEF EnqueueError, Goto, db, NewJob
<1>k. CASE MarkUnqueued(s)
    BY <1>u, <1>k DEF MarkUnqueued, Respond, work
<1>l. CASE DatabaseError(s)
    BY <1>l DEF DatabaseError, Respond, db, work
<1> QED
    BY <1>a, <1>b, <1>c, <1>d, <1>e, <1>f, <1>g, <1>h, <1>i, <1>j, <1>k, <1>l
    DEF Request

LEMMA DeleteSafety ==
    ASSUME TypeOK, SafetyInv, NEW s \in Scans, Delete(s) \/ Requeue(s)
    PROVE  SafetyInv'
<1> USE DEF SafetyInv, RequestInv, DeleteInv, ChargeInv, ReportInv, TypeOK, Live, Dirty, Fault,
            request, db, work
<1>a. CASE LoadForDelete(s)
    BY <1>a DEF LoadForDelete
<1>b. CASE DeleteUpload(s)
    BY <1>b DEF DeleteUpload
<1>c. CASE DeleteRow(s)
    BY <1>c DEF DeleteRow, Blank
<1>d. CASE DeleteError(s)
    BY <1>d DEF DeleteError
<1>e. CASE Requeue(s)
    BY <1>e DEF Requeue, SetJob
<1> QED
    BY <1>a, <1>b, <1>c, <1>d, <1>e DEF Delete

(* Ending an execution moves its request or its job on, and nothing else.   *)
LEMMA ReturnEffect ==
    ASSUME TypeOK, NEW s \in Scans, Return(s) \/ Raise(s)
    PROVE  /\ \A r \in Scans \ {s} : pc'[r] = pc[r] /\ job'[r] = job[r]
           /\ pc'[s] \in {pc[s], "done"}
           /\ ~Inline => pc' = pc
           /\ Inline => job' = job
BY ModeAssumption DEF TypeOK, Return, Raise, Respond, SetJob

LEMMA WorkerSafety ==
    ASSUME TypeOK, SafetyInv, NEW s \in Scans, WorkerStep(s) \/ WorkerFault(s)
    PROVE  SafetyInv'
<1> DEFINE seen == exec[s].seen
<1> DEFINE held == exec[s].held
<1>1. seen \in Row /\ row[s] \in Row /\ held \in Held
    BY DEF TypeOK, Exec
<1>2. /\ Update(row[s], seen, Running(seen)).report = row[s].report
      /\ Update(row[s], seen, Running(seen)).status \in {"running", row[s].status}
      /\ Update(row[s], seen, Complete(seen)).report = (row[s].report \/ ~seen.report)
      /\ Update(row[s], seen, Complete(seen)).status \in {"complete", row[s].status}
      /\ Running(seen).report = seen.report /\ Running(seen).status = "running"
      /\ Complete(seen).report
    BY <1>1, UpdateEffect
<1>4. /\ Update(row[s], seen, Failed(Kept(seen, held))).report =
             (row[s].report \/ (held # "nothing" /\ ~seen.report))
      /\ Update(row[s], seen, Failed(Kept(seen, held))).status \in {"failed", row[s].status}
      /\ seen.status # "failed" =>
             Update(row[s], seen, Failed(Kept(seen, held))).status = "failed"
    BY <1>1, UpdateEffect
<1>5. faults \in Nat /\ (Fault => faults' = faults + 1)
    BY BoundsAssumption DEF TypeOK, Fault
<1>3. ~Blank("none").report
    BY DEF Blank
<1> USE DEF SafetyInv, RequestInv, DeleteInv, ChargeInv, ReportInv, TypeOK, Live,
            request, db, Step, Dirty
<1>a. CASE LoadScan(s)
    BY <1>a, ModeAssumption DEF LoadScan, Ready, Goto, SetJob
<1>b. CASE ScanGone(s)
    BY <1>b, ReturnEffect DEF ScanGone, Ready
<1>c. CASE MarkRunning(s)
    <2>1. CASE Live(s)
        <3> DEFINE r == Update(row[s], seen, Running(seen))
        <3>1. row' = [row EXCEPT ![s] = r] /\ Step(s, "scanning", Running(seen))
            BY <1>c, <2>1 DEF MarkRunning
        <3>2. r.report = row[s].report /\ (r.status = "running" \/ r.status = row[s].status)
            BY <1>2
        <3>3. Running(seen).report = seen.report /\ Running(seen).status = "running"
            BY <1>2
        <3> HIDE DEF r
        <3> QED
            BY <1>c, <2>1, <3>1, <3>2, <3>3 DEF MarkRunning
    <2>2. CASE ~Live(s)
        <3>1. seen = Running(seen) => seen.status = "running"
            BY <1>2
        <3> QED
            BY <1>c, <2>2, <3>1 DEF MarkRunning
    <2> QED
        BY <2>1, <2>2
<1>d. CASE Scan(s)
    BY <1>d DEF Scan
<1>j. CASE ScanError(s) \/ Timeout(s)
    BY <1>j, <1>5 DEF ScanError, Timeout, Interrupted
<1>e. CASE SaveReport(s)
    <2>1. CASE Live(s)
        <3>1. Update(row[s], seen, Complete(seen)).report
            BY <1>e, <1>1, <1>2, <2>1 DEF SaveReport, Row
        <3>2. completed'[s] > 0
            BY <1>e, <2>1 DEF SaveReport
        <3> QED
            BY <1>e, <1>1, <1>2, <2>1, <3>1, <3>2 DEF SaveReport
    <2>2. CASE ~Live(s)
        BY <1>e, <2>2 DEF SaveReport
    <2> QED
        BY <2>1, <2>2
<1>f. CASE FinishJob(s)
    BY <1>f, ReturnEffect DEF FinishJob
<1>g. CASE MarkFailed(s)
    <2>0. exec' = [exec EXCEPT ![s] =
                       [at |-> "idle", seen |-> Blank("none"), held |-> "nothing"]]
        BY <1>g DEF MarkFailed
    <2>1. CASE ~Live(s)
        BY <1>g, <2>1, ReturnEffect DEF MarkFailed
    <2>2. CASE Live(s)
        <3> DEFINE r == Update(row[s], seen, Failed(Kept(seen, held)))
        <3>1. row' = [row EXCEPT ![s] = r]
            BY <1>g, <2>2 DEF MarkFailed
        <3>2. completed' = [completed EXCEPT ![s] = IF held = "event" THEN @ + 1 ELSE @]
            BY <1>g, <2>2 DEF MarkFailed
        <3>3. r.status \in {"failed", row[s].status} /\ (row[s].report => r.report)
            BY <1>4
        <3>4. held # "nothing" => r.report /\ r.status = "failed" /\ faults > 0
            BY <1>g, <1>1, <1>4, <2>2 DEF MarkFailed, Row
        <3>5. held = "nothing" => r.report = row[s].report
            BY <1>1, <1>4 DEF Row
        <3>6. r.status = row[s].status \/ r.status = "failed"
            BY <3>3
        <3>7. /\ \A q \in Scans \ {s} : /\ pc'[q] = pc[q] /\ job'[q] = job[q]
                                       /\ row'[q] = row[q] /\ exec'[q] = exec[q]
                                       /\ completed'[q] = completed[q]
              /\ row'[s] = r /\ exec'[s].at = "idle" /\ ~Dirty(s)'
              /\ UNCHANGED <<path, objects, created, del, faults>>
            BY <1>g, <2>0, <3>1, <3>2, ReturnEffect DEF MarkFailed
        <3>8. pc'[s] \in {pc[s], "done"} /\ pc[s] \notin {"idle", "checked", "stored"}
            BY <1>g, <2>2, ReturnEffect DEF MarkFailed
        <3>9. s \in created
            BY <1>g DEF MarkFailed
        <3>10. /\ held = "event" => completed'[s] = completed[s] + 1
               /\ held # "event" => completed'[s] = completed[s]
            BY <3>2
        <3> HIDE DEF r
        <3>11. RequestInv'
            BY <2>2, <3>3, <3>6, <3>7, <3>8
        <3>12. DeleteInv'
            BY <2>2, <3>6, <3>7
        <3>13. ChargeInv'
            BY <2>2, <3>6, <3>7, <3>9
        <3>14. ReportInv'
            BY <2>2, <3>3, <3>4, <3>5, <3>6, <3>7, <3>10
        <3> QED
            BY <3>11, <3>12, <3>13, <3>14
    <2> QED
        BY <2>1, <2>2
<1>h. CASE InferenceNotReady(s)
    BY <1>h, <1>5, ReturnEffect DEF InferenceNotReady, Ready
<1>i. CASE ExecutionLost(s)
    BY <1>i, <1>5, ReturnEffect DEF ExecutionLost
<1> QED
    BY <1>a, <1>b, <1>c, <1>d, <1>e, <1>f, <1>g, <1>h, <1>i, <1>j
    DEF WorkerStep, WorkerFault

LEMMA NextSafety == TypeOK /\ SafetyInv /\ [Next]_vars => SafetyInv'
<1> SUFFICES ASSUME TypeOK, SafetyInv, [Next]_vars PROVE SafetyInv'
    OBVIOUS
<1>1. ASSUME NEW s \in Scans,
             Request(s) \/ Delete(s) \/ Requeue(s) \/ WorkerStep(s) \/ WorkerFault(s)
      PROVE  SafetyInv'
    BY <1>1, RequestSafety, DeleteSafety, WorkerSafety
<1> USE DEF SafetyInv, RequestInv, DeleteInv, ChargeInv, ReportInv, TypeOK, Live
<1>2. CASE NewMonth
    BY <1>2 DEF NewMonth, request, work, Dirty
<1>3. CASE ApiCrash
    <2>1. faults \in Nat /\ faults' = faults + 1
        BY <1>3, BoundsAssumption DEF ApiCrash, Fault
    <2> QED
        BY <1>3, <2>1 DEF ApiCrash, db, Idle, Serving, InFlight, Dirty
<1>4. CASE UNCHANGED vars
    BY <1>4 DEF vars, Dirty
<1> QED
    BY <1>1, <1>2, <1>3, <1>4 DEF Next

LEMMA SafetyCorrect == Spec => []SafetyInv
<1>1. TypeOK /\ SafetyInv /\ [Next]_vars => SafetyInv'
    BY NextSafety
<1> QED
    BY InitSafety, <1>1, TypeCorrect, PTL DEF Spec

(* No object outlives the row that a delete removed.                        *)
THEOREM DeletionRemovesObject == Spec => []DeletedLeavesNoObject
<1>1. SafetyInv => DeletedLeavesNoObject
    BY DEF SafetyInv, DeleteInv, DeletedLeavesNoObject
<1> QED
    BY <1>1, SafetyCorrect, PTL

(* Work and reports are charged for, whichever way the races end.           *)
THEOREM WorkIsCharged == Spec => []ChargedBeforeWork
<1>1. SafetyInv => ChargedBeforeWork
    BY DEF SafetyInv, ChargeInv, ChargedBeforeWork
<1> QED
    BY <1>1, SafetyCorrect, PTL

(* The handlers write to rows that are there, and insert where none was.    *)
LEMMA RowStep ==
    ASSUME TypeOK, SafetyInv, [Next]_vars, NEW s \in Scans, row[s].status = "deleted"
    PROVE  row'[s] = row[s]
<1> USE DEF TypeOK, SafetyInv, RequestInv, DeleteInv, Live, db, request
<1>1. ASSUME NEW r \in Scans, Request(r)
      PROVE  row'[s] = row[s]
    BY <1>1 DEF Request, EnforceQuota, SaveUpload, RejectUpload, UploadOutage,
        AcceptPath, RejectPath, InsertScan, RecordCreated, Enqueue, EnqueueError,
        MarkUnqueued, DatabaseError
<1>2. ASSUME NEW r \in Scans, Delete(r) \/ Requeue(r)
      PROVE  row'[s] = row[s]
    BY <1>2 DEF Delete, LoadForDelete, DeleteUpload, DeleteRow, DeleteError, Requeue
<1>3. ASSUME NEW r \in Scans, WorkerStep(r) \/ WorkerFault(r)
      PROVE  row'[s] = row[s]
    BY <1>3 DEF WorkerStep, WorkerFault, LoadScan, ScanGone, MarkRunning, Scan,
        SaveReport, FinishJob, MarkFailed, InferenceNotReady, ScanError, Timeout,
        ExecutionLost
<1>4. NewMonth \/ ApiCrash \/ UNCHANGED vars => row'[s] = row[s]
    BY DEF NewMonth, ApiCrash, vars
<1> QED
    BY <1>1, <1>2, <1>3, <1>4 DEF Next

(* A deleted scan is never written again, whoever still holds it.           *)
THEOREM DeletionIsFinal == Spec => DeletedIsFinal
<1>1. TypeOK /\ SafetyInv /\ [Next]_vars =>
          [\A s \in Scans : row[s].status = "deleted" => row'[s] = row[s]]_row
    BY RowStep
<1> QED
    BY <1>1, TypeCorrect, SafetyCorrect, PTL DEF Spec, DeletedIsFinal
=============================================================================
