------------------------------ MODULE ScanContract -----------------------------
(****************************************************************************)
(* What the scan API promises a client, without requests, sessions, queues  *)
(* or workers: the status a scan can show, the report it gives access to    *)
(* and the usage event it is counted by.                                    *)
(****************************************************************************)
CONSTANT
    Scans      \* the scans clients may ask for

VARIABLES
    reliable,  \* no process, database, store or queue has failed yet
    status,    \* what GET /v1/scans/{scan_id} shows, "none" before, "deleted" after
    report,    \* the scans whose row holds a report
    billed     \* the scans counted by a scan_created usage event

vars == <<reliable, status, report, billed>>

Present(s) == status[s] \notin {"none", "deleted"}
SetStatus(s, st) == status' = [status EXCEPT ![s] = st]

Init ==
    /\ reliable = TRUE
    /\ status = [s \in Scans |-> "none"]
    /\ report = {}
    /\ billed = {}

(* Something fails.                                                         *)
Break ==
    /\ reliable' = FALSE
    /\ UNCHANGED <<status, report, billed>>

(* A scan is queued once, ...                                               *)
Submit(s) ==
    /\ status[s] = "none"
    /\ SetStatus(s, "queued")
    /\ UNCHANGED <<reliable, report, billed>>

(* ... counted once while it is there, ...                                  *)
Bill(s) ==
    /\ Present(s)
    /\ s \notin billed
    /\ billed' = billed \cup {s}
    /\ UNCHANGED <<reliable, status, report>>

(* ... and worked on only once it is counted.  A completed scan runs again  *)
(* only when something failed.                                              *)
Start(s) ==
    /\ s \in billed
    /\ Present(s)
    /\ reliable => status[s] # "complete"
    /\ SetStatus(s, "running")
    /\ UNCHANGED <<reliable, report, billed>>

Publish(s) ==
    /\ s \in billed
    /\ status[s] \in IF reliable THEN {"running"} ELSE {"running", "failed"}
    /\ SetStatus(s, "complete")
    /\ report' = report \cup {s}
    /\ UNCHANGED <<reliable, billed>>

(* While nothing fails, only work that was started ends as "failed".  An    *)
(* attempt that breaks late may leave its report in the row of a failed     *)
(* scan, which gives no access to it.                                       *)
Fail(s) ==
    /\ s \in billed
    /\ Present(s)
    /\ reliable => status[s] = "running"
    /\ SetStatus(s, "failed")
    /\ report' \in IF reliable THEN {report} ELSE {report, report \cup {s}}
    /\ UNCHANGED <<reliable, billed>>

(* Deletion takes the report away and is final; the usage event stays.      *)
Remove(s) ==
    /\ Present(s)
    /\ SetStatus(s, "deleted")
    /\ report' = report \ {s}
    /\ UNCHANGED <<reliable, billed>>

Next ==
    \/ Break
    \/ \E s \in Scans : \/ Submit(s)
                        \/ Bill(s)
                        \/ Start(s)
                        \/ Publish(s)
                        \/ Fail(s)
                        \/ Remove(s)

Spec == Init /\ [][Next]_vars
=============================================================================
