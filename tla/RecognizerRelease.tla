-------------------------- MODULE RecognizerRelease --------------------------
(****************************************************************************)
(* The files of the recogniser: train_recognizer.py gates what it trained   *)
(* and writes or withdraws them, check_recognizer_artifacts.py compares     *)
(* them, and scans load them, each at its own time.                         *)
(*                                                                          *)
(* A file is written in place: opened, which empties it, and closed.  The   *)
(* trainer may be interrupted between any two of its steps.                 *)
(****************************************************************************)
EXTENDS LabelGate, Sequences

CONSTANTS
    Datasets,       \* pairs of validation and test samples
    Regions,        \* scores of the regions a scan may meet
    MinSupport, SliceMinSupport,
    MaxTrainings,   \* bound on the trainings
    MaxInterrupts   \* bound on the interrupts

ASSUME DatasetsAssumption ==
    \A d \in Datasets : \A s \in d.validation \cup d.test : Sample(s)
ASSUME RegionsAssumption ==
    \A r \in Regions : r \in Scores /\ Distribution(r.gnn) /\ Distribution(r.semantic)
ASSUME BoundsAssumption ==
    /\ MinSupport \in Nat /\ SliceMinSupport \in Nat
    /\ MaxTrainings \in Nat /\ MaxInterrupts \in Nat

VARIABLES
    models,      \* what each training gave: thresholds, labels, gate
    files,       \* "metrics", "weights" and "semantic"
    todo,        \* file operations the trainer has left
    interrupts,
    broken,      \* the last training was interrupted
    scan, check  \* a scan's use of the recogniser, a run of the check script

vars == <<models, files, todo, interrupts, broken, scan, check>>

FileNames == {"metrics", "weights", "semantic"}
Generations == 0..MaxTrainings
Absent == [gen |-> 0, whole |-> FALSE]
File(g, w) == [gen |-> g, whole |-> w]
Present(f) == files[f] # Absent

Last == Len(models)
Calm == todo = <<>> /\ ~broken

Idle == [at |-> "idle", calm |-> FALSE, gen |-> 0, result |-> "none",
         label |-> NoneId, method |-> "candidate", scores |-> CHOOSE r \in Regions : TRUE]
NoCheck == [at |-> "idle", calm |-> FALSE, gen |-> 0, result |-> "none", artifacts |-> FALSE]

Init ==
    /\ models = <<>>
    /\ files = [f \in FileNames |-> Absent]
    /\ todo = <<>> /\ interrupts = 0 /\ broken = FALSE
    /\ scan = Idle /\ check = NoCheck

-----------------------------------------------------------------------------
(* The trainer.                                                             *)

Gate(d) ==
    LET t == Calibrate(d.validation)
        deployable == DeployableLabels(t, d.test)
    IN [gnn |-> t.gnn, semantic |-> t.semantic, name |-> t.name, deployable |-> deployable,
        passed |-> Passed(t, d.test),
        allClass |-> AllClassPassed(t, d.test, MinSupport, SliceMinSupport)]

Op(k, f) == [kind |-> k, file |-> f]
Write(f) == <<Op("open", f), Op("close", f)>>
Plan_NoWithdrawal(passed) ==
    Write("metrics") \o (IF passed THEN Write("weights") \o Write("semantic") ELSE <<>>)
Plan_KeepsSemantic(passed) ==
    Write("metrics") \o
        (IF passed THEN Write("weights") \o
                        (IF Present("semantic") THEN <<>> ELSE Write("semantic"))
                   ELSE <<Op("unlink", "weights"), Op("unlink", "semantic")>>)
Plan(passed) ==
    Write("metrics") \o
        (IF passed THEN Write("weights") \o Write("semantic")
                   ELSE <<Op("unlink", "weights"), Op("unlink", "semantic")>>)

(* Training and evaluation touch no file; whoever reads the files from now  *)
(* on until the plan is carried out may see any part of it.                 *)
Disturbed(p) == [p EXCEPT !.calm = FALSE]
Train ==
    /\ todo = <<>> /\ Last < MaxTrainings
    /\ \E d \in Datasets :
           /\ models' = Append(models, Gate(d))
           /\ todo' = Plan(Gate(d).passed)
    /\ broken' = FALSE
    /\ scan' = Disturbed(scan) /\ check' = Disturbed(check)
    /\ UNCHANGED <<files, interrupts>>

Result(op) ==
    CASE op.kind = "open" -> File(Last, FALSE)
      [] op.kind = "close" -> File(Last, TRUE)
      [] op.kind = "unlink" -> Absent
Publish ==
    /\ todo # <<>>
    /\ files' = [files EXCEPT ![Head(todo).file] = Result(Head(todo))]
    /\ todo' = Tail(todo)
    /\ UNCHANGED <<models, interrupts, broken, scan, check>>

Interrupt ==
    /\ todo # <<>> /\ interrupts < MaxInterrupts
    /\ interrupts' = interrupts + 1
    /\ todo' = <<>> /\ broken' = TRUE
    /\ UNCHANGED <<models, files, scan, check>>

-----------------------------------------------------------------------------
(* A scan: a worker that requires the recogniser looks for all three files  *)
(* first; the scanner asks whether both models are there, recognize_binary  *)
(* asks again and loads one after the other.                                *)

Scanning(at) == scan.at = at /\ UNCHANGED <<models, files, todo, interrupts, broken, check>>
Go(at) == scan' = [scan EXCEPT !.at = at]
End(result) == scan' = [scan EXCEPT !.at = "done", !.result = result]
BothThere == Present("weights") /\ Present("semantic")

StartScan ==
    /\ Scanning("idle")
    /\ \E required \in BOOLEAN :
           scan' = [Idle EXCEPT !.at = IF required THEN "ready" ELSE "available", !.calm = Calm]
RequireReady ==
    /\ Scanning("ready")
    /\ IF BothThere /\ Present("metrics") THEN Go("available") ELSE End("refused")
Available ==
    /\ Scanning("available")
    /\ IF BothThere THEN Go("again") ELSE End("unavailable")
AvailableAgain ==
    /\ Scanning("again")
    /\ IF BothThere THEN Go("weights") ELSE End("silent")
LoadWeights ==
    /\ Scanning("weights")
    /\ IF files["weights"].whole
       THEN scan' = [scan EXCEPT !.at = "semantic", !.gen = files["weights"].gen]
       ELSE End("failed")
(* With both models loaded a region is scored and labelled.                 *)
Recognise ==
    /\ Scanning("semantic")
    /\ IF ~files["semantic"].whole THEN End("failed")
       ELSE \E r \in Regions :
                LET v == Assertion(models[scan.gen], r) IN
                scan' = [scan EXCEPT
                    !.at = "done", !.scores = r, !.label = v.label, !.method = v.method,
                    !.result = IF files["semantic"].gen = scan.gen THEN "labelled" ELSE "mixed"]
NextScan == Scanning("done") /\ scan' = Idle

-----------------------------------------------------------------------------
(* The check script reads the metrics, looks for the models and loads the   *)
(* weights to compare their labels.                                         *)

Checking(at) == check.at = at /\ UNCHANGED <<models, files, todo, interrupts, broken, scan>>
Verdict(v) == check' = [check EXCEPT !.at = "done", !.result = v]

StartCheck ==
    /\ Checking("idle")
    /\ \E artifacts, allClass \in BOOLEAN :
           LET f == files["metrics"]  g == models[f.gen]
               p == [NoCheck EXCEPT !.calm = Calm, !.artifacts = artifacts, !.gen = f.gen]
           IN check' =
                  IF \/ ~f.whole
                     \/ allClass /\ ~g.allClass
                     \/ g.passed # (g.deployable # {})
                  THEN [p EXCEPT !.at = "done", !.result = "rejected"]
                  ELSE IF ~g.passed THEN [p EXCEPT !.at = "done", !.result = "nothing deployable"]
                  ELSE [p EXCEPT !.at = "look"]
Look ==
    /\ Checking("look")
    /\ IF BothThere THEN check' = [check EXCEPT !.at = "compare"]
       ELSE Verdict(IF check.artifacts THEN "rejected" ELSE "skipped")
Compare ==
    /\ Checking("compare")
    /\ LET f == files["weights"] IN
       Verdict(IF f.whole /\ models[f.gen].deployable = models[check.gen].deployable
               THEN "ok" ELSE "rejected")
NextCheck == Checking("done") /\ check' = NoCheck

Next ==
    \/ Train \/ Publish \/ Interrupt
    \/ StartScan \/ RequireReady \/ Available \/ AvailableAgain \/ LoadWeights \/ Recognise
    \/ NextScan
    \/ StartCheck \/ Look \/ Compare \/ NextCheck
Spec == Init /\ [][Next]_vars

-----------------------------------------------------------------------------
TypeOK ==
    /\ Last \in Generations
    /\ \A g \in 1..Last :
           /\ models[g].deployable \subseteq Labels
           /\ models[g].passed => models[g].deployable # {}
           /\ models[g].allClass => models[g].passed
    /\ \A f \in FileNames : files[f].gen \in 0..Last /\ files[f].whole \in BOOLEAN
    /\ \A f \in FileNames : files[f].whole => files[f].gen > 0
    /\ scan.gen \in 0..Last /\ scan.label \in 0..NoneId
    /\ check.gen \in 0..Last

(* What a scan asserts about a region is of a label that the gate of that   *)
(* model found precise, also when the files are being replaced meanwhile.   *)
(* It is the label the gate counted such a region under, or one of three    *)
(* things made the evaluation decide otherwise: an undeployed name, a label *)
(* that is not the largest of its row, or a score that ties with a name.    *)
AssertionsWereGated ==
    (scan.result \in {"labelled", "mixed"} /\ scan.method # "candidate") =>
        LET m == models[scan.gen]
            r == scan.scores
        IN /\ m.passed /\ scan.label \in m.deployable
           /\ \/ Combined(m, r) = scan.label
              \/ Undeployed(m, r) \/ Outscored(m, r) \/ Tied(m, r)

(* A scan that ran while no training did, and after one that ran to its     *)
(* end, used both models of the last training if that passed its gate; if   *)
(* it failed, it said that there is no recogniser.                          *)
CalmScansUseTheGatedModel ==
    (scan.at = "done" /\ scan.calm) =>
        IF Last > 0 /\ models[Last].passed THEN scan.result = "labelled" /\ scan.gen = Last
        ELSE scan.result \in {"unavailable", "refused"}

(* A check that succeeds vouches for the files a scan will load, unless a   *)
(* training was running or had been interrupted.  One that is skipped never *)
(* hides models that a finished training left.                              *)
CheckVouches ==
    (check.at = "done" /\ check.calm) =>
        /\ check.result = "ok" => \A f \in FileNames : files[f] = File(Last, TRUE)
        /\ check.result = "nothing deployable" => ~BothThere
        /\ check.result # "skipped"
=============================================================================
