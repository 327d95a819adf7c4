------------------------ MODULE RecognizerReleaseProofs ------------------------
(****************************************************************************)
(* Proofs about the files of the recogniser: what a scan asserts was gated, *)
(* and scans and checks that no training disturbs use and vouch for the     *)
(* models of the last one.                                                  *)
(****************************************************************************)
EXTENDS RecognizerRelease, LabelGateProofs, SequenceTheorems

Trained ==
    [gnn : [Labels -> Thresholds], semantic : [Labels -> Thresholds],
     name : [Labels -> Thresholds], deployable : SUBSET Labels,
     passed : BOOLEAN, allClass : BOOLEAN]
ModelsInv ==
    /\ models \in Seq(Trained) /\ Last <= MaxTrainings
    /\ \A g \in 1..Last : /\ models[g].passed => models[g].deployable # {}
                          /\ models[g].allClass => models[g].passed

(* After k operations of the plan of the last training.                     *)
Length(passed) == IF passed THEN 6 ELSE 4
Operations == [kind : {"open", "close", "unlink"}, file : FileNames]
Ahead(passed, k) ==
    /\ todo \in Seq(Operations) /\ Len(todo) = Length(passed) - k
    /\ \A i \in 1..Len(todo) : todo[i] = Plan(passed)[k + i]
Done(passed, k) ==
    /\ k = 1 => files["metrics"] = File(Last, FALSE)
    /\ k >= 2 => files["metrics"] = File(Last, TRUE)
    /\ passed => /\ k = 3 => files["weights"] = File(Last, FALSE)
                 /\ k >= 4 => files["weights"] = File(Last, TRUE)
                 /\ k = 5 => files["semantic"] = File(Last, FALSE)
                 /\ k >= 6 => files["semantic"] = File(Last, TRUE)
    /\ ~passed => /\ k >= 3 => files["weights"] = Absent
                  /\ k >= 4 => files["semantic"] = Absent
PlanInv ==
    \/ todo = <<>> /\ broken
    \/ todo = <<>> /\ ~broken /\ Last = 0 /\ \A f \in FileNames : files[f] = Absent
    \/ /\ ~broken /\ Last > 0
       /\ \E passed \in BOOLEAN, k \in 0..6 :
              /\ passed = models[Last].passed /\ k <= Length(passed)
              /\ Ahead(passed, k) /\ Done(passed, k)

(* Weights are only written after their gate was passed.                    *)
FilesInv ==
    /\ files \in [FileNames -> [gen : 0..Last, whole : BOOLEAN]]
    /\ \A f \in FileNames : files[f].whole => files[f].gen > 0
    /\ files["weights"].gen > 0 => models[files["weights"].gen].passed

CalmState ==
    \/ Last = 0 /\ \A f \in FileNames : files[f] = Absent
    \/ /\ Last > 0 /\ models[Last].passed
       /\ \A f \in FileNames : files[f] = File(Last, TRUE)
    \/ /\ Last > 0 /\ ~models[Last].passed /\ files["metrics"] = File(Last, TRUE)
       /\ files["weights"] = Absent /\ files["semantic"] = Absent

Results == {"none", "refused", "unavailable", "silent", "failed", "labelled", "mixed"}
Methods == {"symbol-name-head", "gnn-semantic-ensemble", "semantic-head", "candidate"}
Places == {"idle", "ready", "available", "again", "weights", "semantic", "done"}
AnyRegion == Regions \cup {CHOOSE r \in Regions : TRUE}
Scan == [at : Places, calm : BOOLEAN, gen : 0..Last, result : Results,
         label : 0..NoneId, method : Methods, scores : AnyRegion]
ScanOK(s) ==
    /\ s \in Scan
    /\ s.calm => Calm
    /\ s.at # "done" => s.result = "none"
    /\ s.at = "semantic" => s.gen > 0 /\ models[s.gen].passed
    /\ s.result \in {"labelled", "mixed"} =>
           /\ s.gen > 0 /\ models[s.gen].passed /\ s.scores \in Regions
           /\ s.label = Assertion(models[s.gen], s.scores).label
           /\ s.method = Assertion(models[s.gen], s.scores).method
    /\ s.calm /\ s.at \in {"again", "weights", "semantic"} => BothThere
    /\ s.calm /\ s.at = "semantic" => s.gen = Last
    /\ s.calm /\ s.at = "done" =>
           /\ Last > 0 /\ models[Last].passed => s.result = "labelled" /\ s.gen = Last
           /\ ~(Last > 0 /\ models[Last].passed) => s.result \in {"unavailable", "refused"}
ScanInv == ScanOK(scan)

CheckPlaces == {"idle", "look", "compare", "done"}
Verdicts == {"none", "rejected", "nothing deployable", "skipped", "ok"}
Check ==
    [at : CheckPlaces, calm : BOOLEAN, gen : 0..Last,
     result : Verdicts, artifacts : BOOLEAN]
CheckOK(c) ==
    /\ c \in Check
    /\ c.calm => Calm
    /\ c.calm /\ c.at \in {"look", "compare"} => Last > 0 /\ models[Last].passed
    /\ c.calm /\ c.at = "done" =>
           /\ c.result = "ok" => \A f \in FileNames : files[f] = File(Last, TRUE)
           /\ c.result = "nothing deployable" => ~BothThere
           /\ c.result # "skipped"
CheckInv == CheckOK(check)

ReleaseInv == ModelsInv /\ PlanInv /\ FilesInv /\ ScanInv /\ CheckInv

-----------------------------------------------------------------------------
(* What a training gives.                                                   *)

LEMMA LabelsFacts == Labels \subseteq Nat /\ Labels # {}
BY NoneIdAssumption DEF Labels

LEMMA ThresholdChosen ==
    ASSUME NEW V, \A s \in V : Sample(s), NEW head \in {"gnn", "semantic", "name"},
           NEW vetoed, NEW l \in Labels
    PROVE  ChooseThreshold(V, head, vetoed, l) \in Thresholds
<1> DEFINE ok == {t \in {s.scores[head][l] : s \in V} : PreciseAbove(V, head, vetoed, l, t)}
<1>1. \A s \in V : s.scores[head][l] \in Percent
    BY DEF Sample, Scores, Percent
<1>2. CASE ok = {}
    BY <1>2 DEF ChooseThreshold, Unreachable, Thresholds
<1>3. CASE ok # {}
    <2>1. ok \in SUBSET Percent
        BY <1>1
    <2>2. PICK O : O = ok
        OBVIOUS
    <2>3. O \in SUBSET Nat /\ O # {}
        BY <1>3, <2>1, <2>2 DEF Percent
    <2>4. \E t \in O : \A u \in O : t <= u
        BY <2>3, Minimum
    <2>5. ChooseThreshold(V, head, vetoed, l) \in O
        BY <1>3, <2>2, <2>4 DEF ChooseThreshold
    <2> QED
        BY <2>1, <2>2, <2>5 DEF Percent, Thresholds
<1> QED
    BY <1>2, <1>3

LEMMA AllClassIsStricter ==
    ASSUME NEW m, NEW T, AllClassPassed(m, T, MinSupport, SliceMinSupport)
    PROVE  Passed(m, T)
<1>1. DeployableLabels(m, T) = Labels /\ QuietOnNone(m, T)
    BY DEF AllClassPassed, DeployableLabels
<1> QED
    BY <1>1, LabelsFacts DEF Passed

LEMMA GateTypes ==
    ASSUME NEW d \in Datasets
    PROVE  /\ Gate(d) \in Trained
           /\ Gate(d).passed => Gate(d).deployable # {}
           /\ Gate(d).allClass => Gate(d).passed
<1>1. PICK t : t = Calibrate(d.validation)
    OBVIOUS
<1>2. /\ t.gnn \in [Labels -> Thresholds] /\ t.semantic \in [Labels -> Thresholds]
      /\ t.name \in [Labels -> Thresholds]
    BY <1>1, ThresholdChosen, DatasetsAssumption DEF Calibrate
<1>3. PICK D : D = DeployableLabels(t, d.test)
    OBVIOUS
<1>4. D \in SUBSET Labels
    BY <1>3 DEF DeployableLabels
<1>5. PICK p \in BOOLEAN : p = Passed(t, d.test)
    BY DEF Passed, QuietOnNone, ShareAtLeast
<1>6. PICK a \in BOOLEAN : a = AllClassPassed(t, d.test, MinSupport, SliceMinSupport)
    BY DEF AllClassPassed
<1>7. Gate(d) = [gnn |-> t.gnn, semantic |-> t.semantic, name |-> t.name, deployable |-> D,
                 passed |-> p, allClass |-> a]
    BY <1>1, <1>3, <1>5, <1>6 DEF Gate
<1>8. p => D # {}
    BY <1>3, <1>5 DEF Passed
<1>9. a => p
    BY <1>5, <1>6, AllClassIsStricter
<1> QED
    BY <1>2, <1>4, <1>7, <1>8, <1>9 DEF Trained

LEMMA TrainedIsModel == \A m \in Trained : ModelLike(m) /\ m.passed \in BOOLEAN
BY DEF Trained, ModelLike

-----------------------------------------------------------------------------
(* The plan of a training.                                                  *)

Two(s, x, y) == s \in Seq(Operations) /\ Len(s) = 2 /\ s[1] = x /\ s[2] = y
Four(s, x, y, z, v) ==
    s \in Seq(Operations) /\ Len(s) = 4 /\ s[1] = x /\ s[2] = y /\ s[3] = z /\ s[4] = v
Six(s, x, y, z, v, p, q) ==
    /\ s \in Seq(Operations) /\ Len(s) = 6 /\ s[1] = x /\ s[2] = y
    /\ s[3] = z /\ s[4] = v /\ s[5] = p /\ s[6] = q

LEMMA Joined ==
    \A a, b \in Seq(Operations) : \E c \in Seq(Operations) :
        /\ c = a \o b /\ Len(c) = Len(a) + Len(b)
        /\ \A i \in 1..Len(a) + Len(b) : c[i] = IF i <= Len(a) THEN a[i] ELSE b[i - Len(a)]
<1> TAKE a, b \in Seq(Operations)
<1>1. /\ a \o b \in Seq(Operations) /\ Len(a \o b) = Len(a) + Len(b)
      /\ \A i \in 1..Len(a) + Len(b) : (a \o b)[i] = IF i <= Len(a) THEN a[i] ELSE b[i - Len(a)]
    BY ConcatProperties, Zenon
<1> QED
    BY <1>1, Zenon

LEMMA TwoAndTwo ==
    \A a, b, x, y, z, v : Two(a, x, y) /\ Two(b, z, v) => Four(a \o b, x, y, z, v)
<1> SUFFICES ASSUME NEW a, NEW b, NEW x, NEW y, NEW z, NEW v, Two(a, x, y), Two(b, z, v)
             PROVE  Four(a \o b, x, y, z, v)
    OBVIOUS
<1>1. a \in Seq(Operations) /\ b \in Seq(Operations)
    BY DEF Two
<1>2. PICK c \in Seq(Operations) :
          /\ c = a \o b /\ Len(c) = Len(a) + Len(b)
          /\ \A i \in 1..Len(a) + Len(b) : c[i] = IF i <= Len(a) THEN a[i] ELSE b[i - Len(a)]
    BY <1>1, Joined, Zenon
<1>3. /\ Len(c) = Len(a) + Len(b)
      /\ \A i \in 1..Len(a) + Len(b) : c[i] = IF i <= Len(a) THEN a[i] ELSE b[i - Len(a)]
    BY <1>2, Zenon
<1>4. Len(c) = 4 /\ \A i \in 1..4 : c[i] = IF i <= 2 THEN a[i] ELSE b[i - 2]
    BY <1>3 DEF Two
<1>5. Four(c, x, y, z, v)
    BY <1>4 DEF Two, Four
<1> QED
    BY <1>2, <1>5, Zenon

LEMMA TwoAndFour ==
    \A a, b, x, y, z, v, p, q :
        Two(a, x, y) /\ Four(b, z, v, p, q) => Six(a \o b, x, y, z, v, p, q)
<1> SUFFICES ASSUME NEW a, NEW b, NEW x, NEW y, NEW z, NEW v, NEW p, NEW q,
                    Two(a, x, y), Four(b, z, v, p, q)
             PROVE  Six(a \o b, x, y, z, v, p, q)
    OBVIOUS
<1>1. a \in Seq(Operations) /\ b \in Seq(Operations)
    BY DEF Two, Four
<1>2. PICK c \in Seq(Operations) :
          /\ c = a \o b /\ Len(c) = Len(a) + Len(b)
          /\ \A i \in 1..Len(a) + Len(b) : c[i] = IF i <= Len(a) THEN a[i] ELSE b[i - Len(a)]
    BY <1>1, Joined, Zenon
<1>3. /\ Len(c) = Len(a) + Len(b)
      /\ \A i \in 1..Len(a) + Len(b) : c[i] = IF i <= Len(a) THEN a[i] ELSE b[i - Len(a)]
    BY <1>2, Zenon
<1>4. Len(c) = 6 /\ \A i \in 1..6 : c[i] = IF i <= 2 THEN a[i] ELSE b[i - 2]
    BY <1>3 DEF Two, Four
<1>5. Six(c, x, y, z, v, p, q)
    BY <1>4 DEF Two, Four, Six
<1> QED
    BY <1>2, <1>5, Zenon

LEMMA WriteSteps ==
    \A f \in FileNames : Two(Write(f), Op("open", f), Op("close", f))
BY DEF Two, Write, Op, Operations

LEMMA PlanSteps ==
    /\ Six(Plan(TRUE), Op("open", "metrics"), Op("close", "metrics"), Op("open", "weights"),
           Op("close", "weights"), Op("open", "semantic"), Op("close", "semantic"))
    /\ Four(Plan(FALSE), Op("open", "metrics"), Op("close", "metrics"),
            Op("unlink", "weights"), Op("unlink", "semantic"))
<1>1. Two(<<Op("unlink", "weights"), Op("unlink", "semantic")>>,
          Op("unlink", "weights"), Op("unlink", "semantic"))
    BY DEF Two, Op, Operations, FileNames
<1>2. /\ Two(Write("metrics"), Op("open", "metrics"), Op("close", "metrics"))
      /\ Two(Write("weights"), Op("open", "weights"), Op("close", "weights"))
      /\ Two(Write("semantic"), Op("open", "semantic"), Op("close", "semantic"))
    BY WriteSteps DEF FileNames
<1>3. Plan(TRUE) = Write("metrics") \o (Write("weights") \o Write("semantic"))
    BY Zenon DEF Plan
<1>4. Plan(FALSE) = Write("metrics") \o <<Op("unlink", "weights"), Op("unlink", "semantic")>>
    BY Zenon DEF Plan
<1>5. Four(Write("weights") \o Write("semantic"), Op("open", "weights"), Op("close", "weights"),
           Op("open", "semantic"), Op("close", "semantic"))
    BY <1>2, TwoAndTwo, Zenon
<1>6. Six(Plan(TRUE), Op("open", "metrics"), Op("close", "metrics"), Op("open", "weights"),
          Op("close", "weights"), Op("open", "semantic"), Op("close", "semantic"))
    BY <1>2, <1>3, <1>5, TwoAndFour, Zenon
<1>7. Four(Plan(FALSE), Op("open", "metrics"), Op("close", "metrics"),
           Op("unlink", "weights"), Op("unlink", "semantic"))
    BY <1>1, <1>2, <1>4, TwoAndTwo, Zenon
<1> QED
    BY <1>6, <1>7

LEMMA ResultOf ==
    \A f \in FileNames : /\ Result(Op("open", f)) = File(Last, FALSE)
                         /\ Result(Op("close", f)) = File(Last, TRUE)
                         /\ Result(Op("unlink", f)) = Absent
                         /\ \A k : Op(k, f).file = f
BY DEF Result, Op

-----------------------------------------------------------------------------
(* A file operation.                                                        *)

NextOp(passed, k) ==
    /\ passed = models[Last].passed /\ k < Length(passed)
    /\ ~broken /\ Last > 0 /\ Ahead(passed, k) /\ Done(passed, k)

LEMMA PublishTakesAnOp ==
    ASSUME PlanInv, Publish
    PROVE  \E passed \in BOOLEAN, k \in 0..5 :
               /\ NextOp(passed, k) /\ Ahead(passed, k + 1)'
               /\ files' = [files EXCEPT ![Plan(passed)[k + 1].file] = Result(Plan(passed)[k + 1])]
<1>1. /\ todo # <<>> /\ todo' = Tail(todo)
      /\ files' = [files EXCEPT ![Head(todo).file] = Result(Head(todo))]
    BY DEF Publish
<1>2. PICK passed \in BOOLEAN, k \in 0..6 :
          /\ passed = models[Last].passed /\ k <= Length(passed)
          /\ ~broken /\ Last > 0 /\ Ahead(passed, k) /\ Done(passed, k)
    BY <1>1 DEF PlanInv
<1>3. /\ todo \in Seq(Operations) /\ Len(todo) = Length(passed) - k
      /\ \A i \in 1..Len(todo) : todo[i] = Plan(passed)[k + i]
    BY <1>2 DEF Ahead
<1>4. Length(passed) \in {4, 6} /\ Length(passed) <= 6
    BY DEF Length
<1>5. Len(todo) \in Nat /\ Len(todo) # 0
    BY <1>1, <1>3, EmptySeq
<1>6. k < Length(passed) /\ k \in 0..5
    BY <1>2, <1>3, <1>4, <1>5
<1>7. Head(todo) = Plan(passed)[k + 1]
    BY <1>1, <1>3, <1>5
<1>8. Ahead(passed, k + 1)'
    <2>1. /\ Tail(todo) \in Seq(Operations) /\ Len(Tail(todo)) = Len(todo) - 1
          /\ \A i \in 1..Len(Tail(todo)) : Tail(todo)[i] = todo[i + 1]
        BY <1>1, <1>3, HeadTailProperties
    <2>2. PICK t \in Seq(Operations) : t = Tail(todo) /\ Len(t) = Len(todo) - 1
              /\ \A i \in 1..Len(t) : t[i] = todo[i + 1]
        BY <2>1
    <2>3. Len(t) = Len(todo) - 1 /\ \A i \in 1..Len(t) : t[i] = todo[i + 1]
        BY <2>2, Zenon
    <2>4. Len(t) = Length(passed) - (k + 1)
        BY <1>3, <1>4, <2>3
    <2>5. \A i \in 1..Len(t) : t[i] = Plan(passed)[k + 1 + i]
        <3> SUFFICES ASSUME NEW i \in 1..Len(t) PROVE t[i] = Plan(passed)[k + 1 + i]
            OBVIOUS
        <3>1. i + 1 \in 1..Len(todo) /\ k + (i + 1) = k + 1 + i
            BY <1>5, <2>3
        <3> QED
            BY <1>3, <2>3, <3>1
    <2> QED
        BY <1>1, <2>2, <2>4, <2>5 DEF Ahead
<1>9. files' = [files EXCEPT ![Plan(passed)[k + 1].file] = Result(Plan(passed)[k + 1])]
    BY <1>1, <1>7, Zenon
<1>10. NextOp(passed, k)
    BY <1>2, <1>6 DEF NextOp
<1> QED
    BY <1>6, <1>8, <1>9, <1>10

LEMMA PublishKeepsPlan ==
    ASSUME ModelsInv, PlanInv, FilesInv, Publish
    PROVE  PlanInv' /\ FilesInv'
<1>1. PICK passed \in BOOLEAN, k \in 0..5 :
          /\ NextOp(passed, k) /\ Ahead(passed, k + 1)'
          /\ files' = [files EXCEPT ![Plan(passed)[k + 1].file] = Result(Plan(passed)[k + 1])]
    BY PublishTakesAnOp
<1>2. /\ passed = models[Last].passed /\ k < Length(passed)
      /\ ~broken /\ Last > 0 /\ Done(passed, k)
    BY <1>1 DEF NextOp
<1>3. models' = models /\ Last' = Last /\ broken' = broken
    BY DEF Publish, Last
<1>4. Last \in Nat
    BY LenProperties DEF ModelsInv, Last
<1>5. PICK F \in [FileNames -> [gen : 0..Last, whole : BOOLEAN]] : F = files
    BY DEF FilesInv
<1> DEFINE Rec == [gen : 0..Last, whole : BOOLEAN]
<1>w. \A w \in BOOLEAN : File(Last, w) \in Rec /\ File(Last, w).gen = Last /\ File(Last, w).whole = w
    BY <1>4 DEF File
<1>6. PICK opened \in Rec : opened = File(Last, FALSE) /\ opened.gen = Last /\ opened.whole = FALSE
    BY <1>w
<1>7. PICK closed \in Rec : closed = File(Last, TRUE) /\ closed.gen = Last /\ closed.whole = TRUE
    BY <1>w
<1>v. \A g \in 0..Last, w \in BOOLEAN : LET r == [gen |-> g, whole |-> w] IN r \in Rec /\ r.gen = g /\ r.whole = w
    OBVIOUS
<1>8. PICK absent \in Rec : absent = Absent /\ absent.gen = 0 /\ absent.whole = FALSE
    <2>1. 0 \in 0..Last /\ FALSE \in BOOLEAN
        BY <1>4
    <2>2. PICK r \in Rec : r = [gen |-> 0, whole |-> FALSE] /\ r.gen = 0 /\ r.whole = FALSE
        BY <1>v, <2>1, Zenon
    <2> QED
        BY <2>2 DEF Absent
<1> HIDE DEF Rec
<1> DEFINE Sets(f, v) == files' = [F EXCEPT ![f] = v]
<1>9. /\ k = 0 => Sets("metrics", opened)
      /\ k = 1 => Sets("metrics", closed)
      /\ passed => /\ k = 2 => Sets("weights", opened)
                   /\ k = 3 => Sets("weights", closed)
                   /\ k = 4 => Sets("semantic", opened)
                   /\ k = 5 => Sets("semantic", closed)
      /\ ~passed => /\ k = 2 => Sets("weights", absent)
                    /\ k = 3 => Sets("semantic", absent)
    <2>1. "metrics" \in FileNames /\ "weights" \in FileNames /\ "semantic" \in FileNames
        BY DEF FileNames
    <2>2. PICK op : op = Plan(passed)[k + 1] /\ files' = [files EXCEPT ![op.file] = Result(op)]
        BY <1>1, Zenon
    <2>3. \A f \in FileNames : /\ op = Op("open", f) => Sets(f, opened)
                               /\ op = Op("close", f) => Sets(f, closed)
                               /\ op = Op("unlink", f) => Sets(f, absent)
        <3> SUFFICES ASSUME NEW f \in FileNames
                     PROVE  /\ op = Op("open", f) => Sets(f, opened)
                            /\ op = Op("close", f) => Sets(f, closed)
                            /\ op = Op("unlink", f) => Sets(f, absent)
            OBVIOUS
        <3>1. /\ op = Op("open", f) => op.file = f /\ Result(op) = opened
              /\ op = Op("close", f) => op.file = f /\ Result(op) = closed
              /\ op = Op("unlink", f) => op.file = f /\ Result(op) = absent
            <4>1. /\ Op("open", f).file = f /\ Result(Op("open", f)) = opened
                  /\ Op("close", f).file = f /\ Result(Op("close", f)) = closed
                  /\ Op("unlink", f).file = f /\ Result(Op("unlink", f)) = absent
                <5>1. opened = File(Last, FALSE) /\ closed = File(Last, TRUE) /\ absent = Absent
                    BY <1>6, <1>7, <1>8, Zenon
                <5> QED
                    BY <5>1, ResultOf, Zenon
            <4> QED
                BY <4>1, Zenon
        <3>2. files' = [F EXCEPT ![op.file] = Result(op)]
            BY <1>5, <2>2, Zenon
        <3>3. \A v : op.file = f /\ Result(op) = v => Sets(f, v)
            BY <3>2, Zenon
        <3> HIDE DEF Sets
        <3> QED
            BY <3>1, <3>3, Zenon
    <2> HIDE DEF Sets
    <2>4. CASE passed
        <3>1. Six(Plan(passed), Op("open", "metrics"), Op("close", "metrics"), Op("open", "weights"),
                  Op("close", "weights"), Op("open", "semantic"), Op("close", "semantic"))
            BY <2>4, PlanSteps
        <3>2. /\ k = 0 => op = Op("open", "metrics")
              /\ k = 1 => op = Op("close", "metrics")
              /\ k = 2 => op = Op("open", "weights")
              /\ k = 3 => op = Op("close", "weights")
              /\ k = 4 => op = Op("open", "semantic")
              /\ k = 5 => op = Op("close", "semantic")
            BY <2>2, <3>1 DEF Six
        <3> QED
            BY <2>1, <2>3, <2>4, <3>2
    <2>5. CASE ~passed
        <3>1. Four(Plan(passed), Op("open", "metrics"), Op("close", "metrics"),
                   Op("unlink", "weights"), Op("unlink", "semantic"))
            BY <2>5, PlanSteps
        <3>2. /\ k = 0 => op = Op("open", "metrics")
              /\ k = 1 => op = Op("close", "metrics")
              /\ k = 2 => op = Op("unlink", "weights")
              /\ k = 3 => op = Op("unlink", "semantic")
            BY <2>2, <3>1 DEF Four
        <3> QED
            BY <2>1, <2>3, <2>5, <3>2
    <2> QED
        BY <2>4, <2>5
<1>10. Length(passed) = IF passed THEN 6 ELSE 4
    BY DEF Length
<1>p. PICK m \in Rec, w \in Rec, s \in Rec : m = F["metrics"] /\ w = F["weights"] /\ s = F["semantic"]
    BY DEF FileNames, Rec
<1>q. \A v : /\ Sets("metrics", v) =>
                  files'["metrics"] = v /\ files'["weights"] = w /\ files'["semantic"] = s
             /\ Sets("weights", v) =>
                  files'["metrics"] = m /\ files'["weights"] = v /\ files'["semantic"] = s
             /\ Sets("semantic", v) =>
                  files'["metrics"] = m /\ files'["weights"] = w /\ files'["semantic"] = v
    BY <1>p DEF FileNames
<1>r. \A v \in Rec, f \in FileNames : Sets(f, v) => files' \in [FileNames -> Rec]
    BY DEF Rec
<1> HIDE DEF Sets
<1>t. PICK m2, w2, s2 :
          m2 = files'["metrics"] /\ w2 = files'["weights"] /\ s2 = files'["semantic"]
    OBVIOUS
<1>e. /\ k = 0 => m2 = opened /\ w2 = w /\ s2 = s
      /\ k = 1 => m2 = closed /\ w2 = w /\ s2 = s
      /\ k >= 2 => m2 = m
      /\ passed => /\ k = 2 => w2 = opened /\ s2 = s
                   /\ k = 3 => w2 = closed /\ s2 = s
                   /\ k = 4 => w2 = w /\ s2 = opened
                   /\ k = 5 => w2 = w /\ s2 = closed
      /\ ~passed => /\ k = 2 => w2 = absent /\ s2 = s
                    /\ k = 3 => w2 = w /\ s2 = absent
    BY <1>2, <1>9, <1>10, <1>q, <1>t
<1>11. Done(passed, k + 1)'
    <2>1. PICK o2, c2 : o2 = File(Last, FALSE) /\ c2 = File(Last, TRUE)
        OBVIOUS
    <2>2. /\ k = 1 => m = o2
          /\ k >= 2 => m = c2
          /\ passed => /\ k = 3 => w = o2
                       /\ k >= 4 => w = c2
                       /\ k = 5 => s = o2
                       /\ k >= 6 => s = c2
          /\ ~passed => /\ k >= 3 => w = absent
                        /\ k >= 4 => s = absent
        BY <1>2, <1>5, <1>8, <1>p, <2>1 DEF Done
    <2>3. o2 = opened /\ c2 = closed
        BY <1>6, <1>7, <2>1
    <2>4. /\ k + 1 = 1 => m2 = o2
          /\ k + 1 >= 2 => m2 = c2
          /\ passed => /\ k + 1 = 3 => w2 = o2
                       /\ k + 1 >= 4 => w2 = c2
                       /\ k + 1 = 5 => s2 = o2
                       /\ k + 1 >= 6 => s2 = c2
          /\ ~passed => /\ k + 1 >= 3 => w2 = absent
                        /\ k + 1 >= 4 => s2 = absent
        BY <1>2, <1>10, <1>e, <2>2, <2>3
    <2>5. /\ File(Last, FALSE)' = o2 /\ File(Last, TRUE)' = c2 /\ Absent' = absent
        BY <1>3, <1>8, <2>1 DEF File, Absent
    <2> QED
        BY <1>t, <2>4, <2>5 DEF Done
<1>12. PlanInv'
    <2>1. /\ passed = models'[Last'].passed /\ k + 1 <= Length(passed) /\ k + 1 \in 0..6
        BY <1>2, <1>3, <1>10
    <2>2. ~broken' /\ Last' > 0
        BY <1>2, <1>3
    <2> QED
        BY <1>1, <1>11, <2>1, <2>2 DEF PlanInv
<1>13. FilesInv'
    <2>1. /\ m.whole => m.gen > 0
          /\ w.whole => w.gen > 0
          /\ s.whole => s.gen > 0
          /\ w.gen > 0 => models[w.gen].passed
        BY <1>5, <1>p DEF FilesInv, FileNames
    <2>2. files' \in [FileNames -> Rec]
        <3>1. "metrics" \in FileNames /\ "weights" \in FileNames /\ "semantic" \in FileNames
            BY DEF FileNames
        <3> QED
            BY <1>2, <1>9, <1>10, <1>r, <3>1
    <2>3. /\ m2 \in {m, opened, closed} /\ s2 \in {s, opened, closed, absent}
          /\ w2 \in {w, absent} \/ (passed /\ w2 \in {opened, closed})
        BY <1>2, <1>10, <1>e
    <2>4. /\ m2.whole => m2.gen > 0
          /\ w2.whole => w2.gen > 0
          /\ s2.whole => s2.gen > 0
        BY <1>2, <1>6, <1>7, <1>8, <2>1, <2>3
    <2>5. w2.gen > 0 => models[w2.gen].passed
        <3>1. CASE w2 = w
            BY <2>1, <3>1
        <3>2. CASE w2 = absent
            BY <1>8, <3>2
        <3>3. CASE passed /\ w2.gen = Last
            BY <1>2, <3>3
        <3> QED
            BY <1>6, <1>7, <2>3, <3>1, <3>2, <3>3
    <2> QED
        BY <1>3, <1>t, <2>2, <2>4, <2>5 DEF FilesInv, FileNames, Rec
<1> QED
    BY <1>12, <1>13

LEMMA CalmMeansFinished ==
    ASSUME ModelsInv, PlanInv, Calm
    PROVE  CalmState
<1>1. todo = <<>> /\ ~broken
    BY DEF Calm
<1>2. CASE Last = 0 /\ \A f \in FileNames : files[f] = Absent
    BY <1>2 DEF CalmState
<1>3. CASE Last > 0 /\ \E passed \in BOOLEAN, k \in 0..6 :
               /\ passed = models[Last].passed /\ k <= Length(passed)
               /\ Ahead(passed, k) /\ Done(passed, k)
    <2>1. PICK passed \in BOOLEAN, k \in 0..6 :
               /\ passed = models[Last].passed /\ k <= Length(passed)
               /\ Ahead(passed, k) /\ Done(passed, k)
        BY <1>3
    <2>2. Length(passed) = IF passed THEN 6 ELSE 4
        BY DEF Length
    <2>3. k = Length(passed)
        BY <1>1, <2>1, <2>2, EmptySeq DEF Ahead
    <2>4. CASE passed
        <3>1. k >= 2 /\ k >= 4 /\ k >= 6
            BY <2>2, <2>3, <2>4
        <3>2. /\ files["metrics"] = File(Last, TRUE) /\ files["weights"] = File(Last, TRUE)
              /\ files["semantic"] = File(Last, TRUE)
            BY <2>1, <2>4, <3>1, Zenon DEF Done
        <3> QED
            BY <1>3, <2>1, <2>4, <3>2 DEF CalmState, FileNames
    <2>5. CASE ~passed
        <3>1. k >= 2 /\ k >= 3 /\ k >= 4
            BY <2>2, <2>3, <2>5
        <3>2. /\ files["metrics"] = File(Last, TRUE) /\ files["weights"] = Absent
              /\ files["semantic"] = Absent
            BY <2>1, <2>5, <3>1, Zenon DEF Done
        <3> QED
            BY <1>3, <2>1, <2>5, <3>2 DEF CalmState
    <2> QED
        BY <2>4, <2>5
<1> QED
    BY <1>1, <1>2, <1>3 DEF PlanInv

LEMMA TrainKeepsPlan ==
    ASSUME ModelsInv, FilesInv, Train
    PROVE  /\ ModelsInv' /\ PlanInv' /\ FilesInv' /\ Last' = Last + 1
           /\ \A g \in 1..Last : models'[g] = models[g]
<1>1. PICK d \in Datasets : models' = Append(models, Gate(d)) /\ todo' = Plan(Gate(d).passed)
    BY DEF Train
<1>2. PICK G \in Trained : /\ G = Gate(d)
                           /\ G.passed => G.deployable # {}
                           /\ G.allClass => G.passed
    BY GateTypes
<1>3. PICK n \in Nat : n = Last /\ n < MaxTrainings
    BY LenProperties DEF ModelsInv, Last, Train
<1>4. /\ models' \in Seq(Trained) /\ Last' = n + 1 /\ models'[n + 1] = G
      /\ \A g \in 1..n : models'[g] = models[g]
    <2>1. PICK M \in Seq(Trained) : M = models /\ Len(M) = n
        BY <1>3 DEF ModelsInv, Last
    <2>2. PICK N : N = models' /\ N = Append(M, G)
        BY <1>1, <1>2, <2>1, Zenon
    <2>3. /\ N \in Seq(Trained) /\ Len(N) = n + 1 /\ N[n + 1] = G
          /\ \A g \in 1..n : N[g] = M[g]
        BY <2>1, <2>2
    <2> QED
        BY <2>1, <2>2, <2>3 DEF Last
<1>5. ModelsInv'
    <2>1. \A g \in 1..(n + 1) : g = n + 1 \/ g \in 1..n
        OBVIOUS
    <2>2. n + 1 <= MaxTrainings
        BY <1>3, BoundsAssumption
    <2> QED
        <3>1. PICK N : N = models'
            OBVIOUS
        <3>2. \A g \in 1..n : /\ N[g].passed => N[g].deployable # {}
                              /\ N[g].allClass => N[g].passed
            BY <1>3, <1>4, <3>1 DEF ModelsInv
        <3>3. \A g \in 1..(n + 1) : /\ N[g].passed => N[g].deployable # {}
                                    /\ N[g].allClass => N[g].passed
            <4>1. N[n + 1].passed => N[n + 1].deployable # {}
                BY <1>2, <1>4, <3>1, Zenon
            <4>2. N[n + 1].allClass => N[n + 1].passed
                BY <1>2, <1>4, <3>1, Zenon
            <4> QED
                BY <2>1, <3>2, <4>1, <4>2
        <3> QED
            BY <1>4, <2>2, <3>1, <3>3 DEF ModelsInv
<1>6. PlanInv'
    <2>1. PICK passed \in BOOLEAN : passed = G.passed
        BY TrainedIsModel
    <2>2. PICK t : t = todo' /\ t = Plan(passed)
        BY <1>1, <1>2, <2>1, Zenon
    <2>3. t \in Seq(Operations) /\ Len(t) = Length(passed)
        <3>1. CASE passed
            BY <2>2, <3>1, PlanSteps DEF Six, Length
        <3>2. CASE ~passed
            BY <2>2, <3>2, PlanSteps DEF Four, Length
        <3> QED
            BY <3>1, <3>2
    <2>4. Ahead(passed, 0)'
        BY <2>2, <2>3 DEF Ahead, Length
    <2>5. Done(passed, 0)'
        BY DEF Done
    <2>6. ~broken' /\ Last' > 0 /\ passed = models'[Last'].passed /\ 0 <= Length(passed)
        BY <1>3, <1>4, <2>1 DEF Train, Length
    <2> QED
        BY <2>4, <2>5, <2>6 DEF PlanInv
<1>7. FilesInv'
    <2>1. files' = files
        BY DEF Train
    <2>2. files \in [FileNames -> [gen : 0..n, whole : BOOLEAN]]
        BY <1>3 DEF FilesInv
    <2>3. files' \in [FileNames -> [gen : 0..Last', whole : BOOLEAN]]
        BY <1>4, <2>1, <2>2
    <2>4. files["weights"].gen \in 0..n
        BY <2>2 DEF FileNames
    <2> QED
        BY <1>4, <2>1, <2>3, <2>4 DEF FilesInv
<1> QED
    BY <1>3, <1>4, <1>5, <1>6, <1>7

LEMMA OthersKeepPlan ==
    ASSUME ModelsInv, PlanInv, FilesInv, UNCHANGED <<models, files>>,
           UNCHANGED <<todo, broken>> \/ (todo' = <<>> /\ broken')
    PROVE  ModelsInv' /\ PlanInv' /\ FilesInv' /\ Last' = Last
<1>1. Last' = Last
    BY DEF Last
<1>2. ModelsInv' /\ FilesInv'
    <2>1. ModelsInv'
        BY <1>1 DEF ModelsInv
    <2>2. FilesInv'
        BY <1>1 DEF FilesInv
    <2> QED
        BY <2>1, <2>2
<1>3. CASE todo' = <<>> /\ broken'
    BY <1>1, <1>2, <1>3, Zenon DEF PlanInv
<1>4. CASE UNCHANGED <<todo, broken>>
    <2> SUFFICES PlanInv'
        BY <1>1, <1>2
    <2>1. \A p, k : Ahead(p, k)' = Ahead(p, k)
        BY <1>4 DEF Ahead
    <2>2. \A p, k : Done(p, k)' = Done(p, k)
        BY <1>1 DEF Done, File, Absent
    <2>3. CASE todo = <<>> /\ broken
        BY <1>4, <2>3, Zenon DEF PlanInv
    <2>4. CASE todo = <<>> /\ ~broken /\ Last = 0 /\ \A f \in FileNames : files[f] = Absent
        BY <1>1, <1>4, <2>4, Zenon DEF PlanInv, Absent
    <2>5. CASE /\ ~broken /\ Last > 0
               /\ \E passed \in BOOLEAN, k \in 0..6 :
                      /\ passed = models[Last].passed /\ k <= Length(passed)
                      /\ Ahead(passed, k) /\ Done(passed, k)
        <3>1. PICK passed \in BOOLEAN, k \in 0..6 :
                  /\ passed = models[Last].passed /\ k <= Length(passed)
                  /\ Ahead(passed, k) /\ Done(passed, k)
            BY <2>5
        <3>2. Ahead(passed, k)' /\ Done(passed, k)'
            BY <2>1, <2>2, <3>1, Zenon
        <3>3. passed = models'[Last'].passed /\ ~broken' /\ Last' > 0
            BY <1>1, <1>4, <2>5, <3>1
        <3> QED
            BY <3>1, <3>2, <3>3, Zenon DEF PlanInv
    <2> QED
        BY <2>3, <2>4, <2>5, Zenon DEF PlanInv
<1> QED
    BY <1>1, <1>2, <1>3, <1>4

-----------------------------------------------------------------------------
(* The scans.                                                               *)

LEMMA CalmFiles ==
    ASSUME ModelsInv, PlanInv, Calm
    PROVE  /\ Last > 0 /\ models[Last].passed =>
                  \A f \in FileNames : Present(f) /\ files[f].whole /\ files[f].gen = Last
           /\ ~(Last > 0 /\ models[Last].passed) => ~BothThere
<1>1. CalmState
    BY CalmMeansFinished
<1>2. Last \in Nat
    BY LenProperties DEF ModelsInv, Last
<1>3. CASE Last > 0 /\ models[Last].passed
    <2>1. \A f \in FileNames : files[f] = File(Last, TRUE)
        <3>1. ~(Last = 0)
            BY <1>2, <1>3
        <3> QED
            BY <1>1, <1>3, <3>1, Zenon DEF CalmState
    <2>2. \A g \in Nat, w \in BOOLEAN : File(g, w).whole = w /\ File(g, w).gen = g
        BY DEF File
    <2>3. PICK w \in BOOLEAN : w = TRUE
        OBVIOUS
    <2>4. PICK c : c = File(Last, w) /\ c.whole = w /\ c.gen = Last
        BY <1>2, <2>2, Zenon
    <2>5. c # Absent
        BY <1>3, <1>2, <2>4 DEF Absent
    <2>6. \A f \in FileNames : files[f] = c
        BY <2>1, <2>3, <2>4, Zenon
    <2> QED
        BY <1>3, <2>3, <2>4, <2>5, <2>6 DEF Present
<1>4. CASE ~(Last > 0 /\ models[Last].passed)
    BY <1>1, <1>4 DEF CalmState, BothThere, Present, FileNames
<1> QED
    BY <1>3, <1>4

LEMMA ScanSteps ==
    ASSUME NEW s, ScanOK(s), scan' = s, UNCHANGED <<models, files, todo, broken>>
    PROVE  ScanInv'
<1>1. Last' = Last /\ (Calm' <=> Calm) /\ (BothThere' <=> BothThere)
    BY DEF Last, Calm, BothThere, Present, Absent
<1>2. Scan' = Scan
    BY <1>1 DEF Scan
<1>3. scan' \in Scan'
    BY <1>2 DEF ScanOK
<1> QED
    BY <1>1, <1>3 DEF ScanOK, ScanInv

LEMMA ScanDisturbed ==
    ASSUME ModelsInv, ScanInv, scan' \in {scan, Disturbed(scan)}, ~scan'.calm, Last' >= Last,
           Last' \in Nat, \A g \in 1..Last : models'[g] = models[g]
    PROVE  ScanInv'
<1>1. PICK n \in Nat : n = Last
    BY LenProperties DEF ModelsInv, Last
<1>2. PICK s \in Scan : s = scan
    BY DEF ScanInv, ScanOK
<1>3. PICK t \in Scan : /\ t = scan' /\ t.at = s.at /\ t.gen = s.gen /\ t.result = s.result
                        /\ t.label = s.label /\ t.method = s.method /\ t.scores = s.scores
    <2>1. PICK t \in Scan : /\ t = Disturbed(s) /\ t.at = s.at /\ t.gen = s.gen
                            /\ t.result = s.result /\ t.label = s.label /\ t.method = s.method
                            /\ t.scores = s.scores
        <3>1. PICK no \in BOOLEAN : no = FALSE
            OBVIOUS
        <3>2. PICK t \in Scan : /\ t = [s EXCEPT !.calm = no] /\ t.at = s.at /\ t.gen = s.gen
                                /\ t.result = s.result /\ t.label = s.label
                                /\ t.method = s.method /\ t.scores = s.scores
            BY DEF Scan
        <3> QED
            BY <3>1, <3>2, Zenon DEF Disturbed
    <2> QED
        BY <1>2, <2>1
<1>4. t \in Scan'
    BY <1>1 DEF Scan
<1>5. t.gen > 0 => models'[t.gen] = models[t.gen]
    <2>1. t.gen \in 0..n
        BY <1>1 DEF Scan
    <2> QED
        BY <1>1, <2>1
<1>6. ~t.calm
    BY <1>3
<1> QED
    BY <1>2, <1>3, <1>4, <1>5, <1>6 DEF ScanInv, ScanOK

LEMMA Gone ==
    ASSUME NEW s \in Scan, NEW a \in Places
    PROVE  \E t \in Scan : /\ t = [s EXCEPT !.at = a] /\ t.at = a /\ t.calm = s.calm
                           /\ t.gen = s.gen /\ t.result = s.result
<1>1. PICK t : t = [s EXCEPT !.at = a]
    OBVIOUS
<1>2. t \in Scan
    BY <1>1 DEF Scan
<1>3. t.at = a /\ t.calm = s.calm /\ t.gen = s.gen /\ t.result = s.result
    BY <1>1 DEF Scan
<1> QED
    BY <1>1, <1>2, <1>3

LEMMA Ended ==
    ASSUME NEW s \in Scan, NEW r \in Results
    PROVE  \E t \in Scan : /\ t = [s EXCEPT !.at = "done", !.result = r] /\ t.at = "done"
                           /\ t.calm = s.calm /\ t.gen = s.gen /\ t.result = r
<1>1. PICK done \in Places : done = "done"
    BY DEF Places
<1>2. PICK t : t = [s EXCEPT !.at = done, !.result = r]
    OBVIOUS
<1>3. t \in Scan
    BY <1>2 DEF Scan
<1>4. t.at = done /\ t.calm = s.calm /\ t.gen = s.gen /\ t.result = r
    BY <1>2 DEF Scan
<1> QED
    BY <1>1, <1>2, <1>3, <1>4

(* A scan of a quiet time ends without a label only if there is none.       *)
LEMMA EndsWell ==
    ASSUME ScanInv, NEW r \in Results, scan.at # "done", End(r), r \notin {"labelled", "mixed"},
           scan.calm => /\ ~(Last > 0 /\ models[Last].passed)
                        /\ r \in {"unavailable", "refused"},
           UNCHANGED <<models, files, todo, broken>>
    PROVE  ScanInv'
<1>1. PICK s \in Scan : s = scan
    BY DEF ScanInv, ScanOK
<1>2. PICK t \in Scan : /\ t = [s EXCEPT !.at = "done", !.result = r] /\ t.at = "done"
                        /\ t.calm = s.calm /\ t.gen = s.gen /\ t.result = r
    BY Ended
<1>3. scan' = t
    BY <1>1, <1>2 DEF End
<1>4. ScanOK(t)
    BY <1>1, <1>2 DEF ScanInv, ScanOK
<1> QED
    BY <1>3, <1>4, ScanSteps

LEMMA GoesOn ==
    ASSUME ScanInv, NEW a \in {"available", "again", "weights"}, scan.at # "done", Go(a),
           a # "available" => BothThere,
           UNCHANGED <<models, files, todo, broken>>
    PROVE  ScanInv'
<1>1. PICK s \in Scan : s = scan
    BY DEF ScanInv, ScanOK
<1>2. PICK t \in Scan : /\ t = [s EXCEPT !.at = a] /\ t.at = a /\ t.calm = s.calm
                        /\ t.gen = s.gen /\ t.result = s.result
    <2>1. a \in Places
        BY DEF Places
    <2> QED
        BY <2>1, Gone
<1>3. scan' = t
    BY <1>1, <1>2 DEF Go
<1>4. ScanOK(t)
    BY <1>1, <1>2 DEF ScanInv, ScanOK
<1> QED
    BY <1>3, <1>4, ScanSteps

LEMMA IdleIsScan ==
    ASSUME ModelsInv, NEW a \in Places, NEW c \in BOOLEAN
    PROVE  \E t \in Scan : /\ t = [Idle EXCEPT !.at = a, !.calm = c] /\ t.at = a /\ t.calm = c
                           /\ t.gen = 0 /\ t.result = "none"
<1>1. PICK place \in Places, result \in Results, method \in Methods :
          place = "idle" /\ result = "none" /\ method = "candidate"
    BY DEF Places, Results, Methods
<1>2. PICK no \in BOOLEAN : no = FALSE
    OBVIOUS
<1>3. PICK region \in AnyRegion : region = CHOOSE r \in Regions : TRUE
    BY DEF AnyRegion
<1>4. 0 \in 0..Last /\ NoneId \in 0..NoneId
    <2>1. Last \in Nat
        BY LenProperties DEF ModelsInv, Last
    <2> QED
        BY <2>1, NoneIdAssumption
<1>5. PICK i : i = [at |-> place, calm |-> no, gen |-> 0, result |-> result,
                    label |-> NoneId, method |-> method, scores |-> region]
    OBVIOUS
<1>6. i = Idle
    BY <1>1, <1>2, <1>3, <1>5, Zenon DEF Idle
<1>7. i \in Scan /\ i.gen = 0 /\ i.result = result
    BY <1>4, <1>5 DEF Scan
<1>8. PICK t : t = [i EXCEPT !.at = a, !.calm = c]
    OBVIOUS
<1>9. t \in Scan
    BY <1>7, <1>8 DEF Scan
<1>10. t.at = a /\ t.calm = c /\ t.gen = i.gen /\ t.result = i.result
    BY <1>7, <1>8 DEF Scan
<1> QED
    BY <1>1, <1>6, <1>7, <1>8, <1>9, <1>10

LEMMA StartScanKeeps ==
    ASSUME ModelsInv, ScanInv, StartScan
    PROVE  ScanInv'
<1>1. PICK required \in BOOLEAN :
          scan' = [Idle EXCEPT !.at = IF required THEN "ready" ELSE "available", !.calm = Calm]
    BY DEF StartScan
<1>2. PICK a \in Places : /\ a = IF required THEN "ready" ELSE "available"
                          /\ a \in {"ready", "available"}
    BY DEF Places
<1>3. PICK c \in BOOLEAN : c = Calm
    BY DEF Calm
<1>4. PICK t \in Scan : /\ t = [Idle EXCEPT !.at = a, !.calm = c] /\ t.at = a /\ t.calm = c
                        /\ t.gen = 0 /\ t.result = "none"
    BY IdleIsScan
<1>5. scan' = t
    BY <1>1, <1>2, <1>3, <1>4, Zenon
<1>6. ScanOK(t)
    BY <1>2, <1>3, <1>4 DEF ScanOK
<1> QED
    BY <1>5, <1>6, ScanSteps DEF StartScan, Scanning

LEMMA NextScanKeeps ==
    ASSUME ModelsInv, ScanInv, NextScan
    PROVE  ScanInv'
<1>1. PICK a \in Places : a = "idle"
    BY DEF Places
<1>2. PICK c \in BOOLEAN : c = FALSE
    OBVIOUS
<1>3. PICK t \in Scan : /\ t = [Idle EXCEPT !.at = a, !.calm = c] /\ t.at = a /\ t.calm = c
                        /\ t.gen = 0 /\ t.result = "none"
    BY IdleIsScan
<1>4. scan' = t
    BY <1>1, <1>2, <1>3 DEF NextScan, Idle
<1>5. ScanOK(t)
    BY <1>1, <1>2, <1>3 DEF ScanOK
<1> QED
    BY <1>4, <1>5, ScanSteps DEF NextScan, Scanning

LEMMA RequireReadyKeeps ==
    ASSUME ModelsInv, PlanInv, ScanInv, RequireReady
    PROVE  ScanInv'
<1>1. scan.at = "ready" /\ UNCHANGED <<models, files, todo, broken>>
    BY DEF RequireReady, Scanning
<1>2. CASE BothThere /\ Present("metrics")
    <2>1. Go("available")
        BY <1>2 DEF RequireReady
    <2> QED
        BY <1>1, <1>2, <2>1, GoesOn
<1>3. CASE ~(BothThere /\ Present("metrics"))
    <2>1. PICK r \in Results : r = "refused"
        BY DEF Results
    <2>2. End(r)
        BY <1>3, <2>1 DEF RequireReady
    <2>3. scan.calm => ~(Last > 0 /\ models[Last].passed)
        BY <1>3, CalmFiles DEF ScanInv, ScanOK, BothThere, FileNames
    <2> QED
        BY <1>1, <2>1, <2>2, <2>3, EndsWell
<1> QED
    BY <1>2, <1>3

LEMMA AvailableKeeps ==
    ASSUME ModelsInv, PlanInv, ScanInv, Available
    PROVE  ScanInv'
<1>1. scan.at = "available" /\ UNCHANGED <<models, files, todo, broken>>
    BY DEF Available, Scanning
<1>2. CASE BothThere
    <2>1. Go("again")
        BY <1>2 DEF Available
    <2> QED
        BY <1>1, <1>2, <2>1, GoesOn
<1>3. CASE ~BothThere
    <2>1. PICK r \in Results : r = "unavailable"
        BY DEF Results
    <2>2. End(r)
        BY <1>3, <2>1 DEF Available
    <2>3. scan.calm => ~(Last > 0 /\ models[Last].passed)
        BY <1>3, CalmFiles DEF ScanInv, ScanOK, BothThere, FileNames
    <2> QED
        BY <1>1, <2>1, <2>2, <2>3, EndsWell
<1> QED
    BY <1>2, <1>3

LEMMA AvailableAgainKeeps ==
    ASSUME ModelsInv, PlanInv, ScanInv, AvailableAgain
    PROVE  ScanInv'
<1>1. scan.at = "again" /\ UNCHANGED <<models, files, todo, broken>>
    BY DEF AvailableAgain, Scanning
<1>2. CASE BothThere
    <2>1. Go("weights")
        BY <1>2 DEF AvailableAgain
    <2> QED
        BY <1>1, <1>2, <2>1, GoesOn
<1>3. CASE ~BothThere
    <2>1. PICK r \in Results : r = "silent"
        BY DEF Results
    <2>2. End(r)
        BY <1>3, <2>1 DEF AvailableAgain
    <2>3. ~scan.calm
        BY <1>1, <1>3 DEF ScanInv, ScanOK
    <2> QED
        BY <1>1, <2>1, <2>2, <2>3, EndsWell
<1> QED
    BY <1>2, <1>3

LEMMA LoadWeightsKeeps ==
    ASSUME ModelsInv, PlanInv, FilesInv, ScanInv, LoadWeights
    PROVE  ScanInv'
<1>1. scan.at = "weights" /\ UNCHANGED <<models, files, todo, broken>>
    BY DEF LoadWeights, Scanning
<1>2. PICK s \in Scan : s = scan
    BY DEF ScanInv, ScanOK
<1>3. scan.calm => /\ BothThere /\ Calm
                   /\ Last > 0 /\ models[Last].passed
                   /\ files["weights"].whole /\ files["weights"].gen = Last
    <2>1. scan.calm => BothThere /\ Calm
        BY <1>1 DEF ScanInv, ScanOK
    <2> QED
        BY <2>1, CalmFiles DEF FileNames
<1>4. CASE files["weights"].whole
    <2>1. PICK g \in 0..Last : g = files["weights"].gen /\ g > 0 /\ models[g].passed
        BY <1>4 DEF FilesInv, FileNames
    <2>2. PICK place \in Places : place = "semantic"
        BY DEF Places
    <2>3. PICK t : t = [s EXCEPT !.at = place, !.gen = g]
        OBVIOUS
    <2>4. t \in Scan
        BY <2>3 DEF Scan
    <2>5. t.at = place /\ t.calm = s.calm /\ t.gen = g /\ t.result = s.result
        BY <2>3 DEF Scan
    <2>6. scan' = t
        BY <1>2, <1>4, <2>1, <2>2, <2>3 DEF LoadWeights
    <2>7. ScanOK(t)
        BY <1>1, <1>2, <1>3, <2>1, <2>2, <2>4, <2>5 DEF ScanInv, ScanOK
    <2> QED
        BY <1>1, <2>6, <2>7, ScanSteps
<1>5. CASE ~files["weights"].whole
    <2>1. PICK r \in Results : r = "failed"
        BY DEF Results
    <2>2. End(r)
        BY <1>5, <2>1 DEF LoadWeights
    <2> QED
        BY <1>1, <1>3, <1>5, <2>1, <2>2, EndsWell
<1> QED
    BY <1>4, <1>5

LEMMA RecogniseKeeps ==
    ASSUME ModelsInv, PlanInv, FilesInv, ScanInv, Recognise
    PROVE  ScanInv'
<1>1. scan.at = "semantic" /\ UNCHANGED <<models, files, todo, broken>>
    BY DEF Recognise, Scanning
<1>2. PICK s \in Scan : s = scan
    BY DEF ScanInv, ScanOK
<1>3. scan.calm => /\ Calm /\ scan.gen = Last
                   /\ Last > 0 /\ models[Last].passed
                   /\ files["semantic"].whole /\ files["semantic"].gen = Last
    <2>1. scan.calm => BothThere /\ Calm /\ scan.gen = Last
        BY <1>1 DEF ScanInv, ScanOK
    <2> QED
        BY <2>1, CalmFiles DEF FileNames
<1>4. CASE files["semantic"].whole
    <2>1. PICK r \in Regions :
              LET v == Assertion(models[scan.gen], r) IN
              scan' = [scan EXCEPT
                  !.at = "done", !.scores = r, !.label = v.label, !.method = v.method,
                  !.result = IF files["semantic"].gen = scan.gen THEN "labelled" ELSE "mixed"]
        BY <1>4 DEF Recognise
    <2>2. s.gen > 0 /\ models[s.gen].passed /\ s.gen \in 1..Last
        BY <1>1, <1>2 DEF ScanInv, ScanOK, Scan
    <2>3. PICK m \in Trained : m = models[s.gen]
        BY <2>2, ElementOfSeq DEF ModelsInv, Last
    <2>4. PICK v : v = Assertion(m, r)
        OBVIOUS
    <2>5. v.label \in 0..NoneId /\ v.method \in Methods
        BY <2>4, TrainedIsModel, RegionsAssumption, AssertionTypes DEF Methods
    <2>6. PICK done \in Places : done = "done"
        BY DEF Places
    <2>7. PICK res \in Results :
              /\ res = (IF files["semantic"].gen = s.gen THEN "labelled" ELSE "mixed")
              /\ res \in {"labelled", "mixed"}
        BY DEF Results
    <2>8. PICK l \in 0..NoneId, w \in Methods, region \in AnyRegion :
              l = v.label /\ w = v.method /\ region = r
        BY <2>5 DEF AnyRegion
    <2>9. PICK t : t = [s EXCEPT !.at = done, !.scores = region, !.label = l, !.method = w,
                                 !.result = res]
        OBVIOUS
    <2>10. t \in Scan
        BY <2>9 DEF Scan
    <2>11. /\ t.at = done /\ t.calm = s.calm /\ t.gen = s.gen /\ t.result = res
           /\ t.label = l /\ t.method = w /\ t.scores = region
        BY <2>9 DEF Scan
    <2>12. scan' = t
        BY <1>2, <2>1, <2>3, <2>4, <2>6, <2>7, <2>8, <2>9
    <2>13. ScanOK(t)
        <3>1. t.calm => res = "labelled" /\ t.gen = Last /\ Last > 0 /\ models[Last].passed
            BY <1>2, <1>3, <2>7, <2>11
        <3>2. /\ t.label = Assertion(models[t.gen], t.scores).label
              /\ t.method = Assertion(models[t.gen], t.scores).method /\ t.scores \in Regions
            BY <2>3, <2>4, <2>8, <2>11
        <3>3. t.gen > 0 /\ models[t.gen].passed
            BY <2>2, <2>11
        <3>4. t.calm => Calm
            BY <1>2, <1>3, <2>11
        <3> QED
            BY <2>6, <2>7, <2>10, <2>11, <3>1, <3>2, <3>3, <3>4 DEF ScanOK
    <2> QED
        BY <1>1, <2>12, <2>13, ScanSteps
<1>5. CASE ~files["semantic"].whole
    <2>1. PICK r \in Results : r = "failed"
        BY DEF Results
    <2>2. End(r)
        BY <1>5, <2>1 DEF Recognise
    <2> QED
        BY <1>1, <1>3, <1>5, <2>1, <2>2, EndsWell
<1> QED
    BY <1>4, <1>5

-----------------------------------------------------------------------------
(* The check script.                                                        *)

LEMMA CalmMetrics ==
    ASSUME ModelsInv, PlanInv, Calm
    PROVE  /\ files["metrics"].whole => Last > 0 /\ files["metrics"].gen = Last
           /\ Last > 0 /\ models[Last].passed => \A f \in FileNames : files[f] = File(Last, TRUE)
<1>1. CalmState
    BY CalmMeansFinished
<1>2. Last \in Nat
    BY LenProperties DEF ModelsInv, Last
<1>3. ~Absent.whole
    BY DEF Absent
<1>4. \A w : File(Last, w).gen = Last
    BY DEF File
<1>5. "metrics" \in FileNames
    BY DEF FileNames
<1>6. CASE Last = 0 /\ \A f \in FileNames : files[f] = Absent
    <2>1. ~files["metrics"].whole
        BY <1>3, <1>5, <1>6
    <2> QED
        BY <1>2, <1>6, <2>1
<1>7. CASE /\ Last > 0 /\ models[Last].passed
           /\ \A f \in FileNames : files[f] = File(Last, TRUE)
    BY <1>4, <1>5, <1>7, Zenon
<1>8. CASE /\ Last > 0 /\ ~models[Last].passed /\ files["metrics"] = File(Last, TRUE)
    BY <1>4, <1>8, Zenon
<1> QED
    BY <1>1, <1>6, <1>7, <1>8, Zenon DEF CalmState

LEMMA CheckSteps ==
    ASSUME NEW c, CheckOK(c), check' = c, UNCHANGED <<models, files, todo, broken>>
    PROVE  CheckInv'
<1>1. Last' = Last /\ (Calm' <=> Calm) /\ (BothThere' <=> BothThere)
    BY DEF Last, Calm, BothThere, Present, Absent
<1>2. Check' = Check
    BY <1>1 DEF Check
<1>3. check' \in Check'
    BY <1>2 DEF CheckOK
<1>4. \A w : File(Last, w)' = File(Last, w)
    BY <1>1 DEF File
<1>5. (\A f \in FileNames : files[f] = File(Last, TRUE)) =>
          \A f \in FileNames : files'[f] = File(Last, TRUE)'
    BY <1>4, Zenon
<1> QED
    BY <1>1, <1>3, <1>5 DEF CheckOK, CheckInv

LEMMA CheckDisturbed ==
    ASSUME ModelsInv, CheckInv, check' \in {check, Disturbed(check)}, ~check'.calm,
           Last' >= Last, Last' \in Nat
    PROVE  CheckInv'
<1>1. PICK n \in Nat : n = Last
    BY LenProperties DEF ModelsInv, Last
<1>2. PICK c \in Check : c = check
    BY DEF CheckInv, CheckOK
<1>3. PICK no \in BOOLEAN : no = FALSE
    OBVIOUS
<1>4. PICK t : t = [c EXCEPT !.calm = no]
    OBVIOUS
<1>5. t \in Check
    BY <1>4 DEF Check
<1>6. t = Disturbed(check)
    BY <1>2, <1>3, <1>4, Zenon DEF Disturbed
<1>7. check' \in Check
    BY <1>2, <1>5, <1>6
<1>8. check' \in Check'
    BY <1>1, <1>7 DEF Check
<1> QED
    BY <1>8 DEF CheckInv, CheckOK

LEMMA CheckRecords ==
    ASSUME ModelsInv, NEW a \in CheckPlaces, NEW c \in BOOLEAN, NEW g \in 0..Last,
           NEW v \in Verdicts, NEW x \in BOOLEAN
    PROVE  LET t == [at |-> a, calm |-> c, gen |-> g, result |-> v, artifacts |-> x] IN
           t \in Check /\ t.at = a /\ t.calm = c /\ t.result = v /\ t.gen = g
BY DEF Check

LEMMA VerdictKeeps ==
    ASSUME CheckInv, NEW v \in Verdicts, Verdict(v), UNCHANGED <<models, files, todo, broken>>,
           check.calm => /\ v = "ok" => \A f \in FileNames : files[f] = File(Last, TRUE)
                         /\ v = "nothing deployable" => ~BothThere
                         /\ v # "skipped"
    PROVE  CheckInv'
<1>1. PICK c \in Check : c = check
    BY DEF CheckInv, CheckOK
<1>2. PICK done \in CheckPlaces : done = "done"
    BY DEF CheckPlaces
<1>3. PICK t : t = [c EXCEPT !.at = done, !.result = v]
    OBVIOUS
<1>4. t \in Check
    BY <1>3 DEF Check
<1>5. t.at = done /\ t.calm = c.calm /\ t.result = v
    BY <1>3 DEF Check
<1>6. check' = t
    BY <1>1, <1>2, <1>3 DEF Verdict
<1>7. CheckOK(t)
    <2>1. t.calm => Calm
        BY <1>1, <1>5 DEF CheckInv, CheckOK
    <2>2. t.calm => /\ t.result = "ok" => \A f \in FileNames : files[f] = File(Last, TRUE)
                    /\ t.result = "nothing deployable" => ~BothThere
                    /\ t.result # "skipped"
        BY <1>1, <1>5, Zenon
    <2> QED
        BY <1>2, <1>4, <1>5, <2>1, <2>2 DEF CheckOK
<1> QED
    BY <1>6, <1>7, CheckSteps

Fresh(c, x, g) == [NoCheck EXCEPT !.calm = c, !.artifacts = x, !.gen = g]
Judge(p, a, v) == [p EXCEPT !.at = a, !.result = v]

LEMMA FreshCheck ==
    ASSUME ModelsInv, NEW c \in BOOLEAN, NEW x \in BOOLEAN, NEW g \in 0..Last
    PROVE  \E p \in Check : /\ p = Fresh(c, x, g)
                            /\ p.calm = c /\ p.result = "none"
<1>1. PICK idle \in CheckPlaces, no \in BOOLEAN, none \in Verdicts :
          idle = "idle" /\ no = FALSE /\ none = "none"
    BY DEF CheckPlaces, Verdicts
<1>2. PICK z : z = [at |-> idle, calm |-> no, gen |-> 0, result |-> none, artifacts |-> no]
    OBVIOUS
<1>3. z = NoCheck
    BY <1>1, <1>2, Zenon DEF NoCheck
<1>4. 0 \in 0..Last
    BY LenProperties DEF ModelsInv, Last
<1>5. z \in Check /\ z.result = none
    BY <1>2, <1>4 DEF Check
<1>6. PICK p : p = [z EXCEPT !.calm = c, !.artifacts = x, !.gen = g]
    OBVIOUS
<1>7. p \in Check
    BY <1>5, <1>6 DEF Check
<1>8. p.calm = c /\ p.result = none
    BY <1>5, <1>6 DEF Check
<1> QED
    BY <1>1, <1>3, <1>6, <1>7, <1>8, Zenon DEF Fresh

LEMMA Judged ==
    ASSUME NEW p \in Check, NEW a \in CheckPlaces, NEW v \in Verdicts
    PROVE  \E t \in Check : /\ t = Judge(p, a, v) /\ t.at = a
                            /\ t.calm = p.calm /\ t.result = v
<1>1. PICK t : t = [p EXCEPT !.at = a, !.result = v]
    OBVIOUS
<1>2. t \in Check
    BY <1>1 DEF Check
<1>3. t.at = a /\ t.calm = p.calm /\ t.result = v
    BY <1>1 DEF Check
<1> QED
    BY <1>1, <1>2, <1>3, Zenon DEF Judge

LEMMA Moved ==
    ASSUME NEW p \in Check, NEW a \in CheckPlaces
    PROVE  \E t \in Check : /\ t = [p EXCEPT !.at = a] /\ t.at = a
                            /\ t.calm = p.calm /\ t.result = p.result
<1>1. PICK t : t = [p EXCEPT !.at = a]
    OBVIOUS
<1>2. t \in Check
    BY <1>1 DEF Check
<1>3. t.at = a /\ t.calm = p.calm /\ t.result = p.result
    BY <1>1 DEF Check
<1> QED
    BY <1>1, <1>2, <1>3

LEMMA DoneIsOK ==
    ASSUME NEW t \in Check, t.at = "done", t.calm => Calm,
           t.result \in {"rejected", "nothing deployable"},
           t.calm /\ t.result = "nothing deployable" => ~BothThere
    PROVE  CheckOK(t)
<1>1. t.at \notin {"look", "compare"} /\ t.result # "ok" /\ t.result # "skipped"
    OBVIOUS
<1> QED
    BY <1>1, Zenon DEF CheckOK

LEMMA StartCheckKeeps ==
    ASSUME ModelsInv, PlanInv, FilesInv, CheckInv, StartCheck
    PROVE  CheckInv'
<1>1. UNCHANGED <<models, files, todo, broken>>
    BY DEF StartCheck, Checking
<1>2. PICK x \in BOOLEAN, allClass \in BOOLEAN :
          LET f == files["metrics"]  g == models[f.gen]
              p == [NoCheck EXCEPT !.calm = Calm, !.artifacts = x, !.gen = f.gen]
          IN check' =
                 IF \/ ~f.whole
                    \/ allClass /\ ~g.allClass
                    \/ g.passed # (g.deployable # {})
                 THEN [p EXCEPT !.at = "done", !.result = "rejected"]
                 ELSE IF ~g.passed THEN [p EXCEPT !.at = "done", !.result = "nothing deployable"]
                 ELSE [p EXCEPT !.at = "look"]
    BY Zenon DEF StartCheck
<1>3. PICK c \in BOOLEAN : c = Calm
    BY DEF Calm
<1>4. PICK g \in 0..Last : g = files["metrics"].gen
    BY DEF FilesInv, FileNames
<1>5. PICK p \in Check : /\ p = Fresh(c, x, g)
                         /\ p.calm = c /\ p.result = "none"
    BY FreshCheck
<1>6. PICK done \in CheckPlaces, look \in CheckPlaces : done = "done" /\ look = "look"
    BY DEF CheckPlaces
<1>7. PICK no \in Verdicts, rejected \in Verdicts, nothing \in Verdicts :
          no = "none" /\ rejected = "rejected" /\ nothing = "nothing deployable"
    BY DEF Verdicts
<1>8. \/ check' = Judge(p, done, rejected)
      \/ /\ check' = Judge(p, done, nothing)
         /\ files["metrics"].whole /\ ~models[g].passed
      \/ /\ check' = [p EXCEPT !.at = look]
         /\ files["metrics"].whole /\ models[g].passed
    BY <1>2, <1>3, <1>4, <1>5, <1>6, <1>7, Zenon DEF Fresh, Judge
<1>9. c /\ files["metrics"].whole => g = Last /\ Last > 0
    BY <1>3, <1>4, CalmMetrics
<1>10. CASE check' = Judge(p, done, rejected)
    <2>1. PICK t \in Check : /\ t = Judge(p, done, rejected) /\ t.at = done
                             /\ t.calm = p.calm /\ t.result = rejected
        BY Judged
    <2>2. CheckOK(t)
        BY <1>3, <1>5, <1>6, <1>7, <2>1, DoneIsOK
    <2> QED
        BY <1>1, <1>10, <2>1, <2>2, CheckSteps
<1>11. CASE /\ check' = Judge(p, done, nothing)
            /\ files["metrics"].whole /\ ~models[g].passed
    <2>1. PICK t \in Check : /\ t = Judge(p, done, nothing) /\ t.at = done
                             /\ t.calm = p.calm /\ t.result = nothing
        BY Judged
    <2>2. c => ~BothThere
        BY <1>3, <1>9, <1>11, CalmFiles
    <2>3. CheckOK(t)
        BY <1>3, <1>5, <1>6, <1>7, <2>1, <2>2, DoneIsOK
    <2> QED
        BY <1>1, <1>11, <2>1, <2>3, CheckSteps
<1>12. CASE /\ check' = [p EXCEPT !.at = look]
            /\ files["metrics"].whole /\ models[g].passed
    <2>1. PICK t \in Check : /\ t = [p EXCEPT !.at = look] /\ t.at = look
                             /\ t.calm = p.calm /\ t.result = p.result
        BY Moved
    <2>2. c => Last > 0 /\ models[Last].passed
        BY <1>9, <1>12
    <2>3. t.at # "done"
        BY <1>6, <2>1
    <2>4. CheckOK(t)
        BY <1>3, <1>5, <2>1, <2>2, <2>3, Zenon DEF CheckOK
    <2> QED
        BY <1>1, <1>12, <2>1, <2>4, CheckSteps
<1> QED
    BY <1>8, <1>10, <1>11, <1>12

LEMMA LookKeeps ==
    ASSUME ModelsInv, PlanInv, CheckInv, Look
    PROVE  CheckInv'
<1>1. check.at = "look" /\ UNCHANGED <<models, files, todo, broken>>
    BY DEF Look, Checking
<1>2. PICK c \in Check : c = check
    BY DEF CheckInv, CheckOK
<1>3. check.calm => Calm /\ Last > 0 /\ models[Last].passed
    BY <1>1 DEF CheckInv, CheckOK
<1>4. CASE BothThere
    <2>1. PICK compare \in CheckPlaces : compare = "compare"
        BY DEF CheckPlaces
    <2>2. PICK t : t = [c EXCEPT !.at = compare]
        OBVIOUS
    <2>3. t \in Check
        BY <2>2 DEF Check
    <2>4. t.at = compare /\ t.calm = c.calm /\ t.result = c.result
        BY <2>2 DEF Check
    <2>5. check' = t
        BY <1>2, <1>4, <2>1, <2>2 DEF Look
    <2>6. CheckOK(t)
        BY <1>2, <1>3, <2>1, <2>3, <2>4 DEF CheckOK
    <2> QED
        BY <1>1, <2>5, <2>6, CheckSteps
<1>5. CASE ~BothThere
    <2>1. PICK v \in Verdicts : v = IF check.artifacts THEN "rejected" ELSE "skipped"
        BY DEF Verdicts
    <2>2. Verdict(v)
        BY <1>5, <2>1 DEF Look
    <2>3. ~check.calm
        BY <1>3, <1>5, CalmFiles DEF BothThere, FileNames
    <2> QED
        BY <1>1, <2>2, <2>3, VerdictKeeps
<1> QED
    BY <1>4, <1>5

LEMMA CompareKeeps ==
    ASSUME ModelsInv, PlanInv, CheckInv, Compare
    PROVE  CheckInv'
<1>1. check.at = "compare" /\ UNCHANGED <<models, files, todo, broken>>
    BY DEF Compare, Checking
<1>2. check.calm => Calm /\ Last > 0 /\ models[Last].passed
    BY <1>1 DEF CheckInv, CheckOK
<1>3. PICK v \in Verdicts : /\ v \in {"ok", "rejected"} /\ Verdict(v)
    BY DEF Compare, Verdicts
<1>4. check.calm => \A f \in FileNames : files[f] = File(Last, TRUE)
    BY <1>2, CalmMetrics
<1>5. v # "nothing deployable" /\ v # "skipped"
    BY <1>3
<1> QED
    BY <1>1, <1>3, <1>4, <1>5, VerdictKeeps

LEMMA NextCheckKeeps ==
    ASSUME ModelsInv, CheckInv, NextCheck
    PROVE  CheckInv'
<1>1. PICK t : t = NoCheck
    OBVIOUS
<1>2. t \in Check /\ t.calm = FALSE
    BY <1>1, LenProperties DEF NoCheck, Check, CheckPlaces, Verdicts, ModelsInv, Last
<1>3. CheckOK(t)
    BY <1>2 DEF CheckOK
<1> QED
    BY <1>1, <1>3, CheckSteps DEF NextCheck, Checking

-----------------------------------------------------------------------------
(* The invariant.                                                           *)

LEMMA ReleaseInit == Init => ReleaseInv
<1> SUFFICES ASSUME Init PROVE ReleaseInv
    OBVIOUS
<1>1. Last = 0 /\ ModelsInv
    BY EmptySeq, BoundsAssumption DEF Init, ModelsInv, Last
<1>2. PlanInv
    BY <1>1, Zenon DEF Init, PlanInv
<1>3. FilesInv
    <2>1. PICK no \in BOOLEAN : no = FALSE
        OBVIOUS
    <2>2. PICK a : a = [gen |-> 0, whole |-> no]
        OBVIOUS
    <2>3. a = Absent
        BY <2>1, <2>2, Zenon DEF Absent
    <2>4. a \in [gen : 0..Last, whole : BOOLEAN] /\ a.gen = 0 /\ a.whole = no
        BY <1>1, <2>2
    <2> QED
        BY <2>1, <2>3, <2>4 DEF Init, FilesInv, FileNames
<1>4. ScanInv
    <2>1. PICK a \in Places : a = "idle"
        BY DEF Places
    <2>2. PICK c \in BOOLEAN : c = FALSE
        OBVIOUS
    <2>3. PICK t \in Scan : /\ t = [Idle EXCEPT !.at = a, !.calm = c] /\ t.at = a /\ t.calm = c
                            /\ t.gen = 0 /\ t.result = "none"
        BY <1>1, IdleIsScan
    <2>4. scan = t
        BY <2>1, <2>2, <2>3 DEF Init, Idle
    <2> QED
        BY <2>1, <2>2, <2>3, <2>4 DEF ScanInv, ScanOK
<1>5. CheckInv
    <2>1. check \in Check /\ check.calm = FALSE
        BY <1>1 DEF Init, NoCheck, Check, CheckPlaces, Verdicts
    <2> QED
        BY <2>1 DEF CheckInv, CheckOK
<1> QED
    BY <1>1, <1>2, <1>3, <1>4, <1>5 DEF ReleaseInv

LEMMA TrainKeeps ==
    ASSUME ReleaseInv, Train
    PROVE  ReleaseInv'
<1> USE DEF ReleaseInv
<1>1. /\ ModelsInv' /\ PlanInv' /\ FilesInv' /\ Last' = Last + 1
      /\ \A g \in 1..Last : models'[g] = models[g]
    BY TrainKeepsPlan
<1>2. Last \in Nat
    BY LenProperties DEF ModelsInv, Last
<1>3. PICK n \in Nat : n = Last
    BY <1>2
<1>4. Last' >= Last /\ Last' \in Nat
    BY <1>1, <1>2
<1>5. scan' = Disturbed(scan) /\ check' = Disturbed(check)
    BY DEF Train
<1>6. scan'.calm = FALSE
    <2>1. PICK s \in Scan : s = scan
        BY DEF ScanInv, ScanOK
    <2>2. [s EXCEPT !.calm = FALSE].calm = FALSE
        BY DEF Scan
    <2> QED
        BY <1>5, <2>1, <2>2, Zenon DEF Disturbed
<1>7. check'.calm = FALSE
    <2>1. PICK c \in Check : c = check
        BY DEF CheckInv, CheckOK
    <2>2. [c EXCEPT !.calm = FALSE].calm = FALSE
        BY DEF Check
    <2> QED
        BY <1>5, <2>1, <2>2, Zenon DEF Disturbed
<1>8. ScanInv'
    BY <1>1, <1>4, <1>5, <1>6, ScanDisturbed
<1>9. CheckInv'
    BY <1>1, <1>4, <1>5, <1>7, CheckDisturbed
<1> QED
    BY <1>1, <1>8, <1>9

(* Publishing and being interrupted happen while a plan is carried out, and *)
(* no scan or check that is still under way began in a quiet time then.     *)
LEMMA PlanStepKeeps ==
    ASSUME ReleaseInv, todo # <<>>, UNCHANGED <<models, scan, check>>,
           ModelsInv', PlanInv', FilesInv'
    PROVE  ReleaseInv'
<1> USE DEF ReleaseInv
<1>1. Last' = Last /\ Last \in Nat
    BY LenProperties DEF ModelsInv, Last
<1>2. ~scan.calm /\ ~check.calm
    BY DEF Calm, ScanInv, ScanOK, CheckInv, CheckOK
<1>3. ScanInv'
    BY <1>1, <1>2, ScanDisturbed
<1>4. CheckInv'
    BY <1>1, <1>2, CheckDisturbed
<1> QED
    BY <1>3, <1>4

LEMMA PublishKeeps ==
    ASSUME ReleaseInv, Publish
    PROVE  ReleaseInv'
<1>1. PlanInv' /\ FilesInv'
    BY PublishKeepsPlan DEF ReleaseInv
<1>2. ModelsInv'
    BY DEF Publish, ReleaseInv, ModelsInv, Last
<1> QED
    BY <1>1, <1>2, PlanStepKeeps DEF Publish

LEMMA InterruptKeeps ==
    ASSUME ReleaseInv, Interrupt
    PROVE  ReleaseInv'
<1>1. ModelsInv' /\ PlanInv' /\ FilesInv'
    BY OthersKeepPlan DEF ReleaseInv, Interrupt
<1> QED
    BY <1>1, PlanStepKeeps DEF Interrupt

LEMMA ReadersKeep ==
    ASSUME ReleaseInv, UNCHANGED <<models, files, todo, broken>>,
           ScanInv' \/ scan' = scan, CheckInv' \/ check' = check
    PROVE  ReleaseInv'
<1> USE DEF ReleaseInv
<1>1. ModelsInv' /\ PlanInv' /\ FilesInv'
    BY OthersKeepPlan
<1>2. ScanInv'
    BY ScanSteps DEF ScanInv
<1>3. CheckInv'
    BY CheckSteps DEF CheckInv
<1> QED
    BY <1>1, <1>2, <1>3

LEMMA ReleaseNext == ReleaseInv /\ [Next]_vars => ReleaseInv'
<1> SUFFICES ASSUME ReleaseInv, [Next]_vars PROVE ReleaseInv'
    OBVIOUS
<1>1. ModelsInv /\ PlanInv /\ FilesInv /\ ScanInv /\ CheckInv
    BY DEF ReleaseInv
<1>2. CASE Train
    BY <1>2, TrainKeeps
<1>3. CASE Publish
    BY <1>3, PublishKeeps
<1>4. CASE Interrupt
    BY <1>4, InterruptKeeps
<1>5. CASE StartScan
    BY <1>1, <1>5, StartScanKeeps, ReadersKeep DEF StartScan, Scanning
<1>6. CASE RequireReady
    BY <1>1, <1>6, RequireReadyKeeps, ReadersKeep DEF RequireReady, Scanning
<1>7. CASE Available
    BY <1>1, <1>7, AvailableKeeps, ReadersKeep DEF Available, Scanning
<1>8. CASE AvailableAgain
    BY <1>1, <1>8, AvailableAgainKeeps, ReadersKeep DEF AvailableAgain, Scanning
<1>9. CASE LoadWeights
    BY <1>1, <1>9, LoadWeightsKeeps, ReadersKeep DEF LoadWeights, Scanning
<1>10. CASE Recognise
    BY <1>1, <1>10, RecogniseKeeps, ReadersKeep DEF Recognise, Scanning
<1>11. CASE NextScan
    BY <1>1, <1>11, NextScanKeeps, ReadersKeep DEF NextScan, Scanning
<1>12. CASE StartCheck
    BY <1>1, <1>12, StartCheckKeeps, ReadersKeep DEF StartCheck, Checking
<1>13. CASE Look
    BY <1>1, <1>13, LookKeeps, ReadersKeep DEF Look, Checking
<1>14. CASE Compare
    BY <1>1, <1>14, CompareKeeps, ReadersKeep DEF Compare, Checking
<1>15. CASE NextCheck
    BY <1>1, <1>15, NextCheckKeeps, ReadersKeep DEF NextCheck, Checking
<1>16. CASE UNCHANGED vars
    BY <1>16, ReadersKeep DEF vars
<1> QED
    BY <1>2, <1>3, <1>4, <1>5, <1>6, <1>7, <1>8, <1>9, <1>10, <1>11, <1>12, <1>13, <1>14,
       <1>15, <1>16 DEF Next

LEMMA Invariance == Spec => []ReleaseInv
BY ReleaseInit, ReleaseNext, PTL DEF Spec

-----------------------------------------------------------------------------
(* The theorems.                                                            *)

(* The files name only trainings there were, whole files name one, and a    *)
(* gate is passed with a deployable label, the stricter one only with it.   *)
THEOREM TypeCorrect == Spec => []TypeOK
<1>1. ReleaseInv => TypeOK
    <2> SUFFICES ASSUME ReleaseInv PROVE TypeOK
        OBVIOUS
    <2>1. PICK n \in Nat : n = Last /\ n <= MaxTrainings
        BY LenProperties DEF ReleaseInv, ModelsInv, Last
    <2>2. \A g \in 1..n : models[g] \in Trained
        BY <2>1, ElementOfSeq DEF ReleaseInv, ModelsInv, Last
    <2>3. \A g \in 1..Last : /\ models[g].deployable \subseteq Labels
                             /\ models[g].passed => models[g].deployable # {}
                             /\ models[g].allClass => models[g].passed
        BY <2>1, <2>2, TrainedIsModel DEF ReleaseInv, ModelsInv, ModelLike
    <2>4. \A f \in FileNames : files[f].gen \in 0..Last /\ files[f].whole \in BOOLEAN
        BY DEF ReleaseInv, FilesInv
    <2>5. \A f \in FileNames : files[f].whole => files[f].gen > 0
        BY DEF ReleaseInv, FilesInv
    <2>6. scan.gen \in 0..Last /\ scan.label \in 0..NoneId
        BY DEF ReleaseInv, ScanInv, ScanOK, Scan
    <2>7. check.gen \in 0..Last
        BY DEF ReleaseInv, CheckInv, CheckOK, Check
    <2>8. Last \in Generations
        BY <2>1, BoundsAssumption DEF Generations
    <2> QED
        BY <2>3, <2>4, <2>5, <2>6, <2>7, <2>8 DEF TypeOK
<1> QED
    BY <1>1, Invariance, PTL

(* Whatever a scan asserts as more than a candidate comes from a model that *)
(* passed its gate and is a label this gate found precise.  The label is    *)
(* the one the gate counted such a region under, or one of the conditions   *)
(* of AssertedAsGated made the evaluation decide otherwise, even if the two *)
(* models a scan loaded are of two trainings.                               *)
THEOREM AssertionsAreGated == Spec => []AssertionsWereGated
<1>1. ReleaseInv => AssertionsWereGated
    <2> SUFFICES ASSUME ReleaseInv, scan.result \in {"labelled", "mixed"},
                        scan.method # "candidate"
                 PROVE  LET m == models[scan.gen] IN
                        /\ m.passed /\ scan.label \in m.deployable
                        /\ \/ Combined(m, scan.scores) = scan.label
                           \/ Undeployed(m, scan.scores) \/ Outscored(m, scan.scores)
                           \/ Tied(m, scan.scores)
        BY DEF AssertionsWereGated
    <2>1. /\ scan.gen > 0 /\ models[scan.gen].passed /\ scan.scores \in Regions
          /\ scan.label = Assertion(models[scan.gen], scan.scores).label
          /\ scan.method = Assertion(models[scan.gen], scan.scores).method
          /\ scan.gen \in 0..Last
        BY DEF ReleaseInv, ScanInv, ScanOK, Scan
    <2>2. PICK m \in Trained : m = models[scan.gen]
        <3>1. scan.gen \in 1..Last
            BY <2>1
        <3> QED
            BY <3>1, ElementOfSeq DEF ReleaseInv, ModelsInv, Last
    <2>3. PICK r \in Scores : r = scan.scores /\ Distribution(r.semantic)
        BY <2>1, RegionsAssumption
    <2>4. ModelLike(m)
        BY TrainedIsModel
    <2>5. Asserts(m, r)
        BY <2>1, <2>2, <2>3 DEF Asserts
    <2>6. Assertion(m, r).label \in m.deployable
        BY <2>4, <2>5, AssertionWins
    <2>7. \/ Combined(m, r) = Assertion(m, r).label
          \/ Undeployed(m, r) \/ Outscored(m, r) \/ Tied(m, r)
        BY <2>3, <2>4, <2>5, AssertedAsGated
    <2> QED
        BY <2>1, <2>2, <2>3, <2>6, <2>7
<1> QED
    BY <1>1, Invariance, PTL

(* After a training that ran to its end, and with none since, a scan uses   *)
(* both models of that training, or says that there is none.                *)
THEOREM QuietScansAreCurrent == Spec => []CalmScansUseTheGatedModel
<1>1. ReleaseInv => CalmScansUseTheGatedModel
    BY DEF ReleaseInv, ScanInv, ScanOK, CalmScansUseTheGatedModel
<1> QED
    BY <1>1, Invariance, PTL

(* What the check script says of such a training is true of its files.      *)
THEOREM ChecksAreTrue == Spec => []CheckVouches
<1>1. ReleaseInv => CheckVouches
    BY DEF ReleaseInv, CheckInv, CheckOK, CheckVouches
<1> QED
    BY <1>1, Invariance, PTL
=============================================================================
