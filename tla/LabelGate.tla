------------------------------ MODULE LabelGate ------------------------------
(****************************************************************************)
(* The two decisions about a region's label: the one train_recognizer.py    *)
(* evaluates against the precision gate (Combined), and the one the runtime *)
(* asserts with the thresholds and labels of the checkpoint (Assertion).    *)
(* Scores are percentages; 110 stands for 1.1, a threshold nothing reaches. *)
(*                                                                          *)
(* A region (sample) r has scores r.gnn, r.semantic, r.name for each label. *)
(* A model m has thresholds m.gnn, m.semantic, m.name and the labels        *)
(* m.deployable.                                                            *)
(****************************************************************************)
EXTENDS Naturals, FiniteSets

CONSTANT NoneId   \* the label "none"; the primitives are the ids below it

ASSUME NoneIdAssumption == NoneId \in Nat \ {0}

Labels == 0..(NoneId - 1)
Percent == 0..100
Thresholds == 0..110
Unreachable == 110
Veto == 95
Precision == 95

(* The rows of softmax and predict_proba: no two scores add to more than 1. *)
Distribution(s) == \A l, k \in Labels : l # k => s[l] + s[k] <= 100

Scores == [gnn : [Labels -> Percent], semantic : [Labels -> Percent],
           name : [Labels -> {0, 100}]]

-----------------------------------------------------------------------------
(* The decision that is evaluated.                                          *)

ArgMax(s) ==
    CHOOSE l \in Labels : \A k \in Labels : s[k] < s[l] \/ (s[k] = s[l] /\ l <= k)
Predict(s, t) == IF s[ArgMax(s)] >= t[ArgMax(s)] THEN ArgMax(s) ELSE NoneId

NameMatches(m, r, l) == r.name[l] >= m.name[l]
NameGated(m, l) == m.name[l] <= 100
NameAllows(m, r, l) == NameGated(m, l) => NameMatches(m, r, l)

Ensemble(m, r) ==
    LET l == Predict(r.gnn, m.gnn)
    IN IF l # NoneId /\ r.semantic[l] >= Veto /\ NameAllows(m, r, l) THEN l ELSE NoneId
SemanticFallback(m, r) ==
    LET l == Predict(r.semantic, m.semantic)
    IN IF l # NoneId /\ NameAllows(m, r, l) THEN l ELSE NoneId
Named(m, r) == {l \in Labels : NameMatches(m, r, l)}

Combined(m, r) ==
    IF Named(m, r) # {} THEN CHOOSE l \in Named(m, r) : \A k \in Named(m, r) : l <= k
    ELSE IF Ensemble(m, r) # NoneId THEN Ensemble(m, r)
    ELSE SemanticFallback(m, r)

-----------------------------------------------------------------------------
(* The decision that is asserted: every deployable label may vote, the      *)
(* highest confidence wins, the lowest id among equals.                     *)

Smaller(x, y) == IF x <= y THEN x ELSE y
Larger(x, y) == IF x >= y THEN x ELSE y
Ballot(l, score, method) == {[label |-> l, score |-> score, method |-> method]}

Vote_IgnoresNameGate(m, r, l) ==
    IF NameMatches(m, r, l) THEN Ballot(l, r.name[l], "symbol-name-head")
    ELSE IF r.gnn[l] >= m.gnn[l] /\ r.semantic[l] >= Veto
    THEN Ballot(l, Smaller(r.gnn[l], r.semantic[l]), "gnn-semantic-ensemble")
    ELSE IF r.semantic[l] >= m.semantic[l] THEN Ballot(l, r.semantic[l], "semantic-head")
    ELSE {}
Vote(m, r, l) ==
    IF NameMatches(m, r, l) THEN Ballot(l, r.name[l], "symbol-name-head")
    ELSE IF NameGated(m, l) THEN {}
    ELSE IF r.gnn[l] >= m.gnn[l] /\ r.semantic[l] >= Veto
    THEN Ballot(l, Smaller(r.gnn[l], r.semantic[l]), "gnn-semantic-ensemble")
    ELSE IF r.semantic[l] >= m.semantic[l] THEN Ballot(l, r.semantic[l], "semantic-head")
    ELSE IF r.gnn[l] >= 50 \/ r.semantic[l] >= 50
    THEN Ballot(l, Larger(r.gnn[l], r.semantic[l]), "candidate")
    ELSE {}
Votes(m, r) == UNION {Vote(m, r, l) : l \in m.deployable}
NoAssertion == [label |-> NoneId, score |-> 0, method |-> "candidate"]
Assertion(m, r) ==
    IF Votes(m, r) = {} THEN NoAssertion
    ELSE CHOOSE v \in Votes(m, r) :
             \A w \in Votes(m, r) : w.score < v.score \/ (w.score = v.score /\ v.label <= w.label)
Asserts(m, r) == Assertion(m, r).method # "candidate"

-----------------------------------------------------------------------------
(* Calibration on the validation samples V and the gate on the test samples *)
(* T.  A sample carries its true label, and the slice it belongs to.        *)

Sample(s) ==
    /\ s.scores \in Scores
    /\ s.truth \in 0..NoneId

ShareAtLeast(part, whole, percent) ==
    whole # {} /\ 100 * Cardinality(part) >= percent * Cardinality(whole)

(* The lowest score of the validation set above which the label is precise. *)
PreciseAbove(V, head, vetoed, l, t) ==
    LET asserted == {s \in V : /\ s.scores[head][l] >= t
                               /\ vetoed => s.scores.semantic[l] >= Veto}
    IN ShareAtLeast({s \in asserted : s.truth = l}, asserted, Precision)
ChooseThreshold(V, head, vetoed, l) ==
    LET ok == {t \in {s.scores[head][l] : s \in V} : PreciseAbove(V, head, vetoed, l, t)}
    IN IF ok = {} THEN Unreachable ELSE CHOOSE t \in ok : \A u \in ok : t <= u
Calibrate(V) ==
    [gnn      |-> [l \in Labels |-> ChooseThreshold(V, "gnn", TRUE, l)],
     semantic |-> [l \in Labels |-> ChooseThreshold(V, "semantic", FALSE, l)],
     name     |-> [l \in Labels |-> ChooseThreshold(V, "name", FALSE, l)]]

AssertedAs(m, T, l) == {s \in T : Combined(m, s.scores) = l}
Precise(m, T, l) ==
    ShareAtLeast({s \in AssertedAs(m, T, l) : s.truth = l}, AssertedAs(m, T, l), Precision)
OfNone(T) == {s \in T : s.truth = NoneId}
QuietOnNone(m, T) ==
    ShareAtLeast({s \in OfNone(T) : Combined(m, s.scores) = NoneId}, OfNone(T), 99)
Supported(T, l, required) == Cardinality({s \in T : s.truth = l}) >= required

DeployableLabels(m, T) == {l \in Labels : Precise(m, T, l)}
Passed_QuietOnly(m, T) == QuietOnNone(m, T)
Passed(m, T) == DeployableLabels(m, T) # {} /\ QuietOnNone(m, T)
Slice(T, v) == {s \in T : s.slice = v}
AllClassPassed(m, T, minSupport, sliceSupport) ==
    /\ \A l \in Labels \cup {NoneId} : Supported(T, l, minSupport)
    /\ \A l \in Labels : Precise(m, T, l)
    /\ QuietOnNone(m, T)
    /\ \A v \in {s.slice : s \in T} : \A l \in Labels :
           Supported(Slice(T, v), l, sliceSupport) => Precise(m, Slice(T, v), l)

-----------------------------------------------------------------------------
(* Where the two decisions may part, whatever the thresholds and scores.    *)

(* The evaluation goes by a name whose label is not deployed.               *)
Undeployed(m, r) == Combined(m, r) \in Labels \ m.deployable
(* The label passed a low threshold without being the largest of its row.   *)
Outscored(m, r) ==
    LET v == Assertion(m, r) IN
    \/ v.method = "gnn-semantic-ensemble" /\ ArgMax(r.gnn) # v.label
    \/ v.method = "semantic-head" /\ ArgMax(r.semantic) # v.label
(* A name that the evaluation puts first competes with the scores at the    *)
(* runtime, and one of them is 1.0 too; or its threshold is 0.              *)
Tied(m, r) ==
    \E k \in Named(m, r) :
        \/ Assertion(m, r).score = 100 /\ ~NameMatches(m, r, Assertion(m, r).label)
        \/ r.name[k] = 0
=============================================================================
