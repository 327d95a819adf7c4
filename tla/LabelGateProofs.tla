---------------------------- MODULE LabelGateProofs ----------------------------
(****************************************************************************)
(* When the two decisions about a region agree: what the runtime asserts is *)
(* what the gate counted, or one of three conditions holds under which they *)
(* part.                                                                    *)
(****************************************************************************)
EXTENDS LabelGate, WellFoundedInduction, TLAPS

(* Models and regions, of any scores.                                       *)
ModelLike(m) ==
    /\ m.gnn \in [Labels -> Thresholds] /\ m.semantic \in [Labels -> Thresholds]
    /\ m.name \in [Labels -> Thresholds] /\ m.deployable \in SUBSET Labels

LEMMA Minimum ==
    ASSUME NEW T \in SUBSET Nat, T # {}
    PROVE  \E n \in T : \A k \in T : n <= k
<1>1. PICK R : R = OpToRel(<, Nat)
    OBVIOUS
<1>2. IsWellFoundedOn(R, Nat)
    BY <1>1, NatLessThanWellFounded
<1>3. PICK n \in T : \A k \in T : <<k, n>> \notin R
    BY <1>2, WFMin
<1>4. \A k \in T : ~(k < n)
    BY <1>1, <1>3 DEF OpToRel
<1> QED
    BY <1>4

(* A set of votes has a winner.                                             *)
LEMMA Winner ==
    ASSUME NEW V, V # {}, \A v \in V : v.score \in Percent /\ v.label \in Nat
    PROVE  \E v \in V : \A w \in V :
               w.score < v.score \/ (w.score = v.score /\ v.label <= w.label)
<1> DEFINE T == {100 - v.score : v \in V}
<1>1. T \in SUBSET Nat /\ T # {}
    BY DEF Percent
<1>2. PICK n \in T : \A k \in T : n <= k
    BY <1>1, Minimum
<1>3. PICK best \in V : n = 100 - best.score
    BY <1>2
<1>4. ASSUME NEW w \in V PROVE w.score <= best.score
    <2>1. PICK x \in Nat : x = w.score /\ x <= 100
        BY DEF Percent
    <2>2. PICK b \in Nat : b = best.score /\ b <= 100
        BY DEF Percent
    <2>3. n <= 100 - w.score
        BY <1>2
    <2>4. 100 - b <= 100 - x
        BY <1>3, <2>1, <2>2, <2>3
    <2>5. x <= b
        BY <2>4
    <2> QED
        BY <2>1, <2>2, <2>5
<1> DEFINE L == {v.label : v \in {w \in V : w.score = best.score}}
<1>5. L \in SUBSET Nat /\ L # {}
    OBVIOUS
<1>6. PICK l \in L : \A k \in L : l <= k
    BY <1>5, Minimum
<1>7. PICK v \in V : v.score = best.score /\ v.label = l
    BY <1>6
<1>8. ASSUME NEW w \in V
      PROVE  w.score < v.score \/ (w.score = v.score /\ v.label <= w.label)
    <2>1. w.score <= v.score /\ w.score \in Nat /\ v.score \in Nat
        BY <1>4, <1>7 DEF Percent
    <2>2. w.score = best.score => l <= w.label
        BY <1>6
    <2> QED
        BY <1>7, <2>1, <2>2
<1> QED
    BY <1>8

LEMMA VoteTypes ==
    ASSUME NEW m, ModelLike(m), NEW r \in Scores
    PROVE  \A v \in Votes(m, r) : /\ v.score \in Percent /\ v.label \in m.deployable
                                  /\ v \in Vote(m, r, v.label)
<1> SUFFICES ASSUME NEW l \in m.deployable, NEW v \in Vote(m, r, l)
             PROVE  v.score \in Percent /\ v.label = l
    BY DEF Votes
<1>1. l \in Labels /\ r.gnn[l] \in Percent /\ r.semantic[l] \in Percent /\ r.name[l] \in Percent
    BY DEF ModelLike, Scores, Percent
<1>2. PICK score \in {r.gnn[l], r.semantic[l], r.name[l]} :
          \E method : v \in Ballot(l, score, method)
    BY DEF Vote, Smaller, Larger
<1> QED
    BY <1>1, <1>2 DEF Ballot

LEMMA AssertionTypes ==
    ASSUME NEW m, ModelLike(m), NEW r \in Scores
    PROVE  /\ Assertion(m, r).label \in 0..NoneId
           /\ Assertion(m, r).method \in {"symbol-name-head", "gnn-semantic-ensemble",
                                          "semantic-head", "candidate"}
<1>1. PICK v : v = Assertion(m, r)
    OBVIOUS
<1>2. CASE Votes(m, r) = {}
    BY <1>2, NoneIdAssumption DEF Assertion, NoAssertion
<1>3. CASE Votes(m, r) # {}
    <2>1. \A w \in Votes(m, r) : w.score \in Percent /\ w.label \in Nat
        BY VoteTypes, NoneIdAssumption DEF ModelLike, Labels
    <2>2. \E w \in Votes(m, r) : \A x \in Votes(m, r) :
              x.score < w.score \/ (x.score = w.score /\ w.label <= x.label)
        BY <1>3, <2>1, Winner
    <2>3. v \in Votes(m, r)
        BY <1>1, <1>3, <2>2 DEF Assertion
    <2>4. v.label \in Labels /\ v \in Vote(m, r, v.label)
        BY <2>3, VoteTypes DEF ModelLike
    <2>5. v.label \in 0..NoneId
        BY <2>4, NoneIdAssumption DEF Labels
    <2>6. v.method \in {"symbol-name-head", "gnn-semantic-ensemble", "semantic-head", "candidate"}
        BY <2>4 DEF Vote, Ballot
    <2> QED
        BY <1>1, <2>5, <2>6
<1> QED
    BY <1>2, <1>3

(* What is asserted was voted for, and nothing beats it.                    *)
LEMMA AssertionWins ==
    ASSUME NEW m, ModelLike(m), NEW r \in Scores, Asserts(m, r)
    PROVE  LET v == Assertion(m, r) IN
           /\ v \in Votes(m, r) /\ v.label \in m.deployable /\ v \in Vote(m, r, v.label)
           /\ v.method # "candidate"
           /\ \A w \in Votes(m, r) :
                  w.score < v.score \/ (w.score = v.score /\ v.label <= w.label)
<1>1. Votes(m, r) # {}
    BY DEF Asserts, Assertion, NoAssertion
<1>2. \A v \in Votes(m, r) : v.score \in Percent /\ v.label \in Nat
    BY VoteTypes DEF ModelLike, Labels
<1>3. \E v \in Votes(m, r) : \A w \in Votes(m, r) :
          w.score < v.score \/ (w.score = v.score /\ v.label <= w.label)
    BY <1>1, <1>2, Winner
<1>4. PICK v : v = Assertion(m, r)
    OBVIOUS
<1>5. /\ v \in Votes(m, r)
      /\ \A w \in Votes(m, r) :
             w.score < v.score \/ (w.score = v.score /\ v.label <= w.label)
    BY <1>1, <1>3, <1>4 DEF Assertion
<1> QED
    BY <1>4, <1>5, VoteTypes DEF Asserts

(* A row has a largest score.                                               *)
LEMMA ArgMaxIsLargest ==
    ASSUME NEW s \in [Labels -> Percent]
    PROVE  ArgMax(s) \in Labels /\ \A k \in Labels : s[k] <= s[ArgMax(s)]
<1>1. PICK V : V = {[label |-> j, score |-> s[j]] : j \in Labels}
    OBVIOUS
<1>2. \A w \in V : w.score \in Percent /\ w.label \in Nat
    BY <1>1, NoneIdAssumption DEF Labels
<1>3. 0 \in Labels
    BY NoneIdAssumption DEF Labels
<1>4. V # {}
    BY <1>1, <1>3
<1>5. PICK best \in V : \A w \in V :
          w.score < best.score \/ (w.score = best.score /\ best.label <= w.label)
    BY <1>2, <1>4, Winner
<1>6. PICK j \in Labels : best = [label |-> j, score |-> s[j]]
    BY <1>1
<1>7. ASSUME NEW i \in Labels PROVE s[i] < s[j] \/ (s[i] = s[j] /\ j <= i)
    <2>1. PICK w \in V : w = [label |-> i, score |-> s[i]]
        BY <1>1
    <2> QED
        BY <1>5, <1>6, <2>1
<1>8. ArgMax(s) \in Labels /\ \A k \in Labels :
          s[k] < s[ArgMax(s)] \/ (s[k] = s[ArgMax(s)] /\ ArgMax(s) <= k)
    BY <1>7 DEF ArgMax
<1>9. PICK a \in Labels : a = ArgMax(s)
    BY <1>8
<1>10. ASSUME NEW k \in Labels PROVE s[k] <= s[a]
    <2>1. s[k] \in 0..100 /\ s[a] \in 0..100
        BY DEF Percent
    <2>2. s[k] < s[a] \/ s[k] = s[a]
        BY <1>8, <1>9
    <2> QED
        BY <2>1, <2>2
<1> QED
    BY <1>9, <1>10

(* Both decisions prefer names, if no other score is as certain as a name.  *)
LEMMA NamedAgree ==
    ASSUME NEW m, ModelLike(m), NEW r \in Scores, Asserts(m, r),
           Named(m, r) # {}, ~Undeployed(m, r), ~Tied(m, r)
    PROVE  Combined(m, r) = Assertion(m, r).label
<1>1. PICK v : v = Assertion(m, r)
    OBVIOUS
<1>2. /\ v.label \in m.deployable /\ v \in Votes(m, r)
      /\ \A w \in Votes(m, r) :
             w.score < v.score \/ (w.score = v.score /\ v.label <= w.label)
    BY <1>1, AssertionWins
<1>3. v.score \in 0..100 /\ v.label \in Labels
    BY <1>2, VoteTypes DEF ModelLike, Percent
<1>4. \A l \in Labels : l \in Nat
    BY NoneIdAssumption DEF Labels
<1>5. Named(m, r) \in SUBSET Nat
    BY <1>4 DEF Named
<1>6. PICK k \in Named(m, r) : k = Combined(m, r) /\ \A j \in Named(m, r) : k <= j
    <2>1. \E n \in Named(m, r) : \A j \in Named(m, r) : n <= j
        BY <1>5, Minimum
    <2> QED
        BY <2>1 DEF Combined
<1>7. k \in Labels /\ k \in m.deployable /\ NameMatches(m, r, k)
    BY <1>6 DEF Named, Undeployed
<1>8. r.name[k] = 100
    BY <1>6, <1>7 DEF Tied, Scores
<1>9. PICK w : w = [label |-> k, score |-> 100, method |-> "symbol-name-head"]
    OBVIOUS
<1>10. w \in Votes(m, r)
    BY <1>7, <1>8, <1>9 DEF Votes, Vote, Ballot
<1>11. 100 < v.score \/ (100 = v.score /\ v.label <= k)
    BY <1>2, <1>9, <1>10
<1>12. v.score = 100 /\ v.label <= k
    BY <1>3, <1>11
<1>13. v.label \in Named(m, r)
    BY <1>1, <1>3, <1>6, <1>12 DEF Named, Tied
<1>14. k <= v.label
    BY <1>6, <1>13
<1>15. k \in Nat /\ v.label \in Nat
    BY <1>3, <1>4, <1>7
<1> QED
    BY <1>1, <1>6, <1>12, <1>14, <1>15

(* With no name that decides, both settle on the largest score of a row.    *)
LEMMA UnnamedAgree ==
    ASSUME NEW m, ModelLike(m), NEW r \in Scores, Distribution(r.semantic), Asserts(m, r),
           Named(m, r) = {}, ~Outscored(m, r)
    PROVE  Combined(m, r) = Assertion(m, r).label
<1>1. PICK v : v = Assertion(m, r)
    OBVIOUS
<1>2. v.label \in m.deployable /\ v \in Vote(m, r, v.label) /\ v.method # "candidate"
    BY <1>1, AssertionWins
<1>3. PICK l \in Labels : l = v.label
    BY <1>2 DEF ModelLike
<1>4. ~NameMatches(m, r, l)
    BY DEF Named
<1>5. ~NameGated(m, l)
    BY <1>2, <1>3, <1>4 DEF Vote
<1>6. \/ /\ v.method = "gnn-semantic-ensemble"
         /\ r.gnn[l] >= m.gnn[l] /\ r.semantic[l] >= Veto
      \/ v.method = "semantic-head" /\ r.semantic[l] >= m.semantic[l]
    BY <1>2, <1>3, <1>4, <1>5 DEF Vote, Ballot
<1>7. r.gnn \in [Labels -> Percent] /\ r.semantic \in [Labels -> Percent]
    BY DEF Scores
<1>8. NameAllows(m, r, l) /\ l # NoneId
    BY <1>5, NoneIdAssumption DEF NameAllows, Labels
<1>9. CASE v.method = "gnn-semantic-ensemble"
    <2>1. r.gnn[l] >= m.gnn[l] /\ r.semantic[l] >= Veto
        BY <1>6, <1>9
    <2>2. ArgMax(r.gnn) = l
        BY <1>1, <1>3, <1>9 DEF Outscored
    <2>3. Ensemble(m, r) = l
        BY <1>8, <2>1, <2>2 DEF Ensemble, Predict
    <2> QED
        BY <1>1, <1>3, <1>8, <2>3 DEF Combined
<1>10. CASE v.method = "semantic-head"
    <2>1. r.semantic[l] >= m.semantic[l]
        BY <1>6, <1>10
    <2>2. ArgMax(r.semantic) = l
        BY <1>1, <1>3, <1>10 DEF Outscored
    <2>3. SemanticFallback(m, r) = l
        BY <1>8, <2>1, <2>2 DEF SemanticFallback, Predict
    <2>4. ASSUME Ensemble(m, r) # NoneId PROVE Ensemble(m, r) = l
        <3>1. PICK k : k = Predict(r.gnn, m.gnn)
            OBVIOUS
        <3>2. k # NoneId /\ r.semantic[k] >= Veto /\ Ensemble(m, r) = k
            BY <2>4, <3>1 DEF Ensemble
        <3>3. k \in Labels
            BY <1>7, <3>1, <3>2, ArgMaxIsLargest DEF Predict
        <3>4. r.semantic[k] <= r.semantic[l]
            BY <1>7, <2>2, <3>3, ArgMaxIsLargest
        <3>5. r.semantic[k] \in 0..100 /\ r.semantic[l] \in 0..100
            BY <1>7, <3>3 DEF Percent
        <3>6. ~(r.semantic[l] + r.semantic[k] <= 100)
            BY <3>2, <3>4, <3>5 DEF Veto
        <3> QED
            BY <3>2, <3>3, <3>6 DEF Distribution
    <2> QED
        BY <1>1, <1>3, <2>3, <2>4 DEF Combined
<1> QED
    BY <1>6, <1>9, <1>10

(* For every model and every region, whatever the thresholds, what the      *)
(* runtime asserts as more than a candidate is of a deployable label, and   *)
(* the label under which train_recognizer.py counted the region when it     *)
(* measured precision, unless the evaluation went by an undeployed name,    *)
(* the label is not the largest of its row, or a score ties with a name.    *)
THEOREM AssertedAsGated ==
    ASSUME NEW m, ModelLike(m), NEW r \in Scores, Distribution(r.semantic), Asserts(m, r)
    PROVE  /\ Assertion(m, r).label \in m.deployable
           /\ \/ Combined(m, r) = Assertion(m, r).label
              \/ Undeployed(m, r) \/ Outscored(m, r) \/ Tied(m, r)
BY NamedAgree, UnnamedAgree, AssertionWins
=============================================================================
