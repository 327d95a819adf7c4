-------------------------- MODULE ScanPipelineProofs --------------------------
(****************************************************************************)
(* Proofs about ScanPipeline for every binary: any number of calls, any     *)
(* names, similarities and operands, whatever the recogniser asserts.       *)
(****************************************************************************)
EXTENDS ScanPipeline, TLAPS

-----------------------------------------------------------------------------
(* The facts.  Of a fact whose id leaves the operand out, primitive and     *)
(* type tell the operand.                                                   *)
OperandOf(p, type) ==
    IF type = "static_iv" THEN "iv"
    ELSE IF type = "weak_randomness" THEN IF p = "AES" THEN "key" ELSE "randomness"
    ELSE IF type = "parameter_set" THEN IF p = "ECC" THEN "curve" ELSE "callee"
    ELSE IF type = "ecb_mode" THEN "cipher"
    ELSE IF type = "known_weak_algorithm" THEN "algorithm"
    ELSE "bits"

WellFormed(f) ==
    /\ f = Fact(f.primitive, f.type, f.address, f.operand, f.origin)
    /\ f.type \notin {"operand_origin", "hardcoded_key"} =>
           f.operand = OperandOf(f.primitive, f.type)

(* What the anchor a may add: facts about it and the primitive p.           *)
FactsOf(facts, p, a) ==
    \A f \in facts : WellFormed(f) /\ f.primitive = p /\ f.address = a

LEMMA RulesAreWellFormed ==
    ASSUME NEW p, NEW a
    PROVE  /\ \A o : FactsOf(OperandOrigin(p, a, o), p, a)
           /\ FactsOf(WeakRandomness("AES", a, "key"), "AES", a)
           /\ p # "AES" => FactsOf(WeakRandomness(p, a, "randomness"), p, a)
           /\ FactsOf(HardcodedKey(p, a), p, a)
           /\ FactsOf(StaticIv(p, a), p, a)
           /\ FactsOf(ImplicitZeroIv(p, a), p, a)
           /\ \A c : FactsOf(EcbMode(p, a, c), p, a)
           /\ \A s : FactsOf(KnownWeakAlgorithm(p, a, s), p, a)
           /\ FactsOf(NumericParameter(p, "key_size", a, "bits"), p, a)
           /\ FactsOf(Curve(a), "ECC", a)
           /\ \A v : p # "ECC" => FactsOf({Fact(p, "parameter_set", a, "callee", v)}, p, a)
<1> USE DEF FactsOf, WellFormed, OperandOf, Fact
<1>1. \A o : FactsOf(OperandOrigin(p, a, o), p, a)
    BY DEF OperandOrigin
<1>2. /\ FactsOf(WeakRandomness("AES", a, "key"), "AES", a)
      /\ p # "AES" => FactsOf(WeakRandomness(p, a, "randomness"), p, a)
    BY DEF WeakRandomness
<1>3. /\ FactsOf(HardcodedKey(p, a), p, a)
      /\ FactsOf(StaticIv(p, a), p, a)
      /\ FactsOf(ImplicitZeroIv(p, a), p, a)
    <2>1. FactsOf(HardcodedKey(p, a), p, a)
        <3>1. CASE StaticOrigin(a, "key")
            BY <3>1 DEF HardcodedKey
        <3>2. CASE ~StaticOrigin(a, "key")
            BY <3>2 DEF HardcodedKey
        <3> QED
            BY <3>1, <3>2
    <2>2. FactsOf(StaticIv(p, a), p, a)
        <3>1. CASE StaticOrigin(a, "iv")
            BY <3>1 DEF StaticIv
        <3>2. CASE ~StaticOrigin(a, "iv")
            BY <3>2 DEF StaticIv
        <3> QED
            BY <3>1, <3>2
    <2>3. FactsOf(ImplicitZeroIv(p, a), p, a)
        <3>1. CASE Callee(a) \in ZeroIvHelpers
            <4>1. ImplicitZeroIv(p, a) =
                      {Fact(p, "static_iv", a, "iv", "implicit all-zero IV")}
                BY <3>1 DEF ImplicitZeroIv
            <4>2. \A v : FactsOf({Fact(p, "static_iv", a, "iv", v)}, p, a)
                OBVIOUS
            <4> HIDE DEF FactsOf, Fact
            <4> QED
                BY <4>1, <4>2
        <3>2. CASE Callee(a) \notin ZeroIvHelpers
            BY <3>2 DEF ImplicitZeroIv
        <3> QED
            BY <3>1, <3>2
    <2> QED
        BY <2>1, <2>2, <2>3
<1>4. /\ \A c : FactsOf(EcbMode(p, a, c), p, a)
      /\ \A s : FactsOf(KnownWeakAlgorithm(p, a, s), p, a)
      /\ FactsOf(NumericParameter(p, "key_size", a, "bits"), p, a)
    BY DEF EcbMode, KnownWeakAlgorithm, NumericParameter
<1>5. /\ FactsOf(Curve(a), "ECC", a)
      /\ \A v : p # "ECC" => FactsOf({Fact(p, "parameter_set", a, "callee", v)}, p, a)
    BY DEF Curve
<1> QED
    BY <1>1, <1>2, <1>3, <1>4, <1>5

LEMMA FactsOfUnion ==
    ASSUME NEW p, NEW a, NEW A, NEW B, FactsOf(A, p, a), FactsOf(B, p, a)
    PROVE  FactsOf(A \cup B, p, a)
BY DEF FactsOf

LEMMA NoFacts == \A p, a : FactsOf({}, p, a)
BY DEF FactsOf

(* The key of an AES call is reported in one of two ways, any other not.    *)
KeyHardcoded(facts) == \E f \in facts : f.type = "hardcoded_key"
KeyAnswer(a, facts) ==
    /\ KeyHardcoded(facts) <=> /\ SpecOf(a).primitive \in {None, "AES"}
                               /\ Has(a, "key") /\ StaticOrigin(a, "key")
    /\ diagnostics' = diagnostics \cup
           (IF SpecOf(a).primitive \in {None, "AES"} /\ KeyUnresolved(a)
            THEN {Diagnostic("UNRESOLVED_KEY_PROVENANCE", a)} ELSE {})

(* An anchor that is analysed puts one primitive, with facts about it.      *)
Analysed(a) ==
    /\ Turn(a)
    /\ \E e, facts, inds :
           /\ e.address = a
           /\ FactsOf(facts, e.primitive, a)
           /\ KeyAnswer(a, facts)
           /\ \A i \in inds : i.addresses = {a}
           /\ Emit(e, facts, inds)
Undetermined(a) ==
    /\ Turn(a)
    /\ \E code \in {"UNRESOLVED_DIGEST_PRIMITIVE", "UNRESOLVED_CIPHER_PRIMITIVE"} :
           Diagnose(code, a)

LEMMA EmitIsAnalysed ==
    ASSUME NEW a, NEW p, NEW v, NEW facts, NEW inds, Turn(a),
           FactsOf(facts, p, a), KeyAnswer(a, facts),
           \A i \in inds : i.addresses = {a},
           Emit(Evidence(p, a, v), facts, inds)
    PROVE  Analysed(a)
<1>1. Evidence(p, a, v).address = a /\ Evidence(p, a, v).primitive = p
    BY DEF Evidence
<1> QED
    BY <1>1 DEF Analysed

LEMMA RngIndicators ==
    \A p, a, o : \A i \in RngQuality(p, a, o) : i.addresses = {a}
BY DEF RngQuality, Indicator

(* The rules of the other primitives say nothing of a hardcoded key.        *)
LEMMA OtherRules ==
    ASSUME NEW p, NEW a
    PROVE  /\ \A o : ~KeyHardcoded(OperandOrigin(p, a, o))
           /\ \A o : ~KeyHardcoded(WeakRandomness(p, a, o))
           /\ ~KeyHardcoded(StaticIv(p, a)) /\ ~KeyHardcoded(ImplicitZeroIv(p, a))
           /\ \A c : ~KeyHardcoded(EcbMode(p, a, c))
           /\ \A s : ~KeyHardcoded(KnownWeakAlgorithm(p, a, s))
           /\ ~KeyHardcoded(NumericParameter(p, "key_size", a, "bits"))
           /\ ~KeyHardcoded(Curve(a))
           /\ \A v : ~KeyHardcoded({Fact(p, "parameter_set", a, "callee", v)})
<1> USE DEF KeyHardcoded, Fact
<1>1. /\ \A o : ~KeyHardcoded(OperandOrigin(p, a, o))
      /\ \A o : ~KeyHardcoded(WeakRandomness(p, a, o))
    BY DEF OperandOrigin, WeakRandomness
<1>2. ~KeyHardcoded(StaticIv(p, a))
    BY DEF StaticIv
<1>3. ~KeyHardcoded(ImplicitZeroIv(p, a))
    <2>1. \A v : ~KeyHardcoded({Fact(p, "static_iv", a, "iv", v)})
        OBVIOUS
    <2>2. ~KeyHardcoded({})
        OBVIOUS
    <2> HIDE DEF KeyHardcoded, Fact
    <2> QED
        BY <2>1, <2>2 DEF ImplicitZeroIv
<1>4. /\ \A c : ~KeyHardcoded(EcbMode(p, a, c))
      /\ \A s : ~KeyHardcoded(KnownWeakAlgorithm(p, a, s))
    BY DEF EcbMode, KnownWeakAlgorithm
<1>5. /\ ~KeyHardcoded(NumericParameter(p, "key_size", a, "bits"))
      /\ ~KeyHardcoded(Curve(a))
      /\ \A v : ~KeyHardcoded({Fact(p, "parameter_set", a, "callee", v)})
    BY DEF NumericParameter, Curve
<1> QED
    BY <1>1, <1>2, <1>3, <1>4, <1>5

LEMMA KeyHardcodedUnion ==
    /\ \A A, B : KeyHardcoded(A \cup B) <=> KeyHardcoded(A) \/ KeyHardcoded(B)
    /\ ~KeyHardcoded({})
BY DEF KeyHardcoded

LEMMA AnchorStep ==
    ASSUME NEW a \in 1..Sites, AnalyseAnchor(a)
    PROVE  Analysed(a) \/ Undetermined(a)
<1>1. CASE AnalysePqc(a)
    <2> DEFINE p == SpecOf(a).primitive
               v == SpecOf(a).variant
               randomness == IF Has(a, "randomness")
                             THEN OperandOrigin(p, a, "randomness") \cup
                                      WeakRandomness(p, a, "randomness")
                             ELSE {}
               facts == {Fact(p, "parameter_set", a, "callee", v)} \cup randomness
               inds == IF Has(a, "randomness") THEN RngQuality(p, a, "randomness") ELSE {}
    <2>1. Turn(a) /\ p \notin {None, "AES", "ECC"}
        BY <1>1 DEF AnalysePqc, None
    <2>2. FactsOf(facts, p, a) /\ ~KeyHardcoded(facts)
        <3>1. /\ FactsOf({Fact(p, "parameter_set", a, "callee", v)}, p, a)
              /\ FactsOf(OperandOrigin(p, a, "randomness"), p, a)
              /\ FactsOf(WeakRandomness(p, a, "randomness"), p, a)
            BY <2>1, RulesAreWellFormed
        <3>2. /\ ~KeyHardcoded({Fact(p, "parameter_set", a, "callee", v)})
              /\ ~KeyHardcoded(OperandOrigin(p, a, "randomness"))
              /\ ~KeyHardcoded(WeakRandomness(p, a, "randomness"))
            BY OtherRules
        <3> HIDE DEF p, v
        <3>3. FactsOf(randomness, p, a) /\ ~KeyHardcoded(randomness)
            BY <3>1, <3>2, FactsOfUnion, NoFacts, KeyHardcodedUnion
        <3> HIDE DEF randomness
        <3> QED
            BY <3>1, <3>2, <3>3, FactsOfUnion, KeyHardcodedUnion
    <2>3. Emit(Evidence(p, a, v), facts, inds) /\ diagnostics' = diagnostics
        BY <1>1 DEF AnalysePqc
    <2>4. \A i \in inds : i.addresses = {a}
        BY RngIndicators
    <2>5. KeyAnswer(a, facts)
        BY <2>1, <2>2, <2>3 DEF KeyAnswer
    <2> HIDE DEF p, v, facts, inds
    <2> QED
        BY <2>1, <2>2, <2>3, <2>4, <2>5, EmitIsAnalysed
<1>2. CASE AnalyseDigest(a)
    <2> DEFINE s == Selector(a, "algorithm")
               facts == KnownWeakAlgorithm(DigestOf[s], a, s)
    <2>1. /\ Turn(a) /\ SpecOf(a).primitive = "DIGEST" /\ diagnostics' = diagnostics
          /\ Emit(Evidence(DigestOf[s], a, None), facts, {})
        BY <1>2 DEF AnalyseDigest
    <2>2. FactsOf(facts, DigestOf[s], a) /\ ~KeyHardcoded(facts)
        BY RulesAreWellFormed, OtherRules
    <2> HIDE DEF s, facts
    <2>3. KeyAnswer(a, facts)
        BY <2>1, <2>2 DEF KeyAnswer, None
    <2> QED
        BY <2>1, <2>2, <2>3, EmitIsAnalysed
<1>3. CASE AnalyseRsa(a)
    <2> DEFINE facts == IF Has(a, "bits")
                        THEN NumericParameter("RSA", "key_size", a, "bits") ELSE {}
    <2>1. FactsOf(facts, "RSA", a) /\ ~KeyHardcoded(facts)
        BY RulesAreWellFormed, OtherRules, NoFacts, KeyHardcodedUnion
    <2>2. /\ Turn(a) /\ SpecOf(a).primitive = "RSA" /\ diagnostics' = diagnostics
          /\ Emit(Evidence("RSA", a, None), facts, {})
        BY <1>3 DEF AnalyseRsa
    <2> HIDE DEF facts
    <2>3. KeyAnswer(a, facts)
        BY <2>1, <2>2 DEF KeyAnswer, None
    <2> QED
        BY <2>1, <2>2, <2>3, EmitIsAnalysed
<1>4. CASE AnalyseEcc(a)
    <2> DEFINE facts == IF Has(a, "curve") THEN Curve(a) ELSE {}
    <2>1. FactsOf(facts, "ECC", a) /\ ~KeyHardcoded(facts)
        BY RulesAreWellFormed, OtherRules, NoFacts, KeyHardcodedUnion
    <2>2. /\ Turn(a) /\ SpecOf(a).primitive = "ECC" /\ diagnostics' = diagnostics
          /\ Emit(Evidence("ECC", a, None), facts, {})
        BY <1>4 DEF AnalyseEcc
    <2> HIDE DEF facts
    <2>3. KeyAnswer(a, facts)
        BY <2>1, <2>2 DEF KeyAnswer, None
    <2> QED
        BY <2>1, <2>2, <2>3, EmitIsAnalysed
<1>5. CASE AnalyseCipher(a)
    <2> DEFINE mode == EcbMode("AES", a, CipherName(a)) \cup ImplicitZeroIv("AES", a)
               facts == mode \cup IvFacts(a) \cup KeyFacts(a)
               inds == UNION {IF Has(a, o) THEN RngQuality("AES", a, o) ELSE {} :
                                  o \in {"iv", "key"}}
    <2>1. FactsOf(IvFacts(a), "AES", a) /\ ~KeyHardcoded(IvFacts(a))
        <3>1. /\ FactsOf(OperandOrigin("AES", a, "iv"), "AES", a)
              /\ FactsOf(StaticIv("AES", a), "AES", a)
            BY RulesAreWellFormed
        <3> QED
            BY <3>1, FactsOfUnion, NoFacts, OtherRules, KeyHardcodedUnion DEF IvFacts
    <2>2. FactsOf(KeyFacts(a), "AES", a)
        <3>1. /\ FactsOf(WeakRandomness("AES", a, "key"), "AES", a)
              /\ FactsOf(OperandOrigin("AES", a, "key"), "AES", a)
              /\ FactsOf(HardcodedKey("AES", a), "AES", a)
            BY RulesAreWellFormed
        <3>2. FactsOf(WeakRandomness("AES", a, "key") \cup OperandOrigin("AES", a, "key"),
                      "AES", a)
            BY <3>1, FactsOfUnion
        <3> QED
            BY <3>1, <3>2, FactsOfUnion, NoFacts DEF KeyFacts
    <2>3. FactsOf(mode, "AES", a) /\ ~KeyHardcoded(mode)
        BY RulesAreWellFormed, OtherRules, FactsOfUnion, KeyHardcodedUnion
    <2>4. KeyHardcoded(KeyFacts(a)) <=> Has(a, "key") /\ StaticOrigin(a, "key")
        <3>1. KeyHardcoded(HardcodedKey("AES", a)) <=> StaticOrigin(a, "key")
            BY DEF KeyHardcoded, HardcodedKey, Fact
        <3>2. /\ ~KeyHardcoded(WeakRandomness("AES", a, "key"))
              /\ ~KeyHardcoded(OperandOrigin("AES", a, "key"))
            BY OtherRules
        <3>3. CASE Has(a, "key")
            <4>1. KeyFacts(a) = WeakRandomness("AES", a, "key") \cup
                                    OperandOrigin("AES", a, "key") \cup HardcodedKey("AES", a)
                BY <3>3 DEF KeyFacts
            <4>2. ~KeyHardcoded(WeakRandomness("AES", a, "key") \cup
                                    OperandOrigin("AES", a, "key"))
                BY <3>2, KeyHardcodedUnion
            <4>3. KeyHardcoded(KeyFacts(a)) <=> KeyHardcoded(HardcodedKey("AES", a))
                BY <4>1, <4>2, KeyHardcodedUnion
            <4> QED
                BY <3>1, <3>3, <4>3
        <3>4. CASE ~Has(a, "key")
            BY <3>4, KeyHardcodedUnion DEF KeyFacts
        <3> QED
            BY <3>3, <3>4
    <2>5. /\ Turn(a) /\ ProvenAes(a)
          /\ Emit(Evidence("AES", a, SpecOf(a).variant), facts, inds)
          /\ diagnostics' = diagnostics \cup
                 (IF KeyUnresolved(a) THEN {Diagnostic("UNRESOLVED_KEY_PROVENANCE", a)} ELSE {})
        BY <1>5 DEF AnalyseCipher
    <2>6. \A i \in inds : i.addresses = {a}
        BY RngIndicators
    <2>7. SpecOf(a).primitive \in {None, "AES"}
        BY <2>5 DEF ProvenAes
    <2> HIDE DEF mode
    <2>8. FactsOf(facts, "AES", a)
        BY <2>1, <2>2, <2>3, FactsOfUnion
    <2>9. KeyHardcoded(facts) <=> Has(a, "key") /\ StaticOrigin(a, "key")
        BY <2>1, <2>3, <2>4, KeyHardcodedUnion
    <2> HIDE DEF facts, inds
    <2>10. KeyAnswer(a, facts)
        BY <2>5, <2>7, <2>9 DEF KeyAnswer
    <2> QED
        BY <2>5, <2>6, <2>8, <2>10, EmitIsAnalysed
<1>6. CASE UnresolvedDigest(a) \/ UnresolvedCipher(a)
    BY <1>6 DEF UnresolvedDigest, UnresolvedCipher, Undetermined
<1> QED
    BY <1>1, <1>2, <1>3, <1>4, <1>5, <1>6 DEF AnalyseAnchor

-----------------------------------------------------------------------------
(* Facts keep their identity, and one piece of evidence.                    *)
FactsInv ==
    /\ \A f \in findings : WellFormed(f)
    /\ \A d, e \in primitives : d.primitive = e.primitive /\ d.address = e.address => d = e
    /\ \A f \in findings : \E e \in primitives :
           e.primitive = f.primitive /\ e.address = f.address

LEMMA IdsAreInjective ==
    ASSUME NEW f, NEW g, WellFormed(f), WellFormed(g), FindingId(f) = FindingId(g)
    PROVE  f = g
<1>1. f.primitive = g.primitive /\ f.type = g.type /\ f.address = g.address /\ f.origin = g.origin
    BY DEF FindingId
<1>2. f.operand = g.operand
    <2>1. CASE f.type \in {"operand_origin", "hardcoded_key"}
        BY <1>1, <2>1 DEF FindingId
    <2>2. CASE f.type \notin {"operand_origin", "hardcoded_key"}
        BY <1>1, <2>2 DEF WellFormed
    <2> QED
        BY <2>1, <2>2
<1> QED
    BY <1>1, <1>2 DEF WellFormed

LEMMA UniqueKeepsAll ==
    ASSUME NEW S, \A f \in S : WellFormed(f)
    PROVE  Unique(S) = S
<1>1. ASSUME NEW f \in S
      PROVE  (CHOOSE g \in S : FindingId(g) = FindingId(f)) = f
    <2> DEFINE g == CHOOSE x \in S : FindingId(x) = FindingId(f)
    <2>1. g \in S /\ FindingId(g) = FindingId(f)
        OBVIOUS
    <2> HIDE DEF g
    <2>2. g = f
        BY <2>1, IdsAreInjective
    <2> QED
        BY <2>2 DEF g
<1>2. S \subseteq Unique(S)
    BY <1>1 DEF Unique
<1>3. Unique(S) \subseteq S
    BY <1>1 DEF Unique
<1> QED
    BY <1>2, <1>3

(* Evidence that is put keeps the places of what it replaces.               *)
LEMMA PutEvidence ==
    ASSUME NEW ps, NEW es,
           \A d, e \in ps : d.primitive = e.primitive /\ d.address = e.address => d = e,
           \A d, e \in es : d.primitive = e.primitive /\ d.address = e.address => d = e
    PROVE  /\ \A d, e \in Put(ps, es) :
                 d.primitive = e.primitive /\ d.address = e.address => d = e
           /\ \A d \in ps : \E e \in Put(ps, es) :
                 e.primitive = d.primitive /\ e.address = d.address
           /\ es \subseteq Put(ps, es)
           /\ \A e \in Put(ps, es) : e \in ps \/ e \in es
BY DEF Put

LEMMA InitFacts == Init => FactsInv
BY DEF Init, FactsInv

LEMMA NextFacts == FactsInv /\ [Next]_vars => FactsInv'
<1> SUFFICES ASSUME FactsInv, [Next]_vars PROVE FactsInv'
    OBVIOUS
<1> USE DEF FactsInv
<1>1. CASE UNCHANGED <<primitives, findings>>
    BY <1>1
<1>2. ASSUME NEW a \in 1..Sites, AnalyseAnchor(a) PROVE FactsInv'
    <2>1. CASE Undetermined(a)
        BY <2>1, <1>1 DEF Undetermined, Diagnose
    <2>2. CASE Analysed(a)
        <3>1. PICK e, facts, inds :
                  /\ e.address = a
                  /\ FactsOf(facts, e.primitive, a)
                  /\ Emit(e, facts, inds)
            BY <2>2 DEF Analysed
        <3>2. primitives' = Put(primitives, {e}) /\ findings' = findings \cup facts
            BY <3>1 DEF Emit
        <3>3. \A f \in facts : WellFormed(f) /\ f.primitive = e.primitive /\ f.address = e.address
            BY <3>1 DEF FactsOf
        <3>4. /\ \A d, x \in Put(primitives, {e}) :
                     d.primitive = x.primitive /\ d.address = x.address => d = x
              /\ \A d \in primitives : \E x \in Put(primitives, {e}) :
                     x.primitive = d.primitive /\ x.address = d.address
              /\ e \in Put(primitives, {e})
            BY PutEvidence
        <3>5. \A f \in findings' : WellFormed(f)
            BY <3>2, <3>3
        <3>6. \A f \in findings' : \E x \in Put(primitives, {e}) :
                  x.primitive = f.primitive /\ x.address = f.address
            <4>1. \A f \in findings : \E d \in primitives :
                      d.primitive = f.primitive /\ d.address = f.address
                OBVIOUS
            <4>2. ASSUME NEW f \in findings
                  PROVE  \E x \in Put(primitives, {e}) :
                             x.primitive = f.primitive /\ x.address = f.address
                <5>1. PICK d \in primitives :
                          d.primitive = f.primitive /\ d.address = f.address
                    BY <4>1, <4>2
                <5>2. PICK x \in Put(primitives, {e}) :
                          x.primitive = d.primitive /\ x.address = d.address
                    BY <3>4
                <5> QED
                    BY <5>1, <5>2
            <4>3. ASSUME NEW f \in facts
                  PROVE  \E x \in Put(primitives, {e}) :
                             x.primitive = f.primitive /\ x.address = f.address
                BY <3>3, <3>4
            <4> QED
                BY <3>2, <4>2, <4>3
        <3> QED
            BY <3>2, <3>4, <3>5, <3>6
    <2> QED
        BY <1>2, <2>1, <2>2, AnchorStep
<1>3. CASE Recognised
    <2>1. PICK es \in SUBSET Regions : Report(Put(primitives, es), {})
        BY <1>3 DEF Recognised
    <2>2. primitives' = Put(primitives, es) /\ findings' = Unique(findings)
        BY <2>1 DEF Report
    <2>3. findings' = findings
        BY <2>2, UniqueKeepsAll
    <2>4. \A d, e \in es : d.primitive = e.primitive /\ d.address = e.address => d = e
        BY RegionsAssumption
    <2>5. /\ \A d, x \in Put(primitives, es) :
                 d.primitive = x.primitive /\ d.address = x.address => d = x
          /\ \A d \in primitives : \E x \in Put(primitives, es) :
                 x.primitive = d.primitive /\ x.address = d.address
        BY <2>4, PutEvidence
    <2> QED
        BY <2>2, <2>3, <2>5
<1>4. CASE NotRecognised
    <2>1. primitives' = primitives /\ findings' = Unique(findings)
        BY <1>4 DEF NotRecognised, Report
    <2>2. findings' = findings
        BY <2>1, UniqueKeepsAll
    <2> QED
        BY <2>1, <2>2
<1>5. CASE RejectReference \/ FindAnchors \/ AnchorsDone \/ Finished \/ UNCHANGED vars
    BY <1>1, <1>5 DEF RejectReference, FindAnchors, AnchorsDone, Finished, vars, output
<1> QED
    BY <1>2, <1>3, <1>4, <1>5 DEF Next

LEMMA FactsCorrect == Spec => []FactsInv
BY InitFacts, NextFacts, PTL DEF Spec

(* Two facts of one id are one fact: the report loses none.                 *)
THEOREM NoFactIsLost == Spec => []NoFactIsMerged
<1>1. FactsInv => NoFactIsMerged
    BY IdsAreInjective DEF FactsInv, NoFactIsMerged
<1> QED
    BY <1>1, FactsCorrect, PTL

(* Every fact is listed by the one asset of its primitive and address.      *)
THEOREM FactsAreListedOnce == Spec => []FactsReachOneAsset
<1>1. FactsInv => FactsReachOneAsset
    <2> SUFFICES ASSUME FactsInv, NEW f \in findings
                 PROVE  \E e \in primitives : {d \in primitives : f \in AssetFacts(d)} = {e}
        BY DEF FactsReachOneAsset
    <2>1. PICK e \in primitives : e.primitive = f.primitive /\ e.address = f.address
        BY DEF FactsInv
    <2>2. {d \in primitives : f \in AssetFacts(d)} = {e}
        BY <2>1 DEF FactsInv, AssetFacts
    <2> QED
        BY <2>2
<1> QED
    BY <1>1, FactsCorrect, PTL

-----------------------------------------------------------------------------
(* What is said of each call.  After the search the names, and with them    *)
(* what is asked of a call, stay as they are.                               *)
LEMMA Frame ==
    ASSUME UNCHANGED <<input, resolved>>
    PROVE  \A a \in 1..Sites :
               /\ Anchored(resolved, a)' <=> Anchored(resolved, a)
               /\ SpecOf(a)' = SpecOf(a)
               /\ Has(a, "key")' <=> Has(a, "key")
               /\ StaticOrigin(a, "key")' <=> StaticOrigin(a, "key")
               /\ Arg(a, "key")' = Arg(a, "key")
               /\ KeyUnresolved(a)' <=> KeyUnresolved(a)
<1> SUFFICES ASSUME NEW a \in 1..Sites
             PROVE  /\ Anchored(resolved, a)' <=> Anchored(resolved, a)
                    /\ SpecOf(a)' = SpecOf(a)
                    /\ Has(a, "key")' <=> Has(a, "key")
                    /\ StaticOrigin(a, "key")' <=> StaticOrigin(a, "key")
                    /\ Arg(a, "key")' = Arg(a, "key")
                    /\ KeyUnresolved(a)' <=> KeyUnresolved(a)
    OBVIOUS
<1>1. program' = program /\ decompiled' = decompiled /\ resolved' = resolved
    BY DEF input
<1>2. Callee(a)' = Callee(a)
    BY <1>1 DEF Callee, Name, NameIn
<1>3. SpecOf(a)' = SpecOf(a)
    BY <1>2 DEF SpecOf, AnchorSpec, CryptoInits, DigestInits, ZeroIvHelpers
<1>4. Has(a, "key")' <=> Has(a, "key")
    BY <1>1, <1>3 DEF Has
<1>5. Arg(a, "key")' = Arg(a, "key")
    BY <1>1 DEF Arg
<1>6. StaticOrigin(a, "key")' <=> StaticOrigin(a, "key")
    BY <1>5 DEF StaticOrigin
<1>7. KeyUnresolved(a)' <=> KeyUnresolved(a)
    <2>1. HardcodedKey("AES", a)' = HardcodedKey("AES", a)
        BY <1>5, <1>6 DEF HardcodedKey
    <2> QED
        BY <1>4, <1>5, <2>1 DEF KeyUnresolved
<1>8. Anchored(resolved, a)' <=> Anchored(resolved, a)
    BY <1>1 DEF Anchored, NameIn, Supported, CryptoInits, DigestInits, LowLevelAes,
        ZeroIvHelpers
<1> QED
    BY <1>3, <1>4, <1>5, <1>6, <1>7, <1>8

KeyDiagnosed(a) == Diagnostic("UNRESOLVED_KEY_PROVENANCE", a) \in diagnostics
Evident(a) == \E e \in primitives : e.address = a
Searched == phase \in {"analyse", "recognise", "done"}
Answered(a) == Searched /\ a \notin queue /\ Anchored(resolved, a)

SiteInv(a) ==
    /\ a \in queue => Anchored(resolved, a)
    /\ a \in queue \/ ~Anchored(resolved, a) =>
           FactsAt(a) = {} /\ \A d \in diagnostics : d.address # a
    /\ Answered(a) => Unproven(a) \/ Evident(a)
    /\ Unproven(a) => FactsAt(a) = {} /\ ~KeyDiagnosed(a)
    /\ KeyHardcoded(FactsAt(a)) => Has(a, "key") /\ StaticOrigin(a, "key")
    /\ KeyDiagnosed(a) => KeyUnresolved(a)
    /\ (/\ Answered(a) /\ ~Unproven(a)
        /\ SpecOf(a).primitive \in {None, "AES"} /\ Has(a, "key")) =>
           \/ KeyHardcoded(FactsAt(a)) \/ KeyDiagnosed(a)
           \/ Arg(a, "key").terminal \in {"CONST", "ADDR"}

AnswersInv ==
    /\ phase \in {"search", "analyse", "recognise", "done", "raised"}
    /\ ~Searched => findings = {} /\ diagnostics = {}
    /\ phase # "analyse" => queue = {}
    /\ queue \subseteq 1..Sites
    /\ \A a \in 1..Sites : SiteInv(a)

(* What is said of a call stays, if nothing about it is added.              *)
LEMMA SiteKept ==
    ASSUME UNCHANGED <<input, resolved>>, NEW b \in 1..Sites, SiteInv(b),
           FactsAt(b)' = FactsAt(b),
           \A d : d.address = b => (d \in diagnostics' <=> d \in diagnostics),
           Evident(b) => Evident(b)',
           b \in queue' <=> b \in queue,
           Searched' <=> Searched
    PROVE  SiteInv(b)'
<1>1. Unproven(b)' <=> Unproven(b)
    BY DEF Unproven
<1>2. KeyDiagnosed(b)' <=> KeyDiagnosed(b)
    BY DEF KeyDiagnosed, Diagnostic
<1>3. (\A d \in diagnostics : d.address # b) => \A d \in diagnostics' : d.address # b
    OBVIOUS
<1>4. /\ Anchored(resolved, b)' <=> Anchored(resolved, b)
      /\ SpecOf(b)' = SpecOf(b)
      /\ Has(b, "key")' <=> Has(b, "key")
      /\ StaticOrigin(b, "key")' <=> StaticOrigin(b, "key")
      /\ Arg(b, "key")' = Arg(b, "key")
      /\ KeyUnresolved(b)' <=> KeyUnresolved(b)
    BY Frame
<1>5. KeyHardcoded(FactsAt(b))' <=> KeyHardcoded(FactsAt(b))
    BY DEF KeyHardcoded
<1> QED
    BY <1>1, <1>2, <1>3, <1>4, <1>5 DEF SiteInv, Answered

(* A call that is analysed.                                                 *)
LEMMA AnalysedAnswers ==
    ASSUME AnswersInv, NEW a \in 1..Sites, Analysed(a)
    PROVE  AnswersInv'
<1>1. PICK e, facts, inds :
          /\ e.address = a
          /\ FactsOf(facts, e.primitive, a)
          /\ KeyAnswer(a, facts)
          /\ Emit(e, facts, inds)
    BY DEF Analysed
<1>2. /\ phase = "analyse" /\ a \in queue /\ phase' = phase /\ queue' = queue \ {a}
      /\ UNCHANGED <<input, resolved>>
      /\ primitives' = Put(primitives, {e}) /\ findings' = findings \cup facts
    BY <1>1 DEF Analysed, Turn, Emit
<1>3. \A f \in facts : f.address = a
    BY <1>1 DEF FactsOf
<1>4. SiteInv(a)
    BY DEF AnswersInv
<1>5. Anchored(resolved, a) /\ FactsAt(a) = {} /\ \A d \in diagnostics : d.address # a
    BY <1>2, <1>4 DEF SiteInv
<1>6. Searched /\ Searched'
    BY <1>2 DEF Searched
<1>7. SiteInv(a)'
    <2>1. /\ Anchored(resolved, a)' <=> Anchored(resolved, a)
          /\ SpecOf(a)' = SpecOf(a)
          /\ Has(a, "key")' <=> Has(a, "key")
          /\ StaticOrigin(a, "key")' <=> StaticOrigin(a, "key")
          /\ Arg(a, "key")' = Arg(a, "key")
          /\ KeyUnresolved(a)' <=> KeyUnresolved(a)
        BY <1>2, Frame
    <2>2. FactsAt(a)' = facts
        BY <1>2, <1>3, <1>5 DEF FactsAt
    <2>3. KeyHardcoded(FactsAt(a))' <=> KeyHardcoded(facts)
        BY <2>2 DEF KeyHardcoded
    <2>4. diagnostics' = diagnostics \cup
              (IF SpecOf(a).primitive \in {None, "AES"} /\ KeyUnresolved(a)
               THEN {Diagnostic("UNRESOLVED_KEY_PROVENANCE", a)} ELSE {})
        BY <1>1 DEF KeyAnswer
    <2>5. ~Unproven(a)'
        BY <1>5, <2>4 DEF Unproven, Diagnostic
    <2>6. KeyDiagnosed(a)' <=> SpecOf(a).primitive \in {None, "AES"} /\ KeyUnresolved(a)
        BY <1>5, <2>4 DEF KeyDiagnosed, Diagnostic
    <2>7. Evident(a)'
        BY <1>1, <1>2 DEF Evident, Put
    <2>8. KeyHardcoded(facts) <=> /\ SpecOf(a).primitive \in {None, "AES"}
                                  /\ Has(a, "key") /\ StaticOrigin(a, "key")
        BY <1>1 DEF KeyAnswer
    <2>9. Has(a, "key") /\ ~StaticOrigin(a, "key") /\ ~KeyUnresolved(a) =>
              Arg(a, "key").terminal \in {"CONST", "ADDR"}
        BY DEF KeyUnresolved, HardcodedKey
    <2> QED
        BY <1>2, <1>5, <1>6, <2>1, <2>3, <2>5, <2>6, <2>7, <2>8, <2>9 DEF SiteInv, Answered
<1>8. ASSUME NEW b \in 1..Sites, b # a PROVE SiteInv(b)'
    <2>1. SiteInv(b)
        BY DEF AnswersInv
    <2>2. FactsAt(b)' = FactsAt(b)
        BY <1>2, <1>3, <1>8 DEF FactsAt
    <2>3. \A d : d.address = b => (d \in diagnostics' <=> d \in diagnostics)
        BY <1>1, <1>8 DEF KeyAnswer, Diagnostic
    <2>4. Evident(b) => Evident(b)'
        BY <1>1, <1>2, <1>8 DEF Evident, Put
    <2>5. b \in queue' <=> b \in queue
        BY <1>2, <1>8
    <2> QED
        BY <1>2, <1>6, <2>1, <2>2, <2>3, <2>4, <2>5, SiteKept
<1> QED
    BY <1>2, <1>6, <1>7, <1>8 DEF AnswersInv

(* A call whose primitive is not determined.                                *)
LEMMA UndeterminedAnswers ==
    ASSUME AnswersInv, NEW a \in 1..Sites, Undetermined(a)
    PROVE  AnswersInv'
<1>1. PICK code \in {"UNRESOLVED_DIGEST_PRIMITIVE", "UNRESOLVED_CIPHER_PRIMITIVE"} :
          Diagnose(code, a)
    BY DEF Undetermined
<1>2. /\ phase = "analyse" /\ a \in queue /\ phase' = phase /\ queue' = queue \ {a}
      /\ UNCHANGED <<input, resolved, primitives, findings>>
      /\ diagnostics' = diagnostics \cup {Diagnostic(code, a)}
    BY <1>1 DEF Undetermined, Turn, Diagnose
<1>3. SiteInv(a)
    BY DEF AnswersInv
<1>4. Anchored(resolved, a) /\ FactsAt(a) = {} /\ \A d \in diagnostics : d.address # a
    BY <1>2, <1>3 DEF SiteInv
<1>5. Searched /\ Searched'
    BY <1>2 DEF Searched
<1>6. SiteInv(a)'
    <2>1. Anchored(resolved, a)' <=> Anchored(resolved, a)
        BY <1>2, Frame
    <2>2. FactsAt(a)' = {}
        BY <1>2, <1>4 DEF FactsAt
    <2>3. ~KeyHardcoded(FactsAt(a))'
        BY <2>2 DEF KeyHardcoded
    <2>4. Unproven(a)'
        <3>1. Diagnostic(code, a) \in diagnostics'
            BY <1>2
        <3>2. Diagnostic(code, a).code = code /\ Diagnostic(code, a).address = a
            BY DEF Diagnostic
        <3>3. PICK d \in diagnostics' : d.code = code /\ d.address = a
            BY <3>1, <3>2
        <3> QED
            BY <1>1, <3>3 DEF Unproven
    <2>5. ~KeyDiagnosed(a)'
        BY <1>1, <1>2, <1>4 DEF KeyDiagnosed, Diagnostic
    <2> QED
        BY <1>2, <1>4, <2>1, <2>2, <2>3, <2>4, <2>5 DEF SiteInv
<1>7. ASSUME NEW b \in 1..Sites, b # a PROVE SiteInv(b)'
    <2>1. SiteInv(b)
        BY DEF AnswersInv
    <2>2. FactsAt(b)' = FactsAt(b)
        BY <1>2 DEF FactsAt
    <2>3. \A d : d.address = b => (d \in diagnostics' <=> d \in diagnostics)
        BY <1>2, <1>7 DEF Diagnostic
    <2>4. Evident(b) => Evident(b)'
        BY <1>2 DEF Evident
    <2>5. b \in queue' <=> b \in queue
        BY <1>2, <1>7
    <2> QED
        BY <1>2, <1>5, <2>1, <2>2, <2>3, <2>4, <2>5, SiteKept
<1> QED
    BY <1>2, <1>5, <1>6, <1>7 DEF AnswersInv

(* The report: evidence is replaced by evidence, and diagnostics are added  *)
(* that are about no call.                                                  *)
LEMMA ReportAnswers ==
    ASSUME AnswersInv, FactsInv, Recognised \/ NotRecognised
    PROVE  AnswersInv'
<1>1. PICK ps, ds :
          /\ Report(ps, ds)
          /\ \A d \in primitives : \E e \in ps : e.address = d.address
          /\ \A d \in ds : d.address = 0
    <2>1. CASE Recognised
        <3>1. PICK es \in SUBSET Regions : Report(Put(primitives, es), {})
            BY <2>1 DEF Recognised
        <3>2. \A d \in primitives : \E e \in Put(primitives, es) : e.address = d.address
            BY DEF Put
        <3> QED
            BY <3>1, <3>2
    <2>2. CASE NotRecognised
        <3>1. PICK code : Report(primitives, {Diagnostic(code, 0)})
            BY <2>2 DEF NotRecognised
        <3>2. \A d \in {Diagnostic(code, 0)} : d.address = 0
            BY DEF Diagnostic
        <3> QED
            BY <3>1, <3>2
    <2> QED
        BY <2>1, <2>2
<1>2. /\ phase = "recognise" /\ phase' = "done"
      /\ UNCHANGED <<input, resolved, queue>>
      /\ primitives' = ps /\ diagnostics' = diagnostics \cup ds
    BY <1>1 DEF Report
<1>3. findings' = findings
    BY <1>1, UniqueKeepsAll DEF Report, FactsInv
<1>4. Searched /\ Searched'
    BY <1>2 DEF Searched
<1>5. ASSUME NEW b \in 1..Sites PROVE SiteInv(b)'
    <2>1. SiteInv(b) /\ b # 0
        BY SitesAssumption DEF AnswersInv
    <2>2. FactsAt(b)' = FactsAt(b)
        BY <1>3 DEF FactsAt
    <2>3. \A d : d.address = b => (d \in diagnostics' <=> d \in diagnostics)
        BY <1>1, <1>2, <2>1
    <2>4. Evident(b) => Evident(b)'
        BY <1>1, <1>2 DEF Evident
    <2> QED
        BY <1>2, <1>4, <2>1, <2>2, <2>3, <2>4, SiteKept
<1> QED
    BY <1>2, <1>4, <1>5 DEF AnswersInv

LEMMA NextAnswers == AnswersInv /\ FactsInv /\ [Next]_vars => AnswersInv'
<1> SUFFICES ASSUME AnswersInv, FactsInv, [Next]_vars PROVE AnswersInv'
    OBVIOUS
<1>1. CASE RejectReference
    <2>1. /\ ~Searched /\ ~Searched' /\ phase' = "raised"
          /\ UNCHANGED <<input, resolved, queue, output>>
        BY <1>1 DEF RejectReference, Searched
    <2>2. ASSUME NEW b \in 1..Sites PROVE SiteInv(b)'
        <3>1. SiteInv(b) /\ FactsAt(b)' = FactsAt(b) /\ (Evident(b) => Evident(b)')
            BY <2>1 DEF AnswersInv, FactsAt, Evident, output
        <3> QED
            BY <2>1, <3>1, SiteKept DEF output
    <2> QED
        BY <1>1, <2>1, <2>2 DEF AnswersInv, RejectReference, output
<1>2. CASE FindAnchors
    <2>1. /\ phase = "search" /\ phase' = "analyse" /\ UNCHANGED input
          /\ resolved' = Matches /\ queue' = {a \in 1..Sites : Anchored(Matches, a)}
          /\ UNCHANGED <<primitives, findings, diagnostics>>
        BY <1>2 DEF FindAnchors
    <2>2. findings' = {} /\ diagnostics' = {} /\ Searched'
        BY <2>1 DEF AnswersInv, Searched
    <2>3. ASSUME NEW b \in 1..Sites PROVE SiteInv(b)'
        <3>1. Anchored(resolved, b)' <=> Anchored(Matches, b)
            BY <2>1 DEF input, Anchored, NameIn, Supported, CryptoInits, DigestInits,
                LowLevelAes, ZeroIvHelpers
        <3>2. Anchored(resolved, b)' <=> b \in queue'
            BY <2>1, <3>1
        <3>3. FactsAt(b)' = {} /\ ~Unproven(b)' /\ ~KeyDiagnosed(b)'
            BY <2>2 DEF FactsAt, Unproven, KeyDiagnosed
        <3>4. ~KeyHardcoded(FactsAt(b))'
            BY <3>3 DEF KeyHardcoded
        <3> QED
            BY <2>2, <3>2, <3>3, <3>4 DEF SiteInv, Answered
    <2> QED
        BY <2>1, <2>2, <2>3 DEF AnswersInv
<1>3. ASSUME NEW a \in 1..Sites, AnalyseAnchor(a) PROVE AnswersInv'
    BY <1>3, AnchorStep, AnalysedAnswers, UndeterminedAnswers
<1>4. CASE AnchorsDone \/ Finished \/ UNCHANGED vars
    <2>1. /\ Searched' <=> Searched /\ UNCHANGED <<input, resolved, queue, output>>
          /\ phase' = phase \/ (phase = "analyse" /\ phase' = "recognise" /\ queue = {})
        BY <1>4 DEF AnchorsDone, Finished, vars, input, output, Searched
    <2>2. UNCHANGED <<input, resolved, queue, output>> /\ (Searched' <=> Searched)
        BY <1>4 DEF AnchorsDone, Finished, vars, input, output, Searched
    <2>3. ASSUME NEW b \in 1..Sites PROVE SiteInv(b)'
        <3>1. SiteInv(b) /\ FactsAt(b)' = FactsAt(b) /\ (Evident(b) => Evident(b)')
            BY <2>2 DEF AnswersInv, FactsAt, Evident, output
        <3> QED
            BY <2>2, <3>1, SiteKept DEF output
    <2> QED
        BY <2>1, <2>2, <2>3 DEF AnswersInv, output
<1>5. CASE Recognised \/ NotRecognised
    BY <1>5, ReportAnswers
<1> QED
    BY <1>1, <1>2, <1>3, <1>4, <1>5 DEF Next

LEMMA AnswersCorrect == Spec => []AnswersInv
<1>1. Init => AnswersInv
    BY DEF Init, AnswersInv, Searched, SiteInv, Answered, FactsAt, Unproven,
        KeyDiagnosed, KeyHardcoded
<1>2. AnswersInv /\ FactsInv /\ [Next]_vars => AnswersInv'
    BY NextAnswers
<1> QED
    BY <1>1, <1>2, FactsCorrect, PTL DEF Spec

(* Every supported call is answered, and nothing is said of any other.      *)
THEOREM EveryCallIsAnswered == Spec => []CallsAreAnswered
<1>1. AnswersInv => CallsAreAnswered
    BY DEF AnswersInv, CallsAreAnswered, Searched, SiteInv, Answered, Evident, Unproven
<1> QED
    BY <1>1, AnswersCorrect, PTL

(* A key is reported in one way, and passed over for a reason only.         *)
THEOREM EveryKeyIsAnswered == Spec => []KeysAreAnswered
<1>1. AnswersInv => KeysAreAnswered
    <2> SUFFICES ASSUME AnswersInv, phase = "done", NEW a \in 1..Sites
                 PROVE  LET hardcoded  == \E f \in FactsAt(a) : f.type = "hardcoded_key"
                            unresolved == Diagnostic("UNRESOLVED_KEY_PROVENANCE", a) \in diagnostics
                            dead       == ~Anchored(resolved, a) \/ Unproven(a) \/ ~Has(a, "key")
                        IN /\ ~(hardcoded /\ unresolved)
                           /\ dead => ~hardcoded /\ ~unresolved
                           /\ (~dead /\ SpecOf(a).primitive \in {None, "AES"} /\ ~hardcoded
                                     /\ ~unresolved)
                                  => Arg(a, "key").terminal \in {"CONST", "ADDR"}
        BY DEF KeysAreAnswered
    <2>1. SiteInv(a) /\ a \notin queue /\ Searched
        BY DEF AnswersInv, Searched
    <2>2. KeyUnresolved(a) => Has(a, "key") /\ ~StaticOrigin(a, "key")
        BY DEF KeyUnresolved, HardcodedKey
    <2>3. ~Anchored(resolved, a) => ~KeyDiagnosed(a) /\ FactsAt(a) = {}
        BY <2>1 DEF SiteInv, KeyDiagnosed, Diagnostic
    <2> QED
        BY <2>1, <2>2, <2>3 DEF SiteInv, Answered, KeyHardcoded, KeyDiagnosed
<1> QED
    BY <1>1, AnswersCorrect, PTL

-----------------------------------------------------------------------------
(* Types.                                                                   *)

IndicatorsOK(inds) == \A i \in inds : i.addresses \subseteq 1..Sites /\ i.addresses # {}

LEMMA RepeatedAreSites == IndicatorsOK(RepeatedOperandIndicators)
<1>1. ASSUME NEW i \in RepeatedOperandIndicators
      PROVE  i.addresses \subseteq 1..Sites /\ i.addresses # {}
    <2>1. PICK a \in Repeatable :
              i = Indicator(Group(a)[1], "same operand",
                            {b \in Repeatable : Group(b) = Group(a)}, RepeatedOperand(a))
        BY <1>1 DEF RepeatedOperandIndicators
    <2>2. PICK B, p, o : /\ B = {b \in Repeatable : Group(b) = Group(a)}
                         /\ i = Indicator(p, "same operand", B, o)
        BY <2>1, Zenon
    <2>4. i.addresses = B
        BY <2>2 DEF Indicator
    <2>3. \A b \in Repeatable : b \in 1..Sites
        BY DEF Repeatable
    <2> QED
        BY <2>2, <2>3, <2>4
<1> QED
    BY <1>1 DEF IndicatorsOK

LEMMA NextTypes == TypeOK /\ FactsInv /\ [Next]_vars => TypeOK'
<1> SUFFICES ASSUME TypeOK, FactsInv, [Next]_vars PROVE TypeOK'
    OBVIOUS
<1>1. CASE RejectReference
    BY <1>1 DEF RejectReference, input, output, TypeOK, Anchored, NameIn
<1>2. CASE FindAnchors
    <2>1. /\ resolved' = Matches /\ queue' = {a \in 1..Sites : Anchored(Matches, a)}
          /\ UNCHANGED <<input, primitives, findings, diagnostics>> /\ phase' = "analyse"
        BY <1>2 DEF FindAnchors
    <2>2. DOMAIN Matches \subseteq Callees
        BY DEF Matches
    <2>3. \A a : Anchored(Matches, a) => Anchored(resolved, a)'
        BY <2>1 DEF Anchored, NameIn, input
    <2>4. IndicatorsOK(indicators')
        <3>1. \A p, a : Indicator(p, "unenforced", {a}, "return_value").addresses = {a}
            BY DEF Indicator
        <3>2. \A a \in Unenforced(Matches) : a \in 1..Sites
            BY DEF Unenforced
        <3>3. \A i \in indicators' : \E p : \E a \in Unenforced(Matches) :
                  i = Indicator(p, "unenforced", {a}, "return_value")
            BY <1>2 DEF FindAnchors
        <3> QED
            <4>1. ASSUME NEW i \in indicators'
                  PROVE  i.addresses \subseteq 1..Sites /\ i.addresses # {}
                <5>1. PICK p, a : a \in Unenforced(Matches) /\
                                  i = Indicator(p, "unenforced", {a}, "return_value")
                    BY <3>3
                <5>2. i.addresses = {a} /\ a \in 1..Sites
                    BY <3>1, <3>2, <5>1, Zenon
                <5> QED
                    BY <5>2
            <4> QED
                BY <4>1 DEF IndicatorsOK
    <2> QED
        BY <2>1, <2>2, <2>3, <2>4 DEF TypeOK, IndicatorsOK, input
<1>3. ASSUME NEW a \in 1..Sites, AnalyseAnchor(a) PROVE TypeOK'
    <2>1. CASE Undetermined(a)
        <3>1. PICK code : Diagnose(code, a)
            BY <2>1 DEF Undetermined
        <3>2. Diagnostic(code, a).address = a /\ a \in 0..Sites
            BY SitesAssumption DEF Diagnostic
        <3> QED
            BY <3>1, <3>2 DEF Diagnose, TypeOK, input, Anchored, NameIn
    <2>2. CASE Analysed(a)
        <3>1. PICK e, facts, inds :
                  /\ e.address = a /\ FactsOf(facts, e.primitive, a) /\ KeyAnswer(a, facts)
                  /\ \A i \in inds : i.addresses = {a}
                  /\ Emit(e, facts, inds)
            BY <2>2 DEF Analysed
        <3>2. /\ queue' = queue \ {a} /\ findings' = findings \cup facts
              /\ indicators' = indicators \cup inds /\ UNCHANGED <<input, phase, resolved>>
            BY <3>1 DEF Emit
        <3>3. \A f \in facts : f.address \in 1..Sites
            BY <3>1 DEF FactsOf
        <3>4. \A d \in diagnostics' : d.address \in 0..Sites
            <4>1. \A c : Diagnostic(c, a).address = a /\ a \in 0..Sites
                BY SitesAssumption DEF Diagnostic
            <4> QED
                BY <3>1, <4>1 DEF KeyAnswer, TypeOK
        <3>5. \A b : Anchored(resolved, b)' <=> Anchored(resolved, b)
            BY <3>2 DEF Anchored, NameIn, input
        <3>6. \A i \in indicators' : i.addresses \subseteq 1..Sites /\ i.addresses # {}
            BY <3>1, <3>2 DEF TypeOK
        <3> QED
            BY <3>2, <3>3, <3>4, <3>5, <3>6 DEF TypeOK, input
    <2> QED
        BY <1>3, <2>1, <2>2, AnchorStep
<1>4. CASE AnchorsDone
    BY <1>4 DEF AnchorsDone, input, output, TypeOK, Anchored, NameIn
<1>5. CASE Recognised \/ NotRecognised
    <2>1. PICK ps, ds : Report(ps, ds) /\ \A d \in ds : d.address = 0
        <3>1. \A code : Diagnostic(code, 0).address = 0
            BY DEF Diagnostic
        <3>2. CASE Recognised
            BY <3>2 DEF Recognised
        <3>3. CASE NotRecognised
            BY <3>1, <3>3 DEF NotRecognised
        <3> QED
            BY <1>5, <3>2, <3>3
    <2>2. findings' = findings
        BY <2>1, UniqueKeepsAll DEF Report, FactsInv
    <2>3. \A d \in diagnostics' : d.address \in 0..Sites
        BY <2>1, SitesAssumption DEF Report, TypeOK
    <2>4. \A i \in indicators' : i.addresses \subseteq 1..Sites /\ i.addresses # {}
        BY <2>1, RepeatedAreSites DEF Report, TypeOK, IndicatorsOK
    <2>5. UNCHANGED <<input, resolved, queue>> /\ phase' = "done"
        BY <2>1 DEF Report
    <2>6. \A b : Anchored(resolved, b)' <=> Anchored(resolved, b)
        BY <2>5 DEF Anchored, NameIn, input
    <2> QED
        BY <2>2, <2>3, <2>4, <2>5, <2>6 DEF TypeOK, input
<1>6. CASE Finished \/ UNCHANGED vars
    BY <1>6 DEF Finished, vars, input, output, TypeOK, Anchored, NameIn
<1> QED
    BY <1>1, <1>2, <1>3, <1>4, <1>5, <1>6 DEF Next

(* The queue holds anchors of this binary, and whatever is reported is      *)
(* about a site of it.                                                      *)
THEOREM TypeCorrect == Spec => []TypeOK
<1>1. Init => TypeOK
    BY DEF Init, TypeOK
<1> QED
    BY <1>1, NextTypes, FactsCorrect, PTL DEF Spec
=============================================================================
