---------------------------- MODULE ScanPipeline ----------------------------
(****************************************************************************)
(* scan_binary: the names of the functions of a binary are recovered by     *)
(* fingerprints, its calls of cryptographic functions (anchors) are looked  *)
(* up and analysed one by one by the rules, the recogniser adds what it     *)
(* learned to see, and the report is exported as a CBOM.                    *)
(*                                                                          *)
(* Where the bytes of an operand come from is BufferProvenance's and        *)
(* OperandTrace's matter: here an operand carries their answers.            *)
(****************************************************************************)
EXTENDS Naturals, FiniteSets

CONSTANTS
    Callees,      \* functions the binary calls or passes as selectors
    Symbol,       \* their symbols; a stripped one has none of the names below
    Callers,      \* functions the calls are in
    Sites,        \* number of call sites, in the order find_anchors meets them
    Calls,        \* what a call may be
    ScoreTables,  \* similarity of each callee with each name of a reference
    AesCiphers,   \* selectors that start with evp_aes_
    EcbCiphers,   \* names that contain _ecb
    Pqc,          \* what anchor_spec's patterns say of a post-quantum name
    Regions       \* evidence the recogniser may assert

None == "none"
OperandNames == {"cipher", "algorithm", "key", "iv", "randomness", "bits", "curve"}

(* What the tracer answers about an operand: an RNG or a weak source that   *)
(* reaches it, the terminal and origin of its trace, whether that origin    *)
(* looks static; how the varnode prints and whether it is the constant 0.   *)
Operand == [rng : STRING, weak : STRING, terminal : STRING, origin : STRING,
            static : BOOLEAN, print : STRING, zero : BOOLEAN]

ASSUME SitesAssumption == Sites \in Nat
ASSUME CallsAssumption ==
    \A c \in Calls :
        /\ c.caller \in Callers /\ c.callee \in Callees
        /\ c.selector \in Callees \cup {None}
        /\ c.inputs \in Nat /\ c.enforced \in BOOLEAN
        /\ c.arg \in [OperandNames -> Operand]
ASSUME ScoresAssumption ==
    \A t \in ScoreTables : \A f, g \in Callees :
        DOMAIN t[f] = DOMAIN t[g] /\ t[f] \in [DOMAIN t[f] -> 0..100]
ASSUME PqcAssumption ==
    \A n \in DOMAIN Pqc : Pqc[n].primitive \in {"ML-KEM", "ML-DSA", "SLH-DSA"}
ASSUME NamesAssumption ==
    /\ None \notin Callees
    /\ \A f \in Callees : Symbol[f] # None
    /\ None \notin DOMAIN Pqc
ASSUME RegionsAssumption ==
    \A e, d \in Regions :
        /\ e.primitive = d.primitive /\ e.address = d.address => e = d
        /\ e.variant = None

VARIABLES
    program,      \* the call at each site
    decompiled,   \* callers that are internal and decompile
    scores,       \* the similarities of a reference's names, or no names
    referenced,   \* a fingerprint reference was given
    phase,        \* "search", "analyse", "recognise", "done" or "raised"
    resolved,     \* names recovered by fingerprints
    queue,        \* anchors still to be analysed, lowest site first
    primitives, findings, indicators, diagnostics

vars == <<program, decompiled, scores, referenced, phase, resolved, queue,
          primitives, findings, indicators, diagnostics>>
input == <<program, decompiled, scores, referenced>>
output == <<primitives, findings, indicators, diagnostics>>

Catalog == UNION {DOMAIN scores[f] : f \in Callees}

Init ==
    /\ program \in [1..Sites -> Calls]
    /\ decompiled \in SUBSET Callers
    /\ scores \in ScoreTables
    /\ referenced \in BOOLEAN
    /\ ~referenced => Catalog = {}
    /\ phase = "search"
    /\ resolved = [f \in {} |-> None]
    /\ queue = {}
    /\ primitives = {} /\ findings = {} /\ indicators = {} /\ diagnostics = {}

-----------------------------------------------------------------------------
(* Fingerprints and anchors.                                                *)

(* A function proposes the name it resembles by 80% and by 5% more than any *)
(* other; a name that one function proposes is that function's.             *)
Proposes(f, n) ==
    /\ scores[f][n] >= 80
    /\ \A m \in Catalog \ {n} : scores[f][m] + 5 <= scores[f][n]
Matched(f, n) == \A g \in Callees : Proposes(g, n) <=> g = f
Matches ==
    [f \in {g \in Callees : \E n \in Catalog : Matched(g, n)} |->
        CHOOSE n \in Catalog : Matched(f, n)]

NameIn(names, f) ==
    IF f = None THEN None ELSE IF f \in DOMAIN names THEN names[f] ELSE Symbol[f]
Name(f) == NameIn(resolved, f)

CryptoInits == {"EVP_EncryptInit_ex", "EVP_DecryptInit_ex"}
DigestInits == {"EVP_DigestInit_ex", "EVP_DigestInit_ex2"}
ZeroIvHelpers == {"aes_cbc_encrypt_blocks", "aes_cbc_decrypt_blocks"}
LowLevelAes == {"AES_cbc_encrypt", "AES_ecb_encrypt"} \cup ZeroIvHelpers
VerifyFunctions ==
    {"EVP_DigestVerifyFinal", "EVP_PKEY_verify", "RSA_verify", "ECDSA_verify"}
Supported(n) ==
    n \in CryptoInits \cup DigestInits \cup LowLevelAes \cup DOMAIN Pqc \cup
          {"RSA_generate_key_ex", "EC_KEY_new_by_curve_name"}

AnchorSpec(n) ==
    CASE n \in CryptoInits -> [primitive |-> None, variant |-> None,
                               operands |-> [cipher |-> 2, key |-> 4, iv |-> 5]]
      [] n \in DigestInits -> [primitive |-> "DIGEST", variant |-> None,
                               operands |-> [algorithm |-> 2]]
      [] n = "RSA_generate_key_ex" -> [primitive |-> "RSA", variant |-> None,
                                       operands |-> [bits |-> 2]]
      [] n = "EC_KEY_new_by_curve_name" -> [primitive |-> "ECC", variant |-> None,
                                            operands |-> [curve |-> 1]]
      [] n = "AES_cbc_encrypt" -> [primitive |-> "AES", variant |-> "AES-CBC",
                                   operands |-> [key |-> 4, iv |-> 5]]
      [] n = "AES_ecb_encrypt" -> [primitive |-> "AES", variant |-> "AES-ECB",
                                   operands |-> [key |-> 3]]
      [] n \in ZeroIvHelpers -> [primitive |-> "AES", variant |-> "AES-CBC",
                                 operands |-> [key |-> 1]]
      [] OTHER -> [primitive |-> Pqc[n].primitive, variant |-> Pqc[n].variant,
                   operands |-> IF Pqc[n].primitive # "ML-KEM" THEN <<>>
                                ELSE IF Pqc[n].derand
                                THEN [key |-> 3, randomness |-> 4] ELSE [key |-> 3]]

Callee(a) == Name(program[a].callee)
SpecOf(a) == AnchorSpec(Callee(a))
Has(a, o) ==
    /\ o \in DOMAIN SpecOf(a).operands
    /\ program[a].inputs > SpecOf(a).operands[o]
Arg(a, o) == program[a].arg[o]
Method(a) ==
    IF program[a].callee \in DOMAIN resolved
    THEN "normalized_fingerprint_anchor" ELSE "resolved_api_anchor"

Anchored(names, a) ==
    /\ program[a].caller \in decompiled
    /\ Supported(NameIn(names, program[a].callee))

Indicator(p, pattern, a, o) ==
    [primitive |-> p, pattern |-> pattern, addresses |-> a, operand |-> o]
VerificationPrimitive(n) ==
    IF n = "RSA_verify" THEN "RSA" ELSE IF n = "ECDSA_verify" THEN "ECC" ELSE "SIGNATURE"
Unenforced(names) ==
    {a \in 1..Sites : /\ program[a].caller \in decompiled
                      /\ NameIn(names, program[a].callee) \in VerifyFunctions
                      /\ ~program[a].enforced}

RejectReference ==
    /\ phase = "search" /\ referenced /\ Catalog = {}
    /\ phase' = "raised"
    /\ UNCHANGED <<input, resolved, queue, output>>

FindAnchors_AnyCall ==
    /\ phase = "search" /\ (referenced => Catalog # {})
    /\ resolved' = Matches
    /\ queue' = 1..Sites
    /\ indicators' = {}
    /\ phase' = "analyse"
    /\ UNCHANGED <<input, primitives, findings, diagnostics>>
FindAnchors ==
    /\ phase = "search" /\ (referenced => Catalog # {})
    /\ resolved' = Matches
    /\ queue' = {a \in 1..Sites : Anchored(Matches, a)}
    /\ indicators' =
           {Indicator(VerificationPrimitive(NameIn(Matches, program[a].callee)),
                      "unenforced", {a}, "return_value") : a \in Unenforced(Matches)}
    /\ phase' = "analyse"
    /\ UNCHANGED <<input, primitives, findings, diagnostics>>

-----------------------------------------------------------------------------
(* The rules.  A call site determines function and callee, so an id is made *)
(* of the primitive, the type, the site, the origin and, for the rules that *)
(* put it in, the operand.                                                  *)

Fact(p, type, a, o, origin) ==
    [primitive |-> p, type |-> type, address |-> a, operand |-> o, origin |-> origin]
FindingId_NoOperand(f) == <<f.primitive, f.type, f.address, f.origin>>
FindingId(f) ==
    <<f.primitive, f.type, f.address,
      IF f.type \in {"operand_origin", "hardcoded_key"} THEN f.operand ELSE None, f.origin>>

OperandOrigin(p, a, o) ==
    {Fact(p, "operand_origin", a, o, r) : r \in {Arg(a, o).rng} \ {None}}
WeakRandomness(p, a, o) ==
    {Fact(p, "weak_randomness", a, o, w) : w \in {Arg(a, o).weak} \ {None}}
RngQuality(p, a, o) ==
    {Indicator(p, "rng", {a}, o) : r \in {Arg(a, o).rng} \ {None}}
StaticOrigin(a, o) == Arg(a, o).terminal = "CONST" /\ Arg(a, o).static
HardcodedKey(p, a) ==
    IF StaticOrigin(a, "key")
    THEN {Fact(p, "hardcoded_key", a, "key", Arg(a, "key").origin)} ELSE {}
StaticIv(p, a) ==
    IF StaticOrigin(a, "iv")
    THEN {Fact(p, "static_iv", a, "iv", Arg(a, "iv").origin)} ELSE {}
ImplicitZeroIv(p, a) ==
    IF Callee(a) \in ZeroIvHelpers
    THEN {Fact(p, "static_iv", a, "iv", "implicit all-zero IV")} ELSE {}
EcbMode(p, a, cipher) ==
    IF cipher \in EcbCiphers THEN {Fact(p, "ecb_mode", a, "cipher", cipher)} ELSE {}
KnownWeakAlgorithm(p, a, selector) ==
    IF p \in {"MD5", "SHA-1", "DES"}
    THEN {Fact(p, "known_weak_algorithm", a, "algorithm", selector)} ELSE {}
NumericParameter(p, type, a, o) ==
    IF Arg(a, o).terminal = "CONST" THEN {Fact(p, type, a, o, Arg(a, o).origin)} ELSE {}

DigestOf == [EVP_md5 |-> "MD5", EVP_sha1 |-> "SHA-1", EVP_sha224 |-> "SHA-224",
             EVP_sha256 |-> "SHA-256", EVP_sha384 |-> "SHA-384", EVP_sha512 |-> "SHA-512"]
CurveOf == [c415 |-> "P-256", c715 |-> "P-384", c716 |-> "P-521", c714 |-> "secp256k1"]
Curve(a) ==
    IF Arg(a, "curve").terminal = "CONST" /\ Arg(a, "curve").origin \in DOMAIN CurveOf
    THEN {Fact("ECC", "parameter_set", a, "curve", CurveOf[Arg(a, "curve").origin])} ELSE {}

Selector(a, o) == IF Has(a, o) THEN Name(program[a].selector) ELSE None

(* The mapping from (primitive, address) to evidence.                       *)
Put_ByAddress(ps, es) == {x \in ps : \A e \in es : x.address # e.address} \cup es
Put(ps, es) ==
    {x \in ps : \A e \in es : <<x.primitive, x.address>> # <<e.primitive, e.address>>}
        \cup es
Evidence(p, a, v) == [primitive |-> p, address |-> a, method |-> Method(a), variant |-> v]
Diagnostic(code, a) == [code |-> code, address |-> a]

-----------------------------------------------------------------------------
(* The loop over the anchors, one action per branch.                        *)

Turn(a) == phase = "analyse" /\ a \in queue /\ \A b \in queue : a <= b
Emit(e, facts, inds) ==
    /\ queue' = queue \ {e.address}
    /\ primitives' = Put(primitives, {e})
    /\ findings' = findings \cup facts
    /\ indicators' = indicators \cup inds
    /\ UNCHANGED <<input, phase, resolved>>
Diagnose(code, a) ==
    /\ queue' = queue \ {a}
    /\ diagnostics' = diagnostics \cup {Diagnostic(code, a)}
    /\ UNCHANGED <<input, phase, resolved, primitives, findings, indicators>>

AnalysePqc(a) ==
    LET p == SpecOf(a).primitive  v == SpecOf(a).variant IN
    /\ Turn(a) /\ p \in {"ML-KEM", "ML-DSA", "SLH-DSA"}
    /\ Emit(Evidence(p, a, v),
            {Fact(p, "parameter_set", a, "callee", v)} \cup
                (IF Has(a, "randomness")
                 THEN OperandOrigin(p, a, "randomness") \cup WeakRandomness(p, a, "randomness")
                 ELSE {}),
            IF Has(a, "randomness") THEN RngQuality(p, a, "randomness") ELSE {})
    /\ UNCHANGED diagnostics

AnalyseDigest(a) ==
    LET s == Selector(a, "algorithm") IN
    /\ Turn(a) /\ SpecOf(a).primitive = "DIGEST" /\ s \in DOMAIN DigestOf
    /\ Emit(Evidence(DigestOf[s], a, None), KnownWeakAlgorithm(DigestOf[s], a, s), {})
    /\ UNCHANGED diagnostics

UnresolvedDigest(a) ==
    /\ Turn(a) /\ SpecOf(a).primitive = "DIGEST"
    /\ Selector(a, "algorithm") \notin DOMAIN DigestOf
    /\ Diagnose("UNRESOLVED_DIGEST_PRIMITIVE", a)

AnalyseRsa(a) ==
    /\ Turn(a) /\ SpecOf(a).primitive = "RSA"
    /\ Emit(Evidence("RSA", a, None),
            IF Has(a, "bits") THEN NumericParameter("RSA", "key_size", a, "bits") ELSE {}, {})
    /\ UNCHANGED diagnostics

AnalyseEcc(a) ==
    /\ Turn(a) /\ SpecOf(a).primitive = "ECC"
    /\ Emit(Evidence("ECC", a, None), IF Has(a, "curve") THEN Curve(a) ELSE {}, {})
    /\ UNCHANGED diagnostics

(* The name that says which cipher a call runs: a selector, or the callee.  *)
CipherName(a) ==
    IF SpecOf(a).primitive = "AES" THEN Callee(a) ELSE Selector(a, "cipher")
ProvenAes(a) ==
    \/ SpecOf(a).primitive = "AES"
    \/ SpecOf(a).primitive = None /\ Selector(a, "cipher") \in AesCiphers

IvFacts(a) ==
    IF Has(a, "iv") THEN OperandOrigin("AES", a, "iv") \cup StaticIv("AES", a) ELSE {}
KeyFacts(a) ==
    IF Has(a, "key")
    THEN WeakRandomness("AES", a, "key") \cup OperandOrigin("AES", a, "key") \cup
         HardcodedKey("AES", a)
    ELSE {}
KeyUnresolved_UnlessRng(a) ==
    /\ Has(a, "key") /\ HardcodedKey("AES", a) = {} /\ Arg(a, "key").rng = None
    /\ Arg(a, "key").terminal \notin {"CONST", "ADDR"}
KeyUnresolved(a) ==
    /\ Has(a, "key") /\ HardcodedKey("AES", a) = {}
    /\ Arg(a, "key").terminal \notin {"CONST", "ADDR"}

UnresolvedCipher_FallsThrough(a) ==
    /\ Turn(a) /\ SpecOf(a).primitive = None /\ ~ProvenAes(a)
    /\ Emit(Evidence("AES", a, None), KeyFacts(a), {})
    /\ diagnostics' = diagnostics \cup {Diagnostic("UNRESOLVED_CIPHER_PRIMITIVE", a)}
UnresolvedCipher(a) ==
    /\ Turn(a) /\ SpecOf(a).primitive = None /\ ~ProvenAes(a)
    /\ Diagnose("UNRESOLVED_CIPHER_PRIMITIVE", a)

AnalyseCipher(a) ==
    /\ Turn(a) /\ ProvenAes(a)
    /\ Emit(Evidence("AES", a, SpecOf(a).variant),
            EcbMode("AES", a, CipherName(a)) \cup ImplicitZeroIv("AES", a) \cup
                IvFacts(a) \cup KeyFacts(a),
            UNION {IF Has(a, o) THEN RngQuality("AES", a, o) ELSE {} : o \in {"iv", "key"}})
    /\ diagnostics' = diagnostics \cup
           (IF KeyUnresolved(a) THEN {Diagnostic("UNRESOLVED_KEY_PROVENANCE", a)} ELSE {})

AnchorsDone ==
    /\ phase = "analyse" /\ queue = {}
    /\ phase' = "recognise"
    /\ UNCHANGED <<input, resolved, queue, output>>

-----------------------------------------------------------------------------
(* The recogniser, and the report.                                          *)

(* The anchors whose IV (key of an encapsulation) prints alike and is not   *)
(* the constant 0, one indicator for each function and operand.             *)
RepeatedOperand(a) ==
    IF SpecOf(a).primitive = "ML-KEM" /\ Has(a, "key") THEN "key"
    ELSE IF SpecOf(a).primitive \in {None, "AES"} /\ Has(a, "iv") THEN "iv" ELSE None
Group(a) ==
    <<IF SpecOf(a).primitive = None THEN "AES" ELSE SpecOf(a).primitive,
      program[a].caller, RepeatedOperand(a), Arg(a, RepeatedOperand(a)).print>>
Repeatable ==
    {a \in 1..Sites : /\ Anchored(resolved, a)
                      /\ RepeatedOperand(a) # None
                      /\ ~Arg(a, RepeatedOperand(a)).zero}
RepeatedOperandIndicators ==
    {Indicator(Group(a)[1], "same operand", {b \in Repeatable : Group(b) = Group(a)},
               RepeatedOperand(a)) :
        a \in {x \in Repeatable : \E b \in Repeatable \ {x} : Group(b) = Group(x)}}

Unique(fs) == {CHOOSE f \in fs : FindingId(f) = i : i \in {FindingId(f) : f \in fs}}

Report(ps, ds) ==
    /\ phase = "recognise" /\ phase' = "done"
    /\ primitives' = ps
    /\ diagnostics' = diagnostics \cup ds
    /\ findings' = Unique(findings)
    /\ indicators' = indicators \cup RepeatedOperandIndicators
    /\ UNCHANGED <<input, resolved, queue>>

(* recognize_binary returns evidence, which replaces what the mapping holds *)
(* for its primitive and address, ...                                       *)
Recognised == \E es \in SUBSET Regions : Report(Put(primitives, es), {})
(* ... or its models are missing, or its imports, or it raises.             *)
NotRecognised ==
    \E code \in {"RECOGNIZER_MODEL_UNAVAILABLE", "RECOGNIZER_DEPENDENCIES_UNAVAILABLE",
                 "RECOGNIZER_FAILED"} :
        Report(primitives, {Diagnostic(code, 0)})

(* The assets of the CBOM are the primitives; an asset lists the facts that *)
(* share its primitive and its address.                                     *)
AssetFacts(e) ==
    {f \in findings : f.primitive = e.primitive /\ f.address = e.address}

AnalyseAnchor(a) ==
    \/ AnalysePqc(a) \/ AnalyseDigest(a) \/ UnresolvedDigest(a) \/ AnalyseRsa(a)
    \/ AnalyseEcc(a) \/ UnresolvedCipher(a) \/ AnalyseCipher(a)
Finished == phase \in {"done", "raised"} /\ UNCHANGED vars
Next ==
    \/ RejectReference \/ FindAnchors
    \/ \E a \in 1..Sites : AnalyseAnchor(a)
    \/ AnchorsDone \/ Recognised \/ NotRecognised \/ Finished
Spec == Init /\ [][Next]_vars

-----------------------------------------------------------------------------
(* Types: the queue holds anchors, the report holds records about sites.    *)
TypeOK ==
    /\ program \in [1..Sites -> Calls] /\ decompiled \subseteq Callers
    /\ phase \in {"search", "analyse", "recognise", "done", "raised"}
    /\ DOMAIN resolved \subseteq Callees
    /\ \A a \in queue : a \in 1..Sites /\ Anchored(resolved, a)
    /\ \A f \in findings : f.address \in 1..Sites
    /\ \A d \in diagnostics : d.address \in 0..Sites
    /\ \A i \in indicators : i.addresses \subseteq 1..Sites /\ i.addresses # {}

(* The dictionary by id that builds verified_facts drops no fact: two facts *)
(* of one id are one fact, whichever rules and operands they come from (a   *)
(* key and an IV filled by the same RNG, say).                              *)
NoFactIsMerged ==
    \A f, g \in findings : FindingId(f) = FindingId(g) => f = g

(* A fact reaches the CBOM once: there is one asset that lists it, also     *)
(* after the recogniser put its evidence over that of the anchors.          *)
FactsReachOneAsset ==
    \A f \in findings :
        \E e \in primitives : {d \in primitives : f \in AssetFacts(d)} = {e}

(* A call of a supported function, by its symbol or its fingerprint, in a   *)
(* function that decompiles is answered by a primitive or by a diagnostic   *)
(* that its primitive is unknown, and then by no fact.  Nothing is said of  *)
(* any other call.                                                          *)
Unproven(a) ==
    \E d \in diagnostics :
        /\ d.address = a
        /\ d.code \in {"UNRESOLVED_DIGEST_PRIMITIVE", "UNRESOLVED_CIPHER_PRIMITIVE"}
FactsAt(a) == {f \in findings : f.address = a}
CallsAreAnswered ==
    phase = "done" =>
        \A a \in 1..Sites :
            /\ Anchored(resolved, a) => Unproven(a) \/ \E e \in primitives : e.address = a
            /\ (Unproven(a) \/ ~Anchored(resolved, a)) => FactsAt(a) = {}
            /\ Unproven(a) => Anchored(resolved, a)

(* A key of an AES call is reported as hardcoded or as of unresolved        *)
(* provenance and not as both, and as neither only when its trace ended in  *)
(* a literal that does not look static or in an address.                    *)
KeysAreAnswered ==
    phase = "done" =>
        \A a \in 1..Sites :
            LET hardcoded  == \E f \in FactsAt(a) : f.type = "hardcoded_key"
                unresolved == Diagnostic("UNRESOLVED_KEY_PROVENANCE", a) \in diagnostics
                dead       == ~Anchored(resolved, a) \/ Unproven(a) \/ ~Has(a, "key")
            IN /\ ~(hardcoded /\ unresolved)
               /\ dead => ~hardcoded /\ ~unresolved
               /\ (~dead /\ SpecOf(a).primitive \in {None, "AES"} /\ ~hardcoded /\ ~unresolved)
                      => Arg(a, "key").terminal \in {"CONST", "ADDR"}

(* taint/anchors.py, match_fingerprints: a match is returned only when both *)
(* sides are unambiguous, so no other function resembles the name as much.  *)
BothSidesUnambiguous ==
    \A f \in DOMAIN resolved : \A g \in Callees \ {f} :
        scores[g][resolved[f]] < scores[f][resolved[f]]
=============================================================================
