---------------------------- MODULE MCScanPipeline ----------------------------
(* An instance of ScanPipeline for TLC: two calls in two functions.         *)
EXTENDS ScanPipeline

MCSymbol ==
    [enc |-> "EVP_EncryptInit_ex", cbc |-> "EVP_aes_256_cbc", ecb |-> "EVP_aes_128_ecb",
     des |-> "EVP_des_cbc", dig |-> "EVP_DigestInit_ex", md5 |-> "EVP_md5",
     sha |-> "EVP_sha256", rsa |-> "RSA_generate_key_ex", ec |-> "EC_KEY_new_by_curve_name",
     lowcbc |-> "AES_cbc_encrypt", lowecb |-> "AES_ecb_encrypt",
     zero |-> "aes_cbc_encrypt_blocks", kem |-> "MLKEM512_encaps_derand",
     dsa |-> "mldsa65_sign", verify |-> "RSA_verify", x |-> "FUN_1", y |-> "FUN_2"]
MCCallees == DOMAIN MCSymbol
MCPqc ==
    [MLKEM512_encaps_derand |->
         [primitive |-> "ML-KEM", variant |-> "ML-KEM-512", derand |-> TRUE],
     mldsa65_sign |-> [primitive |-> "ML-DSA", variant |-> "ML-DSA-65", derand |-> FALSE]]

Plain == [rng |-> None, weak |-> None, terminal |-> "INPUT", origin |-> None,
          static |-> FALSE, print |-> "v1", zero |-> FALSE]
FromRng == [Plain EXCEPT !.rng = "RAND_bytes"]
FromTime == [Plain EXCEPT !.weak = "time", !.terminal = "ADDR"]
Constant(v) == [Plain EXCEPT !.terminal = "CONST", !.origin = v, !.static = TRUE]
Loose == [Plain EXCEPT !.terminal = "CONST", !.origin = "-0x10"]
Zero == [Plain EXCEPT !.terminal = "CONST", !.origin = "0x0", !.zero = TRUE]

Call(c, f, s, n, args) ==
    [caller |-> c, callee |-> f, selector |-> s, inputs |-> n, enforced |-> FALSE,
     arg |-> [o \in OperandNames |-> IF o \in DOMAIN args THEN args[o] ELSE Plain]]

MCCalls ==
    {Call("f1", "enc", "cbc", 6, [key |-> k, iv |-> FromRng]) :
        k \in {FromRng, FromTime, Constant("0x2010"), Loose}} \cup
    {Call("f1", "enc", "ecb", n, [key |-> Plain, iv |-> v]) :
        n \in {5, 6}, v \in {Constant("0x2010"), Zero}} \cup
    {Call("f2", "enc", "cbc", 3, <<>>)} \cup
    {Call("f2", f, s, 6, [key |-> Constant("0x2010")]) :
        f \in {"enc", "x"}, s \in {"y", None}} \cup
    {Call("f1", "dig", s, 4, <<>>) : s \in {"md5", "sha", "x"}} \cup
    {Call("f2", "rsa", None, n, [bits |-> Constant("2048")]) : n \in {2, 4}} \cup
    {Call("f2", "ec", None, 2, [curve |-> c]) : c \in {Constant("c415"), Plain}} \cup
    {Call("f1", f, None, 6, [key |-> Constant("0x2010"), iv |-> Constant("0x2020")]) :
        f \in {"lowcbc", "lowecb", "zero"}} \cup
    {Call("f1", "kem", None, n, [randomness |-> FromTime]) : n \in {4, 5}} \cup
    {Call("f1", f, None, 5, [randomness |-> FromRng]) : f \in {"kem", "dsa", "verify"}}

(* No reference, one without supported names, and references whose function *)
(* resembles one, two or, closely, both of the stripped ones.               *)
Table(x, y) ==
    [f \in MCCallees |-> CASE f = "x" -> x [] f = "y" -> y
                           [] OTHER -> [n \in DOMAIN x |-> IF MCSymbol[f] = n THEN 100 ELSE 0]]
Two(a, b) == [EVP_DecryptInit_ex |-> a, EVP_aes_192_cbc |-> b]
MCScoreTables ==
    {[f \in MCCallees |-> <<>>],
     Table(Two(100, 0), Two(0, 100)), Table(Two(87, 81), Two(94, 95)),
     Table(Two(100, 0), Two(82, 0)), Table(Two(80, 78), Two(0, 85))}

MCAesCiphers == {"EVP_aes_256_cbc", "EVP_aes_128_ecb", "EVP_aes_192_cbc"}
MCEcbCiphers == {"EVP_aes_128_ecb", "AES_ecb_encrypt"}
MCRegions ==
    {[primitive |-> p, address |-> 1, method |-> "symbol-name-head", variant |-> None] :
        p \in {"AES", "ML-KEM"}}
=============================================================================
