---------------------------- MODULE BufferProvenance ----------------------------
(****************************************************************************)
(* How taint/tracer.py decides where the bytes of a key buffer come from,   *)
(* and what the program under analysis really does to them.                 *)
(*                                                                          *)
(* A behaviour is a program being laid out: straight-line functions whose   *)
(* p-code operations are emitted in address order, executed as they are     *)
(* emitted, up to the anchor (the call that uses the key) in Main and       *)
(* beyond it.  The buffer is a stack local of Main, or a parameter of Main  *)
(* that each of its callers passes.  The analyser sees the operations and   *)
(* not the memory; its facts are compared with the memory at the anchor.    *)
(****************************************************************************)
EXTENDS Naturals, Sequences, FiniteSets

CONSTANTS
    Main,         \* the function with the anchor
    Callers,      \* the functions that call it
    RngSources,   \* RNG_SOURCES
    WeakSources,  \* WEAK_RANDOM_SOURCES
    Cells,        \* the bytes of the operand
    Checked,      \* its first 16 bytes, whatever its size (required_size, size)
    Ops,          \* the operations the program is made of
    MaxOps        \* bound on their number

Functions == Callers \cup {Main}
Contents == RngSources \cup WeakSources \cup {"const", "other"}
BufferCalls == RngSources \cup {"memcpy", "memmove", "memset"}

(* What the decompiler shows of an operation: its kind and callee, whether  *)
(* its destination is the operand's (STORE and CALL: input 1 shares a base  *)
(* with it; COPY: the stack span it writes meets the first 16 bytes, if the *)
(* stack offset of the operand is known), whether a further argument is,    *)
(* where the value it writes comes from and whether the size of a memset is *)
(* a constant of at least 16.  "writes" is what it does and only such a     *)
(* COPY shows: the cells it really overwrites.                              *)
Op == [kind   : {"COPY", "STORE", "CALL"},
       callee : BufferCalls \cup {"unknown"},
       first  : BOOLEAN,
       rest   : BOOLEAN,
       value  : Contents,
       covers : BOOLEAN,
       writes : SUBSET Cells]

ASSUME FunctionsAssumption == Main \notin Callers /\ IsFiniteSet(Callers)
ASSUME SourcesAssumption ==
    /\ RngSources \cap WeakSources = {}
    /\ (RngSources \cup WeakSources) \cap
           {"memcpy", "memmove", "memset", "unknown", "const", "other"} = {}
ASSUME CheckedAssumption == Checked \subseteq Cells
(* A COPY that shows its stack span writes it.                              *)
ASSUME OpsAssumption ==
    /\ Ops \subseteq Op
    /\ \A o \in Ops : o.kind = "COPY" /\ o.first => o.writes \cap Checked # {}
    /\ \A o \in Ops : o.callee \in RngSources => o.value = o.callee
    /\ MaxOps \in Nat

VARIABLES
    phase,   \* "callers", "callee": being laid out up to the call; "used"
    param,   \* the buffer is a parameter of Main
    lost,    \* callers that fail to decompile
    body,    \* the operations of each function
    call,    \* how many of them precede the call of Main, or the anchor
    memory   \* the buffer at the anchor, for each caller Main is entered from

vars == <<phase, param, lost, body, call, memory>>

Init ==
    /\ phase = "callers"
    /\ param \in BOOLEAN
    /\ lost \in SUBSET Callers
    /\ body = [f \in Functions |-> <<>>]
    /\ call = [f \in Functions |-> 0]
    /\ memory = [c \in Callers |-> [x \in Cells |-> "other"]]

-----------------------------------------------------------------------------
(* The program.                                                             *)

Room == Cardinality(UNION {{f} \X DOMAIN body[f] : f \in Functions}) < MaxOps

Write(cells, o) == [x \in Cells |-> IF x \in o.writes THEN o.value ELSE cells[x]]

(* An operation of a caller before its call of Main, ...                    *)
CallerOp(c, o) ==
    /\ phase = "callers"
    /\ param
    /\ Room
    /\ body' = [body EXCEPT ![c] = Append(@, o)]
    /\ memory' = [memory EXCEPT ![c] = Write(@, o)]
    /\ UNCHANGED <<phase, param, lost, call>>

EnterMain ==
    /\ phase = "callers"
    /\ phase' = "callee"
    /\ call' = [f \in Functions |-> Len(body[f])]
    /\ UNCHANGED <<param, lost, body, memory>>

(* ... of Main before the anchor, where a COPY reaches only its own stack, *)
MainOp(o) ==
    /\ phase = "callee"
    /\ o.kind = "COPY" => ~param
    /\ Room
    /\ body' = [body EXCEPT ![Main] = Append(@, o)]
    /\ memory' = [c \in Callers |-> Write(memory[c], o)]
    /\ UNCHANGED <<phase, param, lost, call>>

Anchor ==
    /\ phase = "callee"
    /\ phase' = "used"
    /\ call' = [call EXCEPT ![Main] = Len(body[Main])]
    /\ UNCHANGED <<param, lost, body, memory>>

(* ... and of any of them behind the call.                                  *)
LaterOp(f, o) ==
    /\ phase = "used"
    /\ Room
    /\ body' = [body EXCEPT ![f] = Append(@, o)]
    /\ UNCHANGED <<phase, param, lost, call, memory>>

Next ==
    \/ \E o \in Ops : \/ \E c \in Callers : CallerOp(c, o)
                      \/ MainOp(o)
                      \/ \E f \in Functions : LaterOp(f, o)
    \/ EnterMain
    \/ Anchor

Spec == Init /\ [][Next]_vars

-----------------------------------------------------------------------------
(* The analysis.  The mutants are the definition that follows them with one *)
(* plausible slip.                                                          *)

Before_IgnoresAddress(f) == DOMAIN body[f]
(* _before: the operations at lower addresses than the call.                *)
Before(f) == 1..call[f]

Latest(S) == CHOOSE i \in S : \A j \in S : j <= i

(* The calls and stores each finder matches.                                *)
CallsInto(f, callees) ==
    {i \in Before(f) : body[f][i].kind = "CALL" /\ body[f][i].callee \in callees
                       /\ body[f][i].first}
RngCalls(f) == CallsInto(f, RngSources)
Copies(f) == CallsInto(f, {"memcpy", "memmove"})
Fills_AnySize(f) ==
    {i \in CallsInto(f, {"memset"}) : body[f][i].value = "const"}
Fills(f) ==
    {i \in CallsInto(f, {"memset"}) : body[f][i].value = "const" /\ body[f][i].covers}
Stores(f) == {i \in Before(f) : body[f][i].kind = "STORE" /\ body[f][i].first}

Overwrites_CallsOnly(o) ==
    o.kind = "CALL" /\ (o.first \/ (o.rest /\ o.callee \in BufferCalls))
(* An operation _has_later_buffer_write takes for a write to the buffer: of *)
(* the COPYs, those that meet the first 16 bytes at a known offset.         *)
Overwrites(o) ==
    \/ o.kind \in {"COPY", "STORE"} /\ o.first
    \/ o.kind = "CALL" /\ (o.first \/ (o.rest /\ o.callee \in BufferCalls))

LaterWrite_NextOnly(f, i) == i + 1 \in Before(f) /\ Overwrites(body[f][i + 1])
LaterWrite(f, i) == \E j \in Before(f) : j > i /\ Overwrites(body[f][j])

(* The operation each finder reports as the buffer's source in a function:  *)
(* a set of at most one.                                                    *)
RngSource(f) ==
    {i \in RngCalls(f) : i = Latest(RngCalls(f)) /\ ~LaterWrite(f, i)}
WeakStores(f) == {i \in Stores(f) : i = Latest(Stores(f)) /\ body[f][i].value \in WeakSources}
WeakSource(f) == {i \in WeakStores(f) : ~LaterWrite(f, i)}
FillSource(f) ==
    {i \in Fills(f) : i = Latest(Fills(f)) /\ ~LaterWrite(f, i)}
(* The copies are tried from the last one on; one that was overwritten ends *)
(* the search, one whose source is no constant passes it on.                *)
CopySource(f) ==
    {i \in Copies(f) :
        /\ body[f][i].value = "const"
        /\ \A j \in Copies(f) :
              j >= i => ~LaterWrite(f, j) /\ (j > i => body[f][j].value # "const")}

(* _constant_stack_writes: those of the first 16 bytes whose last COPY, at a *)
(* known stack offset, is one of a constant.                                *)
StackCopies(f, x) ==
    {i \in Before(f) : body[f][i].kind = "COPY" /\ body[f][i].first /\ x \in body[f][i].writes}
StackConstants(f) ==
    {x \in Checked : \E i \in StackCopies(f, x) :
        body[f][i].value = "const" /\ \A j \in StackCopies(f, x) : j <= i}

Values(f, S) == {body[f][i].value : i \in S}

FromCallers_SkipsLost(found) ==
    {v \in Contents : /\ param
                      /\ Callers # lost
                      /\ \A c \in Callers \ lost : found[c] = {v}}
(* _buffer_source_from_callers: all the callers are there and agree.        *)
FromCallers(found) ==
    {v \in Contents : /\ param
                      /\ Callers # {} /\ lost = {}
                      /\ \A c \in Callers : found[c] = {v}}

(* The callers are asked when nothing matches in Main; weak_source also     *)
(* asks them when the last store is not of a weak value.                    *)
RngOrigins ==
    IF RngCalls(Main) # {} THEN Values(Main, RngSource(Main))
    ELSE FromCallers([c \in Callers |-> Values(c, RngSource(c))])
WeakOrigins ==
    IF WeakStores(Main) # {} THEN Values(Main, WeakSource(Main))
    ELSE FromCallers([c \in Callers |-> Values(c, WeakSource(c))])
ConstantKey ==
    \/ FillSource(Main) # {}
    \/ Fills(Main) = {} /\ ~param /\ StackConstants(Main) = Checked
    \/ CopySource(Main) # {}

(* The facts scan_binary emits about the key of the anchor.                 *)
Facts ==
    {<<"operand_origin", v>> : v \in RngOrigins}
    \cup {<<"weak_randomness", v>> : v \in WeakOrigins}
    \cup {<<"hardcoded_key", "const">> : k \in {k \in {TRUE} : ConstantKey}}

-----------------------------------------------------------------------------
TypeOK ==
    /\ phase \in {"callers", "callee", "used"}
    /\ param \in BOOLEAN
    /\ lost \subseteq Callers
    /\ body \in [Functions -> Seq(Ops)]
    /\ call \in [Functions -> Nat]
    /\ \A f \in Functions : call[f] <= Len(body[f])
    /\ memory \in [Callers -> [Cells -> Contents]]

(* Operations whose pointers resolve to what they really are, and, for the  *)
(* sizes the code does not look at, write the whole operand: where the      *)
(* analysis may hope to be right.                                           *)
Exact(o) ==
    /\ o.kind = "COPY" => (o.first <=> o.writes \cap Checked # {})
    /\ o.kind # "COPY" /\ o.writes # {} => o.first
    /\ o.kind = "CALL" /\ o.first /\ o.callee \in RngSources \cup {"memcpy", "memmove"} =>
           o.writes = Cells
    /\ o.kind = "CALL" /\ o.first /\ o.callee = "memset" /\ o.covers => Checked \subseteq o.writes
ExactProgram == \A f \in Functions : \A i \in DOMAIN body[f] : Exact(body[f][i])

(* Main asks its callers for the source and writes the buffer itself.       *)
WrittenBehindHop == \E i \in Before(Main) : body[Main][i].writes # {}

(* The stores named as weak sources write one of the first 16 bytes.        *)
StoresChecked == \A f \in Functions : \A i \in WeakSource(f) : body[f][i].writes \cap Checked # {}

(* No two finders name different last writers of the buffer in a function:  *)
(* each checks that nothing behind its match writes the buffer.             *)
OneLastWriter ==
    \A f \in Functions :
        LET named == RngSource(f) \cup WeakSource(f) \cup FillSource(f) \cup CopySource(f)
        IN  \A i, j \in named : i = j

(* A fact is about the key as it is used: what the program does behind the  *)
(* call, in Main or in a caller, changes none of them.                      *)
FutureBlind == [][phase = "used" => Facts' = Facts]_vars

(* When the fact says the key comes from an RNG, its first 16 bytes do, on  *)
(* every path into Main, if pointers are exact and Main does not itself     *)
(* write what its callers filled.  Of the bytes behind the 16th it says     *)
(* nothing: a stack write there is not seen.                                *)
RngFactIsTrue ==
    (phase = "used" /\ ExactProgram /\ (RngCalls(Main) # {} \/ ~WrittenBehindHop)) =>
        \A v \in RngOrigins, c \in Callers, x \in Checked : memory[c][x] = v

(* When it says the key is weakly random, some of its first 16 bytes are,   *)
(* on every path, if a store to one of them made it say so.                 *)
WeakFactIsTrue ==
    (phase = "used" /\ ExactProgram /\ StoresChecked
        /\ (WeakStores(Main) # {} \/ ~WrittenBehindHop)) =>
        \A v \in WeakOrigins, c \in Callers : \E x \in Checked : memory[c][x] = v

(* When a memset or a copy makes the key a constant, its first 16 bytes are *)
(* constant.  The rest of a longer key may be anything: a memset of 16      *)
(* bytes is enough, and a stack write behind them is not seen.              *)
ConstantFillIsTrue ==
    (phase = "used" /\ ExactProgram /\ FillSource(Main) \cup CopySource(Main) # {}) =>
        \A c \in Callers, x \in Checked : memory[c][x] = "const"

(* tests/test_scanner.py, test_later_constant_write_replaces_rng_provenance:*)
(* a key overwritten with constants has no operand_origin fact.             *)
ConstantReplacesRng ==
    (phase = "used" /\ ExactProgram /\ \A c \in Callers, x \in Cells : memory[c][x] = "const")
        => RngOrigins = {}

(* tests/test_scanner.py, test_runtime_generated_key_and_iv_emit_no_static_ *)
(* facts: a key filled by an RNG has no hardcoded_key fact.                 *)
RuntimeKeyIsNotStatic ==
    (phase = "used" /\ ExactProgram
        /\ \A c \in Callers, x \in Cells : memory[c][x] \in RngSources) => ~ConstantKey
=============================================================================
